----------------------------- MODULE MCHostApps -----------------------------
(* A small instance of HostApps: libraries of up to two games whose titles *)
(* need escaping, and short texts of every kind.                           *)
EXTENDS HostApps

Game(name, cmd, w) == [name |-> name, cmd |-> cmd, waitAll |-> w]
MCLibraries ==
    {<<>>,
     <<Game(<<"x">>, <<"uri">>, TRUE)>>,
     <<Game(<<"x">>, <<>>, FALSE), Game(<<>>, <<"x">>, TRUE), Game(<<B>>, <<"x">>, TRUE)>>,
     <<Game(<<Q, "control">>, <<>>, TRUE), Game(<<"newline", "astral">>, <<B, "n">>, FALSE)>>,
     <<Game(<<"x">>, <<>>, TRUE), Game(<<"x">>, <<>>, FALSE)>>}

MCChars ==
    {Q, B, "n", "u", "x", "uri", "newline", "control", "astral", "hex control", "hex x", "hex hi",
     "hex lo", "apps", "cmd", "env", "name", "open", "wait-all"}

MCStrays == {Token(t) : t \in {",", "}", "null"}}

MCTokens ==
    {Token(t) : t \in {"{", "}", "[", "]", ",", ":", "null", "bad", "lax number"}}
        \cup {StrToken(<<"x", Q>>)}

\* Strings that are cut off, and those of up to three parts
Symbols == {Q, B, "u", "n", "x", "hex x", "hex hi", "hex lo", "newline"}
Parts ==
    {<<c>> : c \in {Q, B, "x", "newline", "control", "hex x"}}
        \cup {<<B, c>> : c \in {Q, B, "n", "u"}}
        \cup {<<B, "u", h>> : h \in {"hex control", "hex x", "hex hi", "hex lo"}}

MCScribbles ==
    UNION {[1 .. n -> MCTokens] : n \in 1 .. 4}
        \cup {<<StrToken(s)>> : s \in UNION {[1 .. n -> Symbols] : n \in 0 .. 3}}
        \cup {<<StrToken(FlattenSeq(parts) \o <<Q>>)>> : parts \in UNION {[1 .. n -> Parts] : n \in 1 .. 3}}
=============================================================================
