-------------------------------- MODULE Json --------------------------------
(***************************************************************************)
(* The engine's JSON reader and writer, src/src/ipc/json.cpp, and beside   *)
(* it what the texts mean, as a reference.                                 *)
(*                                                                         *)
(* A text is a sequence of tokens; white space is left out.  A string      *)
(* token holds the characters after its opening quote.  Four hex digits    *)
(* count as one character, named after what they stand for.                *)
(***************************************************************************)
EXTENDS Naturals, SequencesExt

CONSTANT Chars      \* the characters of a text

Q == "quote"
B == "backslash"

\* Those that the writer puts in
ASSUME CharsAssumption == {Q, B, "n", "u", "hex control"} \subseteq Chars

Token(t)    == [t |-> t, s |-> <<>>]
StrToken(s) == [t |-> "str", s |-> s]

\* A lax number is one that strtod takes whole and JSON forbids: 01, 1., -.5
Literals    == {"true", "false", "null", "number", "lax number"}
Marks       == {"{", "}", "[", "]", ",", ":", "str", "bad"} \cup Literals
Tokens      == [t : Marks, s : Seq(Chars)]

Lit(l)   == [type |-> IF l = "lax number" THEN "number" ELSE l]
Str(s)   == [type |-> "str", str |-> s]
Arr(es)  == [type |-> "arr", arr |-> es]
Obj(map) == [type |-> "obj", obj |-> map]

\* Maps: one member, and those of later over those of first
One(key, v)        == [k \in {key} |-> v]
Over(later, first) ==
    [k \in DOMAIN later \cup DOMAIN first |-> IF k \in DOMAIN later THEN later[k] ELSE first[k]]

-----------------------------------------------------------------------------
(* dump                                                                    *)

EscapeChar(c) ==
    CASE c = Q         -> <<B, Q>>
      [] c = B         -> <<B, B>>
      [] c = "newline" -> <<B, "n">>
      [] c = "control" -> <<B, "u", "hex control">>
      [] OTHER         -> <<c>>

\* escape_to, with the closing quote
EscapeTo(s) == FlattenSeq([i \in 1 .. Len(s) |-> EscapeChar(s[i])]) \o <<Q>>

Joined(texts) ==
    FlattenSeq([i \in 1 .. Len(texts) |-> IF i = 1 THEN texts[i] ELSE <<Token(",")>> \o texts[i]])

\* dump_to, for each type of value; the texts are those of the children.
DumpStr(s)        == <<StrToken(EscapeTo(s))>>
DumpArr(texts)    == <<Token("[")>> \o Joined(texts) \o <<Token("]")>>
Member(key, text) == <<StrToken(EscapeTo(key)), Token(":")>> \o text
DumpObj(members)  == <<Token("{")>> \o Joined(members) \o <<Token("}")>>

-----------------------------------------------------------------------------
(* parse: what a function of the parser makes of the text from a place on  *)
(* is the set of its result, empty if ok is false.                         *)

Simple == [e \in {Q, B, "n"} |-> IF e = "n" THEN "newline" ELSE e]

\* The escapes of str(), after "\u"
HexChar == [h \in {"hex control", "hex x", "hex lo"} |->
                IF h = "hex control" THEN "control" ELSE IF h = "hex x" THEN "x" ELSE "lone"]

Pair == <<B, "u", "hex hi", B, "u", "hex lo">>

Char(c, n) == [char |-> c, len |-> n]

\* What str() reads at its i-th character, and how long that is in the text
NextChar(s, i) ==
    IF s[i] # B THEN {Char(s[i], 1)}
    ELSE IF i + 5 <= Len(s) /\ SubSeq(s, i, i + 5) = Pair THEN {Char("astral", 6)}
    ELSE IF i + 2 <= Len(s) /\ s[i + 1] = "u" /\ s[i + 2] \in DOMAIN HexChar
         THEN {Char(HexChar[s[i + 2]], 3)}
    ELSE IF i + 1 <= Len(s) /\ s[i + 1] \in DOMAIN Simple THEN {Char(Simple[s[i + 1]], 2)}
    ELSE {}

\* Parser::str; the token must end with it.
StrOf(s) ==
    LET from[i \in 1 .. Len(s) + 1] ==
            IF i > Len(s) THEN {}
            ELSE IF s[i] = Q THEN IF i = Len(s) THEN {<<>>} ELSE {}
            ELSE UNION {{<<c.char>> \o rest : rest \in from[i + c.len]} : c \in NextChar(s, i)}
    IN  from[1]

Is(t, i, tok) == i <= Len(t) /\ t[i].t = tok
To(v, i)      == [v |-> v, i |-> i]     \* a result, and the place after it

\* Parser::value; at has the results of the parser's functions further on.
Value(t, i, at) ==
    IF i > Len(t) THEN {}
    ELSE IF t[i].t = "{"
         THEN IF Is(t, i + 1, "}") THEN {To(Obj(<<>>), i + 2)}
              ELSE {To(Obj(r.v), r.i) : r \in at[<<"object", i + 1>>]}
    ELSE IF t[i].t = "["
         THEN IF Is(t, i + 1, "]") THEN {To(Arr(<<>>), i + 2)}
              ELSE {To(Arr(r.v), r.i) : r \in at[<<"array", i + 1>>]}
    ELSE IF t[i].t = "str" THEN {To(Str(s), i + 1) : s \in StrOf(t[i].s)}
    ELSE IF t[i].t \in Literals THEN {To(Lit(t[i].t), i + 1)}
    ELSE {}

\* Parser::object, from a key on; the last of several equal keys counts.
Object(t, i, at) ==
    IF Is(t, i, "str") /\ Is(t, i + 1, ":")
    THEN UNION {IF Is(t, child.i, ",")
                THEN {To(Over(rest.v, One(key, child.v)), rest.i) :
                          rest \in at[<<"object", child.i + 1>>]}
                ELSE IF Is(t, child.i, "}") THEN {To(One(key, child.v), child.i + 1)}
                ELSE {} : key \in StrOf(t[i].s), child \in at[<<"value", i + 2>>]}
    ELSE {}

\* Mutated form of Array: a comma before the bracket is let pass.
ArrayLax(t, i, at) ==
    UNION {IF Is(t, child.i, ",") /\ Is(t, child.i + 1, "]") THEN {To(<<child.v>>, child.i + 2)}
           ELSE IF Is(t, child.i, ",")
           THEN {To(<<child.v>> \o rest.v, rest.i) : rest \in at[<<"array", child.i + 1>>]}
           ELSE IF Is(t, child.i, "]") THEN {To(<<child.v>>, child.i + 1)}
           ELSE {} : child \in at[<<"value", i>>]}

\* Parser::array, from an element on
Array(t, i, at) ==
    UNION {IF Is(t, child.i, ",")
           THEN {To(<<child.v>> \o rest.v, rest.i) : rest \in at[<<"array", child.i + 1>>]}
           ELSE IF Is(t, child.i, "]") THEN {To(<<child.v>>, child.i + 1)}
           ELSE {} : child \in at[<<"value", i>>]}

\* What each of the three makes of the text from each place on
Parser(t) ==
    LET at[k \in {"value", "object", "array"} \X (1 .. Len(t) + 1)] ==
            IF k[1] = "value" THEN Value(t, k[2], at)
            ELSE IF k[1] = "object" THEN Object(t, k[2], at)
            ELSE Array(t, k[2], at)
    IN  at

\* parse: the value, and nothing after it
Parse(t) == {r.v : r \in {r \in Parser(t)[<<"value", 1>>] : r.i = Len(t) + 1}}

\* Value::get_str and friends: a member of the right type, or the default
Get(v, key, types, default) ==
    IF v.type = "obj" /\ key \in DOMAIN v.obj /\ v.obj[key].type \in types
    THEN v.obj[key] ELSE default

-----------------------------------------------------------------------------
(* Reference: what a text means, by its form alone, in a grammar           *)

PairedEscapes ==
    {<<<<B, Q>>, Q>>, <<<<B, B>>, B>>, <<<<B, "n">>, "newline">>,
     <<<<B, "u", "hex control">>, "control">>, <<<<B, "u", "hex x">>, "x">>,
     <<<<B, "u", "hex hi", B, "u", "hex lo">>, "astral">>}

\* JSON of whole characters (RFC 8259): in a string no control character is
\* raw, and half a surrogate pair stands for nothing.
JSON ==
    [barred |-> {Q, B, "newline", "control"}, escapes |-> PairedEscapes,
     literals |-> Literals \ {"lax number"}]

\* The texts that the engine reads: control characters may be raw (json.cpp:166),
\* a low surrogate may come alone (json.cpp:150-160), and a number is what strtod
\* makes of it (json.cpp:184).
Lenient ==
    [barred |-> {Q, B}, escapes |-> PairedEscapes \cup {<<<<B, "u", "hex lo">>, "lone">>},
     literals |-> Literals]

\* The characters that a part of s from its i-th on may stand for
Stands(s, i, g) ==
    {Char(c, 1) : c \in {s[i]} \ g.barred}
        \cup {Char(e[2], Len(e[1])) :
                  e \in {e \in g.escapes : IsPrefix(e[1], SubSeq(s, i, Len(s)))}}

\* The strings that a token stands for: such parts, and a quote at the end
Spells(s, g) ==
    LET from[i \in 1 .. Len(s) + 1] ==
            (IF i = Len(s) /\ s[i] = Q THEN {<<>>} ELSE {})
            \cup UNION {{<<c.char>> \o rest : rest \in from[i + c.len]} :
                            c \in IF i <= Len(s) THEN Stands(s, i, g) ELSE {}}
    IN  from[1]

\* What the tokens from the a-th to the b-th mean as a value, as the inside of
\* an array and as the inside of an object; of has the meaning of their parts.
AsValue(t, a, b, of, g) ==
    LET within(l, r) == a < b /\ t[a].t = l /\ t[b].t = r
    IN  IF a = b /\ t[a].t \in g.literals THEN {Lit(t[a].t)}
        ELSE IF a = b /\ t[a].t = "str" THEN {Str(s) : s \in Spells(t[a].s, g)}
        ELSE IF within("[", "]")
             THEN IF b = a + 1 THEN {Arr(<<>>)} ELSE {Arr(es) : es \in of[<<"list", a + 1, b - 1>>]}
        ELSE IF within("{", "}")
             THEN IF b = a + 1 THEN {Obj(<<>>)} ELSE {Obj(m) : m \in of[<<"map", a + 1, b - 1>>]}
        ELSE {}

Commas(t, a, b) == {c \in a + 1 .. b - 1 : t[c].t = ","}

AsList(t, a, b, of) ==
    {<<v>> : v \in of[<<"value", a, b>>]} \cup
        UNION {{<<v>> \o es : v \in of[<<"value", a, c - 1>>], es \in of[<<"list", c + 1, b>>]} :
                   c \in Commas(t, a, b)}

AsMember(t, a, b, of, g) ==
    IF a + 2 <= b /\ t[a].t = "str" /\ t[a + 1].t = ":"
    THEN {One(key, v) : key \in Spells(t[a].s, g), v \in of[<<"value", a + 2, b>>]}
    ELSE {}

AsMap(t, a, b, of, g) ==
    AsMember(t, a, b, of, g) \cup
        UNION {{Over(later, first) : first \in AsMember(t, a, c - 1, of, g),
                                     later \in of[<<"map", c + 1, b>>]} : c \in Commas(t, a, b)}

Meaning(t, g) ==
    LET of[k \in {"value", "list", "map"} \X (1 .. Len(t) + 1) \X (0 .. Len(t))] ==
            IF k[1] = "value" THEN AsValue(t, k[2], k[3], of, g)
            ELSE IF k[1] = "list" THEN AsList(t, k[2], k[3], of)
            ELSE AsMap(t, k[2], k[3], of, g)
    IN  of

Means(t, g) == Meaning(t, g)[<<"value", 1, Len(t)>>]
=============================================================================
