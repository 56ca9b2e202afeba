-------------------------- MODULE MCClientControl --------------------------
(* Small instances of ClientControl: two machines behind one address, of   *)
(* different generations and with different app lists.                     *)
EXTENDS ClientControl

Title(w, up) == [word |-> w, upper |-> up]
App(i, w)    == [id |-> i, title |-> Title(w, FALSE)]

MCWords     == {"Doom", "Quake", "2"}
MCLeading   == [w \in MCWords |-> IF w = "2" THEN 2 ELSE 0]
MCAllDigits == {"2"}

\* An entry without an ID comes first on "a"; ids differ from machine to machine.
MCApps == [m \in {"a", "b"} |->
              IF m = "a" THEN <<App(0, "Quake"), App(1, "Doom")>> ELSE <<App(1, "Quake")>>]

MCRefs      == {Title("Doom", TRUE), Title("Quake", FALSE), Title("2", FALSE)}

WithField(f, h) ==
    [kind |-> "object", displayMode |-> "fullscreen",
     num |-> [[g \in Fields |-> 2 * Defaults.num[g]] EXCEPT ![f] = h]]
MCSettings ==
    {[WithField("fps", 120) EXCEPT !.kind = k] : k \in {"null", "other"}}
        \cup {WithField("fps", h) : h \in {19, 481, 482}}
        \cup {WithField("width", h) : h \in {511, 1300000}}
        \cup {[WithField("fps", 120) EXCEPT !.displayMode = "other"]}
=============================================================================
