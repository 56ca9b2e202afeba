--------------------------- MODULE HostAppsProofs ---------------------------
(***************************************************************************)
(* Proofs about Json and HostApps, for texts, libraries and strings of any *)
(* length: the reader gives what the grammar says, what the writer wrote   *)
(* comes back and no part of it passes for a text, and the handlers keep   *)
(* the catalog whole or empty.                                             *)
(***************************************************************************)
EXTENDS HostApps, SequenceLemmas, FiniteSetTheorems

-----------------------------------------------------------------------------
(* The parser's table                                                      *)

Kinds     == {"value", "object", "array"}
Places(t) == Kinds \X (1 .. Len(t) + 1)

Rule(t, k, at) ==
    IF k[1] = "value" THEN Value(t, k[2], at)
    ELSE IF k[1] = "object" THEN Object(t, k[2], at)
    ELSE Array(t, k[2], at)

\* How much text is left; object() and array() call value() on the same text.
Rank(t, k) == 2 * (Len(t) + 1 - k[2]) + (IF k[1] = "value" THEN 0 ELSE 1)

\* A result with its place is a pair of a value and a place.
LEMMA ToFields ==
    ASSUME NEW x, NEW v, NEW i, x = To(v, i)
    PROVE  x.v = v /\ x.i = i
BY DEF To

\* The places of a text.
LEMMA PlaceIs ==
    ASSUME NEW t, NEW i \in 1 .. Len(t) + 1
    PROVE  /\ <<"value", i>> \in Places(t) /\ <<"object", i>> \in Places(t)
           /\ <<"array", i>> \in Places(t)
BY DEF Places, Kinds

\* The rank of a place.
LEMMA RankIs ==
    ASSUME NEW t, NEW i
    PROVE  /\ Rank(t, <<"value", i>>) = 2 * (Len(t) + 1 - i) + 0
           /\ Rank(t, <<"object", i>>) = 2 * (Len(t) + 1 - i) + 1
           /\ Rank(t, <<"array", i>>) = 2 * (Len(t) + 1 - i) + 1
BY DEF Rank

\* There is a token where the parser sees one.
LEMMA IsThere ==
    ASSUME NEW t, NEW i, NEW tok, Is(t, i, tok)
    PROVE  i <= Len(t) /\ t[i].t = tok
BY Zenon DEF Is

\* What value(), object() and array() may return, as a disjunction of cases.
ValueMade(t, i, at, x) ==
    /\ i <= Len(t)
    /\ \/ t[i].t = "{" /\ Is(t, i + 1, "}") /\ x = To(Obj(<<>>), i + 2)
       \/ /\ t[i].t = "{" /\ ~Is(t, i + 1, "}")
          /\ \E r \in at[<<"object", i + 1>>] : x = To(Obj(r.v), r.i)
       \/ t[i].t = "[" /\ Is(t, i + 1, "]") /\ x = To(Arr(<<>>), i + 2)
       \/ /\ t[i].t = "[" /\ ~Is(t, i + 1, "]")
          /\ \E r \in at[<<"array", i + 1>>] : x = To(Arr(r.v), r.i)
       \/ t[i].t = "str" /\ \E s \in StrOf(t[i].s) : x = To(Str(s), i + 1)
       \/ t[i].t \in Literals /\ x = To(Lit(t[i].t), i + 1)

ObjectEnds(t, i, at, key, child, x) ==
    \/ /\ Is(t, child.i, ",")
       /\ \E rest \in at[<<"object", child.i + 1>>] :
             x = To(Over(rest.v, One(key, child.v)), rest.i)
    \/ /\ ~Is(t, child.i, ",") /\ Is(t, child.i, "}")
       /\ x = To(One(key, child.v), child.i + 1)

ObjectMade(t, i, at, x) ==
    /\ Is(t, i, "str") /\ Is(t, i + 1, ":")
    /\ \E key \in StrOf(t[i].s), child \in at[<<"value", i + 2>>] :
          ObjectEnds(t, i, at, key, child, x)

ArrayEnds(t, i, at, child, x) ==
    \/ /\ Is(t, child.i, ",")
       /\ \E rest \in at[<<"array", child.i + 1>>] : x = To(<<child.v>> \o rest.v, rest.i)
    \/ /\ ~Is(t, child.i, ",") /\ Is(t, child.i, "]")
       /\ x = To(<<child.v>>, child.i + 1)

ArrayMade(t, i, at, x) ==
    \E child \in at[<<"value", i>>] : ArrayEnds(t, i, at, child, x)

\* value() returns what ValueMade says.
LEMMA ValueHas ==
    ASSUME NEW t \in Seq(Tokens), NEW i \in Nat, NEW at, NEW x
    PROVE  x \in Value(t, i, at) <=> ValueMade(t, i, at, x)
<1>1. "{" # "[" /\ "{" # "str" /\ "[" # "str"
  OBVIOUS
<1>2. "{" \notin Literals /\ "[" \notin Literals /\ "str" \notin Literals
  BY DEF Literals
<1>3. i > Len(t) <=> ~(i <= Len(t))
  OBVIOUS
<1> QED
  BY <1>1, <1>2, <1>3, Zenon DEF Value, ValueMade

\* object() returns what ObjectMade says.
LEMMA ObjectHas ==
    ASSUME NEW t, NEW i, NEW at, NEW x
    PROVE  x \in Object(t, i, at) <=> ObjectMade(t, i, at, x)
<1> DEFINE After(key, child) ==
               IF Is(t, child.i, ",")
               THEN {To(Over(rest.v, One(key, child.v)), rest.i) :
                         rest \in at[<<"object", child.i + 1>>]}
               ELSE IF Is(t, child.i, "}") THEN {To(One(key, child.v), child.i + 1)}
               ELSE {}
<1>1. ASSUME NEW key, NEW child
      PROVE  x \in After(key, child) <=> ObjectEnds(t, i, at, key, child, x)
  BY Zenon DEF ObjectEnds
<1>2. Object(t, i, at) =
          IF Is(t, i, "str") /\ Is(t, i + 1, ":")
          THEN UNION {After(key, child) : key \in StrOf(t[i].s), child \in at[<<"value", i + 2>>]}
          ELSE {}
  BY DEF Object
<1> HIDE DEF After
<1>3. x \in Object(t, i, at) <=>
          /\ Is(t, i, "str") /\ Is(t, i + 1, ":")
          /\ \E key \in StrOf(t[i].s), child \in at[<<"value", i + 2>>] : x \in After(key, child)
  BY <1>2
<1> QED
  BY <1>1, <1>3, Zenon DEF ObjectMade

\* array() returns what ArrayMade says.
LEMMA ArrayHas ==
    ASSUME NEW t, NEW i, NEW at, NEW x
    PROVE  x \in Array(t, i, at) <=> ArrayMade(t, i, at, x)
<1> DEFINE After(child) ==
               IF Is(t, child.i, ",")
               THEN {To(<<child.v>> \o rest.v, rest.i) : rest \in at[<<"array", child.i + 1>>]}
               ELSE IF Is(t, child.i, "]") THEN {To(<<child.v>>, child.i + 1)}
               ELSE {}
<1>1. ASSUME NEW child PROVE x \in After(child) <=> ArrayEnds(t, i, at, child, x)
  BY Zenon DEF ArrayEnds
<1>2. Array(t, i, at) = UNION {After(child) : child \in at[<<"value", i>>]}
  BY Zenon DEF Array
<1> HIDE DEF After
<1>3. x \in Array(t, i, at) <=> \E child \in at[<<"value", i>>] : x \in After(child)
  BY <1>2
<1> QED
  BY <1>1, <1>3, Zenon DEF ArrayMade

\* A table whose results end behind the place they start at.
Sane(t, f) ==
    /\ f = [k \in Places(t) |-> f[k]]
    /\ \A k \in Places(t) : \A x \in f[k] : x.i \in Nat /\ x.i > k[2]

\* Single call moves on.
LEMMA RuleSane ==
    ASSUME NEW t \in Seq(Tokens), NEW f, Sane(t, f), NEW k \in Places(t), NEW x \in Rule(t, k, f)
    PROVE  x.i \in Nat /\ x.i > k[2]
<1>1. PICK i \in 1 .. Len(t) + 1 : k = <<k[1], i>> /\ k[2] = i
  BY DEF Places
<1>2. Len(t) \in Nat /\ i \in Nat
  OBVIOUS
<1>3. ASSUME NEW kind \in Kinds, NEW j \in 1 .. Len(t) + 1, NEW r \in f[<<kind, j>>]
      PROVE  r.i \in Nat /\ r.i > j
  <2>1. <<kind, j>> \in Places(t) /\ <<kind, j>>[2] = j
    BY DEF Places
  <2> QED
    BY <2>1, Zenon DEF Sane
<1>4. "value" \in Kinds /\ "object" \in Kinds /\ "array" \in Kinds
  BY DEF Kinds
<1>5. CASE k[1] = "value"
  <2>1. x \in Value(t, i, f)
    BY <1>1, <1>5, Zenon DEF Rule
  <2>2. ValueMade(t, i, f, x)
    BY <1>2, <2>1, ValueHas, Zenon
  <2>3. i <= Len(t)
    BY <2>2, Zenon DEF ValueMade
  <2>4. i + 1 \in 1 .. Len(t) + 1 /\ i + 2 \in Nat /\ i + 1 \in Nat
    BY <1>2, <2>3
  <2>5. \/ x.i = i + 1 \/ x.i = i + 2
        \/ \E r \in f[<<"object", i + 1>>] : x.i = r.i
        \/ \E r \in f[<<"array", i + 1>>] : x.i = r.i
    BY <2>2, ToFields, Zenon DEF ValueMade
  <2>6. x.i = i + 1 \/ x.i = i + 2 \/ (x.i \in Nat /\ x.i > i + 1)
    BY <1>3, <1>4, <2>4, <2>5, Zenon
  <2> QED
    BY <1>1, <1>2, <2>6
<1>6. CASE k[1] = "object"
  <2>1. x \in Object(t, i, f)
    <3>1. k[1] # "value"
      BY <1>6
    <3> QED
      BY <1>1, <1>6, <3>1, Zenon DEF Rule
  <2>2. ObjectMade(t, i, f, x)
    BY <2>1, ObjectHas, Zenon
  <2>3. PICK key \in StrOf(t[i].s), child \in f[<<"value", i + 2>>] :
              ObjectEnds(t, i, f, key, child, x)
    BY <2>2, Zenon DEF ObjectMade
  <2>4. i + 2 \in 1 .. Len(t) + 1
    <3>1. i + 1 <= Len(t)
      BY <2>2, IsThere, Zenon DEF ObjectMade
    <3> QED
      BY <1>2, <3>1
  <2>5. child.i \in Nat /\ child.i > i + 2
    BY <1>3, <1>4, <2>4, Zenon
  <2>6. \/ Is(t, child.i, ",") /\ \E rest \in f[<<"object", child.i + 1>>] : x.i = rest.i
        \/ x.i = child.i + 1
    BY <2>3, ToFields, Zenon DEF ObjectEnds
  <2>7. CASE Is(t, child.i, ",") /\ \E rest \in f[<<"object", child.i + 1>>] : x.i = rest.i
    <3>1. child.i <= Len(t)
      BY <2>7, IsThere, Zenon
    <3>2. child.i + 1 \in 1 .. Len(t) + 1
      BY <1>2, <2>5, <3>1
    <3>3. x.i \in Nat /\ x.i > child.i + 1
      BY <1>3, <1>4, <2>7, <3>2, Zenon
    <3> QED
      BY <1>1, <1>2, <2>5, <3>3
  <2>8. CASE x.i = child.i + 1
    BY <1>1, <1>2, <2>5, <2>8
  <2> QED
    BY <2>6, <2>7, <2>8, Zenon
<1>7. CASE k[1] = "array"
  <2>1. x \in Array(t, i, f)
    <3>1. k[1] # "value" /\ k[1] # "object"
      BY <1>7
    <3> QED
      BY <1>1, <3>1, Zenon DEF Rule
  <2>2. ArrayMade(t, i, f, x)
    BY <2>1, ArrayHas, Zenon
  <2>3. PICK child \in f[<<"value", i>>] : ArrayEnds(t, i, f, child, x)
    BY <2>2, Zenon DEF ArrayMade
  <2>4. child.i \in Nat /\ child.i > i
    BY <1>3, <1>4, Zenon
  <2>5. \/ Is(t, child.i, ",") /\ \E rest \in f[<<"array", child.i + 1>>] : x.i = rest.i
        \/ x.i = child.i + 1
    BY <2>3, ToFields, Zenon DEF ArrayEnds
  <2>6. CASE Is(t, child.i, ",") /\ \E rest \in f[<<"array", child.i + 1>>] : x.i = rest.i
    <3>1. child.i <= Len(t)
      BY <2>6, IsThere, Zenon
    <3>2. child.i + 1 \in 1 .. Len(t) + 1
      BY <1>2, <2>4, <3>1
    <3>3. x.i \in Nat /\ x.i > child.i + 1
      BY <1>3, <1>4, <2>6, <3>2, Zenon
    <3> QED
      BY <1>1, <1>2, <2>4, <3>3
  <2>7. CASE x.i = child.i + 1
    BY <1>1, <1>2, <2>4, <2>7
  <2> QED
    BY <2>5, <2>6, <2>7, Zenon
<1> QED
  BY <1>5, <1>6, <1>7 DEF Places, Kinds

\* Two tables have the same results of lower rank than k.
Agree(t, k, f, g) == \A e \in Places(t) : Rank(t, e) < Rank(t, k) => f[e] = g[e]

\* What a call returns depends on the results of lower rank only.
LEMMA RuleLocal ==
    ASSUME NEW t \in Seq(Tokens), NEW f, Sane(t, f), NEW g, NEW k \in Places(t),
           Agree(t, k, f, g)
    PROVE  Rule(t, k, f) = Rule(t, k, g)
<1>1. PICK i \in 1 .. Len(t) + 1 : k = <<k[1], i>> /\ k[2] = i
  BY DEF Places
<1>2. Len(t) \in Nat /\ i \in Nat
  OBVIOUS
<1>3. ASSUME NEW j \in Nat, j <= Len(t) + 1, i < j
      PROVE  /\ f[<<"value", j>>] = g[<<"value", j>>]
             /\ f[<<"object", j>>] = g[<<"object", j>>]
             /\ f[<<"array", j>>] = g[<<"array", j>>]
  <2>1. j \in 1 .. Len(t) + 1
    BY <1>2, <1>3
  <2>2. /\ <<"value", j>> \in Places(t) /\ <<"object", j>> \in Places(t)
        /\ <<"array", j>> \in Places(t)
    BY <2>1, PlaceIs, Zenon
  <2>3. /\ Rank(t, <<"value", j>>) < Rank(t, k) /\ Rank(t, <<"object", j>>) < Rank(t, k)
        /\ Rank(t, <<"array", j>>) < Rank(t, k)
    <3>1. Rank(t, k) \in Nat /\ Rank(t, k) >= 2 * (Len(t) + 1 - i)
      BY <1>1, <1>2 DEF Rank
    <3>2. 2 * (Len(t) + 1 - j) + 1 < 2 * (Len(t) + 1 - i)
      BY <1>2, <1>3
    <3>3. 2 * (Len(t) + 1 - j) + 0 < 2 * (Len(t) + 1 - i)
      BY <1>2, <1>3
    <3>4. /\ Rank(t, <<"value", j>>) = 2 * (Len(t) + 1 - j) + 0
          /\ Rank(t, <<"object", j>>) = 2 * (Len(t) + 1 - j) + 1
          /\ Rank(t, <<"array", j>>) = 2 * (Len(t) + 1 - j) + 1
      BY RankIs, Zenon
    <3> DEFINE r == Rank(t, k)
    <3> HIDE DEF r
    <3>5. \A n \in Int : n < 2 * (Len(t) + 1 - i) => n < r
      BY <1>2, <3>1 DEF r
    <3>6. 2 * (Len(t) + 1 - j) + 1 \in Int /\ 2 * (Len(t) + 1 - j) + 0 \in Int
      BY <1>2
    <3> QED
      BY <3>2, <3>3, <3>4, <3>5, <3>6, Zenon DEF r
  <2> QED
    BY <2>2, <2>3, Zenon DEF Agree
<1>4. CASE k[1] = "value"
  <2>1. Rule(t, k, f) = Value(t, i, f) /\ Rule(t, k, g) = Value(t, i, g)
    BY <1>1, <1>4, Zenon DEF Rule
  <2>2. CASE i <= Len(t)
    <3>1. f[<<"object", i + 1>>] = g[<<"object", i + 1>>] /\ f[<<"array", i + 1>>] = g[<<"array", i + 1>>]
      <4>1. i + 1 \in Nat /\ i + 1 <= Len(t) + 1 /\ i < i + 1
        BY <1>2, <2>2
      <4> QED
        BY <1>3, <4>1, Zenon
    <3>2. Value(t, i, f) = Value(t, i, g)
      BY <3>1, Zenon DEF Value
    <3> QED
      BY <2>1, <3>2, Zenon
  <2>3. CASE ~(i <= Len(t))
    <3>1. i > Len(t)
      BY <1>2, <2>3
    <3> QED
      BY <2>1, <3>1, Zenon DEF Value
  <2> QED
    BY <2>2, <2>3, Zenon
<1>5. CASE k[1] = "object"
  <2>1. Rule(t, k, f) = Object(t, i, f) /\ Rule(t, k, g) = Object(t, i, g)
    <3>1. k[1] # "value"
      BY <1>5
    <3> QED
      BY <1>1, <1>5, <3>1, Zenon DEF Rule
  <2>2. CASE ~(Is(t, i, "str") /\ Is(t, i + 1, ":"))
    <3>1. ASSUME NEW x PROVE x \notin Object(t, i, f) /\ x \notin Object(t, i, g)
      BY <2>2, ObjectHas, Zenon DEF ObjectMade
    <3>2. Object(t, i, f) = {} /\ Object(t, i, g) = {}
      BY <3>1
    <3> QED
      BY <2>1, <3>2, Zenon
  <2>3. CASE Is(t, i, "str") /\ Is(t, i + 1, ":")
    <3>1. i + 1 <= Len(t)
      BY <2>3, IsThere, Zenon
    <3>2. i + 2 \in Nat /\ i + 2 <= Len(t) + 1 /\ i < i + 2 /\ i + 2 \in 1 .. Len(t) + 1
      BY <1>2, <3>1
    <3>3. f[<<"value", i + 2>>] = g[<<"value", i + 2>>]
      BY <1>3, <3>2, Zenon
    <3>4. ASSUME NEW child \in f[<<"value", i + 2>>], NEW key, NEW x
          PROVE  ObjectEnds(t, i, f, key, child, x) <=> ObjectEnds(t, i, g, key, child, x)
      <4>1. child.i \in Nat /\ child.i > i + 2
        <5>1. <<"value", i + 2>> \in Places(t) /\ <<"value", i + 2>>[2] = i + 2
          BY <3>2, PlaceIs
        <5> QED
          BY <5>1, Zenon DEF Sane
      <4>2. CASE Is(t, child.i, ",")
        <5>1. child.i <= Len(t)
          BY <4>2, IsThere, Zenon
        <5>2. child.i + 1 \in Nat /\ child.i + 1 <= Len(t) + 1 /\ i < child.i + 1
          BY <1>2, <4>1, <5>1
        <5>3. f[<<"object", child.i + 1>>] = g[<<"object", child.i + 1>>]
          BY <1>3, <5>2, Zenon
        <5> QED
          BY <5>3, Zenon DEF ObjectEnds
      <4>3. CASE ~Is(t, child.i, ",")
        BY <4>3, Zenon DEF ObjectEnds
      <4> QED
        BY <4>2, <4>3, Zenon
    <3>5. ASSUME NEW x PROVE ObjectMade(t, i, f, x) <=> ObjectMade(t, i, g, x)
      BY <3>3, <3>4, Zenon DEF ObjectMade
    <3>6. ASSUME NEW x PROVE x \in Object(t, i, f) <=> x \in Object(t, i, g)
      BY <3>5, ObjectHas, Zenon
    <3>7. Object(t, i, f) = Object(t, i, g)
      BY <3>6, Zenon
    <3> QED
      BY <2>1, <3>7, Zenon
  <2> QED
    BY <2>2, <2>3, Zenon
<1>6. CASE k[1] = "array"
  <2>1. Rule(t, k, f) = Array(t, i, f) /\ Rule(t, k, g) = Array(t, i, g)
    <3>1. k[1] # "value" /\ k[1] # "object"
      BY <1>6
    <3> QED
      BY <1>1, <3>1, Zenon DEF Rule
  <2>2. <<"value", i>> \in Places(t) /\ <<"value", i>>[2] = i
    BY PlaceIs
  <2>3. f[<<"value", i>>] = g[<<"value", i>>]
    <3>1. Rank(t, <<"value", i>>) < Rank(t, k)
      <4>1. k = <<"array", i>>
        BY <1>1, <1>6, Zenon
      <4>2. /\ Rank(t, k) = 2 * (Len(t) + 1 - i) + 1
            /\ Rank(t, <<"value", i>>) = 2 * (Len(t) + 1 - i) + 0
        BY <4>1, RankIs, Zenon
      <4>3. 2 * (Len(t) + 1 - i) + 0 < 2 * (Len(t) + 1 - i) + 1
        BY <1>2
      <4> QED
        BY <4>2, <4>3, Zenon
    <3> QED
      BY <2>2, <3>1, Zenon DEF Agree
  <2>4. ASSUME NEW child \in f[<<"value", i>>], NEW x
        PROVE  ArrayEnds(t, i, f, child, x) <=> ArrayEnds(t, i, g, child, x)
    <3>1. child.i \in Nat /\ child.i > i
      BY <2>2, Zenon DEF Sane
    <3>2. CASE Is(t, child.i, ",")
      <4>1. child.i <= Len(t)
        BY <3>2, IsThere, Zenon
      <4>2. child.i + 1 \in Nat /\ child.i + 1 <= Len(t) + 1 /\ i < child.i + 1
        BY <1>2, <3>1, <4>1
      <4>3. f[<<"array", child.i + 1>>] = g[<<"array", child.i + 1>>]
        BY <1>3, <4>2, Zenon
      <4> QED
        BY <4>3, Zenon DEF ArrayEnds
    <3>3. CASE ~Is(t, child.i, ",")
      BY <3>3, Zenon DEF ArrayEnds
    <3> QED
      BY <3>2, <3>3, Zenon
  <2>5. ASSUME NEW x PROVE ArrayMade(t, i, f, x) <=> ArrayMade(t, i, g, x)
    BY <2>3, <2>4, Zenon DEF ArrayMade
  <2>6. ASSUME NEW x PROVE x \in Array(t, i, f) <=> x \in Array(t, i, g)
    BY <2>5, ArrayHas, Zenon
  <2>7. Array(t, i, f) = Array(t, i, g)
    BY <2>6, Zenon
  <2> QED
    BY <2>1, <2>7, Zenon
<1> QED
  BY <1>4, <1>5, <1>6 DEF Places, Kinds

\* There is a table of the parser's results, and its results end behind the
\* place they start at.
LEMMA ParserTable ==
    ASSUME NEW t \in Seq(Tokens)
    PROVE  /\ Sane(t, Parser(t))
           /\ \A k \in Places(t) : Parser(t)[k] = Rule(t, k, Parser(t))
<1> DEFINE F(f)       == [k \in Places(t) |-> Rule(t, k, f)]
           Upto(f, m) == \A k \in Places(t) : Rank(t, k) < m => f[k] = Rule(t, k, f)
           T          == {m \in Nat : \E f : Sane(t, f) /\ Upto(f, m)}
           top        == 2 * Len(t) + 4
<1>1. top \in Nat /\ \A k \in Places(t) : Rank(t, k) \in Nat /\ Rank(t, k) < top
  <2>1. Len(t) \in Nat
    OBVIOUS
  <2>2. ASSUME NEW k \in Places(t) PROVE Rank(t, k) \in Nat /\ Rank(t, k) < top
    <3>1. k[2] \in 1 .. Len(t) + 1
      BY DEF Places
    <3> QED
      BY <2>1, <3>1 DEF Rank
  <2> QED
    BY <2>1, <2>2
<1> HIDE DEF top
<1>2. 0 \in T
  <2> DEFINE f0 == [k \in Places(t) |-> {}]
  <2>1. Sane(t, f0)
    BY Zenon DEF Sane
  <2>2. Upto(f0, 0)
    BY <1>1
  <2> HIDE DEF f0, Upto
  <2> QED
    BY <2>1, <2>2, Zenon
<1>3. ASSUME NEW m \in T PROVE m + 1 \in T
  <2>1. m \in Nat /\ m + 1 \in Nat
    OBVIOUS
  <2>2. PICK f : Sane(t, f) /\ Upto(f, m)
    BY Zenon
  <2> DEFINE g == F(f)
  <2>3. \A k \in Places(t) : g[k] = Rule(t, k, f)
    BY Zenon
  <2>4. g = [k \in Places(t) |-> g[k]]
    BY Zenon
  <2> HIDE DEF g
  <2>5. Sane(t, g)
    <3>1. ASSUME NEW k \in Places(t), NEW x \in g[k] PROVE x.i \in Nat /\ x.i > k[2]
      <4>1. x \in Rule(t, k, f)
        BY <2>3, Zenon
      <4> QED
        BY <2>2, <4>1, RuleSane, Zenon
    <3> QED
      BY <2>4, <3>1, Zenon DEF Sane
  <2>6. ASSUME NEW k \in Places(t), Rank(t, k) < m + 1
        PROVE  g[k] = Rule(t, k, g)
    <3>1. Agree(t, k, f, g)
      <4> USE DEF Agree
      <4> TAKE e \in Places(t)
      <4> HAVE Rank(t, e) < Rank(t, k)
      <4>1. Rank(t, e) < m
        BY <1>1, <2>1, <2>6
      <4> QED
        BY <2>2, <2>3, <4>1, Zenon
    <3>2. Rule(t, k, f) = Rule(t, k, g)
      BY <2>2, <3>1, RuleLocal, Zenon
    <3> QED
      BY <2>3, <3>2, Zenon
  <2>7. Upto(g, m + 1)
    BY <2>6, Zenon
  <2> HIDE DEF Upto
  <2> QED
    BY <2>1, <2>5, <2>7, Zenon
<1>4. top \in T
  <2>1. T \in SUBSET Nat
    OBVIOUS
  <2> HIDE DEF T
  <2> QED
    BY <1>1, <1>2, <1>3, <2>1, SetInduction, Zenon
<1>5. PICK f : Sane(t, f) /\ Upto(f, top)
  BY <1>4, Zenon
<1>6. f = F(f)
  <2>1. \A k \in Places(t) : f[k] = Rule(t, k, f)
    BY <1>1, <1>5, Zenon
  <2>2. f = [k \in Places(t) |-> f[k]]
    BY <1>5, Zenon DEF Sane
  <2> QED
    BY <2>1, <2>2, Zenon
<1> DEFINE P == CHOOSE h : h = F(h)
<1>7. Parser(t) = P
  BY Zenon DEF Parser, Rule, Places, Kinds
<1>8. P = F(P)
  BY <1>6, Zenon
<1> HIDE DEF P
<1>9. (\A k \in Places(t) : P[k] = Rule(t, k, P)) /\ P = [k \in Places(t) |-> P[k]]
  <2>1. \A k \in Places(t) : P[k] = Rule(t, k, P)
    BY <1>8, Zenon
  <2>2. F(P) = [k \in Places(t) |-> F(P)[k]]
    BY Zenon
  <2> HIDE DEF F
  <2> QED
    BY <1>8, <2>1, <2>2, Zenon
<1>10. Sane(t, P)
  <2> DEFINE Fine(m) == \A k \in Places(t) : Rank(t, k) < m => P[k] = f[k]
             U       == {m \in Nat : Fine(m)}
  <2>1. 0 \in U
    BY <1>1
  <2>2. ASSUME NEW m \in U PROVE m + 1 \in U
    <3>1. m \in Nat /\ m + 1 \in Nat /\ Fine(m)
      <4>1. m \in Nat /\ m + 1 \in Nat
        OBVIOUS
      <4> QED
        BY <4>1, Zenon
    <3>2. ASSUME NEW k \in Places(t), Rank(t, k) < m + 1 PROVE P[k] = f[k]
      <4>1. Agree(t, k, f, P)
        <5> USE DEF Agree
        <5> TAKE e \in Places(t)
        <5> HAVE Rank(t, e) < Rank(t, k)
        <5>1. Rank(t, e) < m
          BY <1>1, <3>1, <3>2
        <5> QED
          BY <3>1, <5>1, Zenon
      <4>2. Rule(t, k, f) = Rule(t, k, P)
        BY <1>5, <4>1, RuleLocal, Zenon
      <4>3. f[k] = Rule(t, k, f)
        BY <1>1, <1>5, Zenon
      <4> QED
        BY <1>9, <4>2, <4>3, Zenon
    <3> QED
      BY <3>1, <3>2, Zenon
  <2>3. top \in U
    <3>1. U \in SUBSET Nat
      OBVIOUS
    <3> HIDE DEF U
    <3> QED
      BY <1>1, <2>1, <2>2, <3>1, SetInduction, Zenon
  <2>4. \A k \in Places(t) : P[k] = f[k]
    BY <1>1, <2>3, Zenon
  <2> QED
    BY <1>5, <1>9, <2>4, Zenon DEF Sane
<1> QED
  BY <1>7, <1>9, <1>10, Zenon
-----------------------------------------------------------------------------
(* Strings: a scan of the characters                                       *)

Spots(n) == 1 .. n + 1

\* What is read from the i-th place on: what base says, or a character and
\* then what is read behind it.
ScanAt(f, i, base, moves) ==
    base[i] \cup UNION {{<<c.char>> \o rest : rest \in f[i + c.len]} : c \in moves[i]}

Scan(f, n, base, moves) == f = [i \in Spots(n) |-> ScanAt(f, i, base, moves)]

MovesFit(n, moves) ==
    /\ n \in Nat
    /\ \A i \in Spots(n) : \A c \in moves[i] : c.len \in Nat /\ c.len >= 1 /\ i + c.len <= n + 1

\* The results at a place, one by one.
ScanMade(f, i, base, moves, x) ==
    x \in base[i] \/ \E c \in moves[i] : \E rest \in f[i + c.len] : x = <<c.char>> \o rest

\* ScanAt has what ScanMade says.
LEMMA ScanHas ==
    ASSUME NEW f, NEW i, NEW base, NEW moves, NEW x
    PROVE  x \in ScanAt(f, i, base, moves) <=> ScanMade(f, i, base, moves, x)
<1> DEFINE After(c) == {<<c.char>> \o rest : rest \in f[i + c.len]}
<1>1. ASSUME NEW c PROVE x \in After(c) <=> \E rest \in f[i + c.len] : x = <<c.char>> \o rest
  BY Zenon
<1>2. ScanAt(f, i, base, moves) = base[i] \cup UNION {After(c) : c \in moves[i]}
  BY Zenon DEF ScanAt
<1> HIDE DEF After
<1>3. x \in ScanAt(f, i, base, moves) <=> x \in base[i] \/ \E c \in moves[i] : x \in After(c)
  BY <1>2
<1> QED
  BY <1>1, <1>3, Zenon DEF ScanMade

SameScan(i, base, moves, f, g) == ScanAt(f, i, base, moves) = ScanAt(g, i, base, moves)
AgreeBehind(n, i, f, g) == \A j \in Spots(n) : j > i => f[j] = g[j]

\* What is read at a place depends on what is read behind it only.
LEMMA ScanLocal ==
    ASSUME NEW n, NEW base, NEW moves, MovesFit(n, moves), NEW f, NEW g, NEW i \in Spots(n),
           AgreeBehind(n, i, f, g)
    PROVE  SameScan(i, base, moves, f, g)
<1>1. ASSUME NEW c \in moves[i] PROVE f[i + c.len] = g[i + c.len]
  <2> DEFINE m == c.len
  <2>1. n \in Nat /\ m \in Nat /\ m >= 1 /\ i + m <= n + 1
    BY Zenon DEF MovesFit
  <2> HIDE DEF m
  <2>2. i + m \in Spots(n) /\ i + m > i
    BY <2>1 DEF Spots
  <2> QED
    BY <2>2, Zenon DEF AgreeBehind, m
<1>2. ASSUME NEW x
      PROVE  ScanMade(f, i, base, moves, x) <=> ScanMade(g, i, base, moves, x)
  BY <1>1, Zenon DEF ScanMade
<1>3. ASSUME NEW x
      PROVE  x \in ScanAt(f, i, base, moves) <=> x \in ScanAt(g, i, base, moves)
  BY <1>2, ScanHas, Zenon
<1> QED
  BY <1>3, Zenon DEF SameScan

\* There is such a scan.
LEMMA ScanExists ==
    ASSUME NEW n, NEW base, NEW moves, MovesFit(n, moves)
    PROVE  \E f : Scan(f, n, base, moves)
<1> DEFINE F(f)       == [i \in Spots(n) |-> ScanAt(f, i, base, moves)]
           Fun(f)     == f = [i \in Spots(n) |-> f[i]]
           From(f, m) == \A i \in Spots(n) : i + m > n + 1 => f[i] = ScanAt(f, i, base, moves)
           T          == {m \in Nat : \E f : Fun(f) /\ From(f, m)}
<1>1. n \in Nat
  BY Zenon DEF MovesFit
<1>2. 0 \in T
  <2> DEFINE f0 == [i \in Spots(n) |-> {}]
  <2>1. Fun(f0)
    BY Zenon
  <2>2. From(f0, 0)
    BY <1>1 DEF Spots
  <2> HIDE DEF f0, Fun, From
  <2> QED
    BY <2>1, <2>2, Zenon
<1>3. ASSUME NEW m \in T PROVE m + 1 \in T
  <2>1. m \in Nat /\ m + 1 \in Nat
    OBVIOUS
  <2>2. PICK f : Fun(f) /\ From(f, m)
    BY Zenon
  <2> HIDE DEF T
  <2> DEFINE g == F(f)
  <2>3. \A i \in Spots(n) : g[i] = ScanAt(f, i, base, moves)
    BY Zenon
  <2>4. Fun(g)
    BY Zenon
  <2> HIDE DEF g
  <2>5. ASSUME NEW i \in Spots(n), i + (m + 1) > n + 1
        PROVE  g[i] = ScanAt(g, i, base, moves)
    <3>1. AgreeBehind(n, i, f, g)
      <4> USE DEF AgreeBehind
      <4> TAKE j \in Spots(n)
      <4> HAVE j > i
      <4>1. j + m > n + 1
        BY <1>1, <2>1, <2>5 DEF Spots
      <4> QED
        BY <2>2, <2>3, <4>1, Zenon
    <3>2. SameScan(i, base, moves, f, g)
      BY <3>1, ScanLocal, Zenon
    <3> QED
      BY <2>3, <3>2, Zenon DEF SameScan
  <2>6. From(g, m + 1)
    BY <2>5, Zenon
  <2> HIDE DEF Fun, From
  <2> QED
    BY <2>1, <2>4, <2>6, Zenon DEF T
<1>4. n + 1 \in T
  <2>1. T \in SUBSET Nat /\ n + 1 \in Nat
    BY <1>1
  <2> HIDE DEF T
  <2> QED
    BY <1>2, <1>3, <2>1, SetInduction, Zenon
<1>5. PICK f : Fun(f) /\ From(f, n + 1)
  BY <1>4, Zenon
<1>6. \A i \in Spots(n) : i + (n + 1) > n + 1
  BY <1>1 DEF Spots
<1>7. \A i \in Spots(n) : f[i] = ScanAt(f, i, base, moves)
  BY <1>5, <1>6, Zenon
<1>8. f = [i \in Spots(n) |-> f[i]]
  BY <1>5, Zenon
<1> QED
  BY <1>7, <1>8, Zenon DEF Scan

\* A scan's result at a place.
LEMMA ScanIs ==
    ASSUME NEW f, NEW n, NEW base, NEW moves, Scan(f, n, base, moves), NEW i \in Spots(n)
    PROVE  f[i] = ScanAt(f, i, base, moves)
BY Zenon DEF Scan

\* Scans by the same rules, as far as each place goes, are the same.
LEMMA ScanSame ==
    ASSUME NEW n, NEW base, NEW moves, NEW moves2, MovesFit(n, moves),
           \A i \in Spots(n) : moves[i] = moves2[i],
           NEW f, Scan(f, n, base, moves), NEW g, Scan(g, n, base, moves2), NEW i0 \in Spots(n)
    PROVE  f[i0] = g[i0]
<1> DEFINE T == {m \in Nat : \A i \in Spots(n) : i + m > n + 1 => f[i] = g[i]}
<1>1. n \in Nat
  BY Zenon DEF MovesFit
<1>2. 0 \in T
  BY <1>1 DEF Spots
<1>3. ASSUME NEW m \in T PROVE m + 1 \in T
  <2>1. m \in Nat /\ m + 1 \in Nat /\ \A i \in Spots(n) : i + m > n + 1 => f[i] = g[i]
    OBVIOUS
  <2> HIDE DEF T
  <2>2. ASSUME NEW i \in Spots(n), i + (m + 1) > n + 1 PROVE f[i] = g[i]
    <3>1. AgreeBehind(n, i, f, g)
      <4> USE DEF AgreeBehind
      <4> TAKE j \in Spots(n)
      <4> HAVE j > i
      <4>1. j + m > n + 1
        BY <1>1, <2>1, <2>2 DEF Spots
      <4> QED
        BY <2>1, <4>1, Zenon
    <3>2. SameScan(i, base, moves, f, g)
      BY <3>1, ScanLocal, Zenon
    <3>3. ScanAt(g, i, base, moves) = ScanAt(g, i, base, moves2)
      BY Zenon DEF ScanAt
    <3>4. f[i] = ScanAt(f, i, base, moves) /\ g[i] = ScanAt(g, i, base, moves2)
      BY Zenon DEF Scan
    <3> QED
      BY <3>2, <3>3, <3>4, Zenon DEF SameScan
  <2> QED
    BY <2>1, <2>2, Zenon DEF T
<1>4. n + 1 \in T
  <2>1. T \in SUBSET Nat /\ n + 1 \in Nat
    BY <1>1
  <2> HIDE DEF T
  <2> QED
    BY <1>2, <1>3, <2>1, SetInduction, Zenon
<1>5. i0 + (n + 1) > n + 1
  BY <1>1 DEF Spots
<1> QED
  BY <1>4, <1>5, Zenon

-----------------------------------------------------------------------------
(* Strings: the characters that str() reads are those the text stands for  *)

\* A sequence over some set is one over a larger set.
LEMMA SeqWiden ==
    ASSUME NEW S, NEW U, S \subseteq U, NEW s \in Seq(S)
    PROVE  s \in Seq(U)
OBVIOUS

\* A prefix of the rest of a string is there, character by character.
LEMMA PrefixAt ==
    ASSUME NEW S, NEW s \in Seq(S), NEW i \in 1 .. Len(s), NEW u \in Seq(S), Len(u) >= 1
    PROVE  /\ IsPrefix(u, SubSeq(s, i, Len(s))) <=> Occurs(s, i, u)
           /\ i + Len(u) - 1 <= Len(s) /\ SubSeq(s, i, i + Len(u) - 1) = u <=> Occurs(s, i, u)
<1> DEFINE r == SubSeq(s, i, Len(s))
           m == Len(u)
<1>1. /\ r \in Seq(S) /\ Len(r) = Len(s) - i + 1 /\ m \in Nat /\ m >= 1
      /\ \A j \in 1 .. Len(r) : r[j] = s[i + j - 1]
  OBVIOUS
<1>2. SubSeq(u, 1, m) = u
  OBVIOUS
<1> HIDE DEF r
<1>3. CASE m <= Len(r)
  <2> DEFINE p == SubSeq(s, i, i + m - 1)
  <2>1. p \in Seq(S) /\ Len(p) = m /\ \A j \in 1 .. m : p[j] = s[i + j - 1]
    BY <1>1, <1>3
  <2> HIDE DEF p
  <2>2. SubSeq(r, 1, m) = p
    <3>1. /\ SubSeq(r, 1, m) \in Seq(S) /\ Len(SubSeq(r, 1, m)) = m
          /\ \A j \in 1 .. m : SubSeq(r, 1, m)[j] = r[j]
      BY <1>1, <1>3
    <3>2. \A j \in 1 .. m : r[j] = s[i + j - 1]
      BY <1>1, <1>3
    <3> QED
      BY <2>1, <3>1, <3>2, SeqEqual
  <2>3. i + m - 1 <= Len(s) /\ i + m <= Len(s) + 1
    BY <1>1, <1>3
  <2>4. p = u <=> Occurs(s, i, u)
    <3>1. ASSUME p = u PROVE Occurs(s, i, u)
      BY <2>1, <2>3, <3>1 DEF Occurs
    <3>2. ASSUME Occurs(s, i, u) PROVE p = u
      BY <2>1, <3>2, SeqEqual DEF Occurs
    <3> QED
      BY <3>1, <3>2
  <2> QED
    BY <1>2, <1>3, <2>2, <2>3, <2>4, Zenon DEF IsPrefix, r, m, p
<1>4. CASE ~(m <= Len(r))
  <2>1. ~(i + m - 1 <= Len(s)) /\ ~Occurs(s, i, u)
    BY <1>1, <1>4 DEF Occurs
  <2> QED
    BY <1>4, <2>1, Zenon DEF IsPrefix, r, m
<1> QED
  BY <1>3, <1>4, Zenon

\* The escapes of two characters.
LEMMA PrefixTwo ==
    ASSUME NEW S, NEW s \in Seq(S), NEW i \in 1 .. Len(s), NEW a \in S, NEW b \in S
    PROVE  IsPrefix(<<a, b>>, SubSeq(s, i, Len(s))) <=>
               i + 1 <= Len(s) /\ s[i] = a /\ s[i + 1] = b
<1> DEFINE u == <<a, b>>
<1>1. u \in Seq(S) /\ Len(u) = 2 /\ u[1] = a /\ u[2] = b
  OBVIOUS
<1> HIDE DEF u
<1>2. Occurs(s, i, u) <=> i + 1 <= Len(s) /\ s[i] = a /\ s[i + 1] = b
  <2>1. \A j \in 1 .. 2 : j = 1 \/ j = 2
    OBVIOUS
  <2> QED
    BY <1>1, <2>1 DEF Occurs
<1>3. Len(u) >= 1
  BY <1>1
<1>4. IsPrefix(u, SubSeq(s, i, Len(s))) <=> Occurs(s, i, u)
  BY <1>1, <1>3, PrefixAt, Zenon
<1> QED
  BY <1>2, <1>4 DEF u

\* The escapes of three characters.
LEMMA PrefixThree ==
    ASSUME NEW S, NEW s \in Seq(S), NEW i \in 1 .. Len(s),
           NEW a \in S, NEW b \in S, NEW c \in S
    PROVE  IsPrefix(<<a, b, c>>, SubSeq(s, i, Len(s))) <=>
               i + 2 <= Len(s) /\ s[i] = a /\ s[i + 1] = b /\ s[i + 2] = c
<1> DEFINE u == <<a, b, c>>
<1>1. u \in Seq(S) /\ Len(u) = 3 /\ u[1] = a /\ u[2] = b /\ u[3] = c
  OBVIOUS
<1> HIDE DEF u
<1>2. Occurs(s, i, u) <=> i + 2 <= Len(s) /\ s[i] = a /\ s[i + 1] = b /\ s[i + 2] = c
  <2>1. \A j \in 1 .. 3 : j = 1 \/ j = 2 \/ j = 3
    OBVIOUS
  <2> QED
    BY <1>1, <2>1 DEF Occurs
<1>3. Len(u) >= 1
  BY <1>1
<1>4. IsPrefix(u, SubSeq(s, i, Len(s))) <=> Occurs(s, i, u)
  BY <1>1, <1>3, PrefixAt, Zenon
<1> QED
  BY <1>2, <1>4 DEF u

\* The surrogate pair.
LEMMA PrefixPair ==
    ASSUME NEW s \in Seq(Chars), NEW i \in 1 .. Len(s)
    PROVE  IsPrefix(Pair, SubSeq(s, i, Len(s))) <=>
               i + 5 <= Len(s) /\ SubSeq(s, i, i + 5) = Pair
<1> DEFINE U == Chars \cup {"hex hi", "hex lo"}
<1>0. s \in Seq(U)
  BY SeqWiden, Zenon
<1>1. Pair \in Seq(U) /\ Len(Pair) = 6
  <2>1. ASSUME NEW S, NEW a \in S, NEW b \in S, NEW c \in S, NEW d \in S, NEW e \in S, NEW f \in S
        PROVE  <<a, b, c, d, e, f>> \in Seq(S) /\ Len(<<a, b, c, d, e, f>>) = 6
    OBVIOUS
  <2> QED
    BY <2>1, CharsAssumption, Zenon DEF Pair
<1> HIDE DEF U
<1>2. i + Len(Pair) - 1 = i + 5 /\ Len(Pair) >= 1
  BY <1>1
<1>3. /\ IsPrefix(Pair, SubSeq(s, i, Len(s))) <=> Occurs(s, i, Pair)
      /\ i + Len(Pair) - 1 <= Len(s) /\ SubSeq(s, i, i + Len(Pair) - 1) = Pair
             <=> Occurs(s, i, Pair)
  BY <1>0, <1>1, <1>2, PrefixAt, Zenon
<1> QED
  BY <1>2, <1>3

\* What stands at a place, case by case.
Plain(s, i, c)    == s[i] # Q /\ s[i] # B /\ c = Char(s[i], 1)
Two(s, i, b)      == i + 1 <= Len(s) /\ s[i] = B /\ s[i + 1] = b
Three(s, i, h)    == i + 2 <= Len(s) /\ s[i] = B /\ s[i + 1] = "u" /\ s[i + 2] = h
Six(s, i)         == i + 5 <= Len(s) /\ SubSeq(s, i, i + 5) = Pair

StandsMade(s, i, c) ==
    \/ Plain(s, i, c)
    \/ Two(s, i, Q) /\ c = Char(Q, 2)
    \/ Two(s, i, B) /\ c = Char(B, 2)
    \/ Two(s, i, "n") /\ c = Char("newline", 2)
    \/ Three(s, i, "hex control") /\ c = Char("control", 3)
    \/ Three(s, i, "hex x") /\ c = Char("x", 3)
    \/ Three(s, i, "hex lo") /\ c = Char("lone", 3)
    \/ Six(s, i) /\ c = Char("astral", 6)

\* A grammar that is at most as lenient as the engine's.
Fits(gr) ==
    /\ Lenient.barred \subseteq gr.barred
    /\ gr.escapes \subseteq Lenient.escapes
    /\ gr.literals \subseteq Literals

LoneEscape == <<<<B, "u", "hex lo">>, "lone">>
Escapes    == PairedEscapes \cup {LoneEscape}

\* The parts of the engine's grammar.
LEMMA LenientIs ==
    /\ Lenient.barred = {Q, B}
    /\ Lenient.escapes = PairedEscapes \cup {LoneEscape}
    /\ Lenient.literals = Literals
BY DEF Lenient, LoneEscape

\* JSON is one of those grammars, and so is the engine's.
LEMMA GrammarsFit == Fits(JSON) /\ Fits(Lenient)
<1>1. JSON.barred = {Q, B, "newline", "control"} /\ JSON.escapes = PairedEscapes
  BY DEF JSON
<1>2. JSON.literals = Literals \ {"lax number"}
  BY DEF JSON
<1>3. Fits(JSON)
  BY <1>1, <1>2, LenientIs DEF Fits
<1>4. Fits(Lenient)
  BY LenientIs, Zenon DEF Fits
<1> QED
  BY <1>3, <1>4

\* What stands at a place in such a grammar stands there in the engine's.
LEMMA StandsMore ==
    ASSUME NEW gr, Fits(gr), NEW s, NEW i, NEW c \in Stands(s, i, gr)
    PROVE  c \in Stands(s, i, Lenient)
<1>1. CASE \E d \in {s[i]} \ gr.barred : c = Char(d, 1)
  <2>1. \E d \in {s[i]} \ Lenient.barred : c = Char(d, 1)
    BY <1>1, Zenon DEF Fits
  <2> QED
    BY <2>1, Zenon DEF Stands
<1>2. CASE \E e \in gr.escapes : IsPrefix(e[1], SubSeq(s, i, Len(s))) /\ c = Char(e[2], Len(e[1]))
  <2>1. \E e \in Lenient.escapes :
            IsPrefix(e[1], SubSeq(s, i, Len(s))) /\ c = Char(e[2], Len(e[1]))
    BY <1>2, Zenon DEF Fits
  <2> QED
    BY <2>1, Zenon DEF Stands
<1> QED
  BY <1>1, <1>2, Zenon DEF Stands

\* The engine's grammar has what StandsMade says.
LEMMA StandsHas ==
    ASSUME NEW s \in Seq(Chars), NEW i \in 1 .. Len(s), NEW c
    PROVE  c \in Stands(s, i, Lenient) <=> StandsMade(s, i, c)
<1> DEFINE Begins(u) == IsPrefix(u, SubSeq(s, i, Len(s)))
<1> DEFINE U == Chars \cup {"hex x", "hex lo"}
<1>0. /\ B \in U /\ Q \in U /\ "n" \in U /\ "u" \in U
      /\ "hex control" \in U /\ "hex x" \in U /\ "hex lo" \in U /\ s \in Seq(U)
  <2>1. s \in Seq(U)
    BY SeqWiden, Zenon
  <2> QED
    BY <2>1, CharsAssumption, Zenon
<1> HIDE DEF U
<1>a. Lenient.barred = {Q, B} /\ Lenient.escapes = Escapes
  BY LenientIs, Zenon DEF Escapes
<1>1. c \in Stands(s, i, Lenient) <=>
          Plain(s, i, c) \/ \E e \in Escapes : Begins(e[1]) /\ c = Char(e[2], Len(e[1]))
  BY <1>a, Zenon DEF Stands, Plain
<1>2. /\ Begins(<<B, Q>>) <=> Two(s, i, Q)
      /\ Begins(<<B, B>>) <=> Two(s, i, B)
      /\ Begins(<<B, "n">>) <=> Two(s, i, "n")
  BY <1>0, PrefixTwo, Zenon DEF Two
<1>3. /\ Begins(<<B, "u", "hex control">>) <=> Three(s, i, "hex control")
      /\ Begins(<<B, "u", "hex x">>) <=> Three(s, i, "hex x")
      /\ Begins(<<B, "u", "hex lo">>) <=> Three(s, i, "hex lo")
  BY <1>0, PrefixThree, Zenon DEF Three
<1>4. Begins(Pair) <=> Six(s, i)
  BY PrefixPair, Zenon DEF Six
<1> HIDE DEF Begins
<1> DEFINE Esc(u, d) == Begins(u) /\ c = Char(d, Len(u))
<1>5. (\E e \in Escapes : Begins(e[1]) /\ c = Char(e[2], Len(e[1]))) <=>
          \/ Esc(<<B, Q>>, Q) \/ Esc(<<B, B>>, B) \/ Esc(<<B, "n">>, "newline")
          \/ Esc(<<B, "u", "hex control">>, "control") \/ Esc(<<B, "u", "hex x">>, "x")
          \/ Esc(<<B, "u", "hex lo">>, "lone") \/ Esc(Pair, "astral")
  <2>1. ASSUME NEW e, NEW u, NEW d, e = <<u, d>> PROVE e[1] = u /\ e[2] = d
    BY <2>1
  <2>2. \A e \in Escapes : \/ e = <<<<B, Q>>, Q>> \/ e = <<<<B, B>>, B>>
            \/ e = <<<<B, "n">>, "newline">>
            \/ e = <<<<B, "u", "hex control">>, "control">> \/ e = <<<<B, "u", "hex x">>, "x">>
            \/ e = <<<<B, "u", "hex lo">>, "lone">> \/ e = <<Pair, "astral">>
    BY Zenon DEF Escapes, PairedEscapes, LoneEscape, Pair
  <2>3. /\ <<<<B, Q>>, Q>> \in Escapes /\ <<<<B, B>>, B>> \in Escapes
        /\ <<<<B, "n">>, "newline">> \in Escapes
        /\ <<<<B, "u", "hex control">>, "control">> \in Escapes
        /\ <<<<B, "u", "hex x">>, "x">> \in Escapes
        /\ <<<<B, "u", "hex lo">>, "lone">> \in Escapes /\ <<Pair, "astral">> \in Escapes
    BY Zenon DEF Escapes, PairedEscapes, LoneEscape, Pair
  <2>4. ASSUME NEW u, NEW d, <<u, d>> \in Escapes, Esc(u, d)
        PROVE  \E e \in Escapes : Begins(e[1]) /\ c = Char(e[2], Len(e[1]))
    BY <2>1, <2>4, Zenon
  <2>5. ASSUME NEW e \in Escapes, Begins(e[1]), c = Char(e[2], Len(e[1])),
               NEW u, NEW d, e = <<u, d>>
        PROVE  Esc(u, d)
    BY <2>1, <2>5, Zenon
  <2> HIDE DEF Esc
  <2> QED
    BY <2>2, <2>3, <2>4, <2>5, Zenon
<1>6. /\ Len(<<B, Q>>) = 2 /\ Len(<<B, B>>) = 2 /\ Len(<<B, "n">>) = 2
      /\ Len(<<B, "u", "hex control">>) = 3 /\ Len(<<B, "u", "hex x">>) = 3
      /\ Len(<<B, "u", "hex lo">>) = 3 /\ Len(Pair) = 6
  BY DEF Pair
<1> QED
  BY <1>1, <1>2, <1>3, <1>4, <1>5, <1>6 DEF StandsMade

\* str() reads at a place what stands there.
LEMMA NextHas ==
    ASSUME NEW s \in Seq(Chars), NEW i \in 1 .. Len(s), NEW c, s[i] # Q
    PROVE  c \in NextChar(s, i) <=> StandsMade(s, i, c)
<1>0. /\ B # Q /\ B # "n" /\ B # "u" /\ Q # "n" /\ Q # "u" /\ "n" # "u"
      /\ "hex control" # "hex x" /\ "hex control" # "hex lo" /\ "hex x" # "hex lo"
      /\ "hex hi" # "hex control" /\ "hex hi" # "hex x" /\ "hex hi" # "hex lo"
  BY DEF B, Q
<1>1. ASSUME Six(s, i)
      PROVE  i + 2 <= Len(s) /\ s[i] = B /\ s[i + 1] = "u" /\ s[i + 2] = "hex hi"
  <2>1. i + 5 <= Len(s) /\ SubSeq(s, i, i + 5) = Pair
    BY <1>1, Zenon DEF Six
  <2>2. Pair[1] = B /\ Pair[2] = "u" /\ Pair[3] = "hex hi"
    BY DEF Pair
  <2> DEFINE p == SubSeq(s, i, i + 5)
  <2>3. p[1] = s[i] /\ p[2] = s[i + 1] /\ p[3] = s[i + 2] /\ i + 2 <= Len(s)
    BY <2>1
  <2> HIDE DEF p
  <2> QED
    BY <2>1, <2>2, <2>3, Zenon DEF p
<1>2. CASE s[i] # B
  BY <1>1, <1>2, Zenon DEF NextChar, StandsMade, Plain, Two, Three
<1>3. CASE s[i] = B /\ Six(s, i)
  <2>1. c \in NextChar(s, i) <=> c = Char("astral", 6)
    BY <1>3, Zenon DEF NextChar, Six
  <2>2. ~Plain(s, i, c) /\ ~Two(s, i, Q) /\ ~Two(s, i, B) /\ ~Two(s, i, "n")
    BY <1>0, <1>1, <1>3, Zenon DEF Plain, Two
  <2>3. ~Three(s, i, "hex control") /\ ~Three(s, i, "hex x") /\ ~Three(s, i, "hex lo")
    BY <1>0, <1>1, <1>3, Zenon DEF Three
  <2> QED
    BY <1>3, <2>1, <2>2, <2>3, Zenon DEF StandsMade
<1> DEFINE Hex == i + 2 <= Len(s) /\ s[i + 1] = "u" /\ s[i + 2] \in DOMAIN HexChar
           Sim == i + 1 <= Len(s) /\ s[i + 1] \in DOMAIN Simple
<1>4. /\ DOMAIN HexChar = {"hex control", "hex x", "hex lo"} /\ DOMAIN Simple = {Q, B, "n"}
      /\ HexChar["hex control"] = "control" /\ HexChar["hex x"] = "x"
      /\ HexChar["hex lo"] = "lone"
      /\ Simple[Q] = Q /\ Simple[B] = B /\ Simple["n"] = "newline"
  BY <1>0 DEF HexChar, Simple
<1>5. CASE s[i] = B /\ ~Six(s, i) /\ Hex
  <2>1. c \in NextChar(s, i) <=> c = Char(HexChar[s[i + 2]], 3)
    BY <1>5, Zenon DEF NextChar, Six
  <2>2. ~Plain(s, i, c) /\ ~Two(s, i, Q) /\ ~Two(s, i, B) /\ ~Two(s, i, "n")
    BY <1>0, <1>5, Zenon DEF Plain, Two
  <2>3. c \in NextChar(s, i) <=>
            \/ s[i + 2] = "hex control" /\ c = Char("control", 3)
            \/ s[i + 2] = "hex x" /\ c = Char("x", 3)
            \/ s[i + 2] = "hex lo" /\ c = Char("lone", 3)
    <3>1. s[i + 2] = "hex control" \/ s[i + 2] = "hex x" \/ s[i + 2] = "hex lo"
      BY <1>4, <1>5, Zenon
    <3>2. CASE s[i + 2] = "hex control"
      BY <1>0, <1>4, <2>1, <3>2, Zenon
    <3>3. CASE s[i + 2] = "hex x"
      BY <1>0, <1>4, <2>1, <3>3, Zenon
    <3>4. CASE s[i + 2] = "hex lo"
      BY <1>0, <1>4, <2>1, <3>4, Zenon
    <3> QED
      BY <3>1, <3>2, <3>3, <3>4, Zenon
  <2> QED
    BY <1>5, <2>2, <2>3, Zenon DEF StandsMade, Three
<1>6. CASE s[i] = B /\ ~Six(s, i) /\ ~Hex
  <2>1. ~Plain(s, i, c)
    BY <1>6, Zenon DEF Plain
  <2>2. ~Three(s, i, "hex control") /\ ~Three(s, i, "hex x") /\ ~Three(s, i, "hex lo")
    BY <1>4, <1>6, Zenon DEF Three
  <2>3. c \in NextChar(s, i) <=> Sim /\ c = Char(Simple[s[i + 1]], 2)
    BY <1>6, Zenon DEF NextChar, Six
  <2>4. ASSUME NEW e \in DOMAIN Simple
        PROVE  c = Char(Simple[e], 2) <=>
                 \/ e = Q /\ c = Char(Q, 2)
                 \/ e = B /\ c = Char(B, 2)
                 \/ e = "n" /\ c = Char("newline", 2)
    <3>1. CASE e = Q
      BY <1>0, <1>4, <3>1, Zenon
    <3>2. CASE e = B
      BY <1>0, <1>4, <3>2, Zenon
    <3>3. CASE e = "n"
      BY <1>0, <1>4, <3>3, Zenon
    <3> QED
      BY <1>4, <3>1, <3>2, <3>3, Zenon
  <2>5. s[i + 1] \in DOMAIN Simple <=> s[i + 1] = Q \/ s[i + 1] = B \/ s[i + 1] = "n"
    BY <1>4, Zenon
  <2>6. StandsMade(s, i, c) <=>
            /\ i + 1 <= Len(s)
            /\ \/ s[i + 1] = Q /\ c = Char(Q, 2)
               \/ s[i + 1] = B /\ c = Char(B, 2)
               \/ s[i + 1] = "n" /\ c = Char("newline", 2)
    BY <1>6, <2>1, <2>2, Zenon DEF StandsMade, Two
  <2> QED
    BY <2>3, <2>4, <2>5, <2>6, Zenon
<1> QED
  BY <1>2, <1>3, <1>5, <1>6, Zenon

\* Of the string token s: what ends it, and the characters that stand in it.
Base(s)  == [i \in Spots(Len(s)) |-> IF i = Len(s) /\ s[i] = Q THEN {<<>>} ELSE {}]
Moves(s, gr) == [i \in Spots(Len(s)) |-> IF i <= Len(s) THEN Stands(s, i, gr) ELSE {}]

\* Every character that stands in a string takes room in it.
LEMMA MovesOfString ==
    ASSUME NEW gr, Fits(gr), NEW s \in Seq(Chars)
    PROVE  MovesFit(Len(s), Moves(s, gr))
<1>1. ASSUME NEW i \in Spots(Len(s)), NEW c \in Moves(s, gr)[i]
      PROVE  c.len \in Nat /\ c.len >= 1 /\ i + c.len <= Len(s) + 1
  <2>1. i <= Len(s) /\ c \in Stands(s, i, gr)
    BY Zenon DEF Moves
  <2>2. i \in 1 .. Len(s)
    BY <2>1 DEF Spots
  <2>3. StandsMade(s, i, c)
    BY <2>1, <2>2, StandsMore, StandsHas, Zenon
  <2>4. ASSUME NEW d, NEW m, c = Char(d, m) PROVE c.len = m
    BY <2>4 DEF Char
  <2>5. \/ c.len = 1
        \/ c.len = 2 /\ i + 1 <= Len(s)
        \/ c.len = 3 /\ i + 2 <= Len(s)
        \/ c.len = 6 /\ i + 5 <= Len(s)
    BY <2>3, <2>4, Zenon DEF StandsMade, Plain, Two, Three, Six
  <2> QED
    BY <2>2, <2>5
<1>2. Len(s) \in Nat
  OBVIOUS
<1> QED
  BY <1>1, <1>2, Zenon DEF MovesFit

StringMade(s, i, f, x, gr) ==
    \/ i = Len(s) /\ s[i] = Q /\ x = <<>>
    \/ /\ i <= Len(s)
       /\ \E c \in Stands(s, i, gr) : \E rest \in f[i + c.len] : x = <<c.char>> \o rest

\* What reading s from a place on gives, with the rules spelled out.
LEMMA ScanOfString ==
    ASSUME NEW gr, NEW s, NEW i \in Spots(Len(s)), NEW f, NEW x
    PROVE  x \in ScanAt(f, i, Base(s), Moves(s, gr)) <=> StringMade(s, i, f, x, gr)
<1>1. Base(s)[i] = IF i = Len(s) /\ s[i] = Q THEN {<<>>} ELSE {}
  BY Zenon DEF Base
<1>2. Moves(s, gr)[i] = IF i <= Len(s) THEN Stands(s, i, gr) ELSE {}
  BY Zenon DEF Moves
<1>3. x \in Base(s)[i] <=> i = Len(s) /\ s[i] = Q /\ x = <<>>
  BY <1>1, Zenon
<1>4. \A c : c \in Moves(s, gr)[i] <=> i <= Len(s) /\ c \in Stands(s, i, gr)
  BY <1>2, Zenon
<1>5. ScanMade(f, i, Base(s), Moves(s, gr), x) <=> StringMade(s, i, f, x, gr)
  BY <1>3, <1>4, Zenon DEF ScanMade, StringMade
<1> QED
  BY <1>5, ScanHas, Zenon

\* Nothing stands where there is a bare quote.
LEMMA NothingAtQuote ==
    ASSUME NEW s \in Seq(Chars), NEW i \in 1 .. Len(s), s[i] = Q
    PROVE  \A c : ~StandsMade(s, i, c)
<1>1. Q # B
  BY DEF Q, B
<1>2. ~Six(s, i)
  <2>1. ASSUME i + 5 <= Len(s), SubSeq(s, i, i + 5) = Pair PROVE s[i] = B
    <3>1. Pair[1] = B
      BY DEF Pair
    <3> DEFINE p == SubSeq(s, i, i + 5)
    <3>2. p[1] = s[i]
      BY <2>1
    <3> HIDE DEF p
    <3> QED
      BY <2>1, <3>1, <3>2, Zenon DEF p
  <2> QED
    BY <1>1, <2>1, Zenon DEF Six
<1> QED
  BY <1>1, <1>2, Zenon DEF StandsMade, Plain, Two, Three

\* A rule that reads as the scan does computes one, and the scan is unique.
LEMMA StrOfScan ==
    ASSUME NEW s \in Seq(Chars)
    PROVE  \E f : Scan(f, Len(s), Base(s), Moves(s, Lenient)) /\ StrOf(s) = f[1]
<1> DEFINE N == 1 .. Len(s) + 1
           Read(f, i) ==
               IF i > Len(s) THEN {}
               ELSE IF s[i] = Q THEN IF i = Len(s) THEN {<<>>} ELSE {}
               ELSE UNION {{<<c.char>> \o rest : rest \in f[i + c.len]} : c \in NextChar(s, i)}
           F(f) == [i \in N |-> Read(f, i)]
           P == CHOOSE f : f = F(f)
<1>1. StrOf(s) = P[1]
  BY Zenon DEF StrOf
<1>2. ASSUME NEW f, NEW i \in Spots(Len(s))
      PROVE  Read(f, i) = ScanAt(f, i, Base(s), Moves(s, Lenient))
  <2>1. CASE i > Len(s)
    <3>1. ~(i <= Len(s)) /\ i # Len(s)
      BY <2>1 DEF Spots
    <3>2. ASSUME NEW x PROVE x \notin ScanAt(f, i, Base(s), Moves(s, Lenient))
      BY <3>1, ScanOfString, Zenon DEF StringMade
    <3>3. Read(f, i) = {}
      BY <2>1, Zenon
    <3> HIDE DEF Read
    <3> QED
      BY <3>2, <3>3
  <2>2. CASE ~(i > Len(s)) /\ s[i] = Q
    <3>1. i \in 1 .. Len(s) /\ i <= Len(s)
      BY <2>2 DEF Spots
    <3>2. ASSUME NEW x
          PROVE  x \in ScanAt(f, i, Base(s), Moves(s, Lenient)) <=> i = Len(s) /\ x = <<>>
      <4>1. \A c : c \notin Stands(s, i, Lenient)
        BY <2>2, <3>1, NothingAtQuote, StandsHas, Zenon
      <4>2. StringMade(s, i, f, x, Lenient) <=> i = Len(s) /\ x = <<>>
        BY <2>2, <4>1, Zenon DEF StringMade
      <4> QED
        BY <4>2, ScanOfString, Zenon
    <3>3. ASSUME NEW x PROVE x \in Read(f, i) <=> i = Len(s) /\ x = <<>>
      BY <2>2, Zenon
    <3> HIDE DEF Read
    <3> QED
      BY <3>2, <3>3, Zenon
  <2>3. CASE ~(i > Len(s)) /\ s[i] # Q
    <3>1. i \in 1 .. Len(s) /\ i <= Len(s)
      BY <2>3 DEF Spots
    <3>2. \A c : c \in NextChar(s, i) <=> c \in Stands(s, i, Lenient)
      BY <2>3, <3>1, NextHas, StandsHas, Zenon
    <3>3. ASSUME NEW x
          PROVE  x \in Read(f, i) <=>
                    \E c \in NextChar(s, i) : \E rest \in f[i + c.len] : x = <<c.char>> \o rest
      <4> DEFINE After(c) == {<<c.char>> \o rest : rest \in f[i + c.len]}
      <4>1. ASSUME NEW c PROVE x \in After(c) <=> \E rest \in f[i + c.len] : x = <<c.char>> \o rest
        BY Zenon
      <4>2. Read(f, i) = UNION {After(c) : c \in NextChar(s, i)}
        BY <2>3, Zenon
      <4> HIDE DEF After, Read
      <4>3. x \in Read(f, i) <=> \E c \in NextChar(s, i) : x \in After(c)
        BY <4>2
      <4> QED
        BY <4>1, <4>3, Zenon
    <3> HIDE DEF Read
    <3>4. ASSUME NEW x PROVE x \in Read(f, i) <=> x \in ScanAt(f, i, Base(s), Moves(s, Lenient))
      <4>1. x \in Read(f, i) <=> StringMade(s, i, f, x, Lenient)
        BY <2>3, <3>1, <3>2, <3>3, Zenon DEF StringMade
      <4> QED
        BY <4>1, ScanOfString, Zenon
    <3> QED
      BY <3>4, Zenon
  <2> QED
    BY <2>1, <2>2, <2>3, Zenon
<1>3. N = Spots(Len(s))
  BY Zenon DEF Spots
<1> HIDE DEF Read, N
<1>4. ASSUME NEW f PROVE f = F(f) <=> Scan(f, Len(s), Base(s), Moves(s, Lenient))
  <2>1. F(f) = [i \in Spots(Len(s)) |-> ScanAt(f, i, Base(s), Moves(s, Lenient))]
    BY <1>2, <1>3
  <2> HIDE DEF F
  <2> QED
    BY <2>1, Zenon DEF Scan
<1>5. \E f : f = F(f)
  <2>1. \E f : Scan(f, Len(s), Base(s), Moves(s, Lenient))
    BY GrammarsFit, MovesOfString, ScanExists, Zenon
  <2> HIDE DEF F
  <2> QED
    BY <1>4, <2>1, Zenon
<1>6. P = F(P)
  BY <1>5, Zenon
<1> HIDE DEF P, F
<1> QED
  BY <1>1, <1>4, <1>6, Zenon

\* The strings that the reference gives are those of the scan.
LEMMA SpellsScan ==
    ASSUME NEW gr, Fits(gr), NEW s \in Seq(Chars)
    PROVE  \E f : Scan(f, Len(s), Base(s), Moves(s, gr)) /\ Spells(s, gr) = f[1]
<1> DEFINE N == 1 .. Len(s) + 1
           End(i)     == IF i = Len(s) /\ s[i] = Q THEN {<<>>} ELSE {}
           At(i)      == IF i <= Len(s) THEN Stands(s, i, gr) ELSE {}
           After(f, i, c) == {<<c.char>> \o rest : rest \in f[i + c.len]}
           Read(f, i) == End(i) \cup UNION {After(f, i, c) : c \in At(i)}
           F(f) == [i \in N |-> Read(f, i)]
           P == CHOOSE f : f = F(f)
<1>1. Spells(s, gr) = P[1]
  BY Zenon DEF Spells
<1>2. ASSUME NEW f, NEW i \in Spots(Len(s)) PROVE Read(f, i) = ScanAt(f, i, Base(s), Moves(s, gr))
  <2>1. ASSUME NEW x, NEW c
        PROVE  x \in After(f, i, c) <=> \E rest \in f[i + c.len] : x = <<c.char>> \o rest
    BY Zenon
  <2>2. ASSUME NEW x PROVE x \in End(i) <=> i = Len(s) /\ s[i] = Q /\ x = <<>>
    BY Zenon
  <2>3. ASSUME NEW c PROVE c \in At(i) <=> i <= Len(s) /\ c \in Stands(s, i, gr)
    BY Zenon
  <2> HIDE DEF After, End, At
  <2>4. ASSUME NEW x PROVE x \in Read(f, i) <=> x \in End(i) \/ \E c \in At(i) : x \in After(f, i, c)
    OBVIOUS
  <2> HIDE DEF Read
  <2>5. ASSUME NEW x PROVE x \in Read(f, i) <=> StringMade(s, i, f, x, gr)
    <3>1. (\E c \in At(i) : x \in After(f, i, c)) <=>
              /\ i <= Len(s)
              /\ \E c \in Stands(s, i, gr) : \E rest \in f[i + c.len] : x = <<c.char>> \o rest
      BY <2>1, <2>3, Zenon
    <3> QED
      BY <2>2, <2>4, <3>1, Zenon DEF StringMade
  <2>6. ASSUME NEW x PROVE x \in Read(f, i) <=> x \in ScanAt(f, i, Base(s), Moves(s, gr))
    BY <2>5, ScanOfString, Zenon
  <2> QED
    BY <2>6, Zenon
<1>3. N = Spots(Len(s))
  BY Zenon DEF Spots
<1> HIDE DEF Read, N
<1>4. ASSUME NEW f PROVE f = F(f) <=> Scan(f, Len(s), Base(s), Moves(s, gr))
  <2>1. F(f) = [i \in Spots(Len(s)) |-> ScanAt(f, i, Base(s), Moves(s, gr))]
    BY <1>2, <1>3
  <2> HIDE DEF F
  <2> QED
    BY <2>1, Zenon DEF Scan
<1>5. \E f : f = F(f)
  <2>1. \E f : Scan(f, Len(s), Base(s), Moves(s, gr))
    BY GrammarsFit, MovesOfString, ScanExists, Zenon
  <2> HIDE DEF F
  <2> QED
    BY <1>4, <2>1, Zenon
<1>6. P = F(P)
  BY <1>5, Zenon
<1> HIDE DEF P, F
<1> QED
  BY <1>1, <1>4, <1>6, Zenon

\* str() reads the string that a token stands for, and no other.
LEMMA StrOfIsSpells ==
    ASSUME NEW s \in Seq(Chars)
    PROVE  StrOf(s) = Spells(s, Lenient)
<1>1. PICK f : Scan(f, Len(s), Base(s), Moves(s, Lenient)) /\ StrOf(s) = f[1]
  BY StrOfScan, Zenon
<1>2. PICK g : Scan(g, Len(s), Base(s), Moves(s, Lenient)) /\ Spells(s, Lenient) = g[1]
  BY GrammarsFit, SpellsScan, Zenon
<1>3. /\ MovesFit(Len(s), Moves(s, Lenient))
      /\ \A i \in Spots(Len(s)) : Moves(s, Lenient)[i] = Moves(s, Lenient)[i]
  BY GrammarsFit, MovesOfString, Zenon
<1>4. 1 \in Spots(Len(s))
  BY DEF Spots
<1>5. f[1] = g[1]
  BY <1>1, <1>2, <1>3, <1>4, ScanSame
<1> QED
  BY <1>1, <1>2, <1>5, Zenon

\* At a place stands one character at most.
LEMMA StandsOne ==
    ASSUME NEW s \in Seq(Chars), NEW i \in 1 .. Len(s), NEW c \in Stands(s, i, Lenient),
           NEW d \in Stands(s, i, Lenient)
    PROVE  c = d
<1>1. s[i] # Q
  BY NothingAtQuote, StandsHas, Zenon
<1>2. c \in NextChar(s, i) /\ d \in NextChar(s, i)
  BY <1>1, NextHas, StandsHas, Zenon
<1>3. NextChar(s, i) = {} \/ \E e : NextChar(s, i) = {e}
  BY Zenon DEF NextChar
<1> QED
  BY <1>2, <1>3

\* A token stands for one string at most.
LEMMA StrOne ==
    ASSUME NEW s \in Seq(Chars), NEW x0 \in StrOf(s), NEW y0 \in StrOf(s)
    PROVE  x0 = y0
<1> DEFINE n == Len(s)
<1>1. PICK f : Scan(f, n, Base(s), Moves(s, Lenient)) /\ StrOf(s) = f[1]
  BY StrOfScan, Zenon
<1>2. n \in Nat
  OBVIOUS
<1> DEFINE Alone(i) == \A x, y \in f[i] : x = y
           T == {m \in Nat : \A i \in Spots(n) : i + m > n + 1 => Alone(i)}
<1>3. ASSUME NEW i \in Spots(n), NEW x PROVE x \in f[i] <=> StringMade(s, i, f, x, Lenient)
  <2>1. f[i] = ScanAt(f, i, Base(s), Moves(s, Lenient))
    BY <1>1, Zenon DEF Scan
  <2> QED
    BY <2>1, ScanOfString, Zenon
<1>4. 0 \in T
  BY <1>2 DEF Spots
<1>5. ASSUME NEW m \in T PROVE m + 1 \in T
  <2>1. m \in Nat /\ m + 1 \in Nat /\ \A i \in Spots(n) : i + m > n + 1 => Alone(i)
    OBVIOUS
  <2> HIDE DEF T
  <2>2. ASSUME NEW i \in Spots(n), i + (m + 1) > n + 1, NEW x \in f[i], NEW y \in f[i]
        PROVE  x = y
    <3>1. StringMade(s, i, f, x, Lenient) /\ StringMade(s, i, f, y, Lenient)
      BY <1>3, Zenon
    <3>2. i <= n
      <4>1. i = n => i <= n
        BY <1>2
      <4> QED
        BY <3>1, <4>1, Zenon DEF StringMade
    <3>3. i \in 1 .. Len(s)
      BY <3>2 DEF Spots
    <3>4. CASE s[i] = Q
      <4>1. \A c : c \notin Stands(s, i, Lenient)
        BY <3>3, <3>4, NothingAtQuote, StandsHas, Zenon
      <4> QED
        BY <3>1, <4>1, Zenon DEF StringMade
    <3>5. CASE s[i] # Q
      <4>1. PICK c \in Stands(s, i, Lenient) : \E rest \in f[i + c.len] : x = <<c.char>> \o rest
        BY <3>1, <3>5, Zenon DEF StringMade
      <4>2. PICK d \in Stands(s, i, Lenient) : \E rest \in f[i + d.len] : y = <<d.char>> \o rest
        BY <3>1, <3>5, Zenon DEF StringMade
      <4>3. c = d
        BY <3>3, StandsOne, Zenon
      <4>4. i + c.len \in Spots(n) /\ i + c.len + m > n + 1
        <5> DEFINE l == c.len
        <5>1. c \in Moves(s, Lenient)[i]
          BY <3>2, Zenon DEF Moves
        <5>2. l \in Nat /\ l >= 1 /\ i + l <= n + 1
          BY <5>1, GrammarsFit, MovesOfString, Zenon DEF MovesFit
        <5> HIDE DEF l
        <5>3. i + l \in Spots(n) /\ i + l + m > n + 1
          BY <1>2, <2>1, <2>2, <5>2 DEF Spots
        <5> QED
          BY <5>3, Zenon DEF l
      <4>5. Alone(i + c.len)
        BY <2>1, <4>4, Zenon
      <4> QED
        BY <4>1, <4>2, <4>3, <4>5, Zenon
    <3> QED
      BY <3>4, <3>5, Zenon
  <2>3. \A i \in Spots(n) : i + (m + 1) > n + 1 => Alone(i)
    BY <2>2, Zenon
  <2> HIDE DEF Alone
  <2> QED
    BY <2>1, <2>3, Zenon DEF T
<1>6. n + 1 \in T
  <2>1. T \in SUBSET Nat /\ n + 1 \in Nat
    BY <1>2
  <2> HIDE DEF T
  <2> QED
    BY <1>4, <1>5, <2>1, SetInduction, Zenon
<1>7. 1 \in Spots(n) /\ 1 + (n + 1) > n + 1
  BY <1>2 DEF Spots
<1>8. Alone(1)
  BY <1>6, <1>7, Zenon
<1> QED
  BY <1>1, <1>8, Zenon

\* A token's strings in a stricter grammar are strings of it in the engine's.
LEMMA SpellsMore ==
    ASSUME NEW gr, Fits(gr), NEW s \in Seq(Chars), NEW x0 \in Spells(s, gr)
    PROVE  x0 \in Spells(s, Lenient)
<1> DEFINE n == Len(s)
<1>1. PICK f : Scan(f, n, Base(s), Moves(s, gr)) /\ Spells(s, gr) = f[1]
  BY SpellsScan, Zenon
<1>2. PICK h : Scan(h, n, Base(s), Moves(s, Lenient)) /\ Spells(s, Lenient) = h[1]
  BY GrammarsFit, SpellsScan, Zenon
<1>3. n \in Nat
  OBVIOUS
<1> DEFINE Less(i) == \A x : x \in f[i] => x \in h[i]
           T == {m \in Nat : \A i \in Spots(n) : i + m > n + 1 => Less(i)}
<1>4. ASSUME NEW i \in Spots(n), NEW x
      PROVE  /\ x \in f[i] <=> StringMade(s, i, f, x, gr)
             /\ x \in h[i] <=> StringMade(s, i, h, x, Lenient)
  <2>1. f[i] = ScanAt(f, i, Base(s), Moves(s, gr)) /\ h[i] = ScanAt(h, i, Base(s), Moves(s, Lenient))
    BY <1>1, <1>2, Zenon DEF Scan
  <2> QED
    BY <2>1, ScanOfString, Zenon
<1>5. 0 \in T
  BY <1>3 DEF Spots
<1>6. ASSUME NEW m \in T PROVE m + 1 \in T
  <2>1. m \in Nat /\ m + 1 \in Nat /\ \A i \in Spots(n) : i + m > n + 1 => Less(i)
    OBVIOUS
  <2> HIDE DEF T
  <2>2. ASSUME NEW i \in Spots(n), i + (m + 1) > n + 1, NEW x, x \in f[i]
        PROVE  x \in h[i]
    <3>1. StringMade(s, i, f, x, gr)
      BY <1>4, <2>2, Zenon
    <3>2. CASE i = Len(s) /\ s[i] = Q /\ x = <<>>
      BY <1>4, <3>2, Zenon DEF StringMade
    <3>3. CASE /\ i <= Len(s)
               /\ \E c \in Stands(s, i, gr) : \E rest \in f[i + c.len] : x = <<c.char>> \o rest
      <4>1. PICK c \in Stands(s, i, gr) : \E rest \in f[i + c.len] : x = <<c.char>> \o rest
        BY <3>3, Zenon
      <4>2. c \in Stands(s, i, Lenient)
        BY StandsMore, Zenon
      <4>3. i + c.len \in Spots(n) /\ i + c.len + m > n + 1
        <5> DEFINE l == c.len
        <5>1. c \in Moves(s, gr)[i]
          BY <3>3, Zenon DEF Moves
        <5>2. l \in Nat /\ l >= 1 /\ i + l <= n + 1
          BY <5>1, MovesOfString, Zenon DEF MovesFit
        <5> HIDE DEF l
        <5>3. i + l \in Spots(n) /\ i + l + m > n + 1
          BY <1>3, <2>1, <2>2, <5>2 DEF Spots
        <5> QED
          BY <5>3, Zenon DEF l
      <4>4. Less(i + c.len)
        BY <2>1, <4>3, Zenon
      <4>5. \E rest \in h[i + c.len] : x = <<c.char>> \o rest
        BY <4>1, <4>4, Zenon
      <4>6. StringMade(s, i, h, x, Lenient)
        BY <3>3, <4>2, <4>5, Zenon DEF StringMade
      <4> QED
        BY <1>4, <4>6, Zenon
    <3> QED
      BY <3>1, <3>2, <3>3, Zenon DEF StringMade
  <2>3. \A i \in Spots(n) : i + (m + 1) > n + 1 => Less(i)
    BY <2>2, Zenon
  <2> HIDE DEF Less
  <2> QED
    BY <2>1, <2>3, Zenon DEF T
<1>7. n + 1 \in T
  <2>1. T \in SUBSET Nat /\ n + 1 \in Nat
    BY <1>3
  <2> HIDE DEF T
  <2> QED
    BY <1>5, <1>6, <2>1, SetInduction, Zenon
<1>8. 1 \in Spots(n) /\ 1 + (n + 1) > n + 1
  BY <1>3 DEF Spots
<1>9. Less(1)
  BY <1>7, <1>8, Zenon
<1> QED
  BY <1>1, <1>2, <1>9, Zenon

\* What the engine reads at a place, JSON has there too, but for raw control
\* characters and lone surrogates.
LEMMA StandsInJson ==
    ASSUME NEW s, NEW i, NEW d, NEW m, Char(d, m) \in Stands(s, i, Lenient),
           m = 1 => d # "newline" /\ d # "control", m = 3 => d # "lone"
    PROVE  Char(d, m) \in Stands(s, i, JSON)
<1> DEFINE c == Char(d, m)
<1>1. JSON.barred = {Q, B, "newline", "control"} /\ JSON.escapes = PairedEscapes
  BY DEF JSON
<1>2. /\ Lenient.barred = {Q, B} /\ Lenient.escapes = PairedEscapes \cup {LoneEscape}
      /\ LoneEscape[2] = "lone" /\ Len(LoneEscape[1]) = 3
  BY LenientIs DEF LoneEscape
<1>3. ASSUME NEW u, NEW k, Char(d, m) = Char(u, k) PROVE d = u /\ m = k
  BY <1>3 DEF Char
<1>4. CASE \E u \in {s[i]} \ Lenient.barred : c = Char(u, 1)
  <2>1. PICK u \in {s[i]} \ Lenient.barred : c = Char(u, 1)
    BY <1>4, Zenon
  <2>2. d = u /\ m = 1
    BY <1>3, <2>1, Zenon
  <2>3. u \in {s[i]} \ JSON.barred
    BY <1>1, <1>2, <2>1, <2>2
  <2> QED
    BY <2>1, <2>3, Zenon DEF Stands
<1>5. CASE \E e \in Lenient.escapes :
              IsPrefix(e[1], SubSeq(s, i, Len(s))) /\ c = Char(e[2], Len(e[1]))
  <2>1. PICK e \in Lenient.escapes :
            IsPrefix(e[1], SubSeq(s, i, Len(s))) /\ c = Char(e[2], Len(e[1]))
    BY <1>5, Zenon
  <2>2. d = e[2] /\ m = Len(e[1])
    BY <1>3, <2>1, Zenon
  <2>3. e \in JSON.escapes
    BY <1>1, <1>2, <2>2, Zenon
  <2> QED
    BY <2>1, <2>3, Zenon DEF Stands
<1> HIDE DEF c
<1>6. c \in Stands(s, i, Lenient)
  BY Zenon DEF c
<1> QED
  BY <1>4, <1>5, <1>6, Zenon DEF Stands, c

\* How a character is written.
LEMMA EscapeCases ==
    ASSUME NEW c
    PROVE  \/ c = Q /\ EscapeChar(c) = <<B, Q>>
           \/ c = B /\ EscapeChar(c) = <<B, B>>
           \/ c = "newline" /\ EscapeChar(c) = <<B, "n">>
           \/ c = "control" /\ EscapeChar(c) = <<B, "u", "hex control">>
           \/ c # Q /\ c # B /\ EscapeChar(c) = <<c>>
<1>1. /\ Q # B /\ Q # "newline" /\ Q # "control" /\ B # "newline" /\ B # "control"
      /\ "newline" # "control"
  BY DEF B, Q
<1> QED
  BY <1>1, Zenon DEF EscapeChar

\* A character is written with characters.
LEMMA EscapeTyped ==
    ASSUME NEW c \in Chars
    PROVE  EscapeChar(c) \in Seq(Chars) /\ Len(EscapeChar(c)) >= 1
<1>1. ASSUME NEW S, NEW a \in S, NEW b \in S, NEW d \in S
      PROVE  /\ <<a>> \in Seq(S) /\ <<a, b>> \in Seq(S) /\ <<a, b, d>> \in Seq(S)
             /\ Len(<<a>>) >= 1 /\ Len(<<a, b>>) >= 1 /\ Len(<<a, b, d>>) >= 1
  OBVIOUS
<1>2. Q \in Chars /\ B \in Chars /\ "n" \in Chars /\ "u" \in Chars /\ "hex control" \in Chars
  BY CharsAssumption, Zenon
<1>3. CASE EscapeChar(c) = <<B, Q>>
  BY <1>1, <1>2, <1>3, Zenon
<1>4. CASE EscapeChar(c) = <<B, B>>
  BY <1>1, <1>2, <1>4, Zenon
<1>5. CASE EscapeChar(c) = <<B, "n">>
  BY <1>1, <1>2, <1>5, Zenon
<1>6. CASE EscapeChar(c) = <<B, "u", "hex control">>
  BY <1>1, <1>2, <1>6, Zenon
<1>7. CASE EscapeChar(c) = <<c>>
  BY <1>1, <1>7, Zenon
<1> QED
  BY <1>3, <1>4, <1>5, <1>6, <1>7, EscapeCases, Zenon

\* Where a character was written, that character stands.
LEMMA EscapeRead ==
    ASSUME NEW e \in Seq(Chars), NEW p \in 1 .. Len(e), NEW c, Occurs(e, p, EscapeChar(c))
    PROVE  Char(c, Len(EscapeChar(c))) \in Stands(e, p, Lenient)
<1>1. ASSUME NEW a, NEW b, Occurs(e, p, <<a, b>>)
      PROVE  p + 1 <= Len(e) /\ e[p] = a /\ e[p + 1] = b
  BY <1>1 DEF Occurs
<1>2. ASSUME NEW a, NEW b, NEW d, Occurs(e, p, <<a, b, d>>)
      PROVE  p + 2 <= Len(e) /\ e[p] = a /\ e[p + 1] = b /\ e[p + 2] = d
  BY <1>2 DEF Occurs
<1>3. ASSUME Occurs(e, p, <<c>>) PROVE e[p] = c
  BY <1>3 DEF Occurs
<1>4. /\ \A a, b : Len(<<a, b>>) = 2
      /\ \A a, b, d : Len(<<a, b, d>>) = 3
      /\ \A a : Len(<<a>>) = 1
  OBVIOUS
<1> DEFINE r == Char(c, Len(EscapeChar(c)))
<1>5. CASE c = Q /\ EscapeChar(c) = <<B, Q>>
  <2>1. Two(e, p, Q)
    BY <1>1, <1>5, Zenon DEF Two
  <2>2. r = Char(Q, 2)
    BY <1>4, <1>5, Zenon
  <2> HIDE DEF r
  <2> QED
    BY <2>1, <2>2, StandsHas, Zenon DEF StandsMade, r
<1>6. CASE c = B /\ EscapeChar(c) = <<B, B>>
  <2>1. Two(e, p, B)
    BY <1>1, <1>6, Zenon DEF Two
  <2>2. r = Char(B, 2)
    BY <1>4, <1>6, Zenon
  <2> HIDE DEF r
  <2> QED
    BY <2>1, <2>2, StandsHas, Zenon DEF StandsMade, r
<1>7. CASE c = "newline" /\ EscapeChar(c) = <<B, "n">>
  <2>1. Two(e, p, "n")
    BY <1>1, <1>7, Zenon DEF Two
  <2>2. r = Char("newline", 2)
    BY <1>4, <1>7, Zenon
  <2> HIDE DEF r
  <2> QED
    BY <2>1, <2>2, StandsHas, Zenon DEF StandsMade, r
<1>8. CASE c = "control" /\ EscapeChar(c) = <<B, "u", "hex control">>
  <2>1. Three(e, p, "hex control")
    BY <1>2, <1>8, Zenon DEF Three
  <2>2. r = Char("control", 3)
    BY <1>4, <1>8, Zenon
  <2> HIDE DEF r
  <2> QED
    BY <2>1, <2>2, StandsHas, Zenon DEF StandsMade, r
<1>9. CASE c # Q /\ c # B /\ EscapeChar(c) = <<c>>
  <2>1. Plain(e, p, r)
    <3>1. e[p] = c
      BY <1>3, <1>9, Zenon
    <3>2. r = Char(e[p], 1)
      BY <1>4, <1>9, <3>1, Zenon
    <3> HIDE DEF r
    <3> QED
      BY <1>9, <3>1, <3>2, Zenon DEF Plain
  <2> HIDE DEF r
  <2> QED
    BY <2>1, StandsHas, Zenon DEF StandsMade, r
<1> QED
  BY <1>5, <1>6, <1>7, <1>8, <1>9, EscapeCases, Zenon

\* And it stands there in JSON.
LEMMA EscapeIsJson ==
    ASSUME NEW e \in Seq(Chars), NEW p \in 1 .. Len(e), NEW c, Occurs(e, p, EscapeChar(c))
    PROVE  Char(c, Len(EscapeChar(c))) \in Stands(e, p, JSON)
<1> DEFINE m == Len(EscapeChar(c))
<1>1. /\ \A a, b : Len(<<a, b>>) = 2
      /\ \A a, b, d : Len(<<a, b, d>>) = 3
      /\ \A a : Len(<<a>>) = 1
  OBVIOUS
<1>2. /\ Q # "newline" /\ Q # "control" /\ Q # "lone" /\ B # "newline" /\ B # "control"
      /\ B # "lone" /\ "newline" # "control" /\ "newline" # "lone" /\ "control" # "lone"
      /\ 1 # 2 /\ 1 # 3 /\ 2 # 3
  BY DEF Q, B
<1>3. c = "newline" => EscapeChar(c) = <<B, "n">>
  BY <1>2, Zenon DEF EscapeChar
<1>4. c = "control" => EscapeChar(c) = <<B, "u", "hex control">>
  BY <1>2, Zenon DEF EscapeChar
<1>5. c = "lone" => EscapeChar(c) = <<c>>
  BY <1>2, Zenon DEF EscapeChar
<1>6. (m = 1 => c # "newline" /\ c # "control") /\ (m = 3 => c # "lone")
  BY <1>1, <1>2, <1>3, <1>4, <1>5, Zenon
<1> HIDE DEF m
<1>7. Char(c, m) \in Stands(e, p, Lenient)
  BY EscapeRead, Zenon DEF m
<1> QED
  BY <1>6, <1>7, StandsInJson, Zenon DEF m

\* A string that was written is read back, and JSON has it so too.
LEMMA StrRoundTrip ==
    ASSUME NEW s \in Seq(Chars)
    PROVE  /\ EscapeTo(s) \in Seq(Chars) /\ StrOf(EscapeTo(s)) = {s}
           /\ s \in Spells(EscapeTo(s), JSON)
<1> DEFINE n    == Len(s)
           seqs == [i \in 1 .. n |-> EscapeChar(s[i])]
           flat == FlattenSeq(seqs)
           e    == EscapeTo(s)
<1>1. n \in Nat /\ s \in [1 .. n -> Chars]
  OBVIOUS
<1>2. /\ seqs \in Seq(Seq(Chars)) /\ Len(seqs) = n
      /\ \A i \in 1 .. n : seqs[i] = EscapeChar(s[i]) /\ seqs[i] \in Seq(Chars) /\ Len(seqs[i]) >= 1
  <2>1. \A i \in 1 .. n : EscapeChar(s[i]) \in Seq(Chars) /\ Len(EscapeChar(s[i])) >= 1
    BY <1>1, EscapeTyped, Zenon
  <2> QED
    BY <1>1, <2>1
<1>3. e = flat \o <<Q>>
  BY Zenon DEF EscapeTo
<1> HIDE DEF seqs, e
<1>4. flat \in Seq(Chars)
  BY <1>2, FlattenTyped, Zenon
<1>5. PICK off : Layout(flat, seqs, off)
  BY <1>2, FlattenLayout, Zenon
<1> HIDE DEF flat
<1>6. /\ e \in Seq(Chars) /\ Len(e) = Len(flat) + 1 /\ e[Len(e)] = Q /\ Len(e) \in Nat
      /\ <<Q>> \in Seq(Chars)
  <2>1. Q \in Chars
    BY CharsAssumption, Zenon
  <2>2. \A x \in Chars : /\ <<x>> \in Seq(Chars) /\ flat \o <<x>> \in Seq(Chars)
                         /\ Len(flat \o <<x>>) = Len(flat) + 1
                         /\ (flat \o <<x>>)[Len(flat) + 1] = x /\ Len(flat) + 1 \in Nat
    BY <1>4
  <2> QED
    BY <1>3, <2>1, <2>2, Zenon
<1>7. /\ off \in [1 .. n + 1 -> Nat] /\ off[1] = 1 /\ off[n + 1] = Len(e)
      /\ \A i \in 1 .. n : off[i + 1] = off[i] + Len(seqs[i]) /\ Occurs(flat, off[i], seqs[i])
  BY <1>2, <1>5, <1>6, Zenon DEF Layout
<1>8. PICK f : Scan(f, Len(e), Base(e), Moves(e, JSON)) /\ Spells(e, JSON) = f[1]
  BY <1>6, GrammarsFit, SpellsScan, Zenon
<1>9. ASSUME NEW i \in Spots(Len(e)), NEW x PROVE x \in f[i] <=> StringMade(e, i, f, x, JSON)
  <2>1. f[i] = ScanAt(f, i, Base(e), Moves(e, JSON))
    BY <1>8, Zenon DEF Scan
  <2> QED
    BY <2>1, ScanOfString, Zenon
<1>10. \A i \in 1 .. n + 1 : off[i] >= 1
  <2>1. ASSUME NEW i \in 1 .. n + 1, i # 1 PROVE off[i] >= 1
    <3> DEFINE h == i - 1
    <3>0. h \in 1 .. n /\ h \in 1 .. n + 1 /\ h + 1 = i
      BY <1>1, <2>1
    <3> HIDE DEF h
    <3>1. h \in 1 .. n /\ h + 1 = i /\ off[h] \in Nat
      BY <1>7, <3>0
    <3>2. off[i] = off[h] + Len(seqs[h]) /\ Len(seqs[h]) >= 1
      BY <1>2, <1>7, <3>1
    <3>3. Len(seqs[h]) \in Nat
      BY <1>2, <3>1
    <3> QED
      BY <3>1, <3>2, <3>3
  <2> QED
    BY <1>7, <2>1
<1> DEFINE Behind(k) == SubSeq(s, k, n)
           Good(k) == Behind(k) \in f[off[k]]
           T == {m \in Nat : m <= n => Good(n + 1 - m)}
<1>11. 0 \in T
  <2>1. Behind(n + 1) = <<>> /\ n + 1 - 0 = n + 1
    BY <1>1
  <2>2. Len(e) \in Spots(Len(e))
    BY <1>6 DEF Spots
  <2>3. StringMade(e, Len(e), f, <<>>, JSON)
    BY <1>6, Zenon DEF StringMade
  <2>4. <<>> \in f[Len(e)]
    BY <1>9, <2>2, <2>3, Zenon
  <2> HIDE DEF Behind
  <2>5. Good(n + 1 - 0)
    BY <1>7, <2>1, <2>4, Zenon
  <2> HIDE DEF Good
  <2> QED
    BY <2>5
<1>12. ASSUME NEW m \in T PROVE m + 1 \in T
  <2>1. m \in Nat /\ m + 1 \in Nat /\ (m <= n => Good(n + 1 - m))
    <3> HIDE DEF Good
    <3> QED
      OBVIOUS
  <2> HIDE DEF T
  <2>2. ASSUME m + 1 <= n PROVE Good(n + 1 - (m + 1))
    <3> DEFINE k == n - m
    <3>1. /\ n + 1 - (m + 1) = k /\ n + 1 - m = k + 1 /\ k \in 1 .. n /\ m <= n
          /\ k \in 1 .. n + 1 /\ k + 1 \in 1 .. n + 1 /\ k \in Nat
      <4>1. n \in Nat /\ m \in Nat /\ m + 1 <= n
        BY <1>1, <2>1, <2>2, Zenon
      <4> HIDE DEF n
      <4> QED
        BY <4>1
    <3> HIDE DEF k, Good
    <3>2. Good(k + 1)
      BY <2>1, <3>1, Zenon
    <3>3. Behind(k) = <<s[k]>> \o Behind(k + 1)
      BY <1>1, <3>1
    <3> DEFINE p == off[k]
               l == Len(EscapeChar(s[k]))
    <3>4. /\ p \in Nat /\ p >= 1 /\ off[k + 1] = p + l /\ l \in Nat /\ l >= 1
          /\ Occurs(flat, p, EscapeChar(s[k])) /\ EscapeChar(s[k]) \in Seq(Chars)
      <4>1. p \in Nat /\ p >= 1
        BY <1>7, <1>10, <3>1
      <4>2. seqs[k] = EscapeChar(s[k]) /\ seqs[k] \in Seq(Chars) /\ Len(seqs[k]) >= 1
        BY <1>2, <3>1, Zenon
      <4>3. Len(seqs[k]) \in Nat
        BY <4>2
      <4>4. off[k + 1] = p + Len(seqs[k]) /\ Occurs(flat, p, seqs[k])
        BY <1>7, <3>1, Zenon
      <4> QED
        BY <4>1, <4>2, <4>3, <4>4, Zenon
    <3> HIDE DEF p, l
    <3>5. Occurs(e, p, EscapeChar(s[k]))
      <4>1. p # 0
        BY <3>4
      <4> QED
        BY <1>3, <1>4, <1>6, <3>4, <4>1, OccursLonger, Zenon
    <3>6. p \in 1 .. Len(e) /\ p <= Len(e) /\ p \in Spots(Len(e))
      <4>1. p + l <= Len(e) + 1
        BY <3>5, Zenon DEF Occurs, l
      <4> QED
        BY <1>6, <3>4, <4>1 DEF Spots
    <3> DEFINE c == Char(s[k], l)
    <3>7. c.char = s[k] /\ c.len = l
      BY DEF Char
    <3>8. c \in Stands(e, p, JSON)
      BY <1>6, <3>5, <3>6, EscapeIsJson, Zenon DEF l
    <3> HIDE DEF c, Behind
    <3>9. Behind(k + 1) \in f[p + c.len]
      <4>1. Behind(k + 1) \in f[off[k + 1]]
        BY <3>2, Zenon DEF Good
      <4> QED
        BY <3>4, <3>7, <4>1, Zenon
    <3>10. Behind(k) = <<c.char>> \o Behind(k + 1)
      BY <3>3, <3>7, Zenon
    <3>11. StringMade(e, p, f, Behind(k), JSON)
      BY <3>6, <3>8, <3>9, <3>10, Zenon DEF StringMade
    <3>12. Behind(k) \in f[p]
      BY <1>9, <3>6, <3>11, Zenon
    <3> QED
      BY <3>1, <3>12, Zenon DEF Good, p
  <2> HIDE DEF Good
  <2> QED
    BY <2>1, <2>2, Zenon DEF T
<1>13. Good(1)
  <2>1. T \in SUBSET Nat
    OBVIOUS
  <2> HIDE DEF T
  <2>2. n \in T
    BY <1>1, <1>11, <1>12, <2>1, SetInduction, Zenon
  <2>3. n <= n /\ n + 1 - n = 1
    BY <1>1
  <2> HIDE DEF Good
  <2>4. n <= n => Good(n + 1 - n)
    BY <2>2, Zenon DEF T
  <2> QED
    BY <2>3, <2>4, Zenon
<1>14. Behind(1) = s
  BY <1>1
<1>15. s \in Spells(e, JSON)
  <2> HIDE DEF Behind
  <2> QED
    BY <1>7, <1>8, <1>13, <1>14, Zenon
<1>16. s \in StrOf(e)
  BY <1>6, <1>15, GrammarsFit, SpellsMore, StrOfIsSpells, Zenon
<1>17. \A x \in StrOf(e) : x = s
  BY <1>6, <1>16, StrOne, Zenon
<1>18. StrOf(e) = {s}
  BY <1>16, <1>17
<1> QED
  BY <1>6, <1>15, <1>18, Zenon DEF e

-----------------------------------------------------------------------------
(* What the parser reads, as relations: from the i-th token on, a value, the *)
(* members of an object or the elements of an array, up to the j-th token  *)

ReadsV(t, i, v, j)  == To(v, j) \in Parser(t)[<<"value", i>>]
ReadsO(t, i, m, j)  == To(m, j) \in Parser(t)[<<"object", i>>]
ReadsA(t, i, es, j) == To(es, j) \in Parser(t)[<<"array", i>>]

\* Equal results have equal values and places.
LEMMA ToInjective ==
    ASSUME NEW a, NEW b, NEW i, NEW j, To(a, i) = To(b, j)
    PROVE  a = b /\ i = j
BY DEF To

\* The table's entries by kind.
LEMMA TableEntries ==
    ASSUME NEW t \in Seq(Tokens), NEW i \in 1 .. Len(t) + 1, NEW x
    PROVE  /\ x \in Parser(t)[<<"value", i>>] <=> ValueMade(t, i, Parser(t), x)
           /\ x \in Parser(t)[<<"object", i>>] <=> ObjectMade(t, i, Parser(t), x)
           /\ x \in Parser(t)[<<"array", i>>] <=> ArrayMade(t, i, Parser(t), x)
<1>1. /\ <<"value", i>>[1] = "value" /\ <<"value", i>>[2] = i
      /\ <<"object", i>>[1] = "object" /\ <<"object", i>>[2] = i
      /\ <<"array", i>>[1] = "array" /\ <<"array", i>>[2] = i
      /\ "object" # "value" /\ "array" # "value" /\ "array" # "object"
  OBVIOUS
<1>2. /\ <<"value", i>> \in Places(t) /\ <<"object", i>> \in Places(t)
      /\ <<"array", i>> \in Places(t)
  BY PlaceIs, Zenon
<1>3. /\ Parser(t)[<<"value", i>>] = Rule(t, <<"value", i>>, Parser(t))
      /\ Parser(t)[<<"object", i>>] = Rule(t, <<"object", i>>, Parser(t))
      /\ Parser(t)[<<"array", i>>] = Rule(t, <<"array", i>>, Parser(t))
  BY <1>2, ParserTable, Zenon
<1>4. Parser(t)[<<"value", i>>] = Value(t, i, Parser(t))
  BY <1>1, <1>3, Zenon DEF Rule
<1>5. Parser(t)[<<"object", i>>] = Object(t, i, Parser(t))
  BY <1>1, <1>3, Zenon DEF Rule
<1>6. Parser(t)[<<"array", i>>] = Array(t, i, Parser(t))
  BY <1>1, <1>3, Zenon DEF Rule
<1>7. i \in Nat
  OBVIOUS
<1>8. x \in Parser(t)[<<"value", i>>] <=> ValueMade(t, i, Parser(t), x)
  BY <1>4, <1>7, ValueHas, Zenon
<1>9. x \in Parser(t)[<<"object", i>>] <=> ObjectMade(t, i, Parser(t), x)
  BY <1>5, ObjectHas, Zenon
<1>10. x \in Parser(t)[<<"array", i>>] <=> ArrayMade(t, i, Parser(t), x)
  BY <1>6, ArrayHas, Zenon
<1> QED
  BY <1>8, <1>9, <1>10, Zenon

\* Every result is a value with the place behind it, further on.
LEMMA ResultForm ==
    ASSUME NEW t \in Seq(Tokens), NEW i \in 1 .. Len(t) + 1, NEW x,
           \/ x \in Parser(t)[<<"value", i>>] \/ x \in Parser(t)[<<"object", i>>]
           \/ x \in Parser(t)[<<"array", i>>]
    PROVE  x = To(x.v, x.i) /\ x.i \in Nat /\ x.i > i
<1>1. \/ ValueMade(t, i, Parser(t), x) \/ ObjectMade(t, i, Parser(t), x)
      \/ ArrayMade(t, i, Parser(t), x)
  BY TableEntries, Zenon
<1> DEFINE Result == x = To(x.v, x.i)
<1>2. ASSUME NEW v, NEW j, x = To(v, j) PROVE Result
  <2>1. x.v = v /\ x.i = j
    BY <1>2, ToFields, Zenon
  <2> QED
    BY <1>2, <2>1
<1> HIDE DEF Result
<1>3. ASSUME ValueMade(t, i, Parser(t), x) PROVE Result
  BY <1>2, <1>3, Zenon DEF ValueMade
<1>4. ASSUME ObjectMade(t, i, Parser(t), x) PROVE Result
  BY <1>2, <1>4, Zenon DEF ObjectMade, ObjectEnds
<1>5. ASSUME ArrayMade(t, i, Parser(t), x) PROVE Result
  BY <1>2, <1>5, Zenon DEF ArrayMade, ArrayEnds
<1>6. /\ <<"value", i>> \in Places(t) /\ <<"object", i>> \in Places(t)
      /\ <<"array", i>> \in Places(t)
  BY PlaceIs, Zenon
<1>7. <<"value", i>>[2] = i /\ <<"object", i>>[2] = i /\ <<"array", i>>[2] = i
  OBVIOUS
<1>8. ASSUME NEW k \in Places(t), x \in Parser(t)[k] PROVE x.i \in Nat /\ x.i > k[2]
  BY <1>8, ParserTable, Zenon DEF Sane
<1>9. x.i \in Nat /\ x.i > i
  BY <1>6, <1>7, <1>8, Zenon
<1> QED
  BY <1>1, <1>3, <1>4, <1>5, <1>9, Zenon DEF Result

\* Whatever is read ends further on.
LEMMA ReadsOn ==
    ASSUME NEW t \in Seq(Tokens), NEW i \in 1 .. Len(t) + 1, NEW v, NEW j,
           ReadsV(t, i, v, j) \/ ReadsO(t, i, v, j) \/ ReadsA(t, i, v, j)
    PROVE  j \in Nat /\ j > i
<1> DEFINE x == To(v, j)
<1>1. x.i = j
  BY ToFields, Zenon
<1> HIDE DEF x
<1>2. \/ x \in Parser(t)[<<"value", i>>] \/ x \in Parser(t)[<<"object", i>>]
      \/ x \in Parser(t)[<<"array", i>>]
  BY Zenon DEF ReadsV, ReadsO, ReadsA, x
<1>3. x.i \in Nat /\ x.i > i
  BY <1>2, ResultForm, Zenon
<1> QED
  BY <1>1, <1>3, Zenon

\* The first token of a value.
Opens(t, i) == i <= Len(t) /\ (t[i].t \in {"{", "[", "str"} \/ t[i].t \in Literals)

ValueForm(t, i, v, j) ==
    \/ Is(t, i, "{") /\ Is(t, i + 1, "}") /\ v = Obj(<<>>) /\ j = i + 2
    \/ Is(t, i, "{") /\ \E m : v = Obj(m) /\ ReadsO(t, i + 1, m, j)
    \/ Is(t, i, "[") /\ Is(t, i + 1, "]") /\ v = Arr(<<>>) /\ j = i + 2
    \/ Is(t, i, "[") /\ \E es : v = Arr(es) /\ ReadsA(t, i + 1, es, j)
    \/ Is(t, i, "str") /\ \E s \in StrOf(t[i].s) : v = Str(s) /\ j = i + 1
    \/ i <= Len(t) /\ t[i].t \in Literals /\ v = Lit(t[i].t) /\ j = i + 1

ArrayForm(t, i, es, j) ==
    \E v, c : /\ ReadsV(t, i, v, c)
              /\ \/ Is(t, c, ",") /\ \E r : ReadsA(t, c + 1, r, j) /\ es = <<v>> \o r
                 \/ Is(t, c, "]") /\ es = <<v>> /\ j = c + 1

ObjectForm(t, i, m, j) ==
    /\ Is(t, i, "str") /\ Is(t, i + 1, ":")
    /\ \E key \in StrOf(t[i].s) : \E v, c :
          /\ ReadsV(t, i + 2, v, c)
          /\ \/ Is(t, c, ",") /\ \E r : ReadsO(t, c + 1, r, j) /\ m = Over(r, One(key, v))
             \/ Is(t, c, "}") /\ m = One(key, v) /\ j = c + 1

\* An element of the table's entry, named by its parts.
LEMMA EntryReads ==
    ASSUME NEW t \in Seq(Tokens), NEW i \in 1 .. Len(t) + 1, NEW x
    PROVE  /\ x \in Parser(t)[<<"value", i>>] => ReadsV(t, i, x.v, x.i) /\ x = To(x.v, x.i)
           /\ x \in Parser(t)[<<"object", i>>] => ReadsO(t, i, x.v, x.i) /\ x = To(x.v, x.i)
           /\ x \in Parser(t)[<<"array", i>>] => ReadsA(t, i, x.v, x.i) /\ x = To(x.v, x.i)
<1>1. ASSUME x \in Parser(t)[<<"value", i>>]
      PROVE  ReadsV(t, i, x.v, x.i) /\ x = To(x.v, x.i)
  BY <1>1, ResultForm DEF ReadsV
<1>2. ASSUME x \in Parser(t)[<<"object", i>>]
      PROVE  ReadsO(t, i, x.v, x.i) /\ x = To(x.v, x.i)
  BY <1>2, ResultForm DEF ReadsO
<1>3. ASSUME x \in Parser(t)[<<"array", i>>]
      PROVE  ReadsA(t, i, x.v, x.i) /\ x = To(x.v, x.i)
  BY <1>3, ResultForm DEF ReadsA
<1> QED
  BY <1>1, <1>2, <1>3, Zenon

\* array() as a relation.
LEMMA ReadsAForm ==
    ASSUME NEW t \in Seq(Tokens), NEW i \in 1 .. Len(t) + 1, NEW es, NEW j
    PROVE  ReadsA(t, i, es, j) <=> ArrayForm(t, i, es, j)
<1> DEFINE P == Parser(t)
           x == To(es, j)
<1>0. Len(t) \in Nat
  OBVIOUS
<1>1. ReadsA(t, i, es, j) <=> ArrayMade(t, i, P, x)
  BY TableEntries, Zenon DEF ReadsA
<1>2. ASSUME NEW c \in Nat, c > i, Is(t, c, ",") PROVE c + 1 \in 1 .. Len(t) + 1
  <2>1. c <= Len(t)
    BY <1>2, IsThere, Zenon
  <2> QED
    BY <1>0, <2>1
<1>3. \A c : Is(t, c, "]") => ~Is(t, c, ",")
  BY DEF Is
<1> HIDE DEF P, x
<1>4. ASSUME ArrayMade(t, i, P, x) PROVE ArrayForm(t, i, es, j)
  <2>1. PICK child \in P[<<"value", i>>] : ArrayEnds(t, i, P, child, x)
    BY <1>4, Zenon DEF ArrayMade
  <2>2. ReadsV(t, i, child.v, child.i)
    BY EntryReads, Zenon DEF P
  <2>3. child.i \in Nat /\ child.i > i
    BY <2>2, ReadsOn, Zenon
  <2>4. CASE Is(t, child.i, ",")
    <3>1. PICK rest \in P[<<"array", child.i + 1>>] : x = To(<<child.v>> \o rest.v, rest.i)
      BY <2>1, <2>4, Zenon DEF ArrayEnds
    <3>2. child.i + 1 \in 1 .. Len(t) + 1
      BY <1>2, <2>3, <2>4, Zenon
    <3>3. ReadsA(t, child.i + 1, rest.v, rest.i)
      BY <3>2, EntryReads, Zenon DEF P
    <3>4. es = <<child.v>> \o rest.v /\ j = rest.i
      BY <3>1 DEF x, To
    <3> QED
      BY <2>2, <2>4, <3>3, <3>4, Zenon DEF ArrayForm
  <2>5. CASE ~Is(t, child.i, ",")
    <3>1. Is(t, child.i, "]") /\ x = To(<<child.v>>, child.i + 1)
      BY <2>1, <2>5, Zenon DEF ArrayEnds
    <3>2. es = <<child.v>> /\ j = child.i + 1
      BY <3>1 DEF x, To
    <3> QED
      BY <2>2, <3>1, <3>2, Zenon DEF ArrayForm
  <2> QED
    BY <2>4, <2>5, Zenon
<1>5. ASSUME ArrayForm(t, i, es, j) PROVE ArrayMade(t, i, P, x)
  <2>1. PICK v, c : /\ ReadsV(t, i, v, c)
                    /\ \/ Is(t, c, ",") /\ \E r : ReadsA(t, c + 1, r, j) /\ es = <<v>> \o r
                       \/ Is(t, c, "]") /\ es = <<v>> /\ j = c + 1
    BY <1>5, Zenon DEF ArrayForm
  <2> DEFINE child == To(v, c)
  <2>2. child.v = v /\ child.i = c
    BY ToFields, Zenon
  <2>3. child \in P[<<"value", i>>]
    BY <2>1, Zenon DEF P, ReadsV
  <2> HIDE DEF child
  <2>4. CASE Is(t, c, ",")
    <3>1. PICK r : ReadsA(t, c + 1, r, j) /\ es = <<v>> \o r
      BY <1>3, <2>1, <2>4, Zenon
    <3> DEFINE rest == To(r, j)
    <3>2. rest.v = r /\ rest.i = j
      BY ToFields, Zenon
    <3>3. rest \in P[<<"array", c + 1>>]
      BY <3>1, Zenon DEF P, ReadsA
    <3> HIDE DEF rest
    <3>4. x = To(<<v>> \o rest.v, rest.i)
      BY <3>1, <3>2 DEF x
    <3>5. ArrayEnds(t, i, P, child, x)
      BY <2>2, <2>4, <3>3, <3>4, Zenon DEF ArrayEnds
    <3> QED
      BY <2>3, <3>5, Zenon DEF ArrayMade
  <2>5. CASE ~Is(t, c, ",")
    <3>1. Is(t, c, "]") /\ es = <<v>> /\ j = c + 1
      BY <2>1, <2>5, Zenon
    <3>2. x = To(<<v>>, c + 1)
      BY <3>1 DEF x
    <3>3. ArrayEnds(t, i, P, child, x)
      BY <2>2, <2>5, <3>1, <3>2, Zenon DEF ArrayEnds
    <3> QED
      BY <2>3, <3>3, Zenon DEF ArrayMade
  <2> QED
    BY <2>4, <2>5, Zenon
<1> QED
  BY <1>1, <1>4, <1>5, Zenon

\* object() as a relation.
LEMMA ReadsOForm ==
    ASSUME NEW t \in Seq(Tokens), NEW i \in 1 .. Len(t) + 1, NEW m, NEW j
    PROVE  ReadsO(t, i, m, j) <=> ObjectForm(t, i, m, j)
<1> DEFINE P == Parser(t)
           x == To(m, j)
<1>0. Len(t) \in Nat
  OBVIOUS
<1>1. ReadsO(t, i, m, j) <=> ObjectMade(t, i, P, x)
  BY TableEntries, Zenon DEF ReadsO
<1>2. ASSUME NEW c \in Nat, c > i + 2, Is(t, c, ",") PROVE c + 1 \in 1 .. Len(t) + 1
  <2>1. c <= Len(t)
    BY <1>2, IsThere, Zenon
  <2> QED
    BY <1>0, <2>1
<1>3. \A c : Is(t, c, "}") => ~Is(t, c, ",")
  BY DEF Is
<1>4. ASSUME Is(t, i + 1, ":") PROVE i + 2 \in 1 .. Len(t) + 1
  <2>1. i + 1 <= Len(t)
    BY <1>4, IsThere, Zenon
  <2> QED
    BY <1>0, <2>1
<1> HIDE DEF P, x
<1>5. ASSUME ObjectMade(t, i, P, x) PROVE ObjectForm(t, i, m, j)
  <2>1. Is(t, i, "str") /\ Is(t, i + 1, ":")
    BY <1>5, Zenon DEF ObjectMade
  <2>2. PICK key \in StrOf(t[i].s), child \in P[<<"value", i + 2>>] :
               ObjectEnds(t, i, P, key, child, x)
    BY <1>5, Zenon DEF ObjectMade
  <2>3. i + 2 \in 1 .. Len(t) + 1
    BY <1>4, <2>1, Zenon
  <2>4. ReadsV(t, i + 2, child.v, child.i)
    BY <2>3, EntryReads, Zenon DEF P
  <2>5. child.i \in Nat /\ child.i > i + 2
    BY <2>3, <2>4, ReadsOn, Zenon
  <2>6. CASE Is(t, child.i, ",")
    <3>1. PICK rest \in P[<<"object", child.i + 1>>] :
                 x = To(Over(rest.v, One(key, child.v)), rest.i)
      BY <2>2, <2>6, Zenon DEF ObjectEnds
    <3>2. child.i + 1 \in 1 .. Len(t) + 1
      BY <1>2, <2>5, <2>6, Zenon
    <3>3. ReadsO(t, child.i + 1, rest.v, rest.i)
      BY <3>2, EntryReads, Zenon DEF P
    <3>4. m = Over(rest.v, One(key, child.v)) /\ j = rest.i
      BY <3>1 DEF x, To
    <3> QED
      BY <2>1, <2>4, <2>6, <3>3, <3>4, Zenon DEF ObjectForm
  <2>7. CASE ~Is(t, child.i, ",")
    <3>1. Is(t, child.i, "}") /\ x = To(One(key, child.v), child.i + 1)
      BY <2>2, <2>7, Zenon DEF ObjectEnds
    <3>2. m = One(key, child.v) /\ j = child.i + 1
      BY <3>1 DEF x, To
    <3> QED
      BY <2>1, <2>4, <3>1, <3>2, Zenon DEF ObjectForm
  <2> QED
    BY <2>6, <2>7, Zenon
<1>6. ASSUME ObjectForm(t, i, m, j) PROVE ObjectMade(t, i, P, x)
  <2>1. Is(t, i, "str") /\ Is(t, i + 1, ":")
    BY <1>6, Zenon DEF ObjectForm
  <2>2. PICK key \in StrOf(t[i].s) : \E v, c :
          /\ ReadsV(t, i + 2, v, c)
          /\ \/ Is(t, c, ",") /\ \E r : ReadsO(t, c + 1, r, j) /\ m = Over(r, One(key, v))
             \/ Is(t, c, "}") /\ m = One(key, v) /\ j = c + 1
    BY <1>6, Zenon DEF ObjectForm
  <2>3. PICK v, c :
          /\ ReadsV(t, i + 2, v, c)
          /\ \/ Is(t, c, ",") /\ \E r : ReadsO(t, c + 1, r, j) /\ m = Over(r, One(key, v))
             \/ Is(t, c, "}") /\ m = One(key, v) /\ j = c + 1
    BY <2>2, Zenon
  <2> DEFINE child == To(v, c)
  <2>4. child.v = v /\ child.i = c
    BY ToFields, Zenon
  <2>5. child \in P[<<"value", i + 2>>]
    BY <2>3, Zenon DEF P, ReadsV
  <2> HIDE DEF child
  <2>6. CASE Is(t, c, ",")
    <3>1. PICK r : ReadsO(t, c + 1, r, j) /\ m = Over(r, One(key, v))
      BY <1>3, <2>3, <2>6, Zenon
    <3> DEFINE rest == To(r, j)
    <3>2. rest.v = r /\ rest.i = j
      BY ToFields, Zenon
    <3>3. rest \in P[<<"object", c + 1>>]
      BY <3>1, Zenon DEF P, ReadsO
    <3> HIDE DEF rest
    <3>4. x = To(Over(rest.v, One(key, v)), rest.i)
      BY <3>1, <3>2, Zenon DEF x
    <3>5. ObjectEnds(t, i, P, key, child, x)
      BY <2>4, <2>6, <3>3, <3>4, Zenon DEF ObjectEnds
    <3> QED
      BY <2>1, <2>5, <3>5, Zenon DEF ObjectMade
  <2>7. CASE ~Is(t, c, ",")
    <3>1. Is(t, c, "}") /\ m = One(key, v) /\ j = c + 1
      BY <2>3, <2>7, Zenon
    <3>2. x = To(One(key, v), c + 1)
      BY <3>1, Zenon DEF x
    <3>3. ObjectEnds(t, i, P, key, child, x)
      BY <2>4, <2>7, <3>1, <3>2, Zenon DEF ObjectEnds
    <3> QED
      BY <2>1, <2>5, <3>3, Zenon DEF ObjectMade
  <2> QED
    BY <2>6, <2>7, Zenon
<1> QED
  BY <1>1, <1>5, <1>6, Zenon

\* A value, and a list of elements, starts with a token that opens one; members
\* start with a key.
LEMMA ReadsOpens ==
    ASSUME NEW t \in Seq(Tokens), NEW i \in 1 .. Len(t) + 1, NEW v, NEW j
    PROVE  /\ ReadsV(t, i, v, j) => Opens(t, i)
           /\ ReadsA(t, i, v, j) => Opens(t, i)
           /\ ReadsO(t, i, v, j) => Is(t, i, "str")
<1>1. ASSUME NEW w, NEW k, ReadsV(t, i, w, k) PROVE Opens(t, i)
  <2>1. ValueMade(t, i, Parser(t), To(w, k))
    BY <1>1, TableEntries, Zenon DEF ReadsV
  <2> QED
    BY <2>1, Zenon DEF ValueMade, Opens
<1>2. ASSUME ReadsA(t, i, v, j) PROVE Opens(t, i)
  BY <1>1, <1>2, ReadsAForm, Zenon DEF ArrayForm
<1>3. ASSUME ReadsO(t, i, v, j) PROVE Is(t, i, "str")
  BY <1>3, ReadsOForm, Zenon DEF ObjectForm
<1> QED
  BY <1>1, <1>2, <1>3, Zenon

\* value() as a relation.
LEMMA ReadsVForm ==
    ASSUME NEW t \in Seq(Tokens), NEW i \in 1 .. Len(t) + 1, NEW v, NEW j
    PROVE  ReadsV(t, i, v, j) <=> ValueForm(t, i, v, j)
<1> DEFINE P == Parser(t)
           x == To(v, j)
<1>0. Len(t) \in Nat
  OBVIOUS
<1>1. ReadsV(t, i, v, j) <=> ValueMade(t, i, P, x)
  BY TableEntries, Zenon DEF ReadsV
<1>2. ASSUME NEW w, NEW k, x = To(w, k) PROVE v = w /\ j = k
  BY <1>2, ToInjective
<1>3. ASSUME i <= Len(t) PROVE i + 1 \in 1 .. Len(t) + 1
  BY <1>0, <1>3
<1>4. ASSUME i <= Len(t), NEW m, NEW k, ReadsO(t, i + 1, m, k) PROVE ~Is(t, i + 1, "}")
  <2>1. Is(t, i + 1, "str")
    BY <1>3, <1>4, ReadsOpens, Zenon
  <2> QED
    BY <2>1 DEF Is
<1>5. ASSUME i <= Len(t), NEW es, NEW k, ReadsA(t, i + 1, es, k) PROVE ~Is(t, i + 1, "]")
  <2>1. Opens(t, i + 1)
    BY <1>3, <1>5, ReadsOpens, Zenon
  <2> QED
    BY <2>1 DEF Is, Opens, Literals
<1> HIDE DEF P, x
<1>6. ASSUME ValueMade(t, i, P, x) PROVE ValueForm(t, i, v, j)
  <2>0. i <= Len(t) /\ i + 1 \in 1 .. Len(t) + 1
    BY <1>3, <1>6, Zenon DEF ValueMade
  <2>1. CASE t[i].t = "{" /\ Is(t, i + 1, "}") /\ x = To(Obj(<<>>), i + 2)
    <3>1. v = Obj(<<>>) /\ j = i + 2
      BY <2>1 DEF x, To
    <3> QED
      BY <2>0, <2>1, <3>1, Zenon DEF ValueForm, Is
  <2>2. CASE /\ t[i].t = "{" /\ ~Is(t, i + 1, "}")
             /\ \E r \in P[<<"object", i + 1>>] : x = To(Obj(r.v), r.i)
    <3>1. PICK r \in P[<<"object", i + 1>>] : x = To(Obj(r.v), r.i)
      BY <2>2, Zenon
    <3>2. ReadsO(t, i + 1, r.v, r.i)
      BY <2>0, EntryReads, Zenon DEF P
    <3>3. v = Obj(r.v) /\ j = r.i
      BY <3>1 DEF x, To
    <3> QED
      BY <2>0, <2>2, <3>2, <3>3, Zenon DEF ValueForm, Is
  <2>3. CASE t[i].t = "[" /\ Is(t, i + 1, "]") /\ x = To(Arr(<<>>), i + 2)
    <3>1. v = Arr(<<>>) /\ j = i + 2
      BY <2>3 DEF x, To
    <3> QED
      BY <2>0, <2>3, <3>1, Zenon DEF ValueForm, Is
  <2>4. CASE /\ t[i].t = "[" /\ ~Is(t, i + 1, "]")
             /\ \E r \in P[<<"array", i + 1>>] : x = To(Arr(r.v), r.i)
    <3>1. PICK r \in P[<<"array", i + 1>>] : x = To(Arr(r.v), r.i)
      BY <2>4, Zenon
    <3>2. ReadsA(t, i + 1, r.v, r.i)
      BY <2>0, EntryReads, Zenon DEF P
    <3>3. v = Arr(r.v) /\ j = r.i
      BY <3>1 DEF x, To
    <3> QED
      BY <2>0, <2>4, <3>2, <3>3, Zenon DEF ValueForm, Is
  <2>5. CASE t[i].t = "str" /\ \E s \in StrOf(t[i].s) : x = To(Str(s), i + 1)
    <3>1. PICK s \in StrOf(t[i].s) : x = To(Str(s), i + 1)
      BY <2>5, Zenon
    <3>2. v = Str(s) /\ j = i + 1
      BY <3>1 DEF x, To
    <3> QED
      BY <2>0, <2>5, <3>2, Zenon DEF ValueForm, Is
  <2>6. CASE t[i].t \in Literals /\ x = To(Lit(t[i].t), i + 1)
    <3>1. v = Lit(t[i].t) /\ j = i + 1
      BY <2>6 DEF x, To
    <3> QED
      BY <2>0, <2>6, <3>1, Zenon DEF ValueForm
  <2> QED
    BY <1>6, <2>1, <2>2, <2>3, <2>4, <2>5, <2>6, Zenon DEF ValueMade
<1>7. ASSUME ValueForm(t, i, v, j) PROVE ValueMade(t, i, P, x)
  <2>0. i <= Len(t)
    BY <1>7, Zenon DEF ValueForm, Is
  <2>1. CASE Is(t, i, "{") /\ Is(t, i + 1, "}") /\ v = Obj(<<>>) /\ j = i + 2
    BY <2>0, <2>1, Zenon DEF ValueMade, Is, x
  <2>2. CASE Is(t, i, "{") /\ \E m : v = Obj(m) /\ ReadsO(t, i + 1, m, j)
    <3>1. PICK m : v = Obj(m) /\ ReadsO(t, i + 1, m, j)
      BY <2>2, Zenon
    <3>2. ~Is(t, i + 1, "}")
      BY <1>4, <2>0, <3>1, Zenon
    <3> DEFINE r == To(m, j)
    <3>3. r \in P[<<"object", i + 1>>] /\ r.v = m /\ r.i = j
      BY <3>1, ToFields, Zenon DEF ReadsO, P
    <3> HIDE DEF r
    <3>4. x = To(Obj(r.v), r.i)
      BY <3>1, <3>3, Zenon DEF x
    <3> QED
      BY <2>0, <2>2, <3>2, <3>3, <3>4, Zenon DEF ValueMade, Is
  <2>3. CASE Is(t, i, "[") /\ Is(t, i + 1, "]") /\ v = Arr(<<>>) /\ j = i + 2
    BY <2>0, <2>3, Zenon DEF ValueMade, Is, x
  <2>4. CASE Is(t, i, "[") /\ \E es : v = Arr(es) /\ ReadsA(t, i + 1, es, j)
    <3>1. PICK es : v = Arr(es) /\ ReadsA(t, i + 1, es, j)
      BY <2>4, Zenon
    <3>2. ~Is(t, i + 1, "]")
      BY <1>5, <2>0, <3>1, Zenon
    <3> DEFINE r == To(es, j)
    <3>3. r \in P[<<"array", i + 1>>] /\ r.v = es /\ r.i = j
      BY <3>1, ToFields, Zenon DEF ReadsA, P
    <3> HIDE DEF r
    <3>4. x = To(Arr(r.v), r.i)
      BY <3>1, <3>3, Zenon DEF x
    <3> QED
      BY <2>0, <2>4, <3>2, <3>3, <3>4, Zenon DEF ValueMade, Is
  <2>5. CASE Is(t, i, "str") /\ \E s \in StrOf(t[i].s) : v = Str(s) /\ j = i + 1
    BY <2>0, <2>5, Zenon DEF ValueMade, Is, x
  <2>6. CASE i <= Len(t) /\ t[i].t \in Literals /\ v = Lit(t[i].t) /\ j = i + 1
    BY <2>0, <2>6, Zenon DEF ValueMade, x
  <2> QED
    BY <1>7, <2>1, <2>2, <2>3, <2>4, <2>5, <2>6, Zenon DEF ValueForm
<1> QED
  BY <1>1, <1>6, <1>7, Zenon

\* Whatever is read lies within the text; elements end with their bracket and
\* members with their brace.
LEMMA ReadsEnds ==
    ASSUME NEW t \in Seq(Tokens), NEW i0 \in 1 .. Len(t) + 1
    PROVE  /\ \A v, j : ReadsV(t, i0, v, j) => j <= Len(t) + 1
           /\ \A es, j : ReadsA(t, i0, es, j) =>
                 j <= Len(t) + 1 /\ Is(t, j - 1, "]") /\ j - 1 > i0
           /\ \A m, j : ReadsO(t, i0, m, j) =>
                 j <= Len(t) + 1 /\ Is(t, j - 1, "}") /\ j - 1 > i0
<1> DEFINE n       == Len(t)
           GoodV(i) == \A v, j : ReadsV(t, i, v, j) => j <= n + 1
           GoodA(i) == \A es, j : ReadsA(t, i, es, j) =>
                          j <= n + 1 /\ Is(t, j - 1, "]") /\ j - 1 > i
           GoodO(i) == \A m, j : ReadsO(t, i, m, j) =>
                          j <= n + 1 /\ Is(t, j - 1, "}") /\ j - 1 > i
           T == {i \in 1 .. n + 1 : GoodV(i) /\ GoodA(i) /\ GoodO(i)}
<1>1. n \in Nat
  OBVIOUS
<1>2. ASSUME NEW i \in 1 .. n + 1, \A k \in 1 .. n + 1 : k > i => k \in T
      PROVE  i \in T
  <2>0. ASSUME NEW k \in 1 .. n + 1, k > i PROVE GoodV(k) /\ GoodA(k) /\ GoodO(k)
    BY <1>2, <2>0, Zenon
  <2> HIDE DEF T, n
  <2>1. ASSUME NEW c \in Nat, c > i, NEW tok, Is(t, c, tok)
        PROVE  c + 1 \in 1 .. n + 1 /\ c + 1 > i /\ (c + 1) - 1 = c
    <3>1. c <= n
      BY <2>1, IsThere, Zenon DEF n
    <3> QED
      BY <1>1, <2>1, <3>1
  <2>2. GoodV(i)
    <3> SUFFICES ASSUME NEW v, NEW j, ReadsV(t, i, v, j) PROVE j <= n + 1
      BY Zenon
    <3>1. ValueForm(t, i, v, j)
      BY ReadsVForm, Zenon DEF n
    <3>2. i <= n
      BY <3>1, Zenon DEF ValueForm, Is, n
    <3>3. i + 1 \in 1 .. n + 1 /\ i + 1 > i /\ i + 1 <= n + 1
      BY <1>1, <3>2
    <3>4. ASSUME NEW tok, Is(t, i + 1, tok) PROVE i + 2 <= n + 1
      <4>1. i + 1 <= n
        BY <3>4, IsThere, Zenon DEF n
      <4> QED
        BY <1>1, <4>1
    <3>5. GoodA(i + 1) /\ GoodO(i + 1)
      BY <2>0, <3>3, Zenon
    <3> QED
      BY <3>1, <3>3, <3>4, <3>5, Zenon DEF ValueForm
  <2>3. GoodA(i)
    <3> SUFFICES ASSUME NEW es, NEW j, ReadsA(t, i, es, j)
                 PROVE  j <= n + 1 /\ Is(t, j - 1, "]") /\ j - 1 > i
      BY Zenon
    <3>0. ArrayForm(t, i, es, j)
      BY ReadsAForm, Zenon DEF n
    <3>1. PICK v, c : /\ ReadsV(t, i, v, c)
                      /\ \/ Is(t, c, ",") /\ \E r : ReadsA(t, c + 1, r, j) /\ es = <<v>> \o r
                         \/ Is(t, c, "]") /\ es = <<v>> /\ j = c + 1
      BY <3>0, Zenon DEF ArrayForm
    <3>2. c \in Nat /\ c > i
      BY <3>1, ReadsOn, Zenon DEF n
    <3>3. CASE Is(t, c, ",") /\ \E r : ReadsA(t, c + 1, r, j) /\ es = <<v>> \o r
      <4>1. c + 1 \in 1 .. n + 1 /\ c + 1 > i
        BY <2>1, <3>2, <3>3, Zenon
      <4>2. GoodA(c + 1)
        BY <2>0, <4>1, Zenon
      <4>3. PICK r : ReadsA(t, c + 1, r, j)
        BY <3>3, Zenon
      <4>4. j <= n + 1 /\ Is(t, j - 1, "]") /\ j - 1 > c + 1
        BY <4>2, <4>3, Zenon
      <4>5. j \in Nat
        BY <4>1, <4>3, ReadsOn, Zenon DEF n
      <4>6. j - 1 > i
        BY <3>2, <4>4, <4>5
      <4> QED
        BY <4>4, <4>6, Zenon
    <3>4. CASE Is(t, c, "]") /\ es = <<v>> /\ j = c + 1
      <4>1. c + 1 \in 1 .. n + 1 /\ (c + 1) - 1 = c
        BY <2>1, <3>2, <3>4, Zenon
      <4>2. c + 1 <= n + 1
        BY <1>1, <4>1
      <4> QED
        BY <3>2, <3>4, <4>1, <4>2, Zenon
    <3> QED
      BY <3>1, <3>3, <3>4, Zenon
  <2>4. GoodO(i)
    <3> SUFFICES ASSUME NEW m, NEW j, ReadsO(t, i, m, j)
                 PROVE  j <= n + 1 /\ Is(t, j - 1, "}") /\ j - 1 > i
      BY Zenon
    <3>1. ObjectForm(t, i, m, j)
      BY ReadsOForm, Zenon DEF n
    <3>2. PICK key, v, c :
              /\ ReadsV(t, i + 2, v, c)
              /\ \/ Is(t, c, ",") /\ \E r : ReadsO(t, c + 1, r, j) /\ m = Over(r, One(key, v))
                 \/ Is(t, c, "}") /\ m = One(key, v) /\ j = c + 1
      BY <3>1, Zenon DEF ObjectForm
    <3>3. i + 2 \in 1 .. n + 1
      <4>1. i + 1 <= n
        BY <3>1, IsThere, Zenon DEF ObjectForm, n
      <4> QED
        BY <1>1, <4>1
    <3>4. c \in Nat /\ c > i
      <4>1. c \in Nat /\ c > i + 2
        BY <3>2, <3>3, ReadsOn, Zenon DEF n
      <4> QED
        BY <4>1
    <3>5. CASE Is(t, c, ",") /\ \E r : ReadsO(t, c + 1, r, j) /\ m = Over(r, One(key, v))
      <4>1. c + 1 \in 1 .. n + 1 /\ c + 1 > i
        BY <2>1, <3>4, <3>5, Zenon
      <4>2. GoodO(c + 1)
        BY <2>0, <4>1, Zenon
      <4>3. PICK r : ReadsO(t, c + 1, r, j)
        BY <3>5, Zenon
      <4>4. j <= n + 1 /\ Is(t, j - 1, "}") /\ j - 1 > c + 1
        BY <4>2, <4>3, Zenon
      <4>5. j \in Nat
        BY <4>1, <4>3, ReadsOn, Zenon DEF n
      <4>6. j - 1 > i
        <5>1. c \in Nat /\ c > i /\ j \in Nat /\ j - 1 > c + 1
          BY <3>4, <4>4, <4>5, Zenon
        <5> QED
          BY <5>1
      <4> QED
        BY <4>4, <4>6, Zenon
    <3>6. CASE Is(t, c, "}") /\ m = One(key, v) /\ j = c + 1
      <4>1. c + 1 \in 1 .. n + 1 /\ (c + 1) - 1 = c
        BY <2>1, <3>4, <3>6, Zenon
      <4>2. c + 1 <= n + 1
        BY <1>1, <4>1
      <4> QED
        BY <3>4, <3>6, <4>1, <4>2, Zenon
    <3> QED
      BY <3>2, <3>5, <3>6, Zenon
  <2> HIDE DEF GoodV, GoodA, GoodO
  <2> QED
    BY <2>2, <2>3, <2>4, Zenon DEF T
<1>3. T \in SUBSET (1 .. n + 1)
  <2> HIDE DEF GoodV, GoodA, GoodO
  <2> QED
    OBVIOUS
<1> HIDE DEF T
<1>4. i0 \in T
  BY <1>1, <1>2, <1>3, Downward, Zenon
<1> QED
  BY <1>4, Zenon DEF T

Same(a, i, b, j) == a = b /\ i = j

\* From a place on there is one way to read a text.
LEMMA ReadsOne ==
    ASSUME NEW t \in Seq(Tokens), NEW i0 \in 1 .. Len(t) + 1
    PROVE  /\ \A v, j, w, k : ReadsV(t, i0, v, j) /\ ReadsV(t, i0, w, k) => Same(v, j, w, k)
           /\ \A v, j, w, k : ReadsA(t, i0, v, j) /\ ReadsA(t, i0, w, k) => Same(v, j, w, k)
           /\ \A v, j, w, k : ReadsO(t, i0, v, j) /\ ReadsO(t, i0, w, k) => Same(v, j, w, k)
<1> DEFINE n       == Len(t)
           OneV(i) == \A v, j, w, k : ReadsV(t, i, v, j) /\ ReadsV(t, i, w, k) => Same(v, j, w, k)
           OneA(i) == \A v, j, w, k : ReadsA(t, i, v, j) /\ ReadsA(t, i, w, k) => Same(v, j, w, k)
           OneO(i) == \A v, j, w, k : ReadsO(t, i, v, j) /\ ReadsO(t, i, w, k) => Same(v, j, w, k)
           T == {i \in 1 .. n + 1 : OneV(i) /\ OneA(i) /\ OneO(i)}
<1>1. n \in Nat
  OBVIOUS
<1>2. ASSUME NEW i \in 1 .. n + 1, \A k \in 1 .. n + 1 : k > i => k \in T
      PROVE  i \in T
  <2>0. ASSUME NEW k \in 1 .. n + 1, k > i PROVE OneV(k) /\ OneA(k) /\ OneO(k)
    BY <1>2, <2>0, Zenon
  <2> HIDE DEF T, n
  <2>1. ASSUME NEW c \in Nat, c > i, NEW tok, Is(t, c, tok) PROVE c + 1 \in 1 .. n + 1 /\ c + 1 > i
    <3>1. c <= n
      BY <2>1, IsThere, Zenon DEF n
    <3> QED
      BY <1>1, <2>1, <3>1
  <2>2. OneV(i)
    <3> SUFFICES ASSUME NEW v, NEW j, NEW w, NEW k, ReadsV(t, i, v, j), ReadsV(t, i, w, k)
                 PROVE  Same(v, j, w, k)
      BY Zenon
    <3>1. ValueForm(t, i, v, j) /\ ValueForm(t, i, w, k)
      BY ReadsVForm, Zenon DEF n
    <3>2. i <= n /\ i <= Len(t)
      BY <3>1, Zenon DEF ValueForm, Is, n
    <3>3. i + 1 \in 1 .. n + 1 /\ i + 1 > i
      BY <1>1, <3>2
    <3>4. OneA(i + 1) /\ OneO(i + 1)
      BY <2>0, <3>3, Zenon
    <3>5. ASSUME NEW m, NEW e PROVE ~(ReadsO(t, i + 1, m, e) /\ Is(t, i + 1, "}"))
      <4>1. ReadsO(t, i + 1, m, e) => Is(t, i + 1, "str")
        BY <3>3, ReadsOpens, Zenon DEF n
      <4>2. Is(t, i + 1, "str") => ~Is(t, i + 1, "}")
        BY DEF Is
      <4> QED
        BY <4>1, <4>2, Zenon
    <3>6. ASSUME NEW es, NEW e PROVE ~(ReadsA(t, i + 1, es, e) /\ Is(t, i + 1, "]"))
      <4>1. ReadsA(t, i + 1, es, e) => Opens(t, i + 1)
        BY <3>3, ReadsOpens, Zenon DEF n
      <4>2. Opens(t, i + 1) => ~Is(t, i + 1, "]")
        BY DEF Is, Opens, Literals
      <4> QED
        BY <4>1, <4>2, Zenon
    <3>7. CASE t[i].t = "{"
      <4>1. /\ ~Is(t, i, "[") /\ ~Is(t, i, "str") /\ t[i].t \notin Literals
        BY <3>7 DEF Is, Literals
      <4>2. CASE Is(t, i + 1, "}")
        <5>1. v = Obj(<<>>) /\ j = i + 2 /\ w = Obj(<<>>) /\ k = i + 2
          BY <3>1, <3>5, <4>1, <4>2, Zenon DEF ValueForm
        <5> QED
          BY <5>1 DEF Same
      <4>3. CASE ~Is(t, i + 1, "}")
        <5>1. PICK m1 : v = Obj(m1) /\ ReadsO(t, i + 1, m1, j)
          BY <3>1, <4>1, <4>3, Zenon DEF ValueForm
        <5>2. PICK m2 : w = Obj(m2) /\ ReadsO(t, i + 1, m2, k)
          BY <3>1, <4>1, <4>3, Zenon DEF ValueForm
        <5>3. Same(m1, j, m2, k)
          BY <3>4, <5>1, <5>2, Zenon
        <5> QED
          BY <5>1, <5>2, <5>3, Zenon DEF Same
      <4> QED
        BY <4>2, <4>3, Zenon
    <3>8. CASE t[i].t = "["
      <4>1. /\ ~Is(t, i, "{") /\ ~Is(t, i, "str") /\ t[i].t \notin Literals
        BY <3>8 DEF Is, Literals
      <4>2. CASE Is(t, i + 1, "]")
        <5>1. v = Arr(<<>>) /\ j = i + 2 /\ w = Arr(<<>>) /\ k = i + 2
          BY <3>1, <3>6, <4>1, <4>2, Zenon DEF ValueForm
        <5> QED
          BY <5>1 DEF Same
      <4>3. CASE ~Is(t, i + 1, "]")
        <5>1. PICK m1 : v = Arr(m1) /\ ReadsA(t, i + 1, m1, j)
          BY <3>1, <4>1, <4>3, Zenon DEF ValueForm
        <5>2. PICK m2 : w = Arr(m2) /\ ReadsA(t, i + 1, m2, k)
          BY <3>1, <4>1, <4>3, Zenon DEF ValueForm
        <5>3. Same(m1, j, m2, k)
          BY <3>4, <5>1, <5>2, Zenon
        <5> QED
          BY <5>1, <5>2, <5>3, Zenon DEF Same
      <4> QED
        BY <4>2, <4>3, Zenon
    <3>9. CASE t[i].t = "str"
      <4>1. /\ ~Is(t, i, "{") /\ ~Is(t, i, "[") /\ t[i].t \notin Literals
        BY <3>9 DEF Is, Literals
      <4>2. PICK s1 \in StrOf(t[i].s) : v = Str(s1) /\ j = i + 1
        BY <3>1, <4>1, Zenon DEF ValueForm
      <4>3. PICK s2 \in StrOf(t[i].s) : w = Str(s2) /\ k = i + 1
        BY <3>1, <4>1, Zenon DEF ValueForm
      <4>4. t[i].s \in Seq(Chars)
        <5>1. t[i] \in Tokens
          BY <3>2
        <5> QED
          BY <5>1 DEF Tokens
      <4>5. s1 = s2
        BY <4>4, StrOne, Zenon
      <4> QED
        BY <4>2, <4>3, <4>5, Zenon DEF Same
    <3>10. CASE t[i].t \notin {"{", "[", "str"}
      <4>1. /\ ~Is(t, i, "{") /\ ~Is(t, i, "[") /\ ~Is(t, i, "str")
        BY <3>10 DEF Is
      <4>2. v = Lit(t[i].t) /\ j = i + 1 /\ w = Lit(t[i].t) /\ k = i + 1
        BY <3>1, <4>1, Zenon DEF ValueForm
      <4> QED
        BY <4>2 DEF Same
    <3> QED
      BY <3>7, <3>8, <3>9, <3>10, Zenon
  <2>3. OneA(i)
    <3> SUFFICES ASSUME NEW v, NEW j, NEW w, NEW k, ReadsA(t, i, v, j), ReadsA(t, i, w, k)
                 PROVE  Same(v, j, w, k)
      BY Zenon
    <3>1. ArrayForm(t, i, v, j) /\ ArrayForm(t, i, w, k)
      BY ReadsAForm, Zenon DEF n
    <3>2. PICK x, c : /\ ReadsV(t, i, x, c)
                      /\ \/ Is(t, c, ",") /\ \E r : ReadsA(t, c + 1, r, j) /\ v = <<x>> \o r
                         \/ Is(t, c, "]") /\ v = <<x>> /\ j = c + 1
      BY <3>1, Zenon DEF ArrayForm
    <3>3. PICK y, d : /\ ReadsV(t, i, y, d)
                      /\ \/ Is(t, d, ",") /\ \E r : ReadsA(t, d + 1, r, k) /\ w = <<y>> \o r
                         \/ Is(t, d, "]") /\ w = <<y>> /\ k = d + 1
      BY <3>1, Zenon DEF ArrayForm
    <3>4. x = y /\ c = d
      BY <2>2, <3>2, <3>3, Zenon DEF Same
    <3>5. c \in Nat /\ c > i
      BY <3>2, ReadsOn, Zenon DEF n
    <3>6. CASE Is(t, c, ",")
      <4>1. ~Is(t, c, "]")
        BY <3>6 DEF Is
      <4>2. PICK r1 : ReadsA(t, c + 1, r1, j) /\ v = <<x>> \o r1
        BY <3>2, <4>1, Zenon
      <4>3. PICK r2 : ReadsA(t, c + 1, r2, k) /\ w = <<x>> \o r2
        BY <3>3, <3>4, <4>1, Zenon
      <4>4. OneA(c + 1)
        BY <2>0, <2>1, <3>5, <3>6, Zenon
      <4>5. Same(r1, j, r2, k)
        BY <4>2, <4>3, <4>4, Zenon
      <4> QED
        BY <4>2, <4>3, <4>5, Zenon DEF Same
    <3>7. CASE ~Is(t, c, ",")
      <4>1. v = <<x>> /\ j = c + 1 /\ w = <<y>> /\ k = d + 1
        BY <3>2, <3>3, <3>4, <3>7, Zenon
      <4> QED
        BY <3>4, <4>1, Zenon DEF Same
    <3> QED
      BY <3>6, <3>7, Zenon
  <2>4. OneO(i)
    <3> SUFFICES ASSUME NEW v, NEW j, NEW w, NEW k, ReadsO(t, i, v, j), ReadsO(t, i, w, k)
                 PROVE  Same(v, j, w, k)
      BY Zenon
    <3>1. ObjectForm(t, i, v, j) /\ ObjectForm(t, i, w, k)
      BY ReadsOForm, Zenon DEF n
    <3>2. i + 2 \in 1 .. n + 1 /\ i + 2 > i /\ i <= Len(t)
      <4>1. i + 1 <= n
        BY <3>1, IsThere, Zenon DEF ObjectForm, n
      <4>2. n = Len(t)
        BY Zenon DEF n
      <4> QED
        BY <1>1, <4>1, <4>2
    <3>3. PICK key1 \in StrOf(t[i].s) : \E x, c :
              /\ ReadsV(t, i + 2, x, c)
              /\ \/ Is(t, c, ",") /\ \E r : ReadsO(t, c + 1, r, j) /\ v = Over(r, One(key1, x))
                 \/ Is(t, c, "}") /\ v = One(key1, x) /\ j = c + 1
      BY <3>1, Zenon DEF ObjectForm
    <3>4. PICK key2 \in StrOf(t[i].s) : \E y, d :
              /\ ReadsV(t, i + 2, y, d)
              /\ \/ Is(t, d, ",") /\ \E r : ReadsO(t, d + 1, r, k) /\ w = Over(r, One(key2, y))
                 \/ Is(t, d, "}") /\ w = One(key2, y) /\ k = d + 1
      BY <3>1, Zenon DEF ObjectForm
    <3>5. PICK x, c :
              /\ ReadsV(t, i + 2, x, c)
              /\ \/ Is(t, c, ",") /\ \E r : ReadsO(t, c + 1, r, j) /\ v = Over(r, One(key1, x))
                 \/ Is(t, c, "}") /\ v = One(key1, x) /\ j = c + 1
      BY <3>3, Zenon
    <3>6. PICK y, d :
              /\ ReadsV(t, i + 2, y, d)
              /\ \/ Is(t, d, ",") /\ \E r : ReadsO(t, d + 1, r, k) /\ w = Over(r, One(key2, y))
                 \/ Is(t, d, "}") /\ w = One(key2, y) /\ k = d + 1
      BY <3>4, Zenon
    <3>7. key1 = key2
      <4>1. t[i] \in Tokens
        BY <3>2
      <4>2. t[i].s \in Seq(Chars)
        BY <4>1 DEF Tokens
      <4> QED
        BY <4>2, StrOne, Zenon
    <3>8. x = y /\ c = d
      BY <2>0, <3>2, <3>5, <3>6, Zenon DEF Same
    <3>9. c \in Nat /\ c > i
      <4>1. c \in Nat /\ c > i + 2
        BY <3>2, <3>5, ReadsOn, Zenon DEF n
      <4> QED
        BY <4>1
    <3>10. CASE Is(t, c, ",")
      <4>1. ~Is(t, c, "}")
        BY <3>10 DEF Is
      <4>2. PICK r1 : ReadsO(t, c + 1, r1, j) /\ v = Over(r1, One(key1, x))
        BY <3>5, <4>1, Zenon
      <4>3. PICK r2 : ReadsO(t, c + 1, r2, k) /\ w = Over(r2, One(key1, x))
        BY <3>6, <3>7, <3>8, <4>1, Zenon
      <4>4. OneO(c + 1)
        BY <2>0, <2>1, <3>9, <3>10, Zenon
      <4>5. Same(r1, j, r2, k)
        BY <4>2, <4>3, <4>4, Zenon
      <4> QED
        BY <4>2, <4>3, <4>5, Zenon DEF Same
    <3>11. CASE ~Is(t, c, ",")
      <4>1. v = One(key1, x) /\ j = c + 1 /\ w = One(key2, y) /\ k = d + 1
        BY <3>5, <3>6, <3>8, <3>11, Zenon
      <4> QED
        BY <3>7, <3>8, <4>1, Zenon DEF Same
    <3> QED
      BY <3>10, <3>11, Zenon
  <2> HIDE DEF OneV, OneA, OneO
  <2> QED
    BY <2>2, <2>3, <2>4, Zenon DEF T
<1>3. T \in SUBSET (1 .. n + 1)
  <2> HIDE DEF OneV, OneA, OneO
  <2> QED
    OBVIOUS
<1> HIDE DEF T
<1>4. i0 \in T
  BY <1>1, <1>2, <1>3, Downward, Zenon
<1> QED
  BY <1>4, Zenon DEF T

Starts(p, t) == Len(p) <= Len(t) /\ \A i \in 1 .. Len(p) : p[i] = t[i]

\* What is read of the start of a text is read of the whole.
LEMMA ReadsMore ==
    ASSUME NEW t \in Seq(Tokens), NEW p \in Seq(Tokens), Starts(p, t), NEW i0 \in 1 .. Len(p) + 1
    PROVE  \A v, j : ReadsV(p, i0, v, j) => ReadsV(t, i0, v, j)
<1> DEFINE n        == Len(p)
           MoreV(i) == \A v, j : ReadsV(p, i, v, j) => ReadsV(t, i, v, j)
           MoreA(i) == \A v, j : ReadsA(p, i, v, j) => ReadsA(t, i, v, j)
           MoreO(i) == \A v, j : ReadsO(p, i, v, j) => ReadsO(t, i, v, j)
           T == {i \in 1 .. n + 1 : MoreV(i) /\ MoreA(i) /\ MoreO(i)}
<1>1. n \in Nat /\ Len(t) \in Nat /\ n <= Len(t)
  BY Zenon, LenProperties DEF Starts
<1>2. ASSUME NEW i \in 1 .. n + 1 PROVE i \in 1 .. Len(t) + 1
  BY <1>1
<1>3. ASSUME NEW i \in Nat, i >= 1, NEW tok, Is(p, i, tok) PROVE Is(t, i, tok) /\ p[i] = t[i]
  <2>1. i <= n /\ p[i].t = tok
    BY <1>3, IsThere, Zenon
  <2>2. i \in 1 .. n /\ i <= Len(t)
    BY <1>1, <1>3, <2>1
  <2>3. p[i] = t[i]
    BY <2>2, Zenon DEF Starts
  <2> QED
    BY <2>1, <2>2, <2>3, Zenon DEF Is
<1>4. ASSUME NEW i \in 1 .. n + 1, \A k \in 1 .. n + 1 : k > i => k \in T
      PROVE  i \in T
  <2>0. ASSUME NEW k \in 1 .. n + 1, k > i PROVE MoreV(k) /\ MoreA(k) /\ MoreO(k)
    BY <1>4, <2>0, Zenon
  <2> HIDE DEF T, n
  <2>1. ASSUME NEW c \in Nat, c > i, NEW tok, Is(p, c, tok)
        PROVE  c + 1 \in 1 .. n + 1 /\ c + 1 > i /\ c >= 1
    <3>1. c <= n
      BY <2>1, IsThere, Zenon DEF n
    <3> QED
      BY <1>1, <2>1, <3>1
  <2>2. i \in Nat /\ i >= 1 /\ i + 1 \in Nat /\ i + 1 >= 1 /\ i \in 1 .. Len(t) + 1
    BY <1>1, <1>2
  <2>3. MoreV(i)
    <3> SUFFICES ASSUME NEW v, NEW j, ReadsV(p, i, v, j) PROVE ReadsV(t, i, v, j)
      BY Zenon
    <3>1. ValueForm(p, i, v, j)
      BY ReadsVForm, Zenon DEF n
    <3>2. i <= n /\ i <= Len(p)
      BY <3>1, Zenon DEF ValueForm, Is, n
    <3>3. i + 1 \in 1 .. n + 1 /\ i + 1 > i /\ i \in 1 .. n /\ i <= Len(t)
      BY <1>1, <3>2
    <3>4. MoreA(i + 1) /\ MoreO(i + 1)
      BY <2>0, <3>3, Zenon
    <3>5. p[i] = t[i]
      BY <3>3, Zenon DEF Starts, n
    <3>6. ASSUME NEW tok PROVE (Is(p, i, tok) => Is(t, i, tok)) /\ (Is(p, i + 1, tok) => Is(t, i + 1, tok))
      BY <1>3, <2>2, Zenon
    <3>7. ValueForm(t, i, v, j)
      BY <3>1, <3>3, <3>4, <3>5, <3>6, Zenon DEF ValueForm
    <3> QED
      BY <2>2, <3>7, ReadsVForm, Zenon
  <2>4. MoreA(i)
    <3> SUFFICES ASSUME NEW v, NEW j, ReadsA(p, i, v, j) PROVE ReadsA(t, i, v, j)
      BY Zenon
    <3>1. ArrayForm(p, i, v, j)
      BY ReadsAForm, Zenon DEF n
    <3>2. PICK x, c : /\ ReadsV(p, i, x, c)
                      /\ \/ Is(p, c, ",") /\ \E r : ReadsA(p, c + 1, r, j) /\ v = <<x>> \o r
                         \/ Is(p, c, "]") /\ v = <<x>> /\ j = c + 1
      BY <3>1, Zenon DEF ArrayForm
    <3>3. c \in Nat /\ c > i
      BY <3>2, ReadsOn, Zenon DEF n
    <3>4. ReadsV(t, i, x, c)
      BY <2>3, <3>2, Zenon
    <3>5. CASE Is(p, c, ",") /\ \E r : ReadsA(p, c + 1, r, j) /\ v = <<x>> \o r
      <4>1. c + 1 \in 1 .. n + 1 /\ c + 1 > i /\ c >= 1
        BY <2>1, <3>3, <3>5, Zenon
      <4>2. MoreA(c + 1)
        BY <2>0, <4>1, Zenon
      <4>3. Is(t, c, ",")
        BY <1>3, <3>3, <3>5, <4>1, Zenon
      <4>4. ArrayForm(t, i, v, j)
        BY <3>4, <3>5, <4>2, <4>3, Zenon DEF ArrayForm
      <4> QED
        BY <2>2, <4>4, ReadsAForm, Zenon
    <3>6. CASE Is(p, c, "]") /\ v = <<x>> /\ j = c + 1
      <4>1. c >= 1
        BY <2>1, <3>3, <3>6, Zenon
      <4>2. Is(t, c, "]")
        BY <1>3, <3>3, <3>6, <4>1, Zenon
      <4>3. ArrayForm(t, i, v, j)
        BY <3>4, <3>6, <4>2, Zenon DEF ArrayForm
      <4> QED
        BY <2>2, <4>3, ReadsAForm, Zenon
    <3> QED
      BY <3>2, <3>5, <3>6, Zenon
  <2>5. MoreO(i)
    <3> SUFFICES ASSUME NEW v, NEW j, ReadsO(p, i, v, j) PROVE ReadsO(t, i, v, j)
      BY Zenon
    <3>1. ObjectForm(p, i, v, j)
      BY ReadsOForm, Zenon DEF n
    <3>2. Is(p, i, "str") /\ Is(p, i + 1, ":")
      BY <3>1, Zenon DEF ObjectForm
    <3>3. Is(t, i, "str") /\ Is(t, i + 1, ":") /\ p[i] = t[i]
      BY <1>3, <2>2, <3>2, Zenon
    <3>4. i + 2 \in 1 .. n + 1 /\ i + 2 > i
      <4>1. i + 1 <= n
        BY <3>2, IsThere, Zenon DEF n
      <4> QED
        BY <1>1, <4>1
    <3>5. PICK key \in StrOf(p[i].s) : \E x, c :
              /\ ReadsV(p, i + 2, x, c)
              /\ \/ Is(p, c, ",") /\ \E r : ReadsO(p, c + 1, r, j) /\ v = Over(r, One(key, x))
                 \/ Is(p, c, "}") /\ v = One(key, x) /\ j = c + 1
      BY <3>1, Zenon DEF ObjectForm
    <3>6. PICK x, c :
              /\ ReadsV(p, i + 2, x, c)
              /\ \/ Is(p, c, ",") /\ \E r : ReadsO(p, c + 1, r, j) /\ v = Over(r, One(key, x))
                 \/ Is(p, c, "}") /\ v = One(key, x) /\ j = c + 1
      BY <3>5, Zenon
    <3>7. c \in Nat /\ c > i
      <4>1. c \in Nat /\ c > i + 2
        BY <3>4, <3>6, ReadsOn, Zenon DEF n
      <4> QED
        BY <4>1
    <3>8. ReadsV(t, i + 2, x, c) /\ key \in StrOf(t[i].s)
      BY <2>0, <3>3, <3>4, <3>6, Zenon
    <3>9. CASE Is(p, c, ",") /\ \E r : ReadsO(p, c + 1, r, j) /\ v = Over(r, One(key, x))
      <4>1. c + 1 \in 1 .. n + 1 /\ c + 1 > i /\ c >= 1
        BY <2>1, <3>7, <3>9, Zenon
      <4>2. MoreO(c + 1)
        BY <2>0, <4>1, Zenon
      <4>3. Is(t, c, ",")
        BY <1>3, <3>7, <3>9, <4>1, Zenon
      <4>4. ObjectForm(t, i, v, j)
        BY <3>3, <3>8, <3>9, <4>2, <4>3, Zenon DEF ObjectForm
      <4> QED
        BY <2>2, <4>4, ReadsOForm, Zenon
    <3>10. CASE Is(p, c, "}") /\ v = One(key, x) /\ j = c + 1
      <4>1. c >= 1
        BY <2>1, <3>7, <3>10, Zenon
      <4>2. Is(t, c, "}")
        BY <1>3, <3>7, <3>10, <4>1, Zenon
      <4>3. ObjectForm(t, i, v, j)
        BY <3>3, <3>8, <3>10, <4>2, Zenon DEF ObjectForm
      <4> QED
        BY <2>2, <4>3, ReadsOForm, Zenon
    <3> QED
      BY <3>6, <3>9, <3>10, Zenon
  <2> HIDE DEF MoreV, MoreA, MoreO
  <2> QED
    BY <2>3, <2>4, <2>5, Zenon DEF T
<1>5. T \in SUBSET (1 .. n + 1)
  <2> HIDE DEF MoreV, MoreA, MoreO
  <2> QED
    OBVIOUS
<1> HIDE DEF T
<1>6. i0 \in T
  BY <1>1, <1>4, <1>5, Downward, Zenon
<1> QED
  BY <1>6, Zenon DEF T

-----------------------------------------------------------------------------
(* The reference's table                                                   *)

MKinds     == {"value", "list", "map"}
MPlaces(t) == MKinds \X (1 .. Len(t) + 1) \X (0 .. Len(t))

MRule(t, k, of, gr) ==
    IF k[1] = "value" THEN AsValue(t, k[2], k[3], of, gr)
    ELSE IF k[1] = "list" THEN AsList(t, k[2], k[3], of)
    ELSE AsMap(t, k[2], k[3], of, gr)

\* How long the part is; a list or a map of one value is as long as that.
MRank(k) ==
    (IF k[2] <= k[3] THEN 2 * (k[3] - k[2] + 1) ELSE 0) + (IF k[1] = "value" THEN 0 ELSE 1)

\* What a part means, as a disjunction of cases.
ValueMeant(t, a, b, of, x, gr) ==
    \/ a = b /\ t[a].t \in gr.literals /\ x = Lit(t[a].t)
    \/ a = b /\ t[a].t = "str" /\ \E s \in Spells(t[a].s, gr) : x = Str(s)
    \/ a < b /\ t[a].t = "[" /\ t[b].t = "]" /\ b = a + 1 /\ x = Arr(<<>>)
    \/ /\ a < b /\ t[a].t = "[" /\ t[b].t = "]" /\ b # a + 1
       /\ \E es \in of[<<"list", a + 1, b - 1>>] : x = Arr(es)
    \/ a < b /\ t[a].t = "{" /\ t[b].t = "}" /\ b = a + 1 /\ x = Obj(<<>>)
    \/ /\ a < b /\ t[a].t = "{" /\ t[b].t = "}" /\ b # a + 1
       /\ \E m \in of[<<"map", a + 1, b - 1>>] : x = Obj(m)

ListMeant(t, a, b, of, x) ==
    \/ \E v \in of[<<"value", a, b>>] : x = <<v>>
    \/ \E c \in Commas(t, a, b) :
          \E v \in of[<<"value", a, c - 1>>], es \in of[<<"list", c + 1, b>>] : x = <<v>> \o es

MemberMeant(t, a, b, of, x, gr) ==
    /\ a + 2 <= b /\ t[a].t = "str" /\ t[a + 1].t = ":"
    /\ \E key \in Spells(t[a].s, gr), v \in of[<<"value", a + 2, b>>] : x = One(key, v)

MapMeant(t, a, b, of, x, gr) ==
    \/ MemberMeant(t, a, b, of, x, gr)
    \/ \E c \in Commas(t, a, b) : \E first, later :
          /\ MemberMeant(t, a, c - 1, of, first, gr) /\ later \in of[<<"map", c + 1, b>>]
          /\ x = Over(later, first)

\* AsValue has what ValueMeant says.
LEMMA AsValueHas ==
    ASSUME NEW gr, Fits(gr), NEW t, NEW a \in Nat, NEW b \in Nat, NEW of, NEW x
    PROVE  x \in AsValue(t, a, b, of, gr) <=> ValueMeant(t, a, b, of, x, gr)
<1>1. "{" # "[" /\ "{" # "str" /\ "[" # "str"
  OBVIOUS
<1>2. "{" \notin gr.literals /\ "[" \notin gr.literals /\ "str" \notin gr.literals
  BY DEF Fits, Literals
<1>3. ~(a < b /\ a = b)
  OBVIOUS
<1> DEFINE In(l, r) == a < b /\ t[a].t = l /\ t[b].t = r
<1>4. AsValue(t, a, b, of, gr) =
          IF a = b /\ t[a].t \in gr.literals THEN {Lit(t[a].t)}
          ELSE IF a = b /\ t[a].t = "str" THEN {Str(s) : s \in Spells(t[a].s, gr)}
          ELSE IF In("[", "]")
               THEN IF b = a + 1 THEN {Arr(<<>>)} ELSE {Arr(es) : es \in of[<<"list", a + 1, b - 1>>]}
          ELSE IF In("{", "}")
               THEN IF b = a + 1 THEN {Obj(<<>>)} ELSE {Obj(m) : m \in of[<<"map", a + 1, b - 1>>]}
          ELSE {}
  BY Zenon DEF AsValue
<1> DEFINE A == IF b = a + 1 THEN {Arr(<<>>)} ELSE {Arr(es) : es \in of[<<"list", a + 1, b - 1>>]}
           O == IF b = a + 1 THEN {Obj(<<>>)} ELSE {Obj(m) : m \in of[<<"map", a + 1, b - 1>>]}
           S == {Str(s) : s \in Spells(t[a].s, gr)}
<1>5. x \in A <=> \/ b = a + 1 /\ x = Arr(<<>>)
                  \/ b # a + 1 /\ \E es \in of[<<"list", a + 1, b - 1>>] : x = Arr(es)
  BY Zenon
<1>6. x \in O <=> \/ b = a + 1 /\ x = Obj(<<>>)
                  \/ b # a + 1 /\ \E m \in of[<<"map", a + 1, b - 1>>] : x = Obj(m)
  BY Zenon
<1>7. x \in S <=> \E s \in Spells(t[a].s, gr) : x = Str(s)
  BY Zenon
<1> HIDE DEF A, O, S
<1>8. x \in AsValue(t, a, b, of, gr) <=>
          \/ a = b /\ t[a].t \in gr.literals /\ x = Lit(t[a].t)
          \/ a = b /\ t[a].t = "str" /\ x \in S
          \/ In("[", "]") /\ x \in A
          \/ In("{", "}") /\ x \in O
  <2>1. AsValue(t, a, b, of, gr) =
          IF a = b /\ t[a].t \in gr.literals THEN {Lit(t[a].t)}
          ELSE IF a = b /\ t[a].t = "str" THEN S
          ELSE IF In("[", "]") THEN A ELSE IF In("{", "}") THEN O ELSE {}
    BY <1>4, Zenon DEF A, O, S
  <2>2. CASE a = b /\ t[a].t \in gr.literals
    BY <1>2, <1>3, <2>1, <2>2, Zenon
  <2>3. CASE a = b /\ t[a].t = "str"
    BY <1>2, <1>3, <2>1, <2>3, Zenon
  <2>4. CASE In("[", "]")
    BY <1>1, <1>3, <2>1, <2>4, Zenon
  <2>5. CASE In("{", "}")
    BY <1>1, <1>3, <2>1, <2>5, Zenon
  <2>6. CASE /\ ~(a = b /\ t[a].t \in gr.literals) /\ ~(a = b /\ t[a].t = "str")
             /\ ~In("[", "]") /\ ~In("{", "}")
    <3> HIDE DEF In
    <3>1. AsValue(t, a, b, of, gr) = {}
      BY <2>1, <2>6, Zenon
    <3> QED
      BY <2>6, <3>1, Zenon
  <2> QED
    BY <2>2, <2>3, <2>4, <2>5, <2>6, Zenon
<1> QED
  BY <1>5, <1>6, <1>7, <1>8, Zenon DEF ValueMeant

\* AsList has what ListMeant says.
LEMMA AsListHas ==
    ASSUME NEW t, NEW a, NEW b, NEW of, NEW x
    PROVE  x \in AsList(t, a, b, of) <=> ListMeant(t, a, b, of, x)
<1> DEFINE Single == {<<v>> : v \in of[<<"value", a, b>>]}
           At(c) == {<<v>> \o es : v \in of[<<"value", a, c - 1>>], es \in of[<<"list", c + 1, b>>]}
<1>1. x \in Single <=> \E v \in of[<<"value", a, b>>] : x = <<v>>
  BY Zenon
<1>2. ASSUME NEW c
      PROVE  x \in At(c) <=> \E v \in of[<<"value", a, c - 1>>], es \in of[<<"list", c + 1, b>>] :
                                x = <<v>> \o es
  OBVIOUS
<1>3. AsList(t, a, b, of) = Single \cup UNION {At(c) : c \in Commas(t, a, b)}
  BY DEF AsList
<1> HIDE DEF Single, At
<1>4. x \in AsList(t, a, b, of) <=> x \in Single \/ \E c \in Commas(t, a, b) : x \in At(c)
  BY <1>3
<1> QED
  BY <1>1, <1>2, <1>4, Zenon DEF ListMeant

\* AsMember has what MemberMeant says.
LEMMA AsMemberHas ==
    ASSUME NEW gr, NEW t, NEW a, NEW b, NEW of, NEW x
    PROVE  x \in AsMember(t, a, b, of, gr) <=> MemberMeant(t, a, b, of, x, gr)
<1> DEFINE S == {One(key, v) : key \in Spells(t[a].s, gr), v \in of[<<"value", a + 2, b>>]}
<1>1. x \in S <=> \E key \in Spells(t[a].s, gr), v \in of[<<"value", a + 2, b>>] : x = One(key, v)
  OBVIOUS
<1>2. AsMember(t, a, b, of, gr) =
          IF a + 2 <= b /\ t[a].t = "str" /\ t[a + 1].t = ":" THEN S ELSE {}
  BY DEF AsMember
<1> HIDE DEF S
<1> QED
  BY <1>1, <1>2, Zenon DEF MemberMeant

\* AsMap has what MapMeant says.
LEMMA AsMapHas ==
    ASSUME NEW gr, NEW t, NEW a, NEW b, NEW of, NEW x
    PROVE  x \in AsMap(t, a, b, of, gr) <=> MapMeant(t, a, b, of, x, gr)
<1> DEFINE At(c) == {Over(later, first) : first \in AsMember(t, a, c - 1, of, gr),
                                      later \in of[<<"map", c + 1, b>>]}
<1>1. ASSUME NEW c
      PROVE  x \in At(c) <=>
                 \E first \in AsMember(t, a, c - 1, of, gr), later \in of[<<"map", c + 1, b>>] :
                    x = Over(later, first)
  OBVIOUS
<1>2. AsMap(t, a, b, of, gr) = AsMember(t, a, b, of, gr) \cup UNION {At(c) : c \in Commas(t, a, b)}
  BY DEF AsMap
<1> HIDE DEF At
<1>3. x \in AsMap(t, a, b, of, gr) <=>
          x \in AsMember(t, a, b, of, gr) \/ \E c \in Commas(t, a, b) : x \in At(c)
  BY <1>2
<1>4. ASSUME NEW c, NEW y PROVE y \in AsMember(t, a, c, of, gr) <=> MemberMeant(t, a, c, of, y, gr)
  BY AsMemberHas, Zenon
<1>5. ASSUME NEW c
      PROVE  x \in At(c) <=> \E first, later :
                  /\ MemberMeant(t, a, c - 1, of, first, gr) /\ later \in of[<<"map", c + 1, b>>]
                  /\ x = Over(later, first)
  BY <1>1, <1>4, Zenon
<1> QED
  BY <1>3, <1>4, <1>5, Zenon DEF MapMeant

MSame(t, k, f, g, gr)  == MRule(t, k, f, gr) = MRule(t, k, g, gr)
MAgree(t, k, f, g) == \A e \in MPlaces(t) : MRank(e) < MRank(k) => f[e] = g[e]

\* The places of the reference's table and their ranks.
LEMMA MPlaceIs ==
    ASSUME NEW t \in Seq(Tokens), NEW a \in 1 .. Len(t) + 1, NEW b \in 0 .. Len(t), NEW kind \in MKinds
    PROVE  /\ <<kind, a, b>> \in MPlaces(t)
           /\ a <= b /\ kind = "value" => MRank(<<kind, a, b>>) = 2 * (b - a + 1) + 0
           /\ a <= b /\ kind # "value" => MRank(<<kind, a, b>>) = 2 * (b - a + 1) + 1
           /\ ~(a <= b) => MRank(<<kind, a, b>>) <= 1
           /\ MRank(<<kind, a, b>>) \in Nat /\ MRank(<<kind, a, b>>) <= 2 * Len(t) + 3
<1>1. <<kind, a, b>> \in MPlaces(t)
  BY DEF MPlaces
<1>2. <<kind, a, b>>[1] = kind /\ <<kind, a, b>>[2] = a /\ <<kind, a, b>>[3] = b
  OBVIOUS
<1>3. MRank(<<kind, a, b>>) =
          (IF a <= b THEN 2 * (b - a + 1) ELSE 0) + (IF kind = "value" THEN 0 ELSE 1)
  BY <1>2, Zenon DEF MRank
<1> DEFINE r == MRank(<<kind, a, b>>)
<1> HIDE DEF r
<1>4. r = (IF a <= b THEN 2 * (b - a + 1) ELSE 0) + (IF kind = "value" THEN 0 ELSE 1)
  BY <1>3, Zenon DEF r
<1>5. /\ a <= b /\ kind = "value" => r = 2 * (b - a + 1) + 0
      /\ a <= b /\ kind # "value" => r = 2 * (b - a + 1) + 1
      /\ ~(a <= b) => r <= 1
      /\ r \in Nat /\ r <= 2 * Len(t) + 3
  BY <1>4
<1> QED
  BY <1>1, <1>5, Zenon DEF r

\* A comma lies between.
LEMMA CommaBetween ==
    ASSUME NEW t, NEW a, NEW b, NEW c
    PROVE  c \in Commas(t, a, b) <=> c \in a + 1 .. b - 1 /\ t[c].t = ","
BY Zenon DEF Commas

\* What a part means depends on the meaning of shorter ones only.
LEMMA MRuleLocal ==
    ASSUME NEW gr, Fits(gr), NEW t \in Seq(Tokens), NEW f, NEW g, NEW k \in MPlaces(t), MAgree(t, k, f, g)
    PROVE  MSame(t, k, f, g, gr)
<1>1. PICK kind \in MKinds, a \in 1 .. Len(t) + 1, b \in 0 .. Len(t) : k = <<kind, a, b>>
  BY DEF MPlaces
<1>2. k[1] = kind /\ k[2] = a /\ k[3] = b
  BY <1>1
<1>3. Len(t) \in Nat /\ a \in Nat /\ b \in Nat
  OBVIOUS
<1> DEFINE EqAt(kd, c, d) == f[<<kd, c, d>>] = g[<<kd, c, d>>]
           Inside(c, d)   == a <= c /\ c <= d /\ d <= b /\ d - c < b - a
<1>4. ASSUME NEW kd \in MKinds, NEW c \in Nat, NEW d \in Nat,
             \/ Inside(c, d)
             \/ kd = "value" /\ kind # "value" /\ a <= c /\ c <= d /\ d <= b
      PROVE  EqAt(kd, c, d)
  <2>1. c \in 1 .. Len(t) + 1 /\ d \in 0 .. Len(t) /\ a <= b
    BY <1>3, <1>4
  <2> DEFINE r == MRank(<<kd, c, d>>)
             q == MRank(<<kind, a, b>>)
  <2>2. /\ r \in Nat /\ (kd = "value" => r = 2 * (d - c + 1) + 0)
        /\ (kd # "value" => r = 2 * (d - c + 1) + 1)
    BY <1>4, <2>1, MPlaceIs, Zenon
  <2>3. /\ q \in Nat /\ (kind = "value" => q = 2 * (b - a + 1) + 0)
        /\ (kind # "value" => q = 2 * (b - a + 1) + 1)
    BY <2>1, MPlaceIs, Zenon
  <2> HIDE DEF r, q
  <2>4. r < q
    BY <1>3, <1>4, <2>2, <2>3
  <2>5. MRank(<<kd, c, d>>) < MRank(k)
    BY <1>1, <2>4, Zenon DEF r, q
  <2>6. <<kd, c, d>> \in MPlaces(t)
    BY <2>1, MPlaceIs, Zenon
  <2> QED
    BY <2>5, <2>6, Zenon DEF MAgree
<1> HIDE DEF EqAt, Inside
<1>5. "value" \in MKinds /\ "list" \in MKinds /\ "map" \in MKinds /\ "list" # "value" /\ "map" # "value"
  BY DEF MKinds
<1>6. ASSUME NEW c \in Commas(t, a, b)
      PROVE  /\ c - 1 \in Nat /\ c + 1 \in Nat /\ c - 1 <= b
             /\ Inside(a, c - 1) /\ Inside(c + 1, b)
  <2>1. c \in a + 1 .. b - 1
    BY CommaBetween, Zenon
  <2> QED
    BY <1>3, <2>1 DEF Inside
<1>7. CASE kind = "value"
  <2>1. MRule(t, k, f, gr) = AsValue(t, a, b, f, gr) /\ MRule(t, k, g, gr) = AsValue(t, a, b, g, gr)
    BY <1>2, <1>7, Zenon DEF MRule
  <2>2. ASSUME a < b, b # a + 1
        PROVE  EqAt("list", a + 1, b - 1) /\ EqAt("map", a + 1, b - 1)
    <3>1. a + 1 \in Nat /\ b - 1 \in Nat /\ Inside(a + 1, b - 1)
      BY <1>3, <2>2 DEF Inside
    <3> QED
      BY <1>4, <1>5, <3>1, Zenon
  <2>3. ASSUME NEW x PROVE ValueMeant(t, a, b, f, x, gr) <=> ValueMeant(t, a, b, g, x, gr)
    BY <2>2, Zenon DEF ValueMeant, EqAt
  <2>4. ASSUME NEW x PROVE x \in AsValue(t, a, b, f, gr) <=> x \in AsValue(t, a, b, g, gr)
    BY <1>3, <2>3, AsValueHas, Zenon
  <2>5. AsValue(t, a, b, f, gr) = AsValue(t, a, b, g, gr)
    BY <2>4, Zenon
  <2> QED
    BY <2>1, <2>5, Zenon DEF MSame
<1>8. CASE kind = "list"
  <2>1. MRule(t, k, f, gr) = AsList(t, a, b, f) /\ MRule(t, k, g, gr) = AsList(t, a, b, g)
    BY <1>2, <1>5, <1>8, Zenon DEF MRule
  <2>2. EqAt("value", a, b)
    <3>1. CASE a <= b
      <4>1. a <= a /\ b <= b
        BY <1>3
      <4> QED
        BY <1>3, <1>4, <1>5, <1>8, <3>1, <4>1, Zenon
    <3>2. CASE ~(a <= b)
      <4>1. <<"value", a, b>> \in MPlaces(t)
        BY <1>5, MPlaceIs, Zenon
      <4>2. MRank(<<"value", a, b>>) < MRank(k)
        <5>1. MRank(<<"value", a, b>>) = 0 /\ MRank(<<"list", a, b>>) = 1
          BY <3>2 DEF MRank
        <5>2. 0 < 1
          OBVIOUS
        <5> QED
          BY <1>1, <1>8, <5>1, <5>2, Zenon
      <4> QED
        BY <4>1, <4>2, Zenon DEF MAgree, EqAt
    <3> QED
      BY <3>1, <3>2, Zenon
  <2>3. ASSUME NEW c \in Commas(t, a, b)
        PROVE  EqAt("value", a, c - 1) /\ EqAt("list", c + 1, b)
    BY <1>3, <1>4, <1>5, <1>6, Zenon
  <2>4. ASSUME NEW x PROVE ListMeant(t, a, b, f, x) <=> ListMeant(t, a, b, g, x)
    BY <2>2, <2>3, Zenon DEF ListMeant, EqAt
  <2>5. ASSUME NEW x PROVE x \in AsList(t, a, b, f) <=> x \in AsList(t, a, b, g)
    BY <2>4, AsListHas, Zenon
  <2>6. AsList(t, a, b, f) = AsList(t, a, b, g)
    BY <2>5, Zenon
  <2> QED
    BY <2>1, <2>6, Zenon DEF MSame
<1>9. CASE kind = "map"
  <2>0. "map" # "list"
    OBVIOUS
  <2>1. MRule(t, k, f, gr) = AsMap(t, a, b, f, gr) /\ MRule(t, k, g, gr) = AsMap(t, a, b, g, gr)
    BY <1>2, <1>5, <1>9, <2>0, Zenon DEF MRule
  <2>2. ASSUME NEW d \in Nat, d <= b, NEW x
        PROVE  MemberMeant(t, a, d, f, x, gr) <=> MemberMeant(t, a, d, g, x, gr)
    <3>1. ASSUME a + 2 <= d PROVE EqAt("value", a + 2, d)
      <4>1. a + 2 \in Nat /\ Inside(a + 2, d)
        BY <1>3, <2>2, <3>1 DEF Inside
      <4> QED
        BY <1>4, <1>5, <2>2, <3>1, <4>1, Zenon
    <3> QED
      BY <3>1, Zenon DEF MemberMeant, EqAt
  <2>3. ASSUME NEW c \in Commas(t, a, b) PROVE EqAt("map", c + 1, b)
    BY <1>3, <1>4, <1>5, <1>6, Zenon
  <2>4. b <= b
    BY <1>3
  <2>5. ASSUME NEW x PROVE MapMeant(t, a, b, f, x, gr) <=> MapMeant(t, a, b, g, x, gr)
    <3>1. MemberMeant(t, a, b, f, x, gr) <=> MemberMeant(t, a, b, g, x, gr)
      BY <1>3, <2>2, <2>4, Zenon
    <3>2. ASSUME NEW c \in Commas(t, a, b), NEW first, NEW later
          PROVE  /\ MemberMeant(t, a, c - 1, f, first, gr) <=> MemberMeant(t, a, c - 1, g, first, gr)
                 /\ later \in f[<<"map", c + 1, b>>] <=> later \in g[<<"map", c + 1, b>>]
      BY <1>6, <2>2, <2>3, Zenon DEF EqAt
    <3> QED
      BY <3>1, <3>2, Zenon DEF MapMeant
  <2>6. ASSUME NEW x PROVE x \in AsMap(t, a, b, f, gr) <=> x \in AsMap(t, a, b, g, gr)
    BY <2>5, AsMapHas, Zenon
  <2>7. AsMap(t, a, b, f, gr) = AsMap(t, a, b, g, gr)
    BY <2>6, Zenon
  <2> QED
    BY <2>1, <2>7, Zenon DEF MSame
<1> QED
  BY <1>7, <1>8, <1>9 DEF MKinds

\* There is a table of the meanings.
LEMMA MeaningTable ==
    ASSUME NEW gr, Fits(gr), NEW t \in Seq(Tokens)
    PROVE  \A k \in MPlaces(t) : Meaning(t, gr)[k] = MRule(t, k, Meaning(t, gr), gr)
<1> DEFINE F(f)       == [k \in MPlaces(t) |-> MRule(t, k, f, gr)]
           Fun(f)     == f = [k \in MPlaces(t) |-> f[k]]
           Upto(f, m) == \A k \in MPlaces(t) : MRank(k) < m => f[k] = MRule(t, k, f, gr)
           T          == {m \in Nat : \E f : Fun(f) /\ Upto(f, m)}
           top        == 2 * Len(t) + 4
<1>1. top \in Nat /\ \A k \in MPlaces(t) : MRank(k) \in Nat /\ MRank(k) < top
  <2>1. Len(t) \in Nat
    OBVIOUS
  <2>2. ASSUME NEW k \in MPlaces(t) PROVE MRank(k) \in Nat /\ MRank(k) < top
    <3>1. PICK kind \in MKinds, a \in 1 .. Len(t) + 1, b \in 0 .. Len(t) : k = <<kind, a, b>>
      BY DEF MPlaces
    <3>2. MRank(<<kind, a, b>>) \in Nat /\ MRank(<<kind, a, b>>) <= 2 * Len(t) + 3
      BY MPlaceIs, Zenon
    <3> DEFINE r == MRank(<<kind, a, b>>)
    <3>3. MRank(k) = r
      BY <3>1, Zenon
    <3> HIDE DEF r
    <3>4. r < top /\ r \in Nat
      BY <2>1, <3>2 DEF r
    <3> HIDE DEF top
    <3> QED
      BY <3>3, <3>4, Zenon
  <2> QED
    BY <2>1, <2>2
<1> HIDE DEF top
<1>2. 0 \in T
  <2> DEFINE f0 == [k \in MPlaces(t) |-> {}]
  <2>1. Fun(f0)
    BY Zenon
  <2>2. Upto(f0, 0)
    BY <1>1
  <2> HIDE DEF f0, Upto, Fun
  <2> QED
    BY <2>1, <2>2, Zenon
<1>3. ASSUME NEW m \in T PROVE m + 1 \in T
  <2>1. m \in Nat /\ m + 1 \in Nat
    OBVIOUS
  <2>2. PICK f : Fun(f) /\ Upto(f, m)
    BY Zenon
  <2> HIDE DEF T
  <2> DEFINE g == F(f)
  <2>3. \A k \in MPlaces(t) : g[k] = MRule(t, k, f, gr)
    BY Zenon
  <2>4. Fun(g)
    BY Zenon
  <2> HIDE DEF g
  <2>5. ASSUME NEW k \in MPlaces(t), MRank(k) < m + 1
        PROVE  g[k] = MRule(t, k, g, gr)
    <3>1. MAgree(t, k, f, g)
      <4> USE DEF MAgree
      <4> TAKE e \in MPlaces(t)
      <4> HAVE MRank(e) < MRank(k)
      <4>1. MRank(e) < m
        BY <1>1, <2>1, <2>5
      <4> QED
        BY <2>2, <2>3, <4>1, Zenon
    <3>2. MSame(t, k, f, g, gr)
      BY <3>1, MRuleLocal, Zenon
    <3> QED
      BY <2>3, <3>2, Zenon DEF MSame
  <2>6. Upto(g, m + 1)
    BY <2>5, Zenon
  <2> HIDE DEF Upto, Fun
  <2> QED
    BY <2>1, <2>4, <2>6, Zenon DEF T
<1>4. top \in T
  <2>1. T \in SUBSET Nat
    OBVIOUS
  <2> HIDE DEF T
  <2> QED
    BY <1>1, <1>2, <1>3, <2>1, SetInduction, Zenon
<1>5. PICK f : Fun(f) /\ Upto(f, top)
  BY <1>4, Zenon
<1>6. f = F(f)
  <2>1. \A k \in MPlaces(t) : f[k] = MRule(t, k, f, gr)
    BY <1>1, <1>5, Zenon
  <2>2. f = [k \in MPlaces(t) |-> f[k]]
    BY <1>5, Zenon
  <2> QED
    BY <2>1, <2>2, Zenon
<1> DEFINE P == CHOOSE h : h = F(h)
<1>7. Meaning(t, gr) = P
  BY Zenon DEF Meaning, MRule, MPlaces, MKinds
<1>8. P = F(P)
  BY <1>6, Zenon
<1> HIDE DEF P
<1>9. \A k \in MPlaces(t) : P[k] = MRule(t, k, P, gr)
  BY <1>8, Zenon
<1> QED
  BY <1>7, <1>9, Zenon

MeansV(t, a, b, v, gr)  == v \in Meaning(t, gr)[<<"value", a, b>>]
MeansL(t, a, b, es, gr) == es \in Meaning(t, gr)[<<"list", a, b>>]
MeansM(t, a, b, m, gr)  == m \in Meaning(t, gr)[<<"map", a, b>>]

\* The table's entries by kind.
LEMMA MeaningEntries ==
    ASSUME NEW gr, Fits(gr), NEW t \in Seq(Tokens), NEW a \in 1 .. Len(t) + 1, NEW b \in 0 .. Len(t), NEW x
    PROVE  /\ MeansV(t, a, b, x, gr) <=> ValueMeant(t, a, b, Meaning(t, gr), x, gr)
           /\ MeansL(t, a, b, x, gr) <=> ListMeant(t, a, b, Meaning(t, gr), x)
           /\ MeansM(t, a, b, x, gr) <=> MapMeant(t, a, b, Meaning(t, gr), x, gr)
<1> DEFINE M == Meaning(t, gr)
<1>1. ASSUME NEW kind \in MKinds
      PROVE  /\ M[<<kind, a, b>>] = MRule(t, <<kind, a, b>>, M, gr)
             /\ <<kind, a, b>>[1] = kind /\ <<kind, a, b>>[2] = a /\ <<kind, a, b>>[3] = b
  <2>1. <<kind, a, b>>[1] = kind /\ <<kind, a, b>>[2] = a /\ <<kind, a, b>>[3] = b
    OBVIOUS
  <2>2. <<kind, a, b>> \in MPlaces(t)
    BY MPlaceIs, Zenon
  <2> QED
    BY <2>1, <2>2, MeaningTable, Zenon
<1>2. /\ "value" \in MKinds /\ "list" \in MKinds /\ "map" \in MKinds
      /\ "list" # "value" /\ "map" # "value" /\ "map" # "list"
  BY DEF MKinds
<1>3. a \in Nat /\ b \in Nat
  OBVIOUS
<1> HIDE DEF M
<1>4. M[<<"value", a, b>>] = AsValue(t, a, b, M, gr)
  BY <1>1, <1>2, Zenon DEF MRule
<1>5. M[<<"list", a, b>>] = AsList(t, a, b, M)
  BY <1>1, <1>2, Zenon DEF MRule
<1>6. M[<<"map", a, b>>] = AsMap(t, a, b, M, gr)
  BY <1>1, <1>2, Zenon DEF MRule
<1>7. MeansV(t, a, b, x, gr) <=> ValueMeant(t, a, b, M, x, gr)
  BY <1>3, <1>4, AsValueHas, Zenon DEF MeansV, M
<1>8. MeansL(t, a, b, x, gr) <=> ListMeant(t, a, b, M, x)
  BY <1>5, AsListHas, Zenon DEF MeansL, M
<1>9. MeansM(t, a, b, x, gr) <=> MapMeant(t, a, b, M, x, gr)
  BY <1>6, AsMapHas, Zenon DEF MeansM, M
<1> QED
  BY <1>7, <1>8, <1>9, Zenon DEF M

-----------------------------------------------------------------------------
(* The parser reads what the text means                                    *)

\* What the a-th to the b-th token mean is what the parser reads of them.
MeetV(t, a, b) == \A v : MeansV(t, a, b, v, Lenient) <=> ReadsV(t, a, v, b + 1)
MeetL(t, a, b) ==
    Is(t, b + 1, "]") => \A es : MeansL(t, a, b, es, Lenient) <=> ReadsA(t, a, es, b + 2)
MeetM(t, a, b) ==
    Is(t, b + 1, "}") => \A m : MeansM(t, a, b, m, Lenient) <=> ReadsO(t, a, m, b + 2)

\* All of that holds of the parts inside the a-th to the b-th token.
MeetInside(t, a, b) ==
    \A c, d \in 1 .. Len(t) :
        c <= d /\ d - c < b - a => MeetV(t, c, d) /\ MeetL(t, c, d) /\ MeetM(t, c, d)

\* The string of a token, read and meant.
LEMMA TokenString ==
    ASSUME NEW t \in Seq(Tokens), NEW i \in 1 .. Len(t)
    PROVE  t[i].s \in Seq(Chars) /\ StrOf(t[i].s) = Spells(t[i].s, Lenient)
<1>1. t[i] \in Tokens
  OBVIOUS
<1>2. t[i].s \in Seq(Chars)
  BY <1>1 DEF Tokens
<1> QED
  BY <1>2, StrOfIsSpells

\* A value is read as it is meant.
LEMMA ValueMeets ==
    ASSUME NEW t \in Seq(Tokens), NEW a \in 1 .. Len(t), NEW b \in 1 .. Len(t), a <= b,
           MeetInside(t, a, b)
    PROVE  MeetV(t, a, b)
<1>1. /\ Len(t) \in Nat /\ a \in Nat /\ b \in Nat /\ a \in 1 .. Len(t) + 1 /\ b \in 0 .. Len(t)
      /\ a <= Len(t) /\ b <= Len(t) /\ (b - 1) + 1 = b /\ (b - 1) + 2 = b + 1 /\ (b + 1) - 1 = b
  OBVIOUS
<1>2. ASSUME NEW v
      PROVE  MeansV(t, a, b, v, Lenient) <=> ValueMeant(t, a, b, Meaning(t, Lenient), v, Lenient)
  BY <1>1, GrammarsFit, MeaningEntries, Zenon
<1>3. ASSUME NEW v PROVE ReadsV(t, a, v, b + 1) <=> ValueForm(t, a, v, b + 1)
  BY <1>1, ReadsVForm, Zenon
<1>4. StrOf(t[a].s) = Spells(t[a].s, Lenient)
  BY TokenString, Zenon
<1>5. ASSUME a + 1 < b
      PROVE  /\ Is(t, b, "]") =>
                    \A es : MeansL(t, a + 1, b - 1, es, Lenient) <=> ReadsA(t, a + 1, es, b + 1)
             /\ Is(t, b, "}") =>
                    \A m : MeansM(t, a + 1, b - 1, m, Lenient) <=> ReadsO(t, a + 1, m, b + 1)
  <2>1. a + 1 \in 1 .. Len(t) /\ b - 1 \in 1 .. Len(t) /\ a + 1 <= b - 1 /\ (b - 1) - (a + 1) < b - a
    BY <1>1, <1>5
  <2>2. MeetL(t, a + 1, b - 1) /\ MeetM(t, a + 1, b - 1)
    BY <2>1 DEF MeetInside
  <2> QED
    BY <1>1, <2>2, Zenon DEF MeetL, MeetM
<1>6. ASSUME NEW v, ValueMeant(t, a, b, Meaning(t, Lenient), v, Lenient)
      PROVE  ValueForm(t, a, v, b + 1)
  <2>1. CASE a = b /\ t[a].t \in Literals /\ v = Lit(t[a].t)
    BY <1>1, <2>1, Zenon DEF ValueForm
  <2>2. CASE a = b /\ t[a].t = "str" /\ \E s \in Spells(t[a].s, Lenient) : v = Str(s)
    BY <1>1, <1>4, <2>2, Zenon DEF ValueForm, Is
  <2>3. CASE a < b /\ t[a].t = "[" /\ t[b].t = "]" /\ b = a + 1 /\ v = Arr(<<>>)
    <3>1. b + 1 = a + 2
      BY <1>1, <2>3
    <3> QED
      BY <1>1, <2>3, <3>1, Zenon DEF ValueForm, Is
  <2>4. CASE /\ a < b /\ t[a].t = "[" /\ t[b].t = "]" /\ b # a + 1
             /\ \E es \in Meaning(t, Lenient)[<<"list", a + 1, b - 1>>] : v = Arr(es)
    <3>1. a + 1 < b
      BY <1>1, <2>4
    <3>2. PICK es : MeansL(t, a + 1, b - 1, es, Lenient) /\ v = Arr(es)
      BY <2>4, Zenon DEF MeansL
    <3>3. Is(t, a, "[") /\ Is(t, b, "]")
      BY <1>1, <2>4, Zenon DEF Is
    <3>4. ReadsA(t, a + 1, es, b + 1)
      BY <1>5, <3>1, <3>2, <3>3, Zenon
    <3> QED
      BY <3>2, <3>3, <3>4, Zenon DEF ValueForm
  <2>5. CASE a < b /\ t[a].t = "{" /\ t[b].t = "}" /\ b = a + 1 /\ v = Obj(<<>>)
    <3>1. b + 1 = a + 2
      <4>1. b = a + 1
        BY <2>5, Zenon
      <4> QED
        BY <1>1, <4>1
    <3> QED
      BY <1>1, <2>5, <3>1, Zenon DEF ValueForm, Is
  <2>6. CASE /\ a < b /\ t[a].t = "{" /\ t[b].t = "}" /\ b # a + 1
             /\ \E m \in Meaning(t, Lenient)[<<"map", a + 1, b - 1>>] : v = Obj(m)
    <3>1. a + 1 < b
      <4>1. a < b /\ b # a + 1
        BY <2>6, Zenon
      <4> QED
        BY <1>1, <4>1
    <3>2. PICK m : MeansM(t, a + 1, b - 1, m, Lenient) /\ v = Obj(m)
      BY <2>6, Zenon DEF MeansM
    <3>3. Is(t, a, "{") /\ Is(t, b, "}")
      BY <1>1, <2>6, Zenon DEF Is
    <3>4. ReadsO(t, a + 1, m, b + 1)
      BY <1>5, <3>1, <3>2, <3>3, Zenon
    <3> QED
      BY <3>2, <3>3, <3>4, Zenon DEF ValueForm
  <2> QED
    BY <1>6, <2>1, <2>2, <2>3, <2>4, <2>5, <2>6, LenientIs, Zenon DEF ValueMeant
<1>7. ASSUME NEW v, ValueForm(t, a, v, b + 1)
      PROVE  ValueMeant(t, a, b, Meaning(t, Lenient), v, Lenient)
  <2>0. a + 1 \in 1 .. Len(t) + 1
    BY <1>1
  <2>1. CASE Is(t, a, "{") /\ Is(t, a + 1, "}") /\ v = Obj(<<>>) /\ b + 1 = a + 2
    <3>1. b = a + 1 /\ a < b
      <4>1. b + 1 = a + 2
        BY <2>1, Zenon
      <4> QED
        BY <1>1, <4>1
    <3> QED
      BY <2>1, <3>1, Zenon DEF ValueMeant, Is
  <2>2. CASE Is(t, a, "{") /\ \E m : v = Obj(m) /\ ReadsO(t, a + 1, m, b + 1)
    <3>1. PICK m : v = Obj(m) /\ ReadsO(t, a + 1, m, b + 1)
      BY <2>2, Zenon
    <3>2. Is(t, (b + 1) - 1, "}") /\ (b + 1) - 1 > a + 1
      BY <2>0, <3>1, ReadsEnds, Zenon
    <3>3. Is(t, b, "}") /\ a + 1 < b /\ a < b /\ b # a + 1
      <4>1. b > a + 1 => a + 1 < b /\ a < b /\ b # a + 1
        BY <1>1
      <4> QED
        BY <1>1, <3>2, <4>1, Zenon
    <3>4. MeansM(t, a + 1, b - 1, m, Lenient)
      BY <1>5, <3>1, <3>3, Zenon
    <3> QED
      BY <2>2, <3>1, <3>3, <3>4, Zenon DEF ValueMeant, MeansM, Is
  <2>3. CASE Is(t, a, "[") /\ Is(t, a + 1, "]") /\ v = Arr(<<>>) /\ b + 1 = a + 2
    <3>1. b = a + 1 /\ a < b
      BY <1>1, <2>3
    <3> QED
      BY <2>3, <3>1, Zenon DEF ValueMeant, Is
  <2>4. CASE Is(t, a, "[") /\ \E es : v = Arr(es) /\ ReadsA(t, a + 1, es, b + 1)
    <3>1. PICK es : v = Arr(es) /\ ReadsA(t, a + 1, es, b + 1)
      BY <2>4, Zenon
    <3>2. Is(t, (b + 1) - 1, "]") /\ (b + 1) - 1 > a + 1
      BY <2>0, <3>1, ReadsEnds, Zenon
    <3>3. Is(t, b, "]") /\ a + 1 < b /\ a < b /\ b # a + 1
      <4>1. b > a + 1 => a + 1 < b /\ a < b /\ b # a + 1
        BY <1>1
      <4> QED
        BY <1>1, <3>2, <4>1, Zenon
    <3>4. MeansL(t, a + 1, b - 1, es, Lenient)
      BY <1>5, <3>1, <3>3, Zenon
    <3> QED
      BY <2>4, <3>1, <3>3, <3>4, Zenon DEF ValueMeant, MeansL, Is
  <2>5. CASE Is(t, a, "str") /\ \E s \in StrOf(t[a].s) : v = Str(s) /\ b + 1 = a + 1
    <3>1. a = b
      BY <1>1, <2>5
    <3> QED
      BY <1>4, <2>5, <3>1, Zenon DEF ValueMeant, Is
  <2>6. CASE a <= Len(t) /\ t[a].t \in Literals /\ v = Lit(t[a].t) /\ b + 1 = a + 1
    <3>1. a = b
      BY <1>1, <2>6
    <3> QED
      BY <2>6, <3>1, LenientIs, Zenon DEF ValueMeant
  <2> QED
    BY <1>7, <2>1, <2>2, <2>3, <2>4, <2>5, <2>6, Zenon DEF ValueForm
<1> QED
  BY <1>2, <1>3, <1>6, <1>7, Zenon DEF MeetV

\* Elements are read as they are meant.
LEMMA ListMeets ==
    ASSUME NEW t \in Seq(Tokens), NEW a \in 1 .. Len(t), NEW b \in 1 .. Len(t), a <= b,
           MeetInside(t, a, b), MeetV(t, a, b)
    PROVE  MeetL(t, a, b)
<1>1. /\ Len(t) \in Nat /\ a \in Nat /\ b \in Nat /\ a \in 1 .. Len(t) + 1 /\ b \in 0 .. Len(t)
      /\ a <= Len(t) /\ b <= Len(t) /\ (b + 1) + 1 = b + 2 /\ (b + 2) - 1 = b + 1
  OBVIOUS
<1> SUFFICES ASSUME Is(t, b + 1, "]"), NEW es
             PROVE  MeansL(t, a, b, es, Lenient) <=> ReadsA(t, a, es, b + 2)
  BY Zenon DEF MeetL
<1>2. MeansL(t, a, b, es, Lenient) <=> ListMeant(t, a, b, Meaning(t, Lenient), es)
  BY <1>1, GrammarsFit, MeaningEntries, Zenon
<1>3. ReadsA(t, a, es, b + 2) <=> ArrayForm(t, a, es, b + 2)
  BY <1>1, ReadsAForm, Zenon
<1>4. ASSUME NEW c \in Nat, a < c, c < b
      PROVE  MeetV(t, a, c - 1) /\ MeetL(t, c + 1, b) /\ (c - 1) + 1 = c
  <2>1. /\ c - 1 \in 1 .. Len(t) /\ a <= c - 1 /\ (c - 1) - a < b - a
        /\ c + 1 \in 1 .. Len(t) /\ c + 1 <= b /\ b - (c + 1) < b - a /\ (c - 1) + 1 = c
    BY <1>1, <1>4
  <2> QED
    BY <2>1 DEF MeetInside
<1>5. ASSUME ListMeant(t, a, b, Meaning(t, Lenient), es) PROVE ArrayForm(t, a, es, b + 2)
  <2>1. CASE \E v \in Meaning(t, Lenient)[<<"value", a, b>>] : es = <<v>>
    <3>1. PICK v : MeansV(t, a, b, v, Lenient) /\ es = <<v>>
      BY <2>1, Zenon DEF MeansV
    <3>2. ReadsV(t, a, v, b + 1)
      BY <3>1, Zenon DEF MeetV
    <3> QED
      BY <1>1, <3>1, <3>2, Zenon DEF ArrayForm
  <2>2. CASE \E c \in Commas(t, a, b) :
          \E v \in Meaning(t, Lenient)[<<"value", a, c - 1>>],
             r \in Meaning(t, Lenient)[<<"list", c + 1, b>>] :
              es = <<v>> \o r
    <3>1. PICK c, v, r : /\ c \in Commas(t, a, b) /\ MeansV(t, a, c - 1, v, Lenient)
                         /\ MeansL(t, c + 1, b, r, Lenient) /\ es = <<v>> \o r
      BY <2>2, Zenon DEF MeansV, MeansL
    <3>0. c \in a + 1 .. b - 1
      BY <3>1, CommaBetween, Zenon
    <3>2. t[c].t = ","
      BY <3>1, CommaBetween, Zenon
    <3>3. c \in Nat /\ a < c /\ c < b /\ c <= Len(t)
      BY <1>1, <3>0
    <3>4. Is(t, c, ",")
      BY <3>2, <3>3, Zenon DEF Is
    <3>5. ReadsV(t, a, v, c)
      <4>1. ReadsV(t, a, v, (c - 1) + 1)
        BY <1>4, <3>1, <3>3, Zenon DEF MeetV
      <4> QED
        BY <1>4, <3>3, <4>1, Zenon
    <3>6. ReadsA(t, c + 1, r, b + 2)
      BY <1>4, <3>1, <3>3, Zenon DEF MeetL
    <3> QED
      BY <3>1, <3>4, <3>5, <3>6, Zenon DEF ArrayForm
  <2> QED
    BY <1>5, <2>1, <2>2, Zenon DEF ListMeant
<1>6. ASSUME ArrayForm(t, a, es, b + 2) PROVE ListMeant(t, a, b, Meaning(t, Lenient), es)
  <2>1. PICK v, c :
            /\ ReadsV(t, a, v, c)
            /\ \/ Is(t, c, ",") /\ \E r : ReadsA(t, c + 1, r, b + 2) /\ es = <<v>> \o r
               \/ Is(t, c, "]") /\ es = <<v>> /\ b + 2 = c + 1
    BY <1>6, Zenon DEF ArrayForm
  <2>2. c \in Nat /\ c > a
    BY <1>1, <2>1, ReadsOn, Zenon
  <2>3. CASE Is(t, c, ",") /\ \E r : ReadsA(t, c + 1, r, b + 2) /\ es = <<v>> \o r
    <3>1. PICK r : ReadsA(t, c + 1, r, b + 2) /\ es = <<v>> \o r
      BY <2>3, Zenon
    <3>0. c <= Len(t)
      BY <2>3, IsThere, Zenon
    <3>2. t[c].t = ","
      BY <2>3, IsThere, Zenon
    <3>3. c + 1 \in 1 .. Len(t) + 1
      BY <1>1, <2>2, <3>0
    <3>4. (b + 2) - 1 > c + 1
      BY <3>1, <3>3, ReadsEnds, Zenon
    <3>5. a < c /\ c < b /\ c \in a + 1 .. b - 1
      BY <1>1, <2>2, <3>4
    <3>6. c \in Commas(t, a, b)
      BY <3>2, <3>5, CommaBetween, Zenon
    <3>7. MeansV(t, a, c - 1, v, Lenient)
      <4>1. MeansV(t, a, c - 1, v, Lenient) <=> ReadsV(t, a, v, (c - 1) + 1)
        BY <1>4, <2>2, <3>5, Zenon DEF MeetV
      <4> QED
        BY <1>4, <2>1, <2>2, <3>5, <4>1, Zenon
    <3>8. MeansL(t, c + 1, b, r, Lenient)
      BY <1>4, <2>2, <3>1, <3>5, Zenon DEF MeetL
    <3> QED
      BY <3>1, <3>6, <3>7, <3>8, Zenon DEF ListMeant, MeansV, MeansL
  <2>4. CASE Is(t, c, "]") /\ es = <<v>> /\ b + 2 = c + 1
    <3>1. c = b + 1
      BY <1>1, <2>2, <2>4
    <3>2. MeansV(t, a, b, v, Lenient)
      BY <2>1, <3>1, Zenon DEF MeetV
    <3> QED
      BY <2>4, <3>2, Zenon DEF ListMeant, MeansV
  <2> QED
    BY <2>1, <2>3, <2>4, Zenon
<1> QED
  BY <1>2, <1>3, <1>5, <1>6, Zenon

\* Members are read as they are meant.
LEMMA MapMeets ==
    ASSUME NEW t \in Seq(Tokens), NEW a \in 1 .. Len(t), NEW b \in 1 .. Len(t), a <= b,
           MeetInside(t, a, b)
    PROVE  MeetM(t, a, b)
<1>1. /\ Len(t) \in Nat /\ a \in Nat /\ b \in Nat /\ a \in 1 .. Len(t) + 1 /\ b \in 0 .. Len(t)
      /\ a <= Len(t) /\ b <= Len(t) /\ (b + 1) + 1 = b + 2 /\ (b + 2) - 1 = b + 1
  OBVIOUS
<1>0. SUFFICES ASSUME Is(t, b + 1, "}"), NEW m
             PROVE  MeansM(t, a, b, m, Lenient) <=> ReadsO(t, a, m, b + 2)
  BY Zenon DEF MeetM
<1>2. MeansM(t, a, b, m, Lenient) <=> MapMeant(t, a, b, Meaning(t, Lenient), m, Lenient)
  BY <1>1, GrammarsFit, MeaningEntries, Zenon
<1>3. ReadsO(t, a, m, b + 2) <=> ObjectForm(t, a, m, b + 2)
  BY <1>1, ReadsOForm, Zenon
<1>4. ASSUME NEW c \in Nat, a < c, c < b PROVE MeetM(t, c + 1, b)
  <2>1. c + 1 \in 1 .. Len(t) /\ c + 1 <= b /\ b - (c + 1) < b - a
    BY <1>1, <1>4
  <2> QED
    BY <2>1 DEF MeetInside
<1>5. ASSUME NEW d \in Nat, a + 2 <= d, d <= b PROVE MeetV(t, a + 2, d)
  <2>1. a + 2 \in 1 .. Len(t) /\ d \in 1 .. Len(t) /\ a + 2 <= d /\ d - (a + 2) < b - a
    BY <1>1, <1>5
  <2> QED
    BY <2>1 DEF MeetInside
<1>6. StrOf(t[a].s) = Spells(t[a].s, Lenient)
  BY TokenString, Zenon
<1> DEFINE MemberRead(d, x) ==
               /\ Is(t, a, "str") /\ Is(t, a + 1, ":")
               /\ \E key \in StrOf(t[a].s) : \E v : ReadsV(t, a + 2, v, d + 1) /\ x = One(key, v)
<1>7. ASSUME NEW d \in Nat, d <= b, NEW x, MemberMeant(t, a, d, Meaning(t, Lenient), x, Lenient)
      PROVE  MemberRead(d, x)
  <2>1. /\ a + 2 <= d /\ t[a].t = "str" /\ t[a + 1].t = ":"
        /\ \E key \in Spells(t[a].s, Lenient) :
              \E v : MeansV(t, a + 2, d, v, Lenient) /\ x = One(key, v)
    BY <1>7, Zenon DEF MemberMeant, MeansV
  <2>2. MeetV(t, a + 2, d)
    BY <1>5, <1>7, <2>1, Zenon
  <2>3. a + 1 <= Len(t)
    <3>1. d <= b /\ a + 2 <= d
      BY <1>7, <2>1, Zenon
    <3> QED
      BY <1>1, <3>1
  <2> QED
    BY <1>1, <1>6, <2>1, <2>2, <2>3, Zenon DEF MeetV, Is
<1> HIDE DEF MemberRead
<1>8. ASSUME NEW d \in Nat, a + 2 <= d, d <= b, Is(t, a, "str"), Is(t, a + 1, ":"),
             NEW key \in StrOf(t[a].s), NEW v, ReadsV(t, a + 2, v, d + 1)
      PROVE  MemberMeant(t, a, d, Meaning(t, Lenient), One(key, v), Lenient)
  <2>1. MeansV(t, a + 2, d, v, Lenient)
    BY <1>5, <1>8, Zenon DEF MeetV
  <2> QED
    BY <1>6, <1>8, <2>1, Zenon DEF MemberMeant, MeansV, Is
<1>9. ASSUME MapMeant(t, a, b, Meaning(t, Lenient), m, Lenient) PROVE ObjectForm(t, a, m, b + 2)
  <2>1. CASE MemberMeant(t, a, b, Meaning(t, Lenient), m, Lenient)
    <3>1. b <= b
      BY <1>1
    <3>2. MemberRead(b, m)
      BY <1>1, <1>7, <2>1, <3>1, Zenon
    <3> QED
      BY <1>0, <1>1, <3>2, Zenon DEF ObjectForm, MemberRead
  <2>2. CASE \E c \in Commas(t, a, b) : \E first, later :
               /\ MemberMeant(t, a, c - 1, Meaning(t, Lenient), first, Lenient)
               /\ later \in Meaning(t, Lenient)[<<"map", c + 1, b>>] /\ m = Over(later, first)
    <3>1. PICK c, first, later :
                  /\ c \in Commas(t, a, b)
                  /\ MemberMeant(t, a, c - 1, Meaning(t, Lenient), first, Lenient)
                  /\ MeansM(t, c + 1, b, later, Lenient) /\ m = Over(later, first)
      BY <2>2, Zenon DEF MeansM
    <3>0. c \in a + 1 .. b - 1
      BY <3>1, CommaBetween, Zenon
    <3>2. t[c].t = ","
      BY <3>1, CommaBetween, Zenon
    <3>3. /\ c \in Nat /\ a < c /\ c < b /\ c <= Len(t) /\ c - 1 \in Nat /\ c - 1 <= b
          /\ (c - 1) + 1 = c
      BY <1>1, <3>0
    <3>4. Is(t, c, ",")
      BY <3>2, <3>3, Zenon DEF Is
    <3>5. MemberRead(c - 1, first)
      BY <1>7, <3>1, <3>3, Zenon
    <3>6. PICK key, v : /\ key \in StrOf(t[a].s) /\ ReadsV(t, a + 2, v, c)
                            /\ first = One(key, v)
      BY <3>3, <3>5, Zenon DEF MemberRead
    <3>7. ReadsO(t, c + 1, later, b + 2)
      BY <1>0, <1>4, <3>1, <3>3, Zenon DEF MeetM
    <3>8. m = Over(later, One(key, v))
      BY <3>1, <3>6, Zenon
    <3> QED
      BY <3>4, <3>5, <3>6, <3>7, <3>8, Zenon DEF ObjectForm, MemberRead
  <2> QED
    BY <1>9, <2>1, <2>2, Zenon DEF MapMeant
<1>10. ASSUME ObjectForm(t, a, m, b + 2) PROVE MapMeant(t, a, b, Meaning(t, Lenient), m, Lenient)
  <2>0. Is(t, a, "str") /\ Is(t, a + 1, ":")
    BY <1>10, Zenon DEF ObjectForm
  <2>1. PICK key, v, c :
            /\ key \in StrOf(t[a].s)
            /\ ReadsV(t, a + 2, v, c)
            /\ \/ Is(t, c, ",") /\ \E r : ReadsO(t, c + 1, r, b + 2) /\ m = Over(r, One(key, v))
               \/ Is(t, c, "}") /\ m = One(key, v) /\ b + 2 = c + 1
    BY <1>10, Zenon DEF ObjectForm
  <2>2. a + 2 \in 1 .. Len(t) + 1
    <3>1. a + 1 <= Len(t)
      BY <2>0, IsThere, Zenon
    <3> QED
      BY <1>1, <3>1
  <2>3. c \in Nat /\ c > a + 2
    BY <2>1, <2>2, ReadsOn, Zenon
  <2>4. CASE Is(t, c, ",") /\ \E r : ReadsO(t, c + 1, r, b + 2) /\ m = Over(r, One(key, v))
    <3>1. PICK r : ReadsO(t, c + 1, r, b + 2) /\ m = Over(r, One(key, v))
      BY <2>4, Zenon
    <3>0. c <= Len(t)
      BY <2>4, IsThere, Zenon
    <3>2. t[c].t = ","
      BY <2>4, IsThere, Zenon
    <3>3. c + 1 \in 1 .. Len(t) + 1
      BY <1>1, <2>3, <3>0
    <3>4. (b + 2) - 1 > c + 1
      BY <3>1, <3>3, ReadsEnds, Zenon
    <3>5. /\ a < c /\ c < b /\ c \in a + 1 .. b - 1 /\ c - 1 \in Nat /\ a + 2 <= c - 1
          /\ c - 1 <= b /\ (c - 1) + 1 = c
      BY <1>1, <2>3, <3>4
    <3>6. c \in Commas(t, a, b)
      BY <3>2, <3>5, CommaBetween, Zenon
    <3>7. MemberMeant(t, a, c - 1, Meaning(t, Lenient), One(key, v), Lenient)
      <4>1. ReadsV(t, a + 2, v, (c - 1) + 1)
        BY <2>1, <3>5, Zenon
      <4> QED
        BY <1>8, <2>0, <2>1, <3>5, <4>1, Zenon
    <3>8. MeansM(t, c + 1, b, r, Lenient)
      BY <1>0, <1>4, <2>3, <3>1, <3>5, Zenon DEF MeetM
    <3> QED
      BY <3>1, <3>6, <3>7, <3>8, Zenon DEF MapMeant, MeansM
  <2>5. CASE Is(t, c, "}") /\ m = One(key, v) /\ b + 2 = c + 1
    <3>1. c = b + 1 /\ a + 2 <= b /\ b <= b
      <4>1. b + 2 = c + 1
        BY <2>5, Zenon
      <4> QED
        BY <1>1, <2>3, <4>1
    <3>2. ReadsV(t, a + 2, v, b + 1)
      BY <2>1, <3>1, Zenon
    <3>3. MemberMeant(t, a, b, Meaning(t, Lenient), One(key, v), Lenient)
      BY <1>1, <1>8, <2>0, <2>1, <3>1, <3>2, Zenon
    <3> QED
      BY <2>5, <3>3, Zenon DEF MapMeant
  <2> QED
    BY <2>1, <2>4, <2>5, Zenon
<1> QED
  BY <1>2, <1>3, <1>9, <1>10, Zenon

\* Every part of a text is read as it is meant.
LEMMA PartsMeet ==
    ASSUME NEW t \in Seq(Tokens), NEW a0 \in 1 .. Len(t), NEW b0 \in 1 .. Len(t), a0 <= b0
    PROVE  MeetV(t, a0, b0)
<1> DEFINE Meet(a, b) == MeetV(t, a, b) /\ MeetL(t, a, b) /\ MeetM(t, a, b)
           T == {d \in Nat : \A a, b \in 1 .. Len(t) : a <= b /\ b - a = d => Meet(a, b)}
<1>1. ASSUME NEW d \in Nat, \A e \in Nat : e < d => e \in T PROVE d \in T
  <2>0. ASSUME NEW e \in Nat, e < d, NEW x \in 1 .. Len(t), NEW y \in 1 .. Len(t), x <= y, y - x = e
        PROVE  Meet(x, y)
    BY <1>1, <2>0, Zenon
  <2>1. ASSUME NEW a \in 1 .. Len(t), NEW b \in 1 .. Len(t), a <= b, b - a = d
        PROVE  Meet(a, b)
    <3>1. ASSUME NEW x \in 1 .. Len(t), NEW y \in 1 .. Len(t), x <= y, y - x < b - a
          PROVE  Meet(x, y)
      <4>1. y - x \in Nat /\ y - x < d
        BY <2>1, <3>1
      <4> HIDE DEF Meet
      <4> QED
        BY <2>0, <3>1, <4>1
    <3>2. MeetInside(t, a, b)
      BY <3>1, Zenon DEF MeetInside
    <3>3. MeetV(t, a, b)
      BY <2>1, <3>2, ValueMeets, Zenon
    <3> QED
      BY <2>1, <3>2, <3>3, ListMeets, MapMeets, Zenon
  <2> HIDE DEF Meet
  <2> QED
    BY <2>1, Zenon
<1>2. T \in SUBSET Nat
  <2> HIDE DEF Meet
  <2> QED
    OBVIOUS
<1> HIDE DEF T
<1>3. T = Nat
  BY <1>1, <1>2, StrongInduction, Zenon
<1>4. b0 - a0 \in Nat
  OBVIOUS
<1>5. b0 - a0 \in T
  BY <1>3, <1>4, Zenon
<1> HIDE DEF Meet
<1>6. Meet(a0, b0)
  BY <1>5, Zenon DEF T
<1> QED
  BY <1>6, Zenon DEF Meet

\* parse() gives what value() reads, if that is all of the text.
LEMMA ParseReads ==
    ASSUME NEW t \in Seq(Tokens), NEW v
    PROVE  v \in Parse(t) <=> ReadsV(t, 1, v, Len(t) + 1)
<1> DEFINE n == Len(t)
<1>0. 1 \in 1 .. n + 1
  OBVIOUS
<1>1. v \in Parse(t) <=> \E r \in Parser(t)[<<"value", 1>>] : r.i = n + 1 /\ v = r.v
  BY Zenon DEF Parse
<1>2. ASSUME NEW r \in Parser(t)[<<"value", 1>>] PROVE ReadsV(t, 1, r.v, r.i)
  BY <1>0, EntryReads, Zenon
<1>3. ASSUME ReadsV(t, 1, v, n + 1)
      PROVE  \E r \in Parser(t)[<<"value", 1>>] : r.i = n + 1 /\ v = r.v
  <2> DEFINE r == To(v, n + 1)
  <2>1. r.v = v /\ r.i = n + 1
    BY ToFields, Zenon
  <2>2. r \in Parser(t)[<<"value", 1>>]
    BY <1>3, Zenon DEF ReadsV
  <2> HIDE DEF r
  <2> QED
    BY <2>1, <2>2, Zenon
<1> QED
  BY <1>1, <1>2, <1>3, Zenon

\* json.cpp's parser gives the values that its lenient grammar gives, for every
\* text: that of a text of the grammar, and none of any other.
THEOREM ParseIsMeans ==
    ASSUME NEW t \in Seq(Tokens)
    PROVE  Parse(t) = Means(t, Lenient)
<1> DEFINE n == Len(t)
<1>1. n \in Nat /\ 1 \in 1 .. n + 1 /\ n \in 0 .. n
  OBVIOUS
<1>2. ASSUME NEW v PROVE v \in Parse(t) <=> ReadsV(t, 1, v, n + 1)
  BY ParseReads, Zenon
<1>3. ASSUME NEW v PROVE v \in Means(t, Lenient) <=> MeansV(t, 1, n, v, Lenient)
  BY Zenon DEF Means, MeansV
<1>4. CASE n = 0
  <2>1. ASSUME NEW v PROVE ~ReadsV(t, 1, v, n + 1)
    <3>1. ASSUME ReadsV(t, 1, v, n + 1) PROVE FALSE
      <4>1. n + 1 > 1
        BY <1>1, <3>1, ReadsOn, Zenon
      <4> QED
        BY <1>4, <4>1
    <3> QED
      BY <3>1, Zenon
  <2>2. ASSUME NEW v PROVE ~MeansV(t, 1, n, v, Lenient)
    <3>1. MeansV(t, 1, n, v, Lenient) <=> ValueMeant(t, 1, n, Meaning(t, Lenient), v, Lenient)
      BY <1>1, GrammarsFit, MeaningEntries, Zenon
    <3>2. 1 # n /\ ~(1 < n)
      BY <1>4
    <3> QED
      BY <3>1, <3>2, Zenon DEF ValueMeant
  <2> QED
    BY <1>2, <1>3, <2>1, <2>2, Zenon
<1>5. CASE n # 0
  <2>1. 1 \in 1 .. n /\ n \in 1 .. n /\ 1 <= n
    BY <1>1, <1>5
  <2>2. MeetV(t, 1, n)
    BY <2>1, PartsMeet, Zenon
  <2>3. ASSUME NEW v PROVE v \in Parse(t) <=> v \in Means(t, Lenient)
    BY <1>2, <1>3, <2>2, Zenon DEF MeetV
  <2> QED
    BY <2>3, Zenon
<1> QED
  BY <1>4, <1>5, Zenon

-----------------------------------------------------------------------------
(* A text that is well formed in a stricter grammar                       *)

\* Each token of t that g lets pass h lets pass, and it stands for the same.
Covers(t, g, h) ==
    \A i \in 1 .. Len(t) :
        /\ t[i].t \in g.literals => t[i].t \in h.literals
        /\ Spells(t[i].s, g) \subseteq Spells(t[i].s, h)

\* What a part means in the one grammar it means in the other.
KeptV(t, a, b, g, h) == \A x : MeansV(t, a, b, x, g) => MeansV(t, a, b, x, h)
KeptL(t, a, b, g, h) == \A x : MeansL(t, a, b, x, g) => MeansL(t, a, b, x, h)
KeptM(t, a, b, g, h) == \A x : MeansM(t, a, b, x, g) => MeansM(t, a, b, x, h)
Kept(t, a, b, g, h)  == KeptV(t, a, b, g, h) /\ KeptL(t, a, b, g, h) /\ KeptM(t, a, b, g, h)

\* All of that holds of the shorter parts.
KeptInside(t, a, b, g, h) ==
    \A c \in 1 .. Len(t) + 1, d \in 0 .. Len(t) : d - c < b - a => Kept(t, c, d, g, h)

\* A value stays one.
LEMMA ValueKept ==
    ASSUME NEW g, NEW h, Fits(g), Fits(h), NEW t \in Seq(Tokens), Covers(t, g, h),
           NEW a \in 1 .. Len(t) + 1, NEW b \in 0 .. Len(t),
           KeptInside(t, a, b, g, h)
    PROVE  KeptV(t, a, b, g, h)
<1> DEFINE G == Meaning(t, g)
           L == Meaning(t, h)
<1>1. ASSUME a < b
      PROVE  /\ \A x : x \in G[<<"list", a + 1, b - 1>>] => x \in L[<<"list", a + 1, b - 1>>]
             /\ \A x : x \in G[<<"map", a + 1, b - 1>>] => x \in L[<<"map", a + 1, b - 1>>]
  <2>1. a + 1 \in 1 .. Len(t) + 1 /\ b - 1 \in 0 .. Len(t) /\ (b - 1) - (a + 1) < b - a
    BY <1>1
  <2>2. Kept(t, a + 1, b - 1, g, h)
    BY <2>1, Zenon DEF KeptInside
  <2> QED
    BY <2>2, Zenon DEF Kept, KeptL, KeptM, MeansL, MeansM
<1>2. ASSUME a = b, NEW x \in Spells(t[a].s, g) PROVE x \in Spells(t[a].s, h)
  <2>1. a \in 1 .. Len(t)
    BY <1>2
  <2> QED
    BY <1>2, <2>1, Zenon DEF Covers
<1>3. ASSUME a = b, t[a].t \in g.literals PROVE t[a].t \in h.literals
  <2>1. a \in 1 .. Len(t)
    BY <1>3
  <2> QED
    BY <1>3, <2>1, Zenon DEF Covers
<1> HIDE DEF G, L
<1>4. ASSUME NEW x, ValueMeant(t, a, b, G, x, g) PROVE ValueMeant(t, a, b, L, x, h)
  <2>1. CASE a = b /\ t[a].t \in g.literals /\ x = Lit(t[a].t)
    BY <1>3, <2>1, Zenon DEF ValueMeant
  <2>2. CASE a = b /\ t[a].t = "str" /\ \E s \in Spells(t[a].s, g) : x = Str(s)
    BY <1>2, <2>2, Zenon DEF ValueMeant
  <2>3. CASE a < b
    BY <1>1, <1>3, <1>4, <2>3, <1>2, Zenon DEF ValueMeant
  <2> QED
    BY <1>4, <2>1, <2>2, <2>3, Zenon DEF ValueMeant
<1> QED
  BY <1>4, MeaningEntries, Zenon DEF KeptV, G, L

\* Around a comma the parts are shorter.
LEMMA CommaParts ==
    ASSUME NEW t \in Seq(Tokens), NEW a \in 1 .. Len(t) + 1, NEW b \in 0 .. Len(t),
           NEW c \in Commas(t, a, b)
    PROVE  /\ c - 1 \in 0 .. Len(t) /\ c + 1 \in 1 .. Len(t) + 1 /\ c - 1 <= b
           /\ (c - 1) - a < b - a /\ b - (c + 1) < b - a
<1>1. c \in a + 1 .. b - 1
  BY CommaBetween, Zenon
<1> QED
  BY <1>1

\* A list stays one.
LEMMA ListKept ==
    ASSUME NEW g, NEW h, Fits(g), Fits(h), NEW t \in Seq(Tokens), Covers(t, g, h),
           NEW a \in 1 .. Len(t) + 1, NEW b \in 0 .. Len(t),
           KeptInside(t, a, b, g, h), KeptV(t, a, b, g, h)
    PROVE  KeptL(t, a, b, g, h)
<1> DEFINE G == Meaning(t, g)
           L == Meaning(t, h)
<1>1. \A v : v \in G[<<"value", a, b>>] => v \in L[<<"value", a, b>>]
  BY Zenon DEF KeptV, MeansV
<1>2. ASSUME NEW c \in Commas(t, a, b)
      PROVE  /\ \A v : v \in G[<<"value", a, c - 1>>] => v \in L[<<"value", a, c - 1>>]
             /\ \A es : es \in G[<<"list", c + 1, b>>] => es \in L[<<"list", c + 1, b>>]
  <2>1. Kept(t, a, c - 1, g, h) /\ Kept(t, c + 1, b, g, h)
    BY CommaParts, Zenon DEF KeptInside
  <2> QED
    BY <2>1, Zenon DEF Kept, KeptV, KeptL, MeansV, MeansL
<1> HIDE DEF G, L
<1>3. ASSUME NEW x, ListMeant(t, a, b, G, x) PROVE ListMeant(t, a, b, L, x)
  <2>1. CASE \E v \in G[<<"value", a, b>>] : x = <<v>>
    BY <1>1, <2>1, Zenon DEF ListMeant
  <2>2. CASE \E c \in Commas(t, a, b) :
                \E v \in G[<<"value", a, c - 1>>], es \in G[<<"list", c + 1, b>>] : x = <<v>> \o es
    BY <1>2, <2>2, Zenon DEF ListMeant
  <2> QED
    BY <1>3, <2>1, <2>2, Zenon DEF ListMeant
<1> QED
  BY <1>3, MeaningEntries, Zenon DEF KeptL, G, L

\* The inside of an object stays one.
LEMMA MapKept ==
    ASSUME NEW g, NEW h, Fits(g), Fits(h), NEW t \in Seq(Tokens), Covers(t, g, h),
           NEW a \in 1 .. Len(t) + 1, NEW b \in 0 .. Len(t),
           KeptInside(t, a, b, g, h)
    PROVE  KeptM(t, a, b, g, h)
<1> DEFINE G == Meaning(t, g)
           L == Meaning(t, h)
<1>1. ASSUME NEW d \in 0 .. Len(t), d <= b, NEW x, MemberMeant(t, a, d, G, x, g)
      PROVE  MemberMeant(t, a, d, L, x, h)
  <2>1. a + 2 <= d
    BY <1>1, Zenon DEF MemberMeant
  <2>2. a \in 1 .. Len(t) /\ a + 2 \in 1 .. Len(t) + 1 /\ d - (a + 2) < b - a
    BY <1>1, <2>1
  <2>3. Kept(t, a + 2, d, g, h)
    BY <2>2, Zenon DEF KeptInside
  <2>4. \A v : v \in G[<<"value", a + 2, d>>] => v \in L[<<"value", a + 2, d>>]
    BY <2>3, Zenon DEF Kept, KeptV, MeansV
  <2>5. \A key : key \in Spells(t[a].s, g) => key \in Spells(t[a].s, h)
    BY <2>2, Zenon DEF Covers
  <2> QED
    BY <1>1, <2>4, <2>5, Zenon DEF MemberMeant
<1>2. b <= b /\ b \in 0 .. Len(t)
  OBVIOUS
<1>3. ASSUME NEW c \in Commas(t, a, b)
      PROVE  /\ c - 1 \in 0 .. Len(t) /\ c - 1 <= b
             /\ \A m : m \in G[<<"map", c + 1, b>>] => m \in L[<<"map", c + 1, b>>]
  <2>1. Kept(t, c + 1, b, g, h)
    BY CommaParts, Zenon DEF KeptInside
  <2> QED
    BY <2>1, CommaParts, Zenon DEF Kept, KeptM, MeansM
<1> HIDE DEF G, L
<1>4. ASSUME NEW x, MapMeant(t, a, b, G, x, g) PROVE MapMeant(t, a, b, L, x, h)
  <2>1. CASE MemberMeant(t, a, b, G, x, g)
    BY <1>1, <1>2, <2>1, Zenon DEF MapMeant
  <2>2. CASE \E c \in Commas(t, a, b) : \E first, later :
                /\ MemberMeant(t, a, c - 1, G, first, g) /\ later \in G[<<"map", c + 1, b>>]
                /\ x = Over(later, first)
    <3>1. PICK c \in Commas(t, a, b) : \E first, later :
                /\ MemberMeant(t, a, c - 1, G, first, g) /\ later \in G[<<"map", c + 1, b>>]
                /\ x = Over(later, first)
      BY <2>2, Zenon
    <3>2. PICK first, later :
                /\ MemberMeant(t, a, c - 1, G, first, g) /\ later \in G[<<"map", c + 1, b>>]
                /\ x = Over(later, first)
      BY <3>1, Zenon
    <3>3. MemberMeant(t, a, c - 1, L, first, h) /\ later \in L[<<"map", c + 1, b>>]
      BY <1>1, <1>3, <3>2, Zenon
    <3> QED
      BY <3>2, <3>3, Zenon DEF MapMeant
  <2> QED
    BY <1>4, <2>1, <2>2, Zenon DEF MapMeant
<1> QED
  BY <1>4, MeaningEntries, Zenon DEF KeptM, G, L

\* If that holds of its tokens, a text means in the other grammar what it means in
\* the one.
LEMMA MeansMore ==
    ASSUME NEW g, NEW h, Fits(g), Fits(h), NEW t \in Seq(Tokens), Covers(t, g, h)
    PROVE  Means(t, g) \subseteq Means(t, h)
<1> DEFINE n == Len(t)
           T == {m \in Nat : \A a \in 1 .. n + 1, b \in 0 .. n : b + n + 1 < a + m => Kept(t, a, b, g, h)}
<1>1. n \in Nat
  OBVIOUS
<1>2. 0 \in T
  BY <1>1
<1>3. ASSUME NEW m \in T PROVE m + 1 \in T
  <2>1. /\ m \in Nat /\ m + 1 \in Nat
        /\ \A a \in 1 .. n + 1, b \in 0 .. n : b + n + 1 < a + m => Kept(t, a, b, g, h)
    OBVIOUS
  <2> HIDE DEF T
  <2>2. ASSUME NEW a \in 1 .. n + 1, NEW b \in 0 .. n, b + n + 1 < a + (m + 1)
        PROVE  Kept(t, a, b, g, h)
    <3>1. ASSUME NEW c \in 1 .. n + 1, NEW d \in 0 .. n, d - c < b - a PROVE d + n + 1 < c + m
      BY <1>1, <2>1, <2>2, <3>1
    <3>2. KeptInside(t, a, b, g, h)
      BY <2>1, <3>1, Zenon DEF KeptInside
    <3>3. KeptV(t, a, b, g, h)
      BY <3>2, ValueKept, Zenon
    <3> QED
      BY <3>2, <3>3, ListKept, MapKept, Zenon DEF Kept
  <2> QED
    BY <2>1, <2>2, Zenon DEF T
<1>4. 2 * n + 2 \in T
  <2>1. T \in SUBSET Nat /\ 2 * n + 2 \in Nat
    BY <1>1
  <2> HIDE DEF T
  <2> QED
    BY <1>2, <1>3, <2>1, SetInduction, Zenon
<1>5. 1 \in 1 .. n + 1 /\ n \in 0 .. n /\ n + n + 1 < 1 + (2 * n + 2)
  BY <1>1
<1>6. Kept(t, 1, n, g, h)
  BY <1>4, <1>5, Zenon
<1>7. ASSUME NEW v \in Means(t, g) PROVE v \in Means(t, h)
  BY <1>6, Zenon DEF Kept, KeptV, MeansV, Means
<1> QED
  BY <1>7, Zenon

\* json.cpp's parser gives every JSON text its value.
THEOREM JsonIsRead ==
    ASSUME NEW t \in Seq(Tokens)
    PROVE  Means(t, JSON) \subseteq Parse(t)
<1>1. Covers(t, JSON, Lenient)
  <2>1. ASSUME NEW i \in 1 .. Len(t)
        PROVE  /\ t[i].t \in JSON.literals => t[i].t \in Lenient.literals
               /\ Spells(t[i].s, JSON) \subseteq Spells(t[i].s, Lenient)
    <3>1. t[i].s \in Seq(Chars)
      BY TokenString, Zenon
    <3>2. \A x : x \in Spells(t[i].s, JSON) => x \in Spells(t[i].s, Lenient)
      BY <3>1, GrammarsFit, SpellsMore, Zenon
    <3> QED
      BY <3>2, GrammarsFit, LenientIs, Zenon DEF Fits
  <2> QED
    BY <2>1, Zenon DEF Covers
<1>2. Means(t, JSON) \subseteq Means(t, Lenient)
  BY <1>1, GrammarsFit, MeansMore, Zenon
<1> QED
  BY <1>2, ParseIsMeans, Zenon

-----------------------------------------------------------------------------
(* A text that breaks off is not read                                     *)

\* Nothing is read of the proper start of a text that is read as a whole.
LEMMA PrefixReadsNothing ==
    ASSUME NEW t \in Seq(Tokens), NEW p \in Seq(Tokens), Starts(p, t), Len(p) < Len(t),
           NEW v, v \in Parse(t)
    PROVE  Parse(p) = {}
<1>1. /\ Len(t) \in Nat /\ Len(p) \in Nat /\ 1 \in 1 .. Len(p) + 1 /\ 1 \in 1 .. Len(t) + 1
      /\ Len(p) + 1 # Len(t) + 1
  OBVIOUS
<1>2. ASSUME NEW w \in Parse(p) PROVE FALSE
  <2>1. ReadsV(p, 1, w, Len(p) + 1)
    BY <1>2, ParseReads, Zenon
  <2>2. ReadsV(t, 1, w, Len(p) + 1)
    BY <1>1, <2>1, ReadsMore, Zenon
  <2>3. ReadsV(t, 1, v, Len(t) + 1)
    BY ParseReads, Zenon
  <2>4. Same(w, Len(p) + 1, v, Len(t) + 1)
    BY <1>1, <2>2, <2>3, ReadsOne, Zenon
  <2> QED
    BY <1>1, <2>4, Zenon DEF Same
<1> QED
  BY <1>2

\* A text is read in one way.
LEMMA ParseOne ==
    ASSUME NEW t \in Seq(Tokens), NEW v, ReadsV(t, 1, v, Len(t) + 1)
    PROVE  Parse(t) = {v}
<1>1. v \in Parse(t)
  BY ParseReads, Zenon
<1>2. 1 \in 1 .. Len(t) + 1
  OBVIOUS
<1>3. ASSUME NEW w \in Parse(t) PROVE w = v
  <2>1. ReadsV(t, 1, w, Len(t) + 1)
    BY ParseReads, Zenon
  <2>2. Same(w, Len(t) + 1, v, Len(t) + 1)
    BY <1>2, <2>1, ReadsOne, Zenon
  <2> QED
    BY <2>2, Zenon DEF Same
<1> QED
  BY <1>1, <1>3

-----------------------------------------------------------------------------
(* What the parser's values are made of                                    *)

Listed(es) == \E S : es \in Seq(S)
Flat(v)    == v.type = "arr" => Listed(v.arr)
Plane(v)   == v.type = "obj" => \A key \in DOMAIN v.obj : Flat(v.obj[key])

\* A list grows at its front.
LEMMA ListedCons ==
    ASSUME NEW v, NEW r
    PROVE  Listed(<<v>>) /\ (Listed(r) => Listed(<<v>> \o r))
<1>1. <<v>> \in Seq({v})
  OBVIOUS
<1>2. ASSUME NEW S, r \in Seq(S) PROVE <<v>> \o r \in Seq(S \cup {v})
  <2>1. <<v>> \in Seq(S \cup {v}) /\ r \in Seq(S \cup {v})
    BY <1>2
  <2> QED
    BY <2>1
<1> QED
  BY <1>1, <1>2, Zenon DEF Listed

\* Members of members.
LEMMA FlatOver ==
    ASSUME NEW key, NEW v, Flat(v)
    PROVE  /\ \A k \in DOMAIN One(key, v) : Flat(One(key, v)[k])
           /\ \A r : (\A k \in DOMAIN r : Flat(r[k])) =>
                        \A k \in DOMAIN Over(r, One(key, v)) : Flat(Over(r, One(key, v))[k])
<1>1. \A k \in DOMAIN One(key, v) : One(key, v)[k] = v
  BY DEF One
<1>2. \A k \in DOMAIN One(key, v) : Flat(One(key, v)[k])
  BY <1>1, Zenon
<1>3. ASSUME NEW r, \A k \in DOMAIN r : Flat(r[k]), NEW k \in DOMAIN Over(r, One(key, v))
      PROVE  Flat(Over(r, One(key, v))[k])
  <2> DEFINE f == One(key, v)
  <2>0. k \in DOMAIN r \cup DOMAIN f
    <3>1. k \in DOMAIN Over(r, f)
      BY <1>3, Zenon
    <3> HIDE DEF f
    <3> QED
      BY <3>1 DEF Over
  <2>1. k \in DOMAIN r \cup DOMAIN f /\ Over(r, f)[k] = IF k \in DOMAIN r THEN r[k] ELSE f[k]
    <3> HIDE DEF f
    <3> QED
      BY <2>0 DEF Over
  <2>2. k \in DOMAIN r => Flat(r[k])
    BY <1>3, Zenon
  <2>3. k \in DOMAIN f => Flat(f[k])
    BY <1>2, Zenon
  <2> HIDE DEF f
  <2>4. CASE k \in DOMAIN r
    BY <2>1, <2>2, <2>4, Zenon DEF f
  <2>5. CASE k \notin DOMAIN r
    BY <2>1, <2>3, <2>5, Zenon DEF f
  <2> QED
    BY <2>4, <2>5, Zenon
<1> QED
  BY <1>2, <1>3, Zenon

\* What the parser reads: its lists are sequences, at the top and one level down.
LEMMA ReadsFlat ==
    ASSUME NEW t \in Seq(Tokens), NEW i0 \in 1 .. Len(t) + 1
    PROVE  \A v, j : ReadsV(t, i0, v, j) => Flat(v) /\ Plane(v)
<1> DEFINE n        == Len(t)
           GoodV(i) == \A v, j : ReadsV(t, i, v, j) => Flat(v) /\ Plane(v)
           GoodA(i) == \A es, j : ReadsA(t, i, es, j) => Listed(es)
           GoodO(i) == \A m, j : ReadsO(t, i, m, j) => \A key \in DOMAIN m : Flat(m[key])
           T == {i \in 1 .. n + 1 : GoodV(i) /\ GoodA(i) /\ GoodO(i)}
<1>1. n \in Nat
  OBVIOUS
<1>2. ASSUME NEW i \in 1 .. n + 1, \A k \in 1 .. n + 1 : k > i => k \in T
      PROVE  i \in T
  <2>0. ASSUME NEW k \in 1 .. n + 1, k > i PROVE GoodV(k) /\ GoodA(k) /\ GoodO(k)
    BY <1>2, <2>0, Zenon
  <2> HIDE DEF T, n
  <2>1. ASSUME NEW c \in Nat, c > i, NEW tok, Is(t, c, tok) PROVE c + 1 \in 1 .. n + 1 /\ c + 1 > i
    <3>1. c <= n
      BY <2>1, IsThere, Zenon DEF n
    <3> QED
      BY <1>1, <2>1, <3>1
  <2>2. GoodV(i)
    <3> SUFFICES ASSUME NEW v, NEW j, ReadsV(t, i, v, j) PROVE Flat(v) /\ Plane(v)
      BY Zenon
    <3>1. ValueForm(t, i, v, j)
      BY ReadsVForm, Zenon DEF n
    <3>2. i <= n
      BY <3>1, Zenon DEF ValueForm, Is, n
    <3>3. i + 1 \in 1 .. n + 1 /\ i + 1 > i
      BY <1>1, <3>2
    <3>4. GoodA(i + 1) /\ GoodO(i + 1)
      BY <2>0, <3>3, Zenon
    <3>5. \/ \E m : v = Obj(m) /\ \A key \in DOMAIN m : Flat(m[key])
          \/ \E es : v = Arr(es) /\ Listed(es)
          \/ \E s : v = Str(s)
          \/ \E l \in Literals : v = Lit(l)
      <4>1. DOMAIN <<>> = {} /\ <<>> \in Seq({})
        OBVIOUS
      <4>2. \A key \in DOMAIN <<>> : Flat(<<>>[key])
        BY <4>1, Zenon
      <4>3. Listed(<<>>)
        BY <4>1, Zenon DEF Listed
      <4> QED
        BY <3>1, <3>4, <4>2, <4>3, Zenon DEF ValueForm
    <3>6. ASSUME NEW m PROVE Obj(m).type = "obj" /\ Obj(m).obj = m
      BY DEF Obj
    <3>7. ASSUME NEW es PROVE Arr(es).type = "arr" /\ Arr(es).arr = es
      BY DEF Arr
    <3>8. ASSUME NEW s PROVE Str(s).type = "str"
      BY DEF Str
    <3>9. ASSUME NEW l \in Literals PROVE Lit(l).type # "arr" /\ Lit(l).type # "obj"
      BY DEF Lit, Literals
    <3>10. CASE \E m : v = Obj(m) /\ \A key \in DOMAIN m : Flat(m[key])
      <4>1. PICK m : v = Obj(m) /\ \A key \in DOMAIN m : Flat(m[key])
        BY <3>10, Zenon
      <4>2. v.type = "obj" /\ v.obj = m
        BY <3>6, <4>1, Zenon
      <4>3. v.type # "arr"
        BY <4>2
      <4> QED
        BY <4>1, <4>2, <4>3, Zenon DEF Flat, Plane
    <3>11. CASE \E es : v = Arr(es) /\ Listed(es)
      <4>1. PICK es : v = Arr(es) /\ Listed(es)
        BY <3>11, Zenon
      <4>2. v.type = "arr" /\ v.arr = es
        BY <3>7, <4>1, Zenon
      <4>3. v.type # "obj"
        BY <4>2
      <4> QED
        BY <4>1, <4>2, <4>3, Zenon DEF Flat, Plane
    <3>12. CASE \E s : v = Str(s)
      <4>1. v.type = "str"
        BY <3>8, <3>12, Zenon
      <4>2. v.type # "obj" /\ v.type # "arr"
        BY <4>1
      <4> QED
        BY <4>2, Zenon DEF Flat, Plane
    <3>13. CASE \E l \in Literals : v = Lit(l)
      BY <3>9, <3>13, Zenon DEF Flat, Plane
    <3> QED
      BY <3>5, <3>10, <3>11, <3>12, <3>13, Zenon
  <2>3. GoodA(i)
    <3> SUFFICES ASSUME NEW es, NEW j, ReadsA(t, i, es, j) PROVE Listed(es)
      BY Zenon
    <3>0. ArrayForm(t, i, es, j)
      BY ReadsAForm, Zenon DEF n
    <3>1. PICK v, c : /\ ReadsV(t, i, v, c)
                      /\ \/ Is(t, c, ",") /\ \E r : ReadsA(t, c + 1, r, j) /\ es = <<v>> \o r
                         \/ Is(t, c, "]") /\ es = <<v>> /\ j = c + 1
      BY <3>0, Zenon DEF ArrayForm
    <3>2. c \in Nat /\ c > i
      BY <3>1, ReadsOn, Zenon DEF n
    <3>3. CASE Is(t, c, ",") /\ \E r : ReadsA(t, c + 1, r, j) /\ es = <<v>> \o r
      <4>1. c + 1 \in 1 .. n + 1 /\ c + 1 > i
        BY <2>1, <3>2, <3>3, Zenon
      <4>2. PICK r : ReadsA(t, c + 1, r, j) /\ es = <<v>> \o r
        BY <3>3, Zenon
      <4>3. Listed(r)
        BY <2>0, <4>1, <4>2, Zenon
      <4> QED
        BY <4>2, <4>3, ListedCons, Zenon
    <3>4. CASE Is(t, c, "]") /\ es = <<v>> /\ j = c + 1
      BY <3>4, ListedCons, Zenon
    <3> QED
      BY <3>1, <3>3, <3>4, Zenon
  <2>4. GoodO(i)
    <3> SUFFICES ASSUME NEW m, NEW j, ReadsO(t, i, m, j) PROVE \A key \in DOMAIN m : Flat(m[key])
      BY Zenon
    <3>1. ObjectForm(t, i, m, j)
      BY ReadsOForm, Zenon DEF n
    <3>2. PICK key, v, c :
              /\ ReadsV(t, i + 2, v, c)
              /\ \/ Is(t, c, ",") /\ \E r : ReadsO(t, c + 1, r, j) /\ m = Over(r, One(key, v))
                 \/ Is(t, c, "}") /\ m = One(key, v) /\ j = c + 1
      BY <3>1, Zenon DEF ObjectForm
    <3>3. i + 2 \in 1 .. n + 1 /\ i + 2 > i
      <4>1. i + 1 <= n
        BY <3>1, IsThere, Zenon DEF ObjectForm, n
      <4> QED
        BY <1>1, <4>1
    <3>4. c \in Nat /\ c > i
      <4>1. c \in Nat /\ c > i + 2
        BY <3>2, <3>3, ReadsOn, Zenon DEF n
      <4> QED
        BY <4>1
    <3>5. Flat(v)
      BY <2>0, <3>2, <3>3, Zenon
    <3>6. CASE Is(t, c, ",") /\ \E r : ReadsO(t, c + 1, r, j) /\ m = Over(r, One(key, v))
      <4>1. c + 1 \in 1 .. n + 1 /\ c + 1 > i
        BY <2>1, <3>4, <3>6, Zenon
      <4>2. PICK r : ReadsO(t, c + 1, r, j) /\ m = Over(r, One(key, v))
        BY <3>6, Zenon
      <4>3. \A k \in DOMAIN r : Flat(r[k])
        BY <2>0, <4>1, <4>2, Zenon
      <4> QED
        BY <3>5, <4>2, <4>3, FlatOver, Zenon
    <3>7. CASE Is(t, c, "}") /\ m = One(key, v) /\ j = c + 1
      BY <3>5, <3>7, FlatOver, Zenon
    <3> QED
      BY <3>2, <3>6, <3>7, Zenon
  <2> HIDE DEF GoodV, GoodA, GoodO
  <2> QED
    BY <2>2, <2>3, <2>4, Zenon DEF T
<1>3. T \in SUBSET (1 .. n + 1)
  <2> HIDE DEF GoodV, GoodA, GoodO
  <2> QED
    OBVIOUS
<1> HIDE DEF T
<1>4. i0 \in T
  BY <1>1, <1>2, <1>3, Downward, Zenon
<1> QED
  BY <1>4, Zenon DEF T

\* FlattenSeq of lists of at most one element is a sequence.
LEMMA FlattenListed ==
    ASSUME NEW n \in Nat, NEW f,
           \A i \in 1 .. n : f[i] = <<>> \/ \E x : f[i] = <<x>>
    PROVE  Listed(FlattenSeq([i \in 1 .. n |-> f[i]]))
<1> DEFINE S == UNION {{x \in {f[i][1]} : f[i] # <<>>} : i \in 1 .. n}
           seqs == [i \in 1 .. n |-> f[i]]
<1>1. ASSUME NEW i \in 1 .. n PROVE f[i] \in Seq(S)
  <2>1. CASE f[i] = <<>>
    <3> HIDE DEF S
    <3> QED
      BY <2>1
  <2>2. CASE \E x : f[i] = <<x>>
    <3>1. PICK x : f[i] = <<x>>
      BY <2>2, Zenon
    <3>2. f[i] # <<>> /\ f[i][1] = x
      BY <3>1
    <3>3. x \in S
      BY <3>2, Zenon
    <3> HIDE DEF S
    <3> QED
      BY <3>1, <3>3
  <2> QED
    BY <2>1, <2>2, Zenon
<1> HIDE DEF S
<1>2. seqs \in Seq(Seq(S))
  BY <1>1
<1> QED
  BY <1>2, FlattenTyped, Zenon DEF Listed

\* parse_apps_json gives a sequence, whatever the text is.
LEMMA ParseAppsListed ==
    ASSUME NEW text \in Seq(Tokens)
    PROVE  Listed(ParseApps(text))
<1> DEFINE listOf(v) == Get(v, K("apps"), {"arr"}, Arr(<<>>)).arr
           lists == {listOf(v) : v \in Parse(text)}
           list  == CHOOSE l \in lists : TRUE
<1>1. <<>> \in Seq({}) /\ Arr(<<>>).arr = <<>> /\ 1 \in 1 .. Len(text) + 1
  BY DEF Arr
<1>2. ASSUME NEW v \in Parse(text) PROVE Listed(listOf(v))
  <2> DEFINE key == K("apps")
  <2>1. Plane(v)
    BY <1>1, ParseReads, ReadsFlat, Zenon
  <2>2. \/ Get(v, key, {"arr"}, Arr(<<>>)) = Arr(<<>>)
        \/ /\ v.type = "obj" /\ key \in DOMAIN v.obj /\ v.obj[key].type = "arr"
           /\ Get(v, key, {"arr"}, Arr(<<>>)) = v.obj[key]
    <3> HIDE DEF key
    <3> QED
      BY Zenon DEF Get
  <2> HIDE DEF key
  <2>3. CASE Get(v, key, {"arr"}, Arr(<<>>)) = Arr(<<>>)
    BY <1>1, <2>3, Zenon DEF Listed, key
  <2>4. CASE /\ v.type = "obj" /\ key \in DOMAIN v.obj /\ v.obj[key].type = "arr"
             /\ Get(v, key, {"arr"}, Arr(<<>>)) = v.obj[key]
    <3>1. Listed(v.obj[key].arr)
      BY <2>1, <2>4, Zenon DEF Flat, Plane
    <3> QED
      BY <2>4, <3>1, Zenon DEF key
  <2> QED
    BY <2>2, <2>3, <2>4, Zenon
<1> HIDE DEF listOf
<1>3. CASE lists = {}
  BY <1>1, <1>3, Zenon DEF ParseApps, Listed, listOf
<1>4. CASE lists # {}
  <2>1. \E v \in Parse(text) : list = listOf(v)
    BY <1>4
  <2>2. Listed(list)
    BY <1>2, <2>1, Zenon
  <2>3. Len(list) \in Nat
    BY <2>2, LenProperties, Zenon DEF Listed
  <2> HIDE DEF list
  <2>4. ASSUME NEW i \in 1 .. Len(list)
        PROVE  ParseApp(list[i]) = <<>> \/ \E x : ParseApp(list[i]) = <<x>>
    BY Zenon DEF ParseApp
  <2> DEFINE f == [i \in 1 .. Len(list) |-> ParseApp(list[i])]
  <2>5. Listed(FlattenSeq(f))
    <3>1. \A i \in 1 .. Len(list) : f[i] = <<>> \/ \E x : f[i] = <<x>>
      BY <2>4, Zenon
    <3>2. f = [i \in 1 .. Len(list) |-> f[i]]
      OBVIOUS
    <3> HIDE DEF f
    <3>3. Listed(FlattenSeq([i \in 1 .. Len(list) |-> f[i]]))
      BY <2>3, <3>1, FlattenListed, Zenon
    <3> QED
      BY <3>2, <3>3, Zenon
  <2>6. ParseApps(text) = FlattenSeq([i \in 1 .. Len(list) |-> ParseApp(list[i])])
    BY <1>4, Zenon DEF ParseApps, list, listOf
  <2> QED
    BY <2>5, <2>6, Zenon
<1> QED
  BY <1>3, <1>4, Zenon

-----------------------------------------------------------------------------
(* What the writer writes is read back                                     *)

\* Wherever the text stands in a larger one, the value v is read.
Writes(text, v) ==
    /\ text \in Seq(Tokens) /\ Len(text) > 0
    /\ \A T \in Seq(Tokens) : \A p \in 1 .. Len(T) :
          Occurs(T, p, text) => ReadsV(T, p, v, p + Len(text))

Comma      == Token(",")
OpenBrace  == Token("{")
CloseBrace == Token("}")

\* With a brace behind it, the text is read as the members m.
WritesMembers(text, m) ==
    /\ text \in Seq(Tokens) /\ Len(text) > 0
    /\ \A T \in Seq(Tokens) : \A p \in 1 .. Len(T) :
          Occurs(T, p, text) /\ Occurs(T, p + Len(text), <<CloseBrace>>)
              => ReadsO(T, p, m, p + Len(text) + 1)

\* The tokens that the writer puts in.
LEMMA TokenTyped ==
    /\ Comma \in Tokens /\ OpenBrace \in Tokens /\ CloseBrace \in Tokens
    /\ Token("[") \in Tokens /\ Token("]") \in Tokens /\ Token(":") \in Tokens
    /\ \A l \in Literals : Token(l) \in Tokens
    /\ \A s \in Seq(Chars) : StrToken(s) \in Tokens
<1>1. ASSUME NEW m \in Marks, NEW s \in Seq(Chars) PROVE [t |-> m, s |-> s] \in Tokens
  BY DEF Tokens
<1>2. <<>> \in Seq(Chars)
  OBVIOUS
<1>3. ASSUME NEW m \in Marks PROVE Token(m) \in Tokens
  BY <1>1, <1>2, Zenon DEF Token
<1>4. /\ "," \in Marks /\ "{" \in Marks /\ "}" \in Marks /\ "[" \in Marks /\ "]" \in Marks
      /\ ":" \in Marks /\ "str" \in Marks /\ \A l \in Literals : l \in Marks
  BY Zenon DEF Marks
<1>5. \A s \in Seq(Chars) : StrToken(s) \in Tokens
  BY <1>1, <1>4, Zenon DEF StrToken
<1> QED
  BY <1>3, <1>4, <1>5, Zenon DEF Comma, OpenBrace, CloseBrace

\* Where such a token stands, the parser sees its mark.
LEMMA TokenSeen ==
    ASSUME NEW T \in Seq(Tokens), NEW p \in Nat, NEW m, Occurs(T, p, <<Token(m)>>)
    PROVE  Is(T, p, m) /\ p <= Len(T)
<1>1. p <= Len(T) /\ T[p] = Token(m)
  BY OccursOne, Zenon
<1>2. Token(m).t = m
  BY Zenon DEF Token
<1> QED
  BY <1>1, <1>2, Zenon DEF Is

\* And where a string stands, it is read as it was written.
LEMMA StringSeen ==
    ASSUME NEW T \in Seq(Tokens), NEW p \in Nat, NEW s \in Seq(Chars),
           Occurs(T, p, <<StrToken(EscapeTo(s))>>)
    PROVE  Is(T, p, "str") /\ p <= Len(T) /\ s \in StrOf(T[p].s)
<1> DEFINE e == EscapeTo(s)
<1>0. s \in StrOf(e)
  BY StrRoundTrip
<1> HIDE DEF e
<1>1. p <= Len(T) /\ T[p] = StrToken(e)
  BY OccursOne, Zenon DEF e
<1>2. StrToken(e).t = "str" /\ StrToken(e).s = e
  BY DEF StrToken
<1> QED
  BY <1>0, <1>1, <1>2, Zenon DEF Is

\* Strings and literals.
LEMMA WritesStr ==
    ASSUME NEW s \in Seq(Chars)
    PROVE  Writes(DumpStr(s), Str(s))
<1> DEFINE k == StrToken(EscapeTo(s))
           text == DumpStr(s)
<1>1. k \in Tokens
  BY StrRoundTrip, TokenTyped, Zenon
<1>2. text = <<k>>
  BY Zenon DEF DumpStr
<1> HIDE DEF k, text
<1>3. text \in Seq(Tokens) /\ Len(text) = 1
  BY <1>1, <1>2
<1>4. ASSUME NEW T \in Seq(Tokens), NEW p \in 1 .. Len(T), Occurs(T, p, text)
      PROVE  ReadsV(T, p, Str(s), p + Len(text))
  <2>1. p \in Nat /\ p \in 1 .. Len(T) + 1
    OBVIOUS
  <2>2. Is(T, p, "str") /\ s \in StrOf(T[p].s)
    BY <1>2, <1>4, <2>1, StringSeen, Zenon DEF k
  <2>3. ValueForm(T, p, Str(s), p + 1)
    BY <2>2, Zenon DEF ValueForm
  <2> QED
    BY <1>3, <2>1, <2>3, ReadsVForm, Zenon
<1>5. Len(text) > 0
  BY <1>3
<1> QED
  BY <1>3, <1>4, <1>5, Zenon DEF Writes, text

LEMMA WritesLit ==
    ASSUME NEW l \in Literals
    PROVE  Writes(<<Token(l)>>, Lit(l))
<1> DEFINE k == Token(l)
           text == <<k>>
<1>1. k \in Tokens
  BY TokenTyped, Zenon
<1> HIDE DEF k
<1>3. text \in Seq(Tokens) /\ Len(text) = 1
  BY <1>1
<1> HIDE DEF text
<1>4. ASSUME NEW T \in Seq(Tokens), NEW p \in 1 .. Len(T), Occurs(T, p, text)
      PROVE  ReadsV(T, p, Lit(l), p + Len(text))
  <2>1. p \in Nat /\ p \in 1 .. Len(T) + 1
    OBVIOUS
  <2>2. Is(T, p, l)
    BY <1>4, <2>1, TokenSeen, Zenon DEF k, text
  <2>3. ValueForm(T, p, Lit(l), p + 1)
    BY <2>2, Zenon DEF ValueForm, Is
  <2> QED
    BY <1>3, <2>1, <2>3, ReadsVForm, Zenon
<1>5. Len(text) > 0
  BY <1>3
<1> QED
  BY <1>3, <1>4, <1>5, Zenon DEF Writes, k, text

\* A member's text: its key, and behind it the value's text.
LEMMA MemberSeen ==
    ASSUME NEW T \in Seq(Tokens), NEW p \in 1 .. Len(T), NEW key \in Seq(Chars), NEW text, NEW v,
           Writes(text, v), Occurs(T, p, Member(key, text))
    PROVE  /\ p + 2 + Len(text) \in Nat /\ p + 2 + Len(text) <= Len(T) + 1
           /\ Is(T, p, "str") /\ Is(T, p + 1, ":") /\ key \in StrOf(T[p].s)
           /\ ReadsV(T, p + 2, v, p + 2 + Len(text))
<1> DEFINE k == StrToken(EscapeTo(key))
           c == Token(":")
           head == <<k, c>>
           member == Member(key, text)
<1>1. k \in Tokens /\ c \in Tokens
  BY StrRoundTrip, TokenTyped, Zenon
<1>2. member = head \o text
  BY Zenon DEF Member
<1>3. text \in Seq(Tokens) /\ Len(text) > 0 /\ Len(text) \in Nat
  BY LenProperties, Zenon DEF Writes
<1> HIDE DEF k, c, member
<1>4. /\ <<k>> \in Seq(Tokens) /\ <<c>> \in Seq(Tokens) /\ head \in Seq(Tokens)
      /\ head = <<k>> \o <<c>> /\ Len(<<k>>) = 1 /\ Len(head) = 2
  <2>1. ASSUME NEW S, NEW x \in S, NEW y \in S
        PROVE  /\ <<x>> \in Seq(S) /\ <<y>> \in Seq(S) /\ <<x, y>> \in Seq(S)
               /\ <<x, y>> = <<x>> \o <<y>> /\ Len(<<x>>) = 1 /\ Len(<<x, y>>) = 2
    <3> DEFINE a == <<x, y>>
               b == <<x>> \o <<y>>
    <3>1. <<x>> \in Seq(S) /\ <<y>> \in Seq(S) /\ Len(<<x>>) = 1 /\ Len(<<y>>) = 1
      OBVIOUS
    <3>2. a \in Seq(S) /\ Len(a) = 2 /\ a[1] = x /\ a[2] = y
      OBVIOUS
    <3>3. b \in Seq(S) /\ Len(b) = 2 /\ b[1] = x /\ b[2] = y
      BY <3>1
    <3> HIDE DEF a, b
    <3>4. a = b
      BY <3>2, <3>3, SeqEqual
    <3> QED
      BY <3>1, <3>2, <3>4, Zenon DEF a, b
  <2> QED
    BY <1>1, <2>1, Zenon
<1> HIDE DEF head
<1>5. p \in Nat /\ p + 1 \in Nat /\ p + 2 \in Nat
  OBVIOUS
<1>6. Occurs(T, p, head) /\ Occurs(T, p + 2, text)
  <2>1. Occurs(T, p, head \o text)
    BY <1>2, Zenon DEF member
  <2>2. Occurs(T, p, head) /\ Occurs(T, p + Len(head), text)
    BY <1>3, <1>4, <1>5, <2>1, OccursConcat, Zenon
  <2> QED
    BY <1>4, <2>2, Zenon
<1>7. Occurs(T, p, <<k>>) /\ Occurs(T, p + 1, <<c>>)
  BY <1>4, <1>5, <1>6, OccursConcat, Zenon
<1>8. Is(T, p, "str") /\ key \in StrOf(T[p].s)
  BY <1>5, <1>7, StringSeen, Zenon DEF k
<1>9. Is(T, p + 1, ":")
  BY <1>5, <1>7, TokenSeen, Zenon DEF c
<1>10. p + 2 + Len(text) \in Nat /\ p + 2 + Len(text) <= Len(T) + 1
  BY <1>3, <1>5, <1>6 DEF Occurs
<1>11. p + 2 \in 1 .. Len(T)
  BY <1>3, <1>5, <1>10
<1>12. ReadsV(T, p + 2, v, p + 2 + Len(text))
  BY <1>6, <1>11, Zenon DEF Writes
<1> QED
  BY <1>8, <1>9, <1>10, <1>12, Zenon

\* The length of a member's text.
LEMMA MemberTyped ==
    ASSUME NEW key \in Seq(Chars), NEW text \in Seq(Tokens)
    PROVE  Member(key, text) \in Seq(Tokens) /\ Len(Member(key, text)) = 2 + Len(text)
<1> DEFINE k == StrToken(EscapeTo(key))
           c == Token(":")
<1>1. k \in Tokens /\ c \in Tokens
  BY StrRoundTrip, TokenTyped, Zenon
<1>2. Member(key, text) = <<k, c>> \o text
  BY Zenon DEF Member
<1> HIDE DEF k, c
<1> QED
  BY <1>1, <1>2

\* The last member of an object.
LEMMA MembersLast ==
    ASSUME NEW key \in Seq(Chars), NEW text, NEW v, Writes(text, v)
    PROVE  WritesMembers(Member(key, text), One(key, v))
<1> DEFINE member == Member(key, text)
<1>1. text \in Seq(Tokens) /\ Len(text) \in Nat
  BY LenProperties, Zenon DEF Writes
<1>2. member \in Seq(Tokens) /\ Len(member) = 2 + Len(text)
  BY <1>1, MemberTyped, Zenon
<1> HIDE DEF member
<1>3. ASSUME NEW T \in Seq(Tokens), NEW p \in 1 .. Len(T), Occurs(T, p, member),
             Occurs(T, p + Len(member), <<CloseBrace>>)
      PROVE  ReadsO(T, p, One(key, v), p + Len(member) + 1)
  <2> DEFINE q == p + 2 + Len(text)
  <2>1. p \in 1 .. Len(T) + 1 /\ q \in Nat /\ p + Len(member) = q
    BY <1>1, <1>2
  <2>2. /\ Is(T, p, "str") /\ Is(T, p + 1, ":") /\ key \in StrOf(T[p].s)
        /\ ReadsV(T, p + 2, v, q)
    BY <1>3, MemberSeen, Zenon DEF member
  <2> HIDE DEF q
  <2>3. Is(T, q, "}")
    BY <1>3, <2>1, TokenSeen, Zenon DEF CloseBrace
  <2>4. ObjectForm(T, p, One(key, v), q + 1)
    BY <2>2, <2>3, Zenon DEF ObjectForm
  <2> QED
    BY <2>1, <2>4, ReadsOForm, Zenon
<1>4. Len(member) > 0
  BY <1>1, <1>2
<1> QED
  BY <1>2, <1>3, <1>4, Zenon DEF WritesMembers, member

\* A member before others.
LEMMA MembersMore ==
    ASSUME NEW key \in Seq(Chars), NEW text, NEW v, Writes(text, v),
           NEW rest, NEW m, WritesMembers(rest, m)
    PROVE  WritesMembers(Member(key, text) \o (<<Comma>> \o rest), Over(m, One(key, v)))
<1> DEFINE member == Member(key, text)
           tail == <<Comma>> \o rest
           all  == member \o tail
<1>1. /\ text \in Seq(Tokens) /\ Len(text) \in Nat
      /\ rest \in Seq(Tokens) /\ Len(rest) \in Nat /\ Len(rest) > 0
  BY LenProperties, Zenon DEF Writes, WritesMembers
<1>2. member \in Seq(Tokens) /\ Len(member) = 2 + Len(text)
  BY <1>1, MemberTyped, Zenon
<1>3. Comma \in Tokens
  BY TokenTyped, Zenon
<1> HIDE DEF member
<1>4. <<Comma>> \in Seq(Tokens) /\ Len(<<Comma>>) = 1
  BY <1>3
<1>5. /\ tail \in Seq(Tokens) /\ Len(tail) = 1 + Len(rest)
      /\ all \in Seq(Tokens) /\ Len(all) = 3 + Len(text) + Len(rest)
  <2>1. tail \in Seq(Tokens) /\ Len(tail) = 1 + Len(rest)
    BY <1>1, <1>4
  <2> HIDE DEF tail
  <2>2. all \in Seq(Tokens) /\ Len(all) = Len(member) + Len(tail)
    BY <1>2, <2>1
  <2> HIDE DEF all
  <2> QED
    BY <1>1, <1>2, <2>1, <2>2
<1>6. ASSUME NEW T \in Seq(Tokens), NEW p \in 1 .. Len(T), Occurs(T, p, all),
             Occurs(T, p + Len(all), <<CloseBrace>>)
      PROVE  ReadsO(T, p, Over(m, One(key, v)), p + Len(all) + 1)
  <2> DEFINE q == p + 2 + Len(text)
  <2>1. /\ p \in Nat /\ p \in 1 .. Len(T) + 1 /\ q \in Nat /\ q + 1 \in Nat
        /\ p + Len(member) = q /\ q + 1 + Len(rest) = p + Len(all)
    <3> HIDE DEF all, tail
    <3> QED
      BY <1>1, <1>2, <1>5
  <2>2. Occurs(T, p, member) /\ Occurs(T, p + Len(member), tail)
    BY <1>2, <1>5, <1>6, <2>1, OccursConcat, Zenon
  <2>3. /\ Is(T, p, "str") /\ Is(T, p + 1, ":") /\ key \in StrOf(T[p].s)
        /\ ReadsV(T, p + 2, v, q)
    BY <2>2, MemberSeen, Zenon DEF member
  <2> HIDE DEF q
  <2>4. Occurs(T, q, <<Comma>>) /\ Occurs(T, q + 1, rest)
    <3>1. Occurs(T, q, tail)
      BY <2>1, <2>2, Zenon
    <3>2. Occurs(T, q, <<Comma>>) /\ Occurs(T, q + Len(<<Comma>>), rest)
      BY <1>1, <1>4, <2>1, <3>1, OccursConcat, Zenon
    <3> QED
      BY <1>4, <3>2, Zenon
  <2>5. Is(T, q, ",")
    BY <2>1, <2>4, TokenSeen, Zenon DEF Comma
  <2>6. q + 1 \in 1 .. Len(T)
    <3>1. q + 1 + Len(rest) <= Len(T) + 1
      BY <2>4, Zenon DEF Occurs
    <3> QED
      BY <1>1, <2>1, <3>1
  <2>7. ReadsO(T, q + 1, m, q + 1 + Len(rest) + 1)
    BY <1>6, <2>1, <2>4, <2>6, Zenon DEF WritesMembers
  <2>8. ObjectForm(T, p, Over(m, One(key, v)), q + 1 + Len(rest) + 1)
    BY <2>3, <2>5, <2>7, Zenon DEF ObjectForm
  <2> QED
    BY <2>1, <2>8, ReadsOForm, Zenon
<1>7. Len(all) > 0
  BY <1>1, <1>5
<1> QED
  BY <1>5, <1>6, <1>7, Zenon DEF WritesMembers, member

\* Members in braces, or none.
LEMMA WritesBraces ==
    ASSUME NEW text, NEW m, WritesMembers(text, m)
    PROVE  Writes(<<OpenBrace>> \o text \o <<CloseBrace>>, Obj(m))
<1> DEFINE head == <<OpenBrace>> \o text
           all  == head \o <<CloseBrace>>
<1>1. text \in Seq(Tokens) /\ Len(text) \in Nat /\ Len(text) > 0
  BY LenProperties, Zenon DEF WritesMembers
<1>2. OpenBrace \in Tokens /\ CloseBrace \in Tokens
  BY TokenTyped, Zenon
<1>3. /\ <<OpenBrace>> \in Seq(Tokens) /\ Len(<<OpenBrace>>) = 1
      /\ <<CloseBrace>> \in Seq(Tokens) /\ Len(<<CloseBrace>>) = 1
  BY <1>2
<1>4. /\ head \in Seq(Tokens) /\ Len(head) = 1 + Len(text)
      /\ all \in Seq(Tokens) /\ Len(all) = Len(text) + 2
  BY <1>1, <1>3
<1>5. ASSUME NEW T \in Seq(Tokens), NEW p \in 1 .. Len(T), Occurs(T, p, all)
      PROVE  ReadsV(T, p, Obj(m), p + Len(all))
  <2>1. /\ p \in Nat /\ p \in 1 .. Len(T) + 1 /\ p + 1 \in Nat
        /\ p + Len(head) = p + 1 + Len(text) /\ p + 1 + Len(text) + 1 = p + Len(all)
    BY <1>1, <1>4
  <2>2. Occurs(T, p, head) /\ Occurs(T, p + Len(head), <<CloseBrace>>)
    BY <1>3, <1>4, <1>5, <2>1, OccursConcat, Zenon
  <2>3. Occurs(T, p, <<OpenBrace>>) /\ Occurs(T, p + Len(<<OpenBrace>>), text)
    BY <1>1, <1>3, <2>1, <2>2, OccursConcat, Zenon
  <2>4. Is(T, p, "{")
    BY <2>1, <2>3, TokenSeen, Zenon DEF OpenBrace
  <2>5. Occurs(T, p + 1, text)
    BY <1>3, <2>3, Zenon
  <2>6. p + 1 \in 1 .. Len(T)
    <3>1. p + 1 + Len(text) <= Len(T) + 1
      BY <2>5, Zenon DEF Occurs
    <3> QED
      BY <1>1, <2>1, <3>1
  <2>7. ReadsO(T, p + 1, m, p + 1 + Len(text) + 1)
    BY <2>1, <2>2, <2>5, <2>6, Zenon DEF WritesMembers
  <2>8. ValueForm(T, p, Obj(m), p + Len(all))
    BY <2>1, <2>4, <2>7, Zenon DEF ValueForm
  <2> QED
    BY <2>1, <2>8, ReadsVForm, Zenon
<1>6. Len(all) > 0
  BY <1>1, <1>4
<1> QED
  BY <1>4, <1>5, <1>6, Zenon DEF Writes

LEMMA WritesNoMembers == Writes(<<OpenBrace>> \o <<CloseBrace>>, Obj(<<>>))
<1> DEFINE all == <<OpenBrace>> \o <<CloseBrace>>
<1>1. OpenBrace \in Tokens /\ CloseBrace \in Tokens
  BY TokenTyped, Zenon
<1>2. /\ <<OpenBrace>> \in Seq(Tokens) /\ Len(<<OpenBrace>>) = 1
      /\ <<CloseBrace>> \in Seq(Tokens) /\ Len(<<CloseBrace>>) = 1
  BY <1>1
<1>3. all \in Seq(Tokens) /\ Len(all) = 2
  BY <1>2
<1>4. ASSUME NEW T \in Seq(Tokens), NEW p \in 1 .. Len(T), Occurs(T, p, all)
      PROVE  ReadsV(T, p, Obj(<<>>), p + 2)
  <2>1. p \in Nat /\ p \in 1 .. Len(T) + 1 /\ p + 1 \in Nat
    OBVIOUS
  <2>2. Occurs(T, p, <<OpenBrace>>) /\ Occurs(T, p + Len(<<OpenBrace>>), <<CloseBrace>>)
    BY <1>2, <1>4, <2>1, OccursConcat, Zenon
  <2>3. Is(T, p, "{")
    BY <2>1, <2>2, TokenSeen, Zenon DEF OpenBrace
  <2>4. Occurs(T, p + 1, <<CloseBrace>>)
    BY <1>2, <2>2, Zenon
  <2>5. Is(T, p + 1, "}")
    BY <2>1, <2>4, TokenSeen, Zenon DEF CloseBrace
  <2>6. ValueForm(T, p, Obj(<<>>), p + 2)
    BY <2>3, <2>5, Zenon DEF ValueForm
  <2> QED
    BY <2>1, <2>6, ReadsVForm, Zenon
<1> HIDE DEF all
<1>5. Len(all) > 0
  BY <1>3
<1>6. Writes(all, Obj(<<>>))
  BY <1>3, <1>4, <1>5, Zenon DEF Writes
<1> QED
  BY <1>6, Zenon DEF all

\* The text, with a bracket or with a comma and further elements behind it, is
\* read as the elements es, and those further ones.
WritesElements(V, text, es) ==
    /\ text \in Seq(Tokens) /\ Len(text) > 0 /\ es \in Seq(V)
    /\ \A T \in Seq(Tokens) : \A p \in 1 .. Len(T) : Occurs(T, p, text) =>
          /\ Is(T, p + Len(text), "]") => ReadsA(T, p, es, p + Len(text) + 1)
          /\ \A r \in Seq(V) : \A j :
                Is(T, p + Len(text), ",") /\ ReadsA(T, p + Len(text) + 1, r, j)
                    => ReadsA(T, p, es \o r, j)

\* The text of a value is that of one element.
LEMMA ElementsFirst ==
    ASSUME NEW V, NEW v \in V, NEW text, Writes(text, v)
    PROVE  WritesElements(V, text, <<v>>)
<1>1. text \in Seq(Tokens) /\ Len(text) > 0 /\ <<v>> \in Seq(V)
  <2>1. <<v>> \in Seq(V)
    OBVIOUS
  <2> QED
    BY <2>1, Zenon DEF Writes
<1>2. ASSUME NEW T \in Seq(Tokens), NEW p \in 1 .. Len(T), Occurs(T, p, text)
      PROVE  /\ Is(T, p + Len(text), "]") => ReadsA(T, p, <<v>>, p + Len(text) + 1)
             /\ \A r \in Seq(V) : \A j :
                   Is(T, p + Len(text), ",") /\ ReadsA(T, p + Len(text) + 1, r, j)
                       => ReadsA(T, p, <<v>> \o r, j)
  <2> DEFINE q == p + Len(text)
  <2>1. p \in 1 .. Len(T) + 1
    OBVIOUS
  <2>2. ReadsV(T, p, v, q)
    BY <1>2, Zenon DEF Writes
  <2> HIDE DEF q
  <2>3. ASSUME Is(T, q, "]") PROVE ReadsA(T, p, <<v>>, q + 1)
    <3>1. ArrayForm(T, p, <<v>>, q + 1)
      BY <2>2, <2>3, Zenon DEF ArrayForm
    <3> QED
      BY <2>1, <3>1, ReadsAForm, Zenon
  <2>4. ASSUME NEW r, NEW j, Is(T, q, ","), ReadsA(T, q + 1, r, j)
        PROVE  ReadsA(T, p, <<v>> \o r, j)
    <3>1. ArrayForm(T, p, <<v>> \o r, j)
      BY <2>2, <2>4, Zenon DEF ArrayForm
    <3> QED
      BY <2>1, <3>1, ReadsAForm, Zenon
  <2> QED
    BY <2>3, <2>4, Zenon DEF q
<1> QED
  BY <1>1, <1>2, Zenon DEF WritesElements

\* An element behind others.
LEMMA ElementsMore ==
    ASSUME NEW V, NEW a, NEW es, WritesElements(V, a, es), NEW v \in V, NEW b, Writes(b, v)
    PROVE  WritesElements(V, a \o (<<Comma>> \o b), es \o <<v>>)
<1> DEFINE tail == <<Comma>> \o b
           text == a \o tail
           all  == es \o <<v>>
<1>1. /\ a \in Seq(Tokens) /\ Len(a) > 0 /\ es \in Seq(V) /\ Len(a) \in Nat
      /\ b \in Seq(Tokens) /\ Len(b) > 0 /\ Len(b) \in Nat
  BY LenProperties, Zenon DEF Writes, WritesElements
<1>2. Comma \in Tokens
  BY TokenTyped, Zenon
<1>3. <<Comma>> \in Seq(Tokens) /\ Len(<<Comma>>) = 1
  BY <1>2
<1>4. tail \in Seq(Tokens) /\ Len(tail) = 1 + Len(b)
  BY <1>1, <1>3
<1> HIDE DEF tail
<1>5. text \in Seq(Tokens) /\ Len(text) = Len(a) + Len(tail)
  BY <1>1, <1>4, ConcatProperties, Zenon
<1>6. <<v>> \in Seq(V) /\ all \in Seq(V)
  BY <1>1
<1>7. WritesElements(V, b, <<v>>)
  BY ElementsFirst, Zenon
<1>8. \A r \in Seq(V) : <<v>> \o r \in Seq(V) /\ all \o r = es \o (<<v>> \o r)
  <2> TAKE r \in Seq(V)
  <2>1. <<v>> \o r \in Seq(V)
    BY <1>6
  <2>2. (es \o <<v>>) \o r = es \o (<<v>> \o r)
    BY <1>1, <1>6, ConcatAssociative
  <2> QED
    BY <2>1, <2>2, Zenon
<1> HIDE DEF text, all
<1>9. ASSUME NEW T \in Seq(Tokens), NEW p \in 1 .. Len(T), Occurs(T, p, text)
      PROVE  /\ Is(T, p + Len(text), "]") => ReadsA(T, p, all, p + Len(text) + 1)
             /\ \A r \in Seq(V) : \A j :
                   Is(T, p + Len(text), ",") /\ ReadsA(T, p + Len(text) + 1, r, j)
                       => ReadsA(T, p, all \o r, j)
  <2> DEFINE q == p + Len(a)
             e == p + Len(text)
  <2>1. p \in Nat /\ q \in Nat /\ q + 1 \in Nat /\ e = q + 1 + Len(b)
    BY <1>1, <1>4, <1>5
  <2>2. Occurs(T, p, a) /\ Occurs(T, q, tail)
    BY <1>1, <1>4, <1>9, <2>1, OccursConcat, Zenon DEF text
  <2> HIDE DEF q, e
  <2>3. Occurs(T, q, <<Comma>>) /\ Occurs(T, q + 1, b)
    <3>1. Occurs(T, q, <<Comma>>) /\ Occurs(T, q + Len(<<Comma>>), b)
      BY <1>1, <1>3, <2>1, <2>2, OccursConcat, Zenon DEF tail
    <3> QED
      BY <1>3, <3>1, Zenon
  <2>4. Is(T, q, ",")
    BY <2>1, <2>3, TokenSeen, Zenon DEF Comma
  <2>5. q + 1 \in 1 .. Len(T)
    <3>1. q + 1 + Len(b) <= Len(T) + 1
      BY <2>3, Zenon DEF Occurs
    <3> QED
      BY <1>1, <2>1, <3>1
  <2>6. /\ Is(T, e, "]") => ReadsA(T, q + 1, <<v>>, e + 1)
        /\ \A r \in Seq(V) : \A j :
              Is(T, e, ",") /\ ReadsA(T, e + 1, r, j) => ReadsA(T, q + 1, <<v>> \o r, j)
    BY <1>7, <2>1, <2>3, <2>5, Zenon DEF WritesElements
  <2>7. \A r \in Seq(V) : \A j : ReadsA(T, q + 1, r, j) => ReadsA(T, p, es \o r, j)
    BY <2>2, <2>4, Zenon DEF WritesElements, q
  <2>8. ASSUME Is(T, e, "]") PROVE ReadsA(T, p, all, e + 1)
    BY <1>6, <2>6, <2>7, <2>8, Zenon DEF all
  <2>9. ASSUME NEW r \in Seq(V), NEW j, Is(T, e, ","), ReadsA(T, e + 1, r, j)
        PROVE  ReadsA(T, p, all \o r, j)
    <3>1. ReadsA(T, p, es \o (<<v>> \o r), j)
      BY <1>8, <2>6, <2>7, <2>9, Zenon
    <3> QED
      BY <1>8, <3>1, Zenon
  <2> QED
    BY <2>8, <2>9, Zenon DEF e
<1>10. Len(text) > 0
  BY <1>1, <1>4, <1>5
<1>11. WritesElements(V, text, all)
  BY <1>5, <1>6, <1>9, <1>10, Zenon DEF WritesElements
<1> QED
  BY <1>11, Zenon DEF text, all, tail

\* The parts that Joined lays out.
Parts(texts) == [i \in 1 .. Len(texts) |-> IF i = 1 THEN texts[i] ELSE <<Comma>> \o texts[i]]

\* Joined, step by step.
LEMMA JoinedSteps ==
    ASSUME NEW texts \in Seq(Seq(Tokens)), texts # <<>>
    PROVE  \E f \in [1 .. Len(texts) -> Seq(Tokens)] :
              /\ Joined(texts) = f[Len(texts)]
              /\ f[1] = texts[1]
              /\ \A i \in 2 .. Len(texts) : f[i] = f[i - 1] \o (<<Comma>> \o texts[i])
<1> DEFINE n == Len(texts)
           parts == Parts(texts)
<1>1. n \in Nat /\ n >= 1 /\ \A i \in 1 .. n : texts[i] \in Seq(Tokens)
  OBVIOUS
<1>2. Joined(texts) = FlattenSeq(parts)
  BY Zenon DEF Joined, Comma, Parts
<1>3. Comma \in Tokens
  BY TokenTyped, Zenon
<1>4. ASSUME NEW i \in 1 .. n
      PROVE  (IF i = 1 THEN texts[i] ELSE <<Comma>> \o texts[i]) \in Seq(Tokens)
  BY <1>1, <1>3
<1>5. /\ parts \in Seq(Seq(Tokens)) /\ Len(parts) = n /\ parts # <<>>
      /\ parts[1] = texts[1] /\ \A i \in 2 .. n : parts[i] = <<Comma>> \o texts[i]
  BY <1>1, <1>4 DEF Parts
<1> HIDE DEF parts
<1>6. PICK f \in [1 .. n -> Seq(Tokens)] :
         /\ FlattenSeq(parts) = f[n]
         /\ f[1] = parts[1]
         /\ \A i \in 2 .. n : f[i] = f[i - 1] \o parts[i]
  <2>1. \E f \in [1 .. Len(parts) -> Seq(Tokens)] :
           /\ FlattenSeq(parts) = f[Len(parts)]
           /\ f[1] = parts[1]
           /\ \A i \in 2 .. Len(parts) : f[i] = f[i - 1] \o parts[i]
    <3>1. parts \in Seq(Seq(Tokens)) /\ parts # <<>>
      BY <1>5, Zenon
    <3> HIDE DEF n
    <3> QED
      BY <3>1, FlattenSteps, Zenon
  <2>2. Len(parts) = n
    BY <1>5
  <2> QED
    BY <2>1, <2>2, Zenon
<1> QED
  BY <1>2, <1>5, <1>6, Zenon

\* The elements of an array.
LEMMA JoinedElements ==
    ASSUME NEW V, NEW vs \in Seq(V), NEW texts \in Seq(Seq(Tokens)), Len(texts) = Len(vs),
           texts # <<>>, \A i \in 1 .. Len(vs) : Writes(texts[i], vs[i])
    PROVE  WritesElements(V, Joined(texts), vs)
<1> DEFINE n == Len(vs)
<1>1. n \in Nat /\ n >= 1 /\ Len(texts) = n /\ \A i \in 1 .. n : vs[i] \in V
  OBVIOUS
<1>2. PICK f \in [1 .. Len(texts) -> Seq(Tokens)] :
         /\ Joined(texts) = f[Len(texts)]
         /\ f[1] = texts[1]
         /\ \A i \in 2 .. Len(texts) : f[i] = f[i - 1] \o (<<Comma>> \o texts[i])
  BY JoinedSteps, Zenon
<1> DEFINE Good(k) == WritesElements(V, f[k], SubSeq(vs, 1, k))
           T == {k \in Nat : k + 1 <= n => Good(k + 1)}
<1>3. Good(1)
  <2>1. SubSeq(vs, 1, 1) = <<vs[1]>>
    <3> DEFINE a == SubSeq(vs, 1, 1)
               b == <<vs[1]>>
    <3>1. a \in Seq(V) /\ Len(a) = 1 /\ a[1] = vs[1]
      BY <1>1
    <3>2. b \in Seq(V) /\ Len(b) = 1 /\ b[1] = vs[1]
      BY <1>1
    <3> HIDE DEF a, b
    <3>3. a = b
      BY <3>1, <3>2, SeqEqual
    <3> QED
      BY <3>3, Zenon DEF a, b
  <2>2. 1 \in 1 .. n
    BY <1>1
  <2> QED
    BY <1>1, <1>2, <2>1, <2>2, ElementsFirst, Zenon
<1>4. ASSUME NEW k \in Nat, k >= 1, k + 1 <= n, Good(k) PROVE Good(k + 1)
  <2>1. k + 1 \in 2 .. n /\ k + 1 \in 1 .. n /\ (k + 1) - 1 = k
    BY <1>1, <1>4
  <2>2. SubSeq(vs, 1, k + 1) = SubSeq(vs, 1, k) \o <<vs[k + 1]>>
    BY <1>1, <1>4
  <2>3. f[k + 1] = f[k] \o (<<Comma>> \o texts[k + 1])
    BY <1>1, <1>2, <2>1, Zenon
  <2>4. Writes(texts[k + 1], vs[k + 1]) /\ vs[k + 1] \in V
    BY <1>1, <2>1, Zenon
  <2> QED
    BY <1>4, <2>2, <2>3, <2>4, ElementsMore, Zenon
<1> HIDE DEF Good, n
<1>5. T \in SUBSET Nat
  OBVIOUS
<1>6. 0 \in T
  <2>1. 0 + 1 = 1 /\ 0 \in Nat
    OBVIOUS
  <2> QED
    BY <1>3, <2>1, Zenon
<1>7. ASSUME NEW k \in T PROVE k + 1 \in T
  <2>1. k \in Nat /\ k + 1 \in Nat /\ k + 1 >= 1 /\ (k + 1 + 1 <= n => k + 1 <= n)
    BY <1>1
  <2>2. ASSUME k + 1 + 1 <= n PROVE Good(k + 1 + 1)
    BY <1>4, <1>7, <2>1, <2>2, Zenon
  <2> QED
    BY <2>1, <2>2, Zenon
<1> HIDE DEF T
<1>8. T = Nat
  BY <1>5, <1>6, <1>7, SetInduction, Zenon
<1>9. n - 1 \in Nat /\ (n - 1) + 1 = n /\ n <= n
  BY <1>1
<1>10. Good(n)
  <2>1. n - 1 \in T
    BY <1>8, <1>9, Zenon
  <2> QED
    BY <1>9, <2>1, Zenon DEF T
<1>11. SubSeq(vs, 1, n) = vs
  BY DEF n
<1> QED
  BY <1>1, <1>2, <1>10, <1>11, Zenon DEF Good, n

\* Arrays.
LEMMA WritesArr ==
    ASSUME NEW V, NEW vs \in Seq(V), NEW texts \in Seq(Seq(Tokens)), Len(texts) = Len(vs),
           \A i \in 1 .. Len(vs) : Writes(texts[i], vs[i])
    PROVE  Writes(DumpArr(texts), Arr(vs))
<1> DEFINE open  == Token("[")
           close == Token("]")
           text  == Joined(texts)
           head  == <<open>> \o text
           all   == head \o <<close>>
<1>1. open \in Tokens /\ close \in Tokens
  BY TokenTyped, Zenon
<1>2. DumpArr(texts) = all
  BY Zenon DEF DumpArr
<1>3. texts # <<>> => WritesElements(V, text, vs)
  BY JoinedElements, Zenon
<1>4. texts = <<>> => text = <<>> /\ vs = <<>>
  <2> SUFFICES ASSUME texts = <<>> PROVE text = <<>> /\ vs = <<>>
    BY Zenon
  <2>1. Len(texts) = 0 /\ vs = <<>>
    OBVIOUS
  <2>2. [i \in 1 .. Len(texts) |-> IF i = 1 THEN texts[i] ELSE <<Comma>> \o texts[i]] = <<>>
    BY <2>1
  <2>3. text = FlattenSeq(<<>>)
    BY <2>2, Zenon DEF Joined, Comma
  <2>4. FlattenSeq(<<>>) = <<>>
    BY Zenon DEF FlattenSeq
  <2> QED
    BY <2>1, <2>3, <2>4, Zenon
<1>5. text \in Seq(Tokens) /\ Len(text) \in Nat
  <2>1. text \in Seq(Tokens)
    <3>1. <<>> \in Seq(Tokens)
      OBVIOUS
    <3> QED
      BY <1>3, <1>4, <3>1, Zenon DEF WritesElements
  <2> QED
    BY <2>1, LenProperties, Zenon
<1> HIDE DEF open, close, text
<1>6. /\ <<open>> \in Seq(Tokens) /\ Len(<<open>>) = 1
      /\ <<close>> \in Seq(Tokens) /\ Len(<<close>>) = 1
  BY <1>1
<1>7. /\ head \in Seq(Tokens) /\ Len(head) = 1 + Len(text)
      /\ all \in Seq(Tokens) /\ Len(all) = Len(text) + 2
  BY <1>5, <1>6
<1> HIDE DEF head, all
<1>8. ASSUME NEW T \in Seq(Tokens), NEW p \in 1 .. Len(T), Occurs(T, p, all)
      PROVE  ReadsV(T, p, Arr(vs), p + Len(all))
  <2>1. /\ p \in Nat /\ p \in 1 .. Len(T) + 1 /\ p + 1 \in Nat
        /\ p + Len(head) = p + 1 + Len(text) /\ p + 1 + Len(text) + 1 = p + Len(all)
        /\ p + 1 + Len(text) \in Nat
    BY <1>5, <1>7
  <2>2. Occurs(T, p, head) /\ Occurs(T, p + Len(head), <<close>>)
    BY <1>6, <1>7, <1>8, <2>1, OccursConcat, Zenon DEF all
  <2>3. Occurs(T, p, <<open>>) /\ Occurs(T, p + Len(<<open>>), text)
    BY <1>5, <1>6, <2>1, <2>2, OccursConcat, Zenon DEF head
  <2>4. Is(T, p, "[")
    BY <2>1, <2>3, TokenSeen, Zenon DEF open
  <2>5. Occurs(T, p + 1, text)
    BY <1>6, <2>3, Zenon
  <2>6. Is(T, p + 1 + Len(text), "]")
    BY <2>1, <2>2, TokenSeen, Zenon DEF close
  <2>7. CASE texts # <<>>
    <3>1. WritesElements(V, text, vs)
      BY <1>3, <2>7, Zenon
    <3>2. p + 1 \in 1 .. Len(T)
      <4>1. p + 1 + Len(text) <= Len(T) + 1 /\ Len(text) > 0
        BY <2>5, <3>1, Zenon DEF Occurs, WritesElements
      <4> QED
        BY <1>5, <2>1, <4>1
    <3>3. ReadsA(T, p + 1, vs, p + 1 + Len(text) + 1)
      BY <2>5, <2>6, <3>1, <3>2, Zenon DEF WritesElements
    <3>4. ValueForm(T, p, Arr(vs), p + Len(all))
      BY <2>1, <2>4, <3>3, Zenon DEF ValueForm
    <3> QED
      BY <2>1, <3>4, ReadsVForm, Zenon
  <2>8. CASE texts = <<>>
    <3>1. vs = <<>> /\ Len(text) = 0
      BY <1>4, <2>8
    <3>2. Is(T, p + 1, "]") /\ p + Len(all) = p + 2
      BY <1>7, <2>1, <2>6, <3>1
    <3>3. ValueForm(T, p, Arr(vs), p + Len(all))
      BY <2>4, <3>1, <3>2, Zenon DEF ValueForm
    <3> QED
      BY <2>1, <3>3, ReadsVForm, Zenon
  <2> QED
    BY <2>7, <2>8, Zenon
<1>9. Len(all) > 0
  BY <1>5, <1>7
<1> QED
  BY <1>2, <1>7, <1>8, <1>9, Zenon DEF Writes

\* Joined, of two texts and of three.
LEMMA JoinedTwo ==
    ASSUME NEW a \in Seq(Tokens), NEW b \in Seq(Tokens)
    PROVE  Joined(<<a, b>>) = a \o (<<Comma>> \o b)
<1> DEFINE texts == <<a, b>>
<1>1. ASSUME NEW S, NEW x \in S, NEW y \in S
      PROVE  /\ <<x, y>> \in Seq(S) /\ Len(<<x, y>>) = 2 /\ <<x, y>> # <<>>
             /\ <<x, y>>[1] = x /\ <<x, y>>[2] = y
  OBVIOUS
<1>2. /\ texts \in Seq(Seq(Tokens)) /\ Len(texts) = 2 /\ texts # <<>>
      /\ texts[1] = a /\ texts[2] = b
  BY <1>1, Zenon
<1> HIDE DEF texts
<1>3. PICK f \in [1 .. Len(texts) -> Seq(Tokens)] :
         /\ Joined(texts) = f[Len(texts)]
         /\ f[1] = texts[1]
         /\ \A i \in 2 .. Len(texts) : f[i] = f[i - 1] \o (<<Comma>> \o texts[i])
  BY <1>2, JoinedSteps, Zenon
<1>4. 2 \in 2 .. Len(texts) /\ 2 - 1 = 1
  BY <1>2
<1>5. f[2] = f[2 - 1] \o (<<Comma>> \o texts[2])
  BY <1>3, <1>4, Zenon
<1> QED
  BY <1>2, <1>3, <1>4, <1>5, Zenon DEF texts

Equal(a, b) == a = b

\* Three texts in a row, however they were put together.
LEMMA Reassociate ==
    ASSUME NEW S, NEW s \in Seq(S), NEW t \in Seq(S), NEW u \in Seq(S)
    PROVE  Equal((s \o t) \o u, s \o (t \o u))
<1>1. (s \o t) \o u = s \o (t \o u)
  BY ConcatAssociative
<1> QED
  BY <1>1, Zenon DEF Equal

LEMMA JoinedThree ==
    ASSUME NEW a \in Seq(Tokens), NEW b \in Seq(Tokens), NEW c \in Seq(Tokens)
    PROVE  Joined(<<a, b, c>>) = a \o (<<Comma>> \o (b \o (<<Comma>> \o c)))
<1> DEFINE texts == <<a, b, c>>
           k == <<Comma>>
<1>1. ASSUME NEW S, NEW x \in S, NEW y \in S, NEW z \in S
      PROVE  /\ <<x, y, z>> \in Seq(S) /\ Len(<<x, y, z>>) = 3 /\ <<x, y, z>> # <<>>
             /\ <<x, y, z>>[1] = x /\ <<x, y, z>>[2] = y /\ <<x, y, z>>[3] = z
  OBVIOUS
<1>2. /\ texts \in Seq(Seq(Tokens)) /\ Len(texts) = 3 /\ texts # <<>>
      /\ texts[1] = a /\ texts[2] = b /\ texts[3] = c
  BY <1>1, Zenon
<1> HIDE DEF texts
<1>3. PICK f \in [1 .. Len(texts) -> Seq(Tokens)] :
         /\ Joined(texts) = f[Len(texts)]
         /\ f[1] = texts[1]
         /\ \A i \in 2 .. Len(texts) : f[i] = f[i - 1] \o (k \o texts[i])
  BY <1>2, JoinedSteps, Zenon
<1>4. 2 \in 2 .. Len(texts) /\ 2 - 1 = 1 /\ 3 \in 2 .. Len(texts) /\ 3 - 1 = 2
  BY <1>2
<1>5. f[2] = f[2 - 1] \o (k \o texts[2]) /\ f[3] = f[3 - 1] \o (k \o texts[3])
  BY <1>3, <1>4, Zenon
<1>6. Joined(texts) = (a \o (k \o b)) \o (k \o c)
  BY <1>2, <1>3, <1>4, <1>5, Zenon
<1>7. k \in Seq(Tokens)
  <2>1. Comma \in Tokens
    BY TokenTyped, Zenon
  <2> QED
    BY <2>1
<1> HIDE DEF k
<1>8. k \o b \in Seq(Tokens) /\ k \o c \in Seq(Tokens)
  BY <1>7, ConcatProperties, Zenon
<1> DEFINE x == k \o b
           y == k \o c
<1> HIDE DEF x, y
<1>9. Equal((a \o x) \o y, a \o (x \o y))
  <2>1. x \in Seq(Tokens) /\ y \in Seq(Tokens)
    BY <1>8, Zenon DEF x, y
  <2> QED
    BY <2>1, Reassociate, Zenon
<1>10. Equal((k \o b) \o y, k \o (b \o y))
  <2>1. y \in Seq(Tokens)
    BY <1>8, Zenon DEF y
  <2> QED
    BY <1>7, <2>1, Reassociate, Zenon
<1> QED
  BY <1>6, <1>9, <1>10, Zenon DEF Equal, k, texts, x, y

\* An object of two members, and one of three.
LEMMA WritesTwo ==
    ASSUME NEW k1 \in Seq(Chars), NEW t1, NEW v1, Writes(t1, v1),
           NEW k2 \in Seq(Chars), NEW t2, NEW v2, Writes(t2, v2)
    PROVE  Writes(DumpObj(<<Member(k1, t1), Member(k2, t2)>>), Obj(Over(One(k2, v2), One(k1, v1))))
<1> DEFINE m1 == Member(k1, t1)
           m2 == Member(k2, t2)
           text == m1 \o (<<Comma>> \o m2)
<1>1. t1 \in Seq(Tokens) /\ t2 \in Seq(Tokens)
  BY Zenon DEF Writes
<1>2. m1 \in Seq(Tokens) /\ m2 \in Seq(Tokens)
  BY <1>1, MemberTyped, Zenon
<1>3. WritesMembers(m2, One(k2, v2))
  BY MembersLast, Zenon
<1>4. WritesMembers(text, Over(One(k2, v2), One(k1, v1)))
  BY <1>3, MembersMore, Zenon
<1> HIDE DEF m1, m2
<1>5. Joined(<<m1, m2>>) = text
  BY <1>2, JoinedTwo
<1>6. DumpObj(<<m1, m2>>) = <<OpenBrace>> \o text \o <<CloseBrace>>
  BY <1>5, Zenon DEF DumpObj, OpenBrace, CloseBrace
<1> HIDE DEF text
<1> QED
  BY <1>4, <1>6, WritesBraces, Zenon DEF m1, m2

LEMMA WritesThree ==
    ASSUME NEW k1 \in Seq(Chars), NEW t1, NEW v1, Writes(t1, v1),
           NEW k2 \in Seq(Chars), NEW t2, NEW v2, Writes(t2, v2),
           NEW k3 \in Seq(Chars), NEW t3, NEW v3, Writes(t3, v3)
    PROVE  Writes(DumpObj(<<Member(k1, t1), Member(k2, t2), Member(k3, t3)>>),
                  Obj(Over(Over(One(k3, v3), One(k2, v2)), One(k1, v1))))
<1> DEFINE m1 == Member(k1, t1)
           m2 == Member(k2, t2)
           m3 == Member(k3, t3)
           tail == m2 \o (<<Comma>> \o m3)
           text == m1 \o (<<Comma>> \o tail)
<1>1. t1 \in Seq(Tokens) /\ t2 \in Seq(Tokens) /\ t3 \in Seq(Tokens)
  BY Zenon DEF Writes
<1>2. m1 \in Seq(Tokens) /\ m2 \in Seq(Tokens) /\ m3 \in Seq(Tokens)
  BY <1>1, MemberTyped, Zenon
<1>3. WritesMembers(m3, One(k3, v3))
  BY MembersLast, Zenon
<1>4. WritesMembers(tail, Over(One(k3, v3), One(k2, v2)))
  BY <1>3, MembersMore, Zenon
<1>5. WritesMembers(text, Over(Over(One(k3, v3), One(k2, v2)), One(k1, v1)))
  <2> HIDE DEF tail
  <2> QED
    BY <1>4, MembersMore, Zenon
<1> HIDE DEF m1, m2, m3
<1>6. Joined(<<m1, m2, m3>>) = text
  BY <1>2, JoinedThree
<1>7. DumpObj(<<m1, m2, m3>>) = <<OpenBrace>> \o text \o <<CloseBrace>>
  BY <1>6, Zenon DEF DumpObj, OpenBrace, CloseBrace
<1> HIDE DEF text
<1> QED
  BY <1>5, <1>7, WritesBraces, Zenon DEF m1, m2, m3

-----------------------------------------------------------------------------
(* The catalog                                                             *)

\* The value of an app's text, and that of a catalog's.
NamedMap(a) == Over(One(K("wait-all"), Lit(FlagText(a.waitAll))), One(K("name"), Str(a.name)))
AppMap(a)   == IF a.cmd = <<>> THEN NamedMap(a) ELSE Over(NamedMap(a), One(K("cmd"), Str(a.cmd)))
AppValue(a) == Obj(AppMap(a))
AppValues(apps) == [i \in 1 .. Len(apps) |-> AppValue(apps[i])]
CatalogMap(apps) == Over(One(K("env"), Obj(<<>>)), One(K("apps"), Arr(AppValues(apps))))

\* The keys are strings, and differ.
LEMMA KeysTyped ==
    /\ K("wait-all") \in Seq(Chars) /\ K("name") \in Seq(Chars) /\ K("cmd") \in Seq(Chars)
    /\ K("apps") \in Seq(Chars) /\ K("env") \in Seq(Chars)
    /\ K("wait-all") # K("name") /\ K("wait-all") # K("cmd") /\ K("name") # K("cmd")
    /\ K("apps") # K("env")
<1>1. ASSUME NEW x \in Chars PROVE <<x>> \in Seq(Chars)
  OBVIOUS
<1>2. ASSUME NEW x, NEW y, x # y PROVE <<x>> # <<y>>
  BY <1>2
<1>3. /\ "wait-all" \in Chars /\ "name" \in Chars /\ "cmd" \in Chars /\ "apps" \in Chars
      /\ "env" \in Chars
  BY CatalogAssumption, Zenon
<1>4. "wait-all" # "name" /\ "wait-all" # "cmd" /\ "name" # "cmd" /\ "apps" # "env"
  OBVIOUS
<1> QED
  BY <1>1, <1>2, <1>3, <1>4, Zenon DEF K

\* The text of an app.
LEMMA AppWritten ==
    ASSUME NEW a \in Games
    PROVE  Writes(SerializeApp(a), AppValue(a))
<1> DEFINE m1 == Member(K("cmd"), DumpStr(a.cmd))
           m2 == Member(K("name"), DumpStr(a.name))
           m3 == Member(K("wait-all"), <<Token(FlagText(a.waitAll))>>)
<1>1. a.name \in Seq(Chars) /\ a.cmd \in Seq(Chars) /\ a.waitAll \in BOOLEAN
  BY DEF Games
<1>2. Writes(DumpStr(a.name), Str(a.name)) /\ Writes(DumpStr(a.cmd), Str(a.cmd))
  BY <1>1, WritesStr, Zenon
<1>3. FlagText(a.waitAll) \in Literals
  BY DEF FlagText, Literals
<1>4. Writes(<<Token(FlagText(a.waitAll))>>, Lit(FlagText(a.waitAll)))
  BY <1>3, WritesLit, Zenon
<1>5. CASE a.cmd = <<>>
  <2>1. Writes(DumpObj(<<m2, m3>>), Obj(NamedMap(a)))
    BY <1>2, <1>4, KeysTyped, WritesTwo, Zenon DEF NamedMap
  <2>2. <<>> \o <<m2, m3>> = <<m2, m3>>
    <3>1. ASSUME NEW x, NEW y PROVE <<>> \o <<x, y>> = <<x, y>>
      <4>1. <<x, y>> \in Seq({x, y})
        OBVIOUS
      <4> QED
        BY <4>1, ConcatEmptySeq
    <3> QED
      BY <3>1, Zenon
  <2>3. SerializeApp(a) = DumpObj(<<>> \o <<m2, m3>>)
    BY <1>5, Zenon DEF SerializeApp
  <2> QED
    BY <1>5, <2>1, <2>2, <2>3, Zenon DEF AppValue, AppMap
<1>6. CASE a.cmd # <<>>
  <2>1. Writes(DumpObj(<<m1, m2, m3>>), Obj(Over(NamedMap(a), One(K("cmd"), Str(a.cmd)))))
    BY <1>2, <1>4, KeysTyped, WritesThree, Zenon DEF NamedMap
  <2>2. <<m1>> \o <<m2, m3>> = <<m1, m2, m3>>
    <3>1. ASSUME NEW x, NEW y, NEW z PROVE <<x>> \o <<y, z>> = <<x, y, z>>
      <4> DEFINE S == {x, y, z}
                 p == <<x>> \o <<y, z>>
                 q == <<x, y, z>>
      <4>0. x \in S /\ y \in S /\ z \in S
        OBVIOUS
      <4> HIDE DEF S
      <4>1. <<x>> \in Seq(S) /\ <<y, z>> \in Seq(S) /\ Len(<<x>>) = 1 /\ Len(<<y, z>>) = 2
        BY <4>0
      <4>2. p \in Seq(S) /\ Len(p) = 3 /\ p[1] = x /\ p[2] = y /\ p[3] = z
        BY <4>1
      <4>3. q \in Seq(S) /\ Len(q) = 3 /\ q[1] = x /\ q[2] = y /\ q[3] = z
        BY <4>0
      <4> HIDE DEF p, q
      <4>4. p = q
        BY <4>2, <4>3, SeqEqual
      <4> QED
        BY <4>4, Zenon DEF p, q
    <3> QED
      BY <3>1, Zenon
  <2>3. SerializeApp(a) = DumpObj(<<m1>> \o <<m2, m3>>)
    BY <1>6, Zenon DEF SerializeApp
  <2> QED
    BY <1>6, <2>1, <2>2, <2>3, Zenon DEF AppValue, AppMap
<1> QED
  BY <1>5, <1>6, Zenon

\* The map f has the member key besides those of m.
Extends(f, m, key, v) ==
    /\ DOMAIN f = DOMAIN m \cup {key}
    /\ key \notin DOMAIN m => f[key] = v
    /\ \A k \in DOMAIN m : f[k] = m[k]

\* Looking into maps that were put together.
LEMMA OverAt ==
    ASSUME NEW m, NEW key, NEW v
    PROVE  /\ DOMAIN One(key, v) = {key} /\ One(key, v)[key] = v
           /\ Extends(Over(m, One(key, v)), m, key, v)
<1> DEFINE f == One(key, v)
<1>1. DOMAIN f = {key} /\ f[key] = v
  BY DEF One
<1> HIDE DEF f
<1>2. DOMAIN Over(m, f) = DOMAIN m \cup DOMAIN f
  BY DEF Over
<1>3. ASSUME NEW k \in DOMAIN m \cup DOMAIN f
      PROVE  Over(m, f)[k] = IF k \in DOMAIN m THEN m[k] ELSE f[k]
  BY DEF Over
<1>4. key \notin DOMAIN m => Over(m, f)[key] = v
  <2>1. key \in DOMAIN m \cup DOMAIN f
    BY <1>1
  <2> QED
    BY <1>1, <1>3, <2>1, Zenon
<1>5. \A k \in DOMAIN m : Over(m, f)[k] = m[k]
  <2> TAKE k \in DOMAIN m
  <2>1. k \in DOMAIN m \cup DOMAIN f
    OBVIOUS
  <2> QED
    BY <1>3, <2>1, Zenon
<1> QED
  BY <1>1, <1>2, <1>4, <1>5, Zenon DEF Extends, f

\* Value::get_str and friends, of a map.
LEMMA GetOf ==
    ASSUME NEW m, NEW key, NEW types, NEW default
    PROVE  /\ key \in DOMAIN m /\ m[key].type \in types
                 => Equal(Get(Obj(m), key, types, default), m[key])
           /\ key \notin DOMAIN m => Equal(Get(Obj(m), key, types, default), default)
<1>1. Obj(m).type = "obj" /\ Obj(m).obj = m
  BY DEF Obj
<1> QED
  BY <1>1, Zenon DEF Equal, Get

\* A written app is read back.
LEMMA AppRead ==
    ASSUME NEW a \in Games, a.name # <<>>
    PROVE  ParseApp(AppValue(a)) = <<a>>
<1> DEFINE w == K("wait-all")
           n == K("name")
           c == K("cmd")
           flag == Lit(FlagText(a.waitAll))
           m == AppMap(a)
           first == One(w, flag)
           named == NamedMap(a)
<1>1. w # n /\ w # c /\ n # c
  BY KeysTyped, Zenon
<1>2. named = Over(first, One(n, Str(a.name)))
  BY Zenon DEF NamedMap
<1>3. m = IF a.cmd = <<>> THEN named ELSE Over(named, One(c, Str(a.cmd)))
  BY Zenon DEF AppMap
<1>4. /\ a.name \in Seq(Chars) /\ a.cmd \in Seq(Chars) /\ a.waitAll \in BOOLEAN
      /\ a = [name |-> a.name, cmd |-> a.cmd, waitAll |-> a.waitAll]
  BY DEF Games
<1>5. /\ \A s : Str(s).type = "str" /\ Str(s).str = s
      /\ flag.type \in {"true", "false"} /\ (flag.type = "true" <=> a.waitAll = TRUE)
  BY <1>4 DEF Str, Lit, FlagText
<1> HIDE DEF w, n, c, flag, m, first, named
<1>6. DOMAIN first = {w} /\ first[w] = flag
  BY OverAt, Zenon DEF first
<1>0. Extends(named, first, n, Str(a.name))
  BY <1>2, OverAt, Zenon
<1>7. /\ DOMAIN named = DOMAIN first \cup {n}
      /\ (n \notin DOMAIN first => named[n] = Str(a.name))
      /\ \A k \in DOMAIN first : named[k] = first[k]
  BY <1>0, Zenon DEF Extends
<1>8. DOMAIN named = {w, n} /\ named[w] = flag /\ named[n] = Str(a.name)
  BY <1>1, <1>6, <1>7
<1>9. /\ w \in DOMAIN m /\ m[w] = flag /\ n \in DOMAIN m /\ m[n] = Str(a.name)
      /\ a.cmd = <<>> => c \notin DOMAIN m
      /\ a.cmd # <<>> => c \in DOMAIN m /\ m[c] = Str(a.cmd)
  <2>1. CASE a.cmd = <<>>
    BY <1>1, <1>3, <1>8, <2>1
  <2>2. CASE a.cmd # <<>>
    <3>1. m = Over(named, One(c, Str(a.cmd)))
      BY <1>3, <2>2, Zenon
    <3>0. Extends(m, named, c, Str(a.cmd))
      BY <3>1, OverAt, Zenon
    <3>2. /\ DOMAIN m = DOMAIN named \cup {c}
          /\ (c \notin DOMAIN named => m[c] = Str(a.cmd))
          /\ \A k \in DOMAIN named : m[k] = named[k]
      BY <3>0, Zenon DEF Extends
    <3>3. c \notin DOMAIN named /\ w \in DOMAIN named /\ n \in DOMAIN named
      BY <1>1, <1>8
    <3>4. w \in DOMAIN m /\ n \in DOMAIN m /\ c \in DOMAIN m
      BY <3>2, <3>3, Zenon
    <3> QED
      BY <1>8, <2>2, <3>2, <3>3, <3>4, Zenon
  <2> QED
    BY <2>1, <2>2, Zenon
<1>10. Get(Obj(m), n, {"str"}, Str(<<>>)) = Str(a.name)
  <2>1. m[n].type \in {"str"}
    BY <1>5, <1>9, Zenon
  <2> QED
    <3>1. Equal(Get(Obj(m), n, {"str"}, Str(<<>>)), m[n])
      BY <1>9, <2>1, GetOf, Zenon
    <3> QED
      BY <1>9, <3>1, Zenon DEF Equal
<1>11. Get(Obj(m), c, {"str"}, Str(<<>>)) = Str(a.cmd)
  <2>1. CASE a.cmd = <<>>
    <3>1. Equal(Get(Obj(m), c, {"str"}, Str(<<>>)), Str(<<>>))
      BY <1>9, <2>1, GetOf, Zenon
    <3> QED
      BY <2>1, <3>1, Zenon DEF Equal
  <2>2. CASE a.cmd # <<>>
    <3>1. c \in DOMAIN m /\ m[c] = Str(a.cmd) /\ m[c].type \in {"str"}
      BY <1>5, <1>9, <2>2, Zenon
    <3>2. Equal(Get(Obj(m), c, {"str"}, Str(<<>>)), m[c])
      BY <3>1, GetOf, Zenon
    <3> QED
      BY <3>1, <3>2, Zenon DEF Equal
  <2> QED
    BY <2>1, <2>2, Zenon
<1>12. Get(Obj(m), w, {"true", "false"}, Lit("true")) = flag
  <2>1. m[w].type \in {"true", "false"}
    BY <1>5, <1>9, Zenon
  <2> DEFINE types == {"true", "false"}
             default == Lit("true")
  <2> HIDE DEF types, default
  <2>2. m[w].type \in types
    BY <2>1, Zenon DEF types
  <2>3. Equal(Get(Obj(m), w, types, default), m[w])
    BY <1>9, <2>2, GetOf, Zenon
  <2> QED
    BY <1>9, <2>3, Zenon DEF Equal, types, default
<1> DEFINE v == Obj(m)
<1>13. v.type = "obj"
  BY DEF Obj
<1> HIDE DEF v
<1>14. Get(v, n, {"str"}, Str(<<>>)).str = a.name /\ Get(v, c, {"str"}, Str(<<>>)).str = a.cmd
  BY <1>5, <1>10, <1>11, Zenon DEF v
<1>15. (Get(v, w, {"true", "false"}, Lit("true")).type = "true") = a.waitAll
  BY <1>4, <1>5, <1>12, Zenon DEF v
<1>16. ParseApp(v) =
         <<[name    |-> Get(v, n, {"str"}, Str(<<>>)).str,
            cmd     |-> Get(v, c, {"str"}, Str(<<>>)).str,
            waitAll |-> Get(v, w, {"true", "false"}, Lit("true")).type = "true"]>>
  BY <1>13, <1>14, Zenon DEF ParseApp, n, c, w
<1>17. ParseApp(v) = <<[name |-> a.name, cmd |-> a.cmd, waitAll |-> a.waitAll]>>
  BY <1>14, <1>15, <1>16, Zenon
<1>18. AppValue(a) = v
  BY Zenon DEF AppValue, v, m
<1> QED
  BY <1>4, <1>17, <1>18, Zenon

\* The text of a catalog.
LEMMA CatalogWritten ==
    ASSUME NEW apps \in Seq(Games)
    PROVE  Writes(SerializeApps(apps), Obj(CatalogMap(apps)))
<1> DEFINE n == Len(apps)
           vs == AppValues(apps)
           texts == [i \in 1 .. n |-> SerializeApp(apps[i])]
           V == {AppValue(a) : a \in Games}
<1>1. n \in Nat /\ \A i \in 1 .. n : apps[i] \in Games
  OBVIOUS
<1>2. ASSUME NEW i \in 1 .. n
      PROVE  Writes(SerializeApp(apps[i]), AppValue(apps[i])) /\ AppValue(apps[i]) \in V
  BY <1>1, AppWritten, Zenon
<1>3. ASSUME NEW i \in 1 .. n PROVE SerializeApp(apps[i]) \in Seq(Tokens)
  BY <1>2, Zenon DEF Writes
<1> HIDE DEF V
<1>4. vs \in Seq(V) /\ Len(vs) = n /\ \A i \in 1 .. n : vs[i] = AppValue(apps[i])
  BY <1>1, <1>2 DEF AppValues
<1>5. /\ texts \in Seq(Seq(Tokens)) /\ Len(texts) = n
      /\ \A i \in 1 .. n : texts[i] = SerializeApp(apps[i])
  BY <1>1, <1>3
<1>6. SerializeApps(apps) = DumpObj(<<Member(K("apps"), DumpArr(texts)),
                                      Member(K("env"), DumpObj(<<>>))>>)
  BY Zenon DEF SerializeApps
<1> HIDE DEF vs, texts
<1>7. Writes(DumpArr(texts), Arr(vs))
  <2>1. Len(texts) = Len(vs) /\ \A i \in 1 .. Len(vs) : Writes(texts[i], vs[i])
    BY <1>2, <1>4, <1>5, Zenon
  <2> QED
    BY <1>4, <1>5, <2>1, WritesArr, Zenon
<1>8. Writes(DumpObj(<<>>), Obj(<<>>))
  <2>1. Joined(<<>>) = <<>>
    <3>1. [i \in 1 .. Len(<<>>) |-> IF i = 1 THEN <<>>[i] ELSE <<Comma>> \o <<>>[i]] = <<>>
      OBVIOUS
    <3>2. FlattenSeq(<<>>) = <<>>
      BY Zenon DEF FlattenSeq
    <3> QED
      BY <3>1, <3>2, Zenon DEF Joined, Comma
  <2>2. <<OpenBrace>> \o <<>> = <<OpenBrace>>
    <3>1. <<OpenBrace>> \in Seq({OpenBrace})
      OBVIOUS
    <3> QED
      BY <3>1, ConcatEmptySeq
  <2>3. DumpObj(<<>>) = <<OpenBrace>> \o <<CloseBrace>>
    BY <2>1, <2>2, Zenon DEF DumpObj, OpenBrace, CloseBrace
  <2> QED
    BY <2>3, WritesNoMembers, Zenon
<1>9. CatalogMap(apps) = Over(One(K("env"), Obj(<<>>)), One(K("apps"), Arr(vs)))
  BY Zenon DEF CatalogMap, vs
<1> QED
  BY <1>6, <1>7, <1>8, <1>9, KeysTyped, WritesTwo, Zenon

\* A catalog that was written whole is read back, app by app.
THEOREM CatalogRoundTrip ==
    ASSUME NEW apps \in Seq(Games), \A i \in 1 .. Len(apps) : apps[i].name # <<>>
    PROVE  ParseApps(SerializeApps(apps)) = apps
<1> DEFINE text == SerializeApps(apps)
           m    == CatalogMap(apps)
           v    == Obj(m)
           vs   == AppValues(apps)
           n    == Len(apps)
           env  == One(K("env"), Obj(<<>>))
<1>1. Parse(text) = {v}
  <2>1. Writes(text, v)
    BY CatalogWritten, Zenon
  <2> HIDE DEF text, v
  <2>2. text \in Seq(Tokens) /\ Len(text) > 0
    BY <2>1, Zenon DEF Writes
  <2>3. 1 \in 1 .. Len(text) /\ 1 + Len(text) = Len(text) + 1
    BY <2>2
  <2>4. Occurs(text, 1, text)
    BY <2>2, OccursSelf, Zenon
  <2>5. ReadsV(text, 1, v, Len(text) + 1)
    BY <2>1, <2>2, <2>3, <2>4, Zenon DEF Writes
  <2> QED
    BY <2>2, <2>5, ParseOne, Zenon
<1>2. Get(v, K("apps"), {"arr"}, Arr(<<>>)) = Arr(vs)
  <2> DEFINE k == K("apps")
             e == K("env")
  <2>1. m = Over(env, One(k, Arr(vs))) /\ k # e
    BY KeysTyped, Zenon DEF CatalogMap
  <2>2. DOMAIN env = {e}
    BY OverAt, Zenon
  <2> HIDE DEF m, k, e, env, vs
  <2>3. DOMAIN m = DOMAIN env \cup {k} /\ (k \notin DOMAIN env => m[k] = Arr(vs))
    <3>1. Extends(m, env, k, Arr(vs))
      BY <2>1, OverAt, Zenon
    <3> QED
      BY <3>1, Zenon DEF Extends
  <2>4. k \in DOMAIN m /\ m[k] = Arr(vs)
    BY <2>1, <2>2, <2>3
  <2>5. Arr(vs).type \in {"arr"}
    BY DEF Arr
  <2>6. Equal(Get(v, k, {"arr"}, Arr(<<>>)), m[k])
    BY <2>4, <2>5, GetOf, Zenon
  <2> QED
    BY <2>4, <2>6, Zenon DEF Equal, k
<1>3. Arr(vs).arr = vs
  BY DEF Arr
<1> DEFINE lists == {Get(u, K("apps"), {"arr"}, Arr(<<>>)).arr : u \in Parse(text)}
           list  == CHOOSE l \in lists : TRUE
<1>4. lists = {vs}
  <2> HIDE DEF v, vs, text
  <2> QED
    BY <1>1, <1>2, <1>3
<1>5. ParseApps(text) = IF lists = {} THEN <<>>
                        ELSE FlattenSeq([i \in 1 .. Len(list) |-> ParseApp(list[i])])
  BY Zenon DEF ParseApps
<1> HIDE DEF lists
<1>6. list = vs /\ lists # {}
  BY <1>4
<1> HIDE DEF list
<1>7. ParseApps(text) = FlattenSeq([i \in 1 .. Len(vs) |-> ParseApp(vs[i])])
  BY <1>5, <1>6, Zenon
<1>8. n \in Nat /\ \A i \in 1 .. n : apps[i] \in Games
  OBVIOUS
<1>9. Len(vs) = n /\ \A i \in 1 .. n : vs[i] = AppValue(apps[i])
  BY <1>8 DEF AppValues
<1>10. \A i \in 1 .. n : ParseApp(vs[i]) = <<apps[i]>>
  BY <1>8, <1>9, AppRead, Zenon
<1> HIDE DEF vs, text
<1>11. [i \in 1 .. Len(vs) |-> ParseApp(vs[i])] = [i \in 1 .. n |-> <<apps[i]>>]
  BY <1>9, <1>10
<1> DEFINE seqs == [i \in 1 .. n |-> <<apps[i]>>]
<1>12. FlattenSeq(seqs) = apps
  BY FlattenSingles
<1> QED
  BY <1>7, <1>11, <1>12, Zenon DEF text

\* A catalog that was cut short reads as empty.
THEOREM CutCatalogIsEmpty ==
    ASSUME NEW apps \in Seq(Games), NEW n \in Nat, n < Len(SerializeApps(apps))
    PROVE  ParseApps(SubSeq(SerializeApps(apps), 1, n)) = <<>>
<1> DEFINE text == SerializeApps(apps)
           v    == Obj(CatalogMap(apps))
           p    == SubSeq(text, 1, n)
<1>1. Writes(text, v)
  BY CatalogWritten, Zenon
<1> HIDE DEF text, v
<1>2. text \in Seq(Tokens) /\ Len(text) > 0
  BY <1>1, Zenon DEF Writes
<1>3. 1 \in 1 .. Len(text) /\ 1 + Len(text) = Len(text) + 1 /\ n < Len(text)
  BY <1>2 DEF text
<1>4. Occurs(text, 1, text)
  BY <1>2, OccursSelf, Zenon
<1>5. ReadsV(text, 1, v, Len(text) + 1)
  BY <1>1, <1>2, <1>3, <1>4, Zenon DEF Writes
<1>6. v \in Parse(text)
  BY <1>2, <1>5, ParseReads, Zenon
<1>7. p \in Seq(Tokens) /\ Len(p) = n /\ \A i \in 1 .. n : p[i] = text[i]
  BY <1>2, <1>3
<1>8. Starts(p, text) /\ Len(p) < Len(text)
  BY <1>2, <1>3, <1>7 DEF Starts
<1> HIDE DEF p
<1>9. Parse(p) = {}
  BY <1>2, <1>6, <1>7, <1>8, PrefixReadsNothing, Zenon
<1> DEFINE lists == {Get(u, K("apps"), {"arr"}, Arr(<<>>)).arr : u \in Parse(p)}
<1>10. lists = {}
  BY <1>9
<1>11. ParseApps(p) = <<>>
  BY <1>10, Zenon DEF ParseApps
<1> QED
  BY <1>11, Zenon DEF p, text

-----------------------------------------------------------------------------
(* What diff_apps counts                                                   *)

SameSize(D, N) == IsFiniteSet(D) /\ IsFiniteSet(N) /\ Cardinality(N) = Cardinality(D)

\* With unique names, as many places as names.
LEMMA NamesCount ==
    ASSUME NEW apps, Len(apps) \in Nat, Unique(apps), NEW D \in SUBSET (1 .. Len(apps)),
           NEW N, N = {apps[i].name : i \in D}
    PROVE  SameSize(D, N)
<1> DEFINE f == [i \in D |-> apps[i].name]
<1>1. IsFiniteSet(1 .. Len(apps))
  BY FS_Interval
<1>2. IsFiniteSet(D)
  BY <1>1, FS_Subset
<1>3. f \in [D -> N] /\ \A x \in N : \E i \in D : f[i] = x
  OBVIOUS
<1>4. \A i, j \in D : f[i] = f[j] => i = j
  <2> SUFFICES ASSUME NEW i \in D, NEW j \in D, f[i] = f[j] PROVE i = j
    BY Zenon
  <2>1. apps[i].name = apps[j].name /\ i \in 1 .. Len(apps) /\ j \in 1 .. Len(apps)
    OBVIOUS
  <2> QED
    BY <2>1, Zenon DEF Unique
<1> HIDE DEF f
<1>5. f \in Surjection(D, N)
  BY <1>3, Zenon DEF Surjection
<1>6. f \in Injection(D, N)
  BY <1>3, <1>4 DEF Injection, IsInjective
<1> QED
  BY <1>2, <1>5, <1>6, FS_Surjection, Zenon DEF SameSize

\* The names of the apps that the other list has none of.
LEMMA AbsentNames ==
    ASSUME NEW apps, NEW from
    PROVE  {apps[i].name : i \in {i \in 1 .. Len(apps) : Named(from, apps[i].name) = {}}}
             = Names(apps) \ Names(from)
<1>1. ASSUME NEW x PROVE Named(from, x) = {} <=> x \notin Names(from)
  BY DEF Named, Names
<1> QED
  BY <1>1 DEF Names

\* With unique names, the first of a name is the one that has it.
LEMMA FoundIsOf ==
    ASSUME NEW apps, Len(apps) \in Nat, Unique(apps), NEW i \in 1 .. Len(apps), NEW x,
           apps[i].name = x
    PROVE  FindByName(apps, x) = apps[i] /\ AppOf(apps, x) = apps[i]
<1>1. Named(apps, x) \in SUBSET Nat /\ i \in Named(apps, x)
  BY DEF Named
<1>2. Min(Named(apps, x)) \in Named(apps, x)
  BY <1>1, MinNat, Zenon
<1>3. ASSUME NEW k \in 1 .. Len(apps), apps[k].name = x PROVE k = i
  BY <1>3, Zenon DEF Unique
<1>4. Min(Named(apps, x)) = i
  BY <1>2, <1>3, Zenon DEF Named
<1> DEFINE P(k) == apps[k].name = x
           c == CHOOSE k \in 1 .. Len(apps) : P(k)
<1>5. c \in 1 .. Len(apps) /\ apps[c].name = x
  BY Zenon
<1>6. c = i
  BY <1>3, <1>5, Zenon
<1> QED
  BY <1>4, <1>6, Zenon DEF FindByName, AppOf

\* diff_apps counts the names that came, changed and went.
THEOREM DiffCounts ==
    ASSUME NEW old, NEW new, Len(old) \in Nat, Len(new) \in Nat, Unique(old), Unique(new)
    PROVE  LET d == DiffApps(old, new)
           IN  /\ d.added = Cardinality(Names(new) \ Names(old))
               /\ d.removed = Cardinality(Names(old) \ Names(new))
               /\ d.updated = Cardinality({n \in Names(old) \cap Names(new) :
                                              AppOf(old, n) # AppOf(new, n)})
               /\ Len(new) = Len(old) + d.added - d.removed
<1> DEFINE O == Names(old)
           N == Names(new)
           absent(apps, from) == {i \in 1 .. Len(apps) : Named(from, apps[i].name) = {}}
           A == absent(new, old)
           R == absent(old, new)
           known == (1 .. Len(new)) \ A
           U == {i \in known : FindByName(old, new[i].name) # new[i]}
           C == {n \in O \cap N : AppOf(old, n) # AppOf(new, n)}
           d == DiffApps(old, new)
<1>1. d.added = Cardinality(A) /\ d.updated = Cardinality(U) /\ d.removed = Cardinality(R)
  <2>1. d = [added |-> Cardinality(A), updated |-> Cardinality(U), removed |-> Cardinality(R)]
    BY Zenon DEF DiffApps
  <2> HIDE DEF A, U, R, d
  <2> QED
    BY <2>1
<1>2. Cardinality(A) = Cardinality(N \ O)
  <2>1. A \in SUBSET (1 .. Len(new)) /\ N \ O = {new[i].name : i \in A}
    BY AbsentNames, Zenon
  <2> HIDE DEF A, N, O
  <2>2. SameSize(A, N \ O)
    BY <2>1, NamesCount, Zenon
  <2> QED
    BY <2>2, Zenon DEF SameSize
<1>3. Cardinality(R) = Cardinality(O \ N)
  <2>1. R \in SUBSET (1 .. Len(old)) /\ O \ N = {old[i].name : i \in R}
    BY AbsentNames, Zenon
  <2> HIDE DEF R, N, O
  <2>2. SameSize(R, O \ N)
    BY <2>1, NamesCount, Zenon
  <2> QED
    BY <2>2, Zenon DEF SameSize
<1>4. Cardinality(U) = Cardinality(C)
  <2>1. ASSUME NEW i \in 1 .. Len(new)
        PROVE  i \in known <=> new[i].name \in O
    <3>1. Named(old, new[i].name) = {} <=> new[i].name \notin O
      BY DEF Named, Names
    <3> QED
      BY <3>1, Zenon
  <2>2. ASSUME NEW i \in 1 .. Len(new), new[i].name \in O
        PROVE  /\ FindByName(old, new[i].name) = AppOf(old, new[i].name)
               /\ new[i] = AppOf(new, new[i].name)
    <3>1. PICK k \in 1 .. Len(old) : old[k].name = new[i].name
      BY <2>2, Zenon DEF Names
    <3>2. /\ FindByName(old, new[i].name) = old[k] /\ AppOf(old, new[i].name) = old[k]
          /\ AppOf(new, new[i].name) = new[i]
      BY <3>1, FoundIsOf
    <3> QED
      BY <3>2, Zenon
  <2>3. ASSUME NEW i \in U PROVE new[i].name \in C
    <3>1. i \in 1 .. Len(new) /\ i \in known /\ FindByName(old, new[i].name) # new[i]
      OBVIOUS
    <3>2. new[i].name \in O
      BY <2>1, <3>1, Zenon
    <3>3. new[i].name \in N
      BY <3>1, Zenon DEF Names
    <3>4. AppOf(old, new[i].name) # AppOf(new, new[i].name)
      BY <2>2, <3>1, <3>2
    <3> QED
      BY <3>2, <3>3, <3>4
  <2>4. ASSUME NEW x \in C PROVE \E i \in U : new[i].name = x
    <3>1. x \in O /\ x \in N /\ AppOf(old, x) # AppOf(new, x)
      OBVIOUS
    <3>2. PICK i \in 1 .. Len(new) : new[i].name = x
      BY <3>1, Zenon DEF Names
    <3>3. i \in known
      BY <2>1, <3>1, <3>2, Zenon
    <3>4. FindByName(old, new[i].name) # new[i]
      BY <2>2, <3>1, <3>2
    <3> QED
      BY <3>2, <3>3, <3>4, Zenon
  <2>5. U \in SUBSET (1 .. Len(new))
    BY Zenon
  <2> HIDE DEF U, C
  <2>6. C = {new[i].name : i \in U}
    BY <2>3, <2>4
  <2>7. SameSize(U, C)
    BY <2>5, <2>6, NamesCount, Zenon
  <2> QED
    BY <2>7, Zenon DEF SameSize
<1>5. /\ IsFiniteSet(N) /\ Cardinality(N) = Len(new) /\ IsFiniteSet(O) /\ Cardinality(O) = Len(old)
  <2>1. ASSUME NEW apps, Len(apps) \in Nat, Unique(apps)
        PROVE  IsFiniteSet(Names(apps)) /\ Cardinality(Names(apps)) = Len(apps)
    <3>1. Names(apps) = {apps[i].name : i \in 1 .. Len(apps)}
      BY Zenon DEF Names
    <3>2. Cardinality(1 .. Len(apps)) = Len(apps)
      <4>1. 1 \in Int /\ Len(apps) \in Int
        BY <2>1
      <4>2. Cardinality(1 .. Len(apps)) = IF 1 > Len(apps) THEN 0 ELSE Len(apps) - 1 + 1
        BY <4>1, FS_Interval
      <4> QED
        BY <2>1, <4>2
    <3>3. 1 .. Len(apps) \in SUBSET (1 .. Len(apps))
      OBVIOUS
    <3>4. SameSize(1 .. Len(apps), Names(apps))
      BY <2>1, <3>1, <3>3, NamesCount, Zenon
    <3> QED
      BY <3>2, <3>4, Zenon DEF SameSize
  <2> QED
    BY <2>1
<1>6. /\ Cardinality(N \ O) = Len(new) - Cardinality(N \cap O)
      /\ Cardinality(O \ N) = Len(old) - Cardinality(O \cap N)
  <2> HIDE DEF N, O
  <2> QED
    BY <1>5, FS_Difference
<1>7. N \cap O = O \cap N /\ Cardinality(O \cap N) \in Nat
  <2> HIDE DEF N, O
  <2>1. IsFiniteSet(O \cap N)
    BY <1>5, FS_Subset
  <2> QED
    BY <2>1, FS_CardinalityType
<1> HIDE DEF A, R, U, d, N, O, C
<1>8. Len(new) = Len(old) + d.added - d.removed
  <2> DEFINE k == Cardinality(O \cap N)
  <2>1. k \in Nat /\ d.added = Len(new) - k /\ d.removed = Len(old) - k
    BY <1>1, <1>2, <1>3, <1>6, <1>7, Zenon
  <2> HIDE DEF k
  <2> QED
    BY <2>1
<1> QED
  BY <1>1, <1>2, <1>3, <1>4, <1>8, Zenon DEF d, N, O, C

-----------------------------------------------------------------------------
(* The specification                                                       *)

Published == {<<>>} \cup {GamesFromParams(g) : g \in Libraries}

\* The text of something published, whole or in part.
Written(text) ==
    \E apps \in Published : \E n \in Nat :
        n <= Len(SerializeApps(apps)) /\ text = SubSeq(SerializeApps(apps), 1, n)

\* The inductive invariant: a file that nobody edited is a start of a published
\* text, also while host.syncApps is under way, and an answer is about the lists
\* that are still at hand.
CatalogInv ==
    /\ file \in Seq(Tokens) /\ pc \in {"idle", "open", "write"}
    /\ Listed(prev) /\ next \in Published
    /\ pc = "write" => edited = FALSE
    /\ edited = FALSE => Written(file)
    /\ answer.what = "synced" => answer.diff = DiffApps(prev, next) /\ answer.total = Len(next)

NamedGames == {a \in Games : a.name # <<>>}

\* host_launch_command gives a string.
LEMMA LaunchTyped ==
    ASSUME NEW cmd \in Seq(Chars)
    PROVE  HostLaunchCommand(cmd) \in Seq(Chars)
<1>1. "open" \in Chars /\ Q \in Chars
  BY CatalogAssumption, CharsAssumption, Zenon
<1>2. ASSUME NEW x \in Chars, NEW y \in Chars PROVE <<x, y>> \o cmd \o <<y>> \in Seq(Chars)
  <2>1. <<x, y>> \in Seq(Chars) /\ <<y>> \in Seq(Chars)
    OBVIOUS
  <2>2. <<x, y>> \o cmd \in Seq(Chars)
    BY <2>1, ConcatProperties, Zenon
  <2> QED
    BY <2>1, <2>2, ConcatProperties, Zenon
<1> QED
  BY <1>1, <1>2, Zenon DEF HostLaunchCommand

\* games_from_params gives apps with names.
LEMMA GamesTyped ==
    ASSUME NEW g \in Libraries
    PROVE  GamesFromParams(g) \in Seq(NamedGames)
<1> DEFINE part(i) == IF g[i].name = <<>> THEN <<>>
                      ELSE <<[g[i] EXCEPT !.cmd = HostLaunchCommand(g[i].cmd)]>>
           seqs == [i \in 1 .. Len(g) |-> part(i)]
<1>1. g \in Seq(Games)
  BY CatalogAssumption, Zenon
<1>2. Len(g) \in Nat /\ \A i \in 1 .. Len(g) : g[i] \in Games
  BY <1>1
<1>3. ASSUME NEW i \in 1 .. Len(g) PROVE part(i) \in Seq(NamedGames)
  <2> DEFINE x == g[i]
             a == [x EXCEPT !.cmd = HostLaunchCommand(x.cmd)]
  <2>1. x \in Games
    BY <1>2, Zenon
  <2> HIDE DEF x
  <2>2. x.cmd \in Seq(Chars)
    BY <2>1 DEF Games
  <2>3. HostLaunchCommand(x.cmd) \in Seq(Chars)
    BY <2>2, LaunchTyped, Zenon
  <2>4. a \in Games /\ a.name = x.name
    BY <2>1, <2>3 DEF Games
  <2> HIDE DEF a
  <2>5. CASE x.name = <<>>
    <3>1. part(i) = <<>>
      BY <2>5, Zenon DEF x
    <3> QED
      BY <3>1
  <2>6. CASE x.name # <<>>
    <3>1. part(i) = <<a>>
      BY <2>6, Zenon DEF x, a
    <3>2. a \in NamedGames
      BY <2>4, <2>6 DEF NamedGames
    <3> QED
      BY <3>1, <3>2
  <2> QED
    BY <2>5, <2>6, Zenon
<1>4. seqs \in Seq(Seq(NamedGames))
  <2> HIDE DEF part
  <2> QED
    BY <1>2, <1>3
<1>5. GamesFromParams(g) = FlattenSeq(seqs)
  BY Zenon DEF GamesFromParams
<1> QED
  BY <1>4, <1>5, FlattenTyped, Zenon

\* So is everything published.
LEMMA PublishedTyped ==
    ASSUME NEW apps \in Published
    PROVE  apps \in Seq(Games) /\ \A i \in 1 .. Len(apps) : apps[i].name # <<>>
<1>1. apps \in Seq(NamedGames)
  <2>1. <<>> \in Seq(NamedGames)
    OBVIOUS
  <2> QED
    BY <2>1, GamesTyped, Zenon DEF Published
<1>2. ASSUME NEW S, NEW T \in SUBSET S, NEW s \in Seq(T)
      PROVE  s \in Seq(S) /\ \A i \in 1 .. Len(s) : s[i] \in T
  OBVIOUS
<1>3. NamedGames \in SUBSET Games /\ \A a \in NamedGames : a.name # <<>>
  BY Zenon DEF NamedGames
<1> QED
  BY <1>1, <1>2, <1>3, Zenon

\* The text of something published.
LEMMA TextTyped ==
    ASSUME NEW apps \in Published
    PROVE  SerializeApps(apps) \in Seq(Tokens)
BY PublishedTyped, CatalogWritten, Zenon DEF Writes

\* Its parts are texts, and written.
LEMMA PartTyped ==
    ASSUME NEW apps \in Published, NEW n \in Nat, n <= Len(SerializeApps(apps)), NEW text,
           text = SubSeq(SerializeApps(apps), 1, n)
    PROVE  text \in Seq(Tokens) /\ Written(text)
<1> DEFINE t == SerializeApps(apps)
<1>1. t \in Seq(Tokens)
  BY TextTyped, Zenon
<1>2. text = SubSeq(t, 1, n) /\ n <= Len(t)
  BY Zenon
<1> HIDE DEF t
<1>3. text \in Seq(Tokens)
  BY <1>1, <1>2
<1> QED
  BY <1>3, Zenon DEF Written

\* What is written reads as something published.
LEMMA WrittenReads ==
    ASSUME NEW text, Written(text)
    PROVE  ParseApps(text) \in Published
<1>1. PICK apps \in Published : \E n \in Nat :
         n <= Len(SerializeApps(apps)) /\ text = SubSeq(SerializeApps(apps), 1, n)
  BY Zenon DEF Written
<1> DEFINE t == SerializeApps(apps)
<1>2. PICK n \in Nat : n <= Len(t) /\ text = SubSeq(t, 1, n)
  BY <1>1, Zenon
<1>3. t \in Seq(Tokens) /\ apps \in Seq(Games) /\ \A i \in 1 .. Len(apps) : apps[i].name # <<>>
  BY TextTyped, PublishedTyped, Zenon
<1>4. Len(t) \in Nat
  BY <1>3, LenProperties, Zenon
<1>5. CASE n < Len(t)
  <2>1. ParseApps(text) = <<>>
    BY <1>2, <1>3, <1>5, CutCatalogIsEmpty, Zenon
  <2> QED
    BY <2>1, Zenon DEF Published
<1>6. CASE ~(n < Len(t))
  <2> HIDE DEF t
  <2>1. n = Len(t)
    BY <1>2, <1>4, <1>6
  <2>2. text = t
    BY <1>2, <1>3, <2>1
  <2>3. ParseApps(t) = apps
    BY <1>3, CatalogRoundTrip, Zenon DEF t
  <2> QED
    BY <2>2, <2>3, Zenon
<1> QED
  BY <1>5, <1>6, Zenon

\* No answer but that of a finished sync says so.
LEMMA SaidFields ==
    ASSUME NEW what, NEW diff, NEW total
    PROVE  /\ Said(what, diff, total).what = what /\ Said(what, diff, total).diff = diff
           /\ Said(what, diff, total).total = total
BY DEF Said

LEMMA OtherAnswers ==
    /\ Nothing.what # "synced" /\ \A d, n : Said("internal", d, n).what # "synced"
    /\ \A d, n : Said("apps", d, n).what # "synced"
<1>1. "nothing" # "synced" /\ "internal" # "synced" /\ "apps" # "synced"
  OBVIOUS
<1> QED
  BY <1>1, SaidFields, Zenon DEF Nothing

\* At first the catalog is missing, or somebody else's.
LEMMA CatalogInitially == Init => CatalogInv
<1> SUFFICES ASSUME Init PROVE CatalogInv
  BY Zenon
<1>1. <<>> \in Published /\ <<>> \in Seq(Tokens) /\ <<>> \in Seq({}) /\ TRUE # FALSE
  <2>1. <<>> \in Seq(Tokens) /\ <<>> \in Seq({}) /\ TRUE # FALSE
    OBVIOUS
  <2> QED
    BY <2>1, Zenon DEF Published
<1>2. /\ prev = <<>> /\ next = <<>> /\ answer = Nothing /\ pc = "idle" /\ "idle" # "write"
      /\ (file = <<>> /\ edited = FALSE) \/ (file \in Scribbles /\ edited = TRUE)
  <2>1. "idle" # "write"
    OBVIOUS
  <2> QED
    BY <2>1, Zenon DEF Init
<1>3. file \in Seq(Tokens)
  BY <1>1, <1>2, CatalogAssumption, Zenon
<1>4. edited = FALSE => Written(file)
  <2> SUFFICES ASSUME edited = FALSE PROVE Written(file)
    BY Zenon
  <2>1. file = <<>>
    BY <1>1, <1>2, Zenon
  <2> DEFINE t == SerializeApps(<<>>)
  <2>2. t \in Seq(Tokens)
    BY <1>1, TextTyped, Zenon
  <2> HIDE DEF t
  <2>3. 0 \in Nat /\ 0 <= Len(t) /\ SubSeq(t, 1, 0) = <<>>
    BY <2>2
  <2> QED
    BY <1>1, <2>1, <2>3, Zenon DEF Written, t
<1> QED
  BY <1>1, <1>2, <1>3, <1>4, OtherAnswers, Zenon DEF CatalogInv, Listed

\* The invariant's parts, for the values that a step leaves.
CatalogIs(text, old, new, at, other, said) ==
    /\ text \in Seq(Tokens) /\ at \in {"idle", "open", "write"}
    /\ Listed(old) /\ new \in Published
    /\ at = "write" => other = FALSE
    /\ other = FALSE => Written(text)
    /\ said.what = "synced" => said.diff = DiffApps(old, new) /\ said.total = Len(new)

\* Whatever somebody makes of a text, it is one.
LEMMA EditTyped ==
    ASSUME NEW S, NEW t \in Seq(S), NEW i \in 1 .. Len(t), NEW x \in S
    PROVE  LET upTo == SubSeq(t, 1, i - 1)
               from == SubSeq(t, i + 1, Len(t))
           IN  /\ upTo \o from \in Seq(S) /\ upTo \o <<x>> \o from \in Seq(S)
               /\ upTo \o <<x, t[i]>> \o from \in Seq(S)
<1> DEFINE upTo == SubSeq(t, 1, i - 1)
           from == SubSeq(t, i + 1, Len(t))
           one == <<x>>
           two == <<x, t[i]>>
<1>1. upTo \in Seq(S) /\ from \in Seq(S)
  OBVIOUS
<1>2. one \in Seq(S) /\ two \in Seq(S)
  OBVIOUS
<1> HIDE DEF upTo, from, one, two
<1>3. upTo \o from \in Seq(S) /\ upTo \o one \in Seq(S) /\ upTo \o two \in Seq(S)
  BY <1>1, <1>2, ConcatProperties, Zenon
<1>4. upTo \o one \o from \in Seq(S) /\ upTo \o two \o from \in Seq(S)
  BY <1>1, <1>3, ConcatProperties, Zenon
<1> QED
  BY <1>3, <1>4, Zenon DEF upTo, from, one, two

\* Every step keeps the invariant.
LEMMA CatalogStep == CatalogInv /\ [Next]_vars => CatalogInv'
<1> SUFFICES ASSUME CatalogInv, [Next]_vars
             PROVE  CatalogIs(file', prev', next', pc', edited', answer')
  BY Zenon DEF CatalogInv, CatalogIs
<1>1. /\ <<>> \in Published /\ Listed(<<>>) /\ "idle" # "write" /\ "open" # "write"
      /\ "idle" # "open" /\ TRUE # FALSE /\ <<>> \in Seq(Tokens)
  <2>1. /\ <<>> \in Seq({}) /\ "idle" # "write" /\ "open" # "write" /\ "idle" # "open"
        /\ TRUE # FALSE /\ <<>> \in Seq(Tokens)
    OBVIOUS
  <2> QED
    BY <2>1, Zenon DEF Published, Listed
<1>2. CatalogIs(file, prev, next, pc, edited, answer)
  BY Zenon DEF CatalogInv, CatalogIs
<1>3. ASSUME NEW apps \in Published
      PROVE  /\ SerializeApps(apps) \in Seq(Tokens) /\ Written(SerializeApps(apps))
             /\ Written(<<>>)
             /\ \A n \in 0 .. Len(SerializeApps(apps)) :
                   /\ SubSeq(SerializeApps(apps), 1, n) \in Seq(Tokens)
                   /\ Written(SubSeq(SerializeApps(apps), 1, n))
  <2> DEFINE t == SerializeApps(apps)
  <2>1. t \in Seq(Tokens)
    BY TextTyped, Zenon
  <2>2. ASSUME NEW n \in Nat, n <= Len(t)
        PROVE  SubSeq(t, 1, n) \in Seq(Tokens) /\ Written(SubSeq(t, 1, n))
    BY <2>2, PartTyped, Zenon
  <2> HIDE DEF t
  <2>3. /\ Len(t) \in Nat /\ Len(t) <= Len(t) /\ SubSeq(t, 1, Len(t)) = t /\ SubSeq(t, 1, 0) = <<>>
        /\ 0 \in Nat /\ 0 <= Len(t) /\ \A n \in 0 .. Len(t) : n \in Nat /\ n <= Len(t)
    BY <2>1
  <2>4. Written(t) /\ Written(<<>>)
    BY <2>2, <2>3, Zenon
  <2> QED
    BY <2>1, <2>2, <2>3, <2>4, Zenon DEF t
<1>4. CASE SyncRead
  <2>1. /\ pc' = "open" /\ prev' = ParseApps(file) /\ answer' = Nothing
        /\ file' = file /\ edited' = edited
    BY <1>4, Zenon DEF SyncRead
  <2>2. next' \in Published
    BY <1>4, Zenon DEF SyncRead, Published
  <2>3. Listed(prev')
    BY <1>2, <2>1, ParseAppsListed, Zenon DEF CatalogIs
  <2> QED
    BY <1>1, <1>2, <2>1, <2>2, <2>3, OtherAnswers, Zenon DEF CatalogIs
<1>5. CASE SyncOpen
  <2>1. prev' = prev /\ next' = next
    BY <1>5, Zenon DEF SyncOpen
  <2>2. CASE pc' = "write" /\ file' = <<>> /\ edited' = FALSE /\ UNCHANGED answer
    BY <1>1, <1>2, <1>3, <2>1, <2>2, Zenon DEF CatalogIs
  <2>3. CASE pc' = "idle" /\ answer' = Said("internal", NoDiff, 0) /\ UNCHANGED <<file, edited>>
    <3>1. file' = file /\ edited' = edited
      BY <2>3, Zenon
    <3> QED
      BY <1>1, <1>2, <2>1, <2>3, <3>1, OtherAnswers, Zenon DEF CatalogIs
  <2> QED
    BY <1>5, <2>2, <2>3, Zenon DEF SyncOpen
<1>6. CASE SyncWrite
  <2> DEFINE text == SerializeApps(next)
             done == Said("synced", DiffApps(prev, next), Len(next))
  <2>1. pc' = "idle" /\ edited' = edited /\ prev' = prev /\ next' = next /\ next \in Published
    BY <1>2, <1>6, Zenon DEF SyncWrite, CatalogIs
  <2>2. file' \in Seq(Tokens) /\ Written(file')
    <3>1. file' = text \/ \E n \in 0 .. Len(text) - 1 : file' = SubSeq(text, 1, n)
      BY <1>6, Zenon DEF SyncWrite
    <3>2. text \in Seq(Tokens)
      BY <1>3, <2>1, Zenon
    <3>3. \A n \in 0 .. Len(text) - 1 : n \in 0 .. Len(text)
      <4> HIDE DEF text
      <4> QED
        BY <3>2
    <3> QED
      BY <1>3, <2>1, <3>1, <3>3, Zenon
  <2>3. answer' = done \/ answer' = Said("internal", NoDiff, 0)
    BY <1>6, Zenon DEF SyncWrite
  <2>4. done.diff = DiffApps(prev, next) /\ done.total = Len(next)
    BY DEF Said
  <2> HIDE DEF done
  <2>5. answer'.what = "synced" => answer'.diff = DiffApps(prev', next') /\ answer'.total = Len(next')
    BY <2>1, <2>3, <2>4, OtherAnswers, Zenon
  <2> QED
    BY <1>1, <1>2, <2>1, <2>2, <2>5, Zenon DEF CatalogIs
<1>7. CASE Crash
  <2>1. pc' = "idle" /\ edited' = edited /\ prev' = <<>> /\ next' = <<>> /\ answer' = Nothing
    BY <1>7, Zenon DEF Crash
  <2>2. CASE pc = "write"
    <3>1. \E n \in 0 .. Len(SerializeApps(next)) : file' = SubSeq(SerializeApps(next), 1, n)
      BY <1>7, <2>2, Zenon DEF Crash
    <3>2. file' \in Seq(Tokens) /\ Written(file')
      BY <1>2, <1>3, <3>1, Zenon DEF CatalogIs
    <3> QED
      BY <1>1, <2>1, <3>2, OtherAnswers, Zenon DEF CatalogIs
  <2>3. CASE pc = "open"
    <3>1. file' = file
      BY <1>7, <2>3, Zenon DEF Crash
    <3> QED
      BY <1>1, <1>2, <2>1, <3>1, OtherAnswers, Zenon DEF CatalogIs
  <2> QED
    BY <1>2, <1>7, <2>2, <2>3, Zenon DEF CatalogIs, Crash
<1>8. CASE ListApps
  <2>1. /\ prev' = <<>> /\ next' = <<>> /\ file' = file /\ edited' = edited /\ pc' = pc
        /\ answer' = Said("apps", NoDiff, Len(ParseApps(file)))
    BY <1>8, Zenon DEF ListApps
  <2> QED
    BY <1>1, <1>2, <2>1, OtherAnswers, Zenon DEF CatalogIs
<1>9. CASE Edit
  <2>1. prev' = <<>> /\ next' = <<>> /\ answer' = Nothing /\ pc' = pc /\ edited' = TRUE /\ pc = "idle"
    BY <1>9, Zenon DEF Edit
  <2>2. PICK i \in 1 .. Len(file), stray \in Strays :
          LET upTo == SubSeq(file, 1, i - 1)
              from == SubSeq(file, i + 1, Len(file))
          IN  file' \in {upTo \o from, upTo \o <<stray>> \o from,
                         upTo \o <<stray, file[i]>> \o from}
    BY <1>9, Zenon DEF Edit
  <2>3. file \in Seq(Tokens) /\ stray \in Tokens
    BY <1>2, CatalogAssumption, Zenon DEF CatalogIs
  <2>4. file' \in Seq(Tokens)
    BY <2>2, <2>3, EditTyped, Zenon
  <2> QED
    BY <1>1, <2>1, <2>4, OtherAnswers, Zenon DEF CatalogIs
<1>10. CASE UNCHANGED vars
  <2>1. /\ file' = file /\ edited' = edited /\ pc' = pc /\ prev' = prev /\ next' = next
        /\ answer' = answer
    BY <1>10, Zenon DEF vars
  <2> QED
    BY <1>2, <2>1, Zenon
<1> QED
  BY <1>4, <1>5, <1>6, <1>7, <1>8, <1>9, <1>10, Zenon DEF Next

\* The catalog's invariant.
THEOREM CatalogInvariant == Spec => []CatalogInv
BY CatalogInitially, CatalogStep, PTL DEF Spec

-----------------------------------------------------------------------------
(* What the engine writes is JSON                                          *)

\* The tokens that JSON reads as the engine does.
JsonTokens ==
    {k \in Tokens : /\ k.t \in Lenient.literals => k.t \in JSON.literals
                    /\ Spells(k.s, Lenient) \subseteq Spells(k.s, JSON)}

\* The empty text, and a text made element by element.
LEMMA NoText == <<>> \in Seq(Chars) /\ Len(<<>>) = 0 /\ 1 # 0 /\ ~(1 <= 0) /\ 1 \in Spots(0)
<1>1. <<>> \in Seq(Chars) /\ Len(<<>>) = 0
  OBVIOUS
<1>2. 1 # 0 /\ ~(1 <= 0) /\ 1 \in Spots(0)
  BY DEF Spots
<1> QED
  BY <1>1, <1>2, Zenon

LEMMA MadeText ==
    ASSUME NEW T, NEW n \in Nat, NEW f, f = [i \in 1 .. n |-> f[i]], \A i \in 1 .. n : f[i] \in T
    PROVE  f \in Seq(T)
OBVIOUS

\* Marks and literals.
LEMMA MarkIsJson ==
    ASSUME NEW m \in Marks, m # "lax number"
    PROVE  Token(m) \in JsonTokens
<1>0. ASSUME NEW x, NEW s \in Seq(Chars), x \in Marks PROVE [t |-> x, s |-> s] \in Tokens
  BY <1>0 DEF Tokens
<1>1. <<>> \in Seq(Chars) /\ Token(m).t = m /\ Token(m).s = <<>>
  <2>1. Token(m).t = m /\ Token(m).s = <<>>
    BY Zenon DEF Token
  <2> QED
    BY <2>1, NoText, Zenon
<1>2. Token(m) \in Tokens
  BY <1>0, <1>1, Zenon DEF Token
<1>3. m \in Lenient.literals => m \in JSON.literals
  <2>1. JSON.literals = Literals \ {"lax number"}
    BY DEF JSON
  <2> QED
    BY <2>1, LenientIs, Zenon
<1>4. Spells(<<>>, Lenient) = {}
  <2>1. PICK g : Scan(g, Len(<<>>), Base(<<>>), Moves(<<>>, Lenient)) /\ Spells(<<>>, Lenient) = g[1]
    BY <1>1, GrammarsFit, SpellsScan, Zenon
  <2>2. Len(<<>>) = 0 /\ 1 # 0 /\ ~(1 <= 0) /\ 1 \in Spots(0)
    BY NoText, Zenon
  <2>3. ASSUME NEW x PROVE x \notin g[1]
    <3>1. g[1] = ScanAt(g, 1, Base(<<>>), Moves(<<>>, Lenient))
      BY <2>1, <2>2, Zenon DEF Scan
    <3>2. ~StringMade(<<>>, 1, g, x, Lenient)
      BY <2>2, Zenon DEF StringMade
    <3> QED
      BY <2>2, <3>1, <3>2, ScanOfString, Zenon
  <2> QED
    BY <2>1, <2>3, Zenon
<1> QED
  BY <1>1, <1>2, <1>3, <1>4, Zenon DEF JsonTokens

\* Strings.
LEMMA StringIsJson ==
    ASSUME NEW s \in Seq(Chars)
    PROVE  StrToken(EscapeTo(s)) \in JsonTokens
<1> DEFINE e == EscapeTo(s)
           k == StrToken(e)
<1>1. e \in Seq(Chars) /\ StrOf(e) = {s} /\ s \in Spells(e, JSON)
  BY StrRoundTrip, Zenon
<1> HIDE DEF e
<1>2. k \in Tokens
  BY <1>1, TokenTyped, Zenon
<1>3. k.t = "str" /\ k.s = e
  BY DEF StrToken
<1>4. Spells(e, Lenient) \subseteq Spells(e, JSON)
  BY <1>1, StrOfIsSpells
<1>5. "str" \notin Lenient.literals
  BY LenientIs DEF Literals
<1> QED
  BY <1>2, <1>3, <1>4, <1>5, Zenon DEF JsonTokens, k, e

\* Members, arrays and objects of such tokens.
LEMMA PartsAreJson ==
    ASSUME NEW texts \in Seq(Seq(JsonTokens)), NEW key \in Seq(Chars), NEW text \in Seq(JsonTokens)
    PROVE  /\ DumpStr(key) \in Seq(JsonTokens) /\ Member(key, text) \in Seq(JsonTokens)
           /\ DumpArr(texts) \in Seq(JsonTokens) /\ DumpObj(texts) \in Seq(JsonTokens)
<1> DEFINE S == JsonTokens
<1>1. /\ Token(",") \in S /\ Token("{") \in S /\ Token("}") \in S
      /\ Token("[") \in S /\ Token("]") \in S /\ Token(":") \in S
  BY MarkIsJson, Zenon DEF Marks
<1>2. StrToken(EscapeTo(key)) \in S
  BY StringIsJson, Zenon
<1> HIDE DEF S
<1>3. ASSUME NEW x \in S, NEW y \in S, NEW u \in Seq(S)
      PROVE  /\ <<x>> \in Seq(S) /\ <<x, y>> \o u \in Seq(S) /\ <<x>> \o u \in Seq(S)
             /\ <<x>> \o u \o <<y>> \in Seq(S)
  OBVIOUS
<1>4. Joined(texts) \in Seq(S)
  <2> DEFINE parts == [i \in 1 .. Len(texts) |-> IF i = 1 THEN texts[i] ELSE <<Token(",")>> \o texts[i]]
  <2>1. ASSUME NEW i \in 1 .. Len(texts)
        PROVE  (IF i = 1 THEN texts[i] ELSE <<Token(",")>> \o texts[i]) \in Seq(S)
    <3>1. texts[i] \in Seq(S)
      BY DEF S
    <3> QED
      BY <1>1, <1>3, <3>1, Zenon
  <2>2. \A i \in 1 .. Len(texts) : parts[i] \in Seq(S)
    BY <2>1, Zenon
  <2>3. parts = [i \in 1 .. Len(texts) |-> parts[i]] /\ Len(texts) \in Nat
    OBVIOUS
  <2> HIDE DEF parts
  <2>4. parts \in Seq(Seq(S))
    BY <2>2, <2>3, MadeText, Zenon
  <2>5. FlattenSeq(parts) \in Seq(S)
    BY <2>4, FlattenTyped, Zenon
  <2> QED
    BY <2>5, Zenon DEF Joined, parts
<1>5. text \in Seq(S)
  BY DEF S
<1>6. DumpStr(key) \in Seq(S) /\ Member(key, text) \in Seq(S)
  BY <1>1, <1>2, <1>3, <1>5, Zenon DEF DumpStr, Member
<1>7. DumpArr(texts) \in Seq(S) /\ DumpObj(texts) \in Seq(S)
  BY <1>1, <1>3, <1>4, Zenon DEF DumpArr, DumpObj
<1> QED
  BY <1>6, <1>7, Zenon DEF S

\* The text of a library is of such tokens.
LEMMA LibraryIsJson ==
    ASSUME NEW apps \in Seq(Games)
    PROVE  SerializeApps(apps) \in Seq(JsonTokens)
<1> DEFINE S == Seq(JsonTokens)
<1>0. <<>> \in Seq(S) /\ <<>> \in S
  OBVIOUS
<1>1. ASSUME NEW x \in S, NEW y \in S
      PROVE  <<x, y>> \in Seq(S) /\ <<>> \o <<x, y>> \in Seq(S)
  OBVIOUS
<1>2. ASSUME NEW x \in S, NEW y \in S, NEW z \in S
      PROVE  <<x>> \o <<y, z>> \in Seq(S)
  OBVIOUS
<1>3. ASSUME NEW a \in Games PROVE SerializeApp(a) \in S
  <2> DEFINE m1 == Member(K("cmd"), DumpStr(a.cmd))
             m2 == Member(K("name"), DumpStr(a.name))
             m3 == Member(K("wait-all"), <<Token(FlagText(a.waitAll))>>)
  <2>1. a.name \in Seq(Chars) /\ a.cmd \in Seq(Chars)
    BY <1>3 DEF Games
  <2>2. FlagText(a.waitAll) \in Marks /\ FlagText(a.waitAll) # "lax number"
    BY DEF FlagText, Marks, Literals
  <2>3. <<Token(FlagText(a.waitAll))>> \in S
    <3>1. Token(FlagText(a.waitAll)) \in JsonTokens
      BY <2>2, MarkIsJson, Zenon
    <3> QED
      BY <3>1
  <2>4. DumpStr(a.name) \in S /\ DumpStr(a.cmd) \in S
    BY <1>0, <2>1, PartsAreJson, Zenon
  <2>5. m1 \in S /\ m2 \in S /\ m3 \in S
    BY <1>0, <2>3, <2>4, KeysTyped, PartsAreJson, Zenon
  <2> HIDE DEF m1, m2, m3, S
  <2>6. (IF a.cmd = <<>> THEN <<>> ELSE <<m1>>) \o <<m2, m3>> \in Seq(S)
    <3>1. CASE a.cmd = <<>>
      BY <1>1, <2>5, <3>1, Zenon
    <3>2. CASE a.cmd # <<>>
      BY <1>2, <2>5, <3>2, Zenon
    <3> QED
      BY <3>1, <3>2, Zenon
  <2>7. DumpObj((IF a.cmd = <<>> THEN <<>> ELSE <<m1>>) \o <<m2, m3>>) \in S
    BY <1>0, <2>1, <2>6, PartsAreJson, Zenon DEF S
  <2> QED
    BY <2>7, Zenon DEF SerializeApp, m1, m2, m3
<1> DEFINE texts == [i \in 1 .. Len(apps) |-> SerializeApp(apps[i])]
<1>4. texts \in Seq(S)
  <2>1. \A i \in 1 .. Len(apps) : apps[i] \in Games
    OBVIOUS
  <2>2. \A i \in 1 .. Len(apps) : SerializeApp(apps[i]) \in S
    BY <1>3, <2>1, Zenon
  <2> HIDE DEF S
  <2> QED
    BY <2>2
<1> HIDE DEF texts
<1>5. DumpArr(texts) \in S /\ DumpObj(<<>>) \in S
  BY <1>0, <1>4, KeysTyped, PartsAreJson, Zenon
<1>6. Member(K("apps"), DumpArr(texts)) \in S /\ Member(K("env"), DumpObj(<<>>)) \in S
  BY <1>0, <1>5, KeysTyped, PartsAreJson, Zenon
<1>7. <<Member(K("apps"), DumpArr(texts)), Member(K("env"), DumpObj(<<>>))>> \in Seq(S)
  BY <1>1, <1>6, Zenon
<1>8. DumpObj(<<Member(K("apps"), DumpArr(texts)), Member(K("env"), DumpObj(<<>>))>>) \in S
  BY <1>0, <1>7, KeysTyped, PartsAreJson, Zenon
<1> QED
  BY <1>8, Zenon DEF SerializeApps, texts

\* What the parser reads of such tokens is what JSON has.
LEMMA JsonTokensRead ==
    ASSUME NEW t \in Seq(JsonTokens)
    PROVE  Parse(t) \subseteq Means(t, JSON)
<1>1. t \in Seq(Tokens)
  BY DEF JsonTokens
<1>2. ASSUME NEW i \in 1 .. Len(t)
      PROVE  /\ t[i].t \in Lenient.literals => t[i].t \in JSON.literals
             /\ Spells(t[i].s, Lenient) \subseteq Spells(t[i].s, JSON)
  <2>1. t[i] \in JsonTokens
    OBVIOUS
  <2> QED
    BY <2>1, Zenon DEF JsonTokens
<1>3. Covers(t, Lenient, JSON)
  BY <1>2, Zenon DEF Covers
<1>4. Means(t, Lenient) \subseteq Means(t, JSON)
  BY <1>1, <1>3, GrammarsFit, MeansMore, Zenon
<1> QED
  BY <1>1, <1>4, ParseIsMeans, Zenon

\* Every catalog that the engine writes, and every start of one, is read by its
\* own reader as JSON has it.
THEOREM CatalogIsJson == Spec => []WritesJSON
<1>1. CatalogInv => WritesJSON
  <2> SUFFICES ASSUME CatalogInv, ~edited PROVE Parse(file) \subseteq Means(file, JSON)
    BY Zenon DEF WritesJSON, NothingMalformed
  <2>1. edited = FALSE
    OBVIOUS
  <2>2. PICK apps \in Published : \E n \in Nat :
           n <= Len(SerializeApps(apps)) /\ file = SubSeq(SerializeApps(apps), 1, n)
    BY <2>1, Zenon DEF CatalogInv, Written
  <2> DEFINE t == SerializeApps(apps)
  <2>3. t \in Seq(JsonTokens)
    BY PublishedTyped, LibraryIsJson, Zenon
  <2> HIDE DEF t
  <2>4. PICK n \in Nat : n <= Len(t) /\ file = SubSeq(t, 1, n)
    BY <2>2, Zenon DEF t
  <2>5. SubSeq(t, 1, n) \in Seq(JsonTokens)
    BY <2>3, <2>4
  <2> QED
    BY <2>4, <2>5, JsonTokensRead, Zenon
<1> QED
  BY <1>1, CatalogInvariant, PTL

\* The catalog file is read as its form means, whoever wrote it.
THEOREM GrammarIsMet == Spec => []ParserMeetsGrammar
<1>1. CatalogInv => ParserMeetsGrammar
  BY JsonIsRead, ParseIsMeans, Zenon DEF CatalogInv, ParserMeetsGrammar
<1> QED
  BY <1>1, CatalogInvariant, PTL

\* A catalog nobody else touched reads as one that was published, or as empty.
THEOREM NoPartialCatalog == Spec => []CatalogIsWholeOrEmpty
<1>1. CatalogInv => CatalogIsWholeOrEmpty
  <2> SUFFICES ASSUME CatalogInv, ~edited, pc = "idle" PROVE ParseApps(file) \in Published
    BY Zenon DEF CatalogIsWholeOrEmpty, Published
  <2>1. edited = FALSE
    OBVIOUS
  <2> QED
    BY <2>1, WrittenReads, Zenon DEF CatalogInv
<1> QED
  BY <1>1, CatalogInvariant, PTL

\* The counts that host.syncApps reports are those of the names that came,
\* changed and went.
THEOREM DiffIsTrue == Spec => []DiffTellsTheTruth
<1>1. CatalogInv => DiffTellsTheTruth
  <2> SUFFICES ASSUME CatalogInv, answer.what = "synced", Unique(prev), Unique(next)
               PROVE  /\ answer.diff.added = Cardinality(Names(next) \ Names(prev))
                      /\ answer.diff.removed = Cardinality(Names(prev) \ Names(next))
                      /\ answer.diff.updated = Cardinality({n \in Names(prev) \cap Names(next) :
                                                               AppOf(prev, n) # AppOf(next, n)})
                      /\ answer.total = Len(prev) + answer.diff.added - answer.diff.removed
    BY Zenon DEF DiffTellsTheTruth
  <2>1. answer.diff = DiffApps(prev, next) /\ answer.total = Len(next)
    BY Zenon DEF CatalogInv
  <2>2. Len(prev) \in Nat /\ Len(next) \in Nat
    <3>1. Listed(prev) /\ next \in Seq(Games)
      BY PublishedTyped, Zenon DEF CatalogInv
    <3> QED
      BY <3>1, LenProperties, Zenon DEF Listed
  <2>3. LET d == DiffApps(prev, next)
        IN  /\ d.added = Cardinality(Names(next) \ Names(prev))
            /\ d.removed = Cardinality(Names(prev) \ Names(next))
            /\ d.updated = Cardinality({n \in Names(prev) \cap Names(next) :
                                           AppOf(prev, n) # AppOf(next, n)})
            /\ Len(next) = Len(prev) + d.added - d.removed
    BY <2>2, DiffCounts, Zenon
  <2> QED
    BY <2>1, <2>3, Zenon
<1> QED
  BY <1>1, CatalogInvariant, PTL
=============================================================================
