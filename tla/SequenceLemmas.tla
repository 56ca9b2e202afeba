--------------------------- MODULE SequenceLemmas ---------------------------
(***************************************************************************)
(* Facts about naturals and sequences that the proofs of several modules   *)
(* rest on: induction over a set, where a sequence occurs within another,  *)
(* and how FlattenSeq lays out its parts.                                  *)
(***************************************************************************)
EXTENDS Integers, SequencesExt, SequenceTheorems, WellFoundedInduction, TLAPS

\* A set of naturals that is not empty has a least element.
LEMMA LeastNat ==
    ASSUME NEW T \in SUBSET Nat, T # {}
    PROVE  \E x \in T : \A y \in T : x <= y
<1> DEFINE R == OpToRel(<, Nat)
<1>1. IsWellFoundedOn(R, Nat)
  BY NatLessThanWellFounded
<1>2. \A x, y \in Nat : <<x, y>> \in R <=> x < y
  BY DEF OpToRel
<1> HIDE DEF R
<1>3. \E x \in T : \A y \in T : ~ (<<y, x>> \in R)
  BY <1>1, WFMin
<1>4. PICK x \in T : \A y \in T : ~ (<<y, x>> \in R)
  BY <1>3
<1>5. \A y \in T : ~(y < x)
  BY <1>2, <1>4
<1> QED
  BY <1>5

\* Induction, over a set instead of a predicate.
LEMMA SetInduction ==
    ASSUME NEW T \in SUBSET Nat, 0 \in T, \A n \in T : n + 1 \in T
    PROVE  T = Nat
<1> SUFFICES ASSUME Nat \ T # {} PROVE FALSE
  OBVIOUS
<1>1. PICK x \in Nat \ T : \A y \in Nat \ T : x <= y
  BY LeastNat
<1> QED
  BY <1>1, x # 0, x - 1 \in Nat, x - 1 \in T

\* The least element of a set of naturals is in it and below the others.
LEMMA MinNat ==
    ASSUME NEW T \in SUBSET Nat, T # {}
    PROVE  Min(T) \in T /\ \A y \in T : Min(T) <= y
<1>1. \E x \in T : \A y \in T : x <= y
  BY LeastNat, Zenon
<1> QED
  BY <1>1, Zenon DEF Min

-----------------------------------------------------------------------------
(* Where a sequence occurs                                                 *)

\* From its p-th place on, T reads as s.
Occurs(T, p, s) ==
    /\ p + Len(s) <= Len(T) + 1
    /\ \A k \in 1 .. Len(s) : T[p + k - 1] = s[k]

\* A sequence put together of two occurs where both do, one after the other.
LEMMA OccursConcat ==
    ASSUME NEW S, NEW T \in Seq(S), NEW a \in Seq(S), NEW b \in Seq(S), NEW p \in Nat
    PROVE  Occurs(T, p, a \o b) <=> Occurs(T, p, a) /\ Occurs(T, p + Len(a), b)
<1>1. /\ a \o b \in Seq(S) /\ Len(a \o b) = Len(a) + Len(b)
      /\ Len(a) \in Nat /\ Len(b) \in Nat /\ Len(T) \in Nat
  OBVIOUS
<1>2. /\ \A k \in 1 .. Len(a) : (a \o b)[k] = a[k]
      /\ \A k \in 1 .. Len(b) : (a \o b)[Len(a) + k] = b[k]
  OBVIOUS
<1> DEFINE c == a \o b
<1> HIDE DEF c
<1>3. ASSUME Occurs(T, p, c) PROVE Occurs(T, p, a) /\ Occurs(T, p + Len(a), b)
  <2>1. \A k \in 1 .. Len(a) : T[p + k - 1] = a[k]
    BY <1>1, <1>2, <1>3 DEF Occurs, c
  <2>2. ASSUME NEW k \in 1 .. Len(b) PROVE T[p + Len(a) + k - 1] = b[k]
    <3>1. Len(a) + k \in 1 .. Len(c) /\ p + (Len(a) + k) - 1 = p + Len(a) + k - 1
      BY <1>1 DEF c
    <3>2. T[p + (Len(a) + k) - 1] = c[Len(a) + k]
      BY <1>3, <3>1 DEF Occurs
    <3> QED
      BY <1>2, <3>1, <3>2 DEF c
  <2>3. p + Len(a) <= Len(T) + 1 /\ (p + Len(a)) + Len(b) <= Len(T) + 1
    BY <1>1, <1>3 DEF Occurs, c
  <2> QED
    BY <2>1, <2>2, <2>3, Zenon DEF Occurs
<1>4. ASSUME Occurs(T, p, a), Occurs(T, p + Len(a), b) PROVE Occurs(T, p, c)
  <2>1. ASSUME NEW k \in 1 .. Len(c) PROVE T[p + k - 1] = c[k]
    <3>1. CASE k <= Len(a)
      BY <1>1, <1>2, <1>4, <3>1 DEF Occurs, c
    <3>2. CASE k > Len(a)
      <4>1. PICK m \in 1 .. Len(b) : k = Len(a) + m
        <5>1. k - Len(a) \in 1 .. Len(b) /\ k = Len(a) + (k - Len(a))
          BY <1>1, <3>2 DEF c
        <5> QED
          BY <5>1
      <4>2. T[(p + Len(a)) + m - 1] = b[m] /\ c[k] = b[m]
        BY <1>2, <1>4, <4>1 DEF Occurs, c
      <4>3. (p + Len(a)) + m - 1 = p + k - 1
        BY <1>1, <4>1
      <4> QED
        BY <4>2, <4>3
    <3> QED
      BY <1>1, <3>1, <3>2 DEF c
  <2> QED
    BY <1>1, <1>4, <2>1 DEF Occurs, c
<1> QED
  BY <1>3, <1>4 DEF c

\* It still does when something is put behind.
LEMMA OccursLonger ==
    ASSUME NEW S, NEW a \in Seq(S), NEW b \in Seq(S), NEW s \in Seq(S),
           NEW p \in Nat, p # 0, Occurs(a, p, s)
    PROVE  Occurs(a \o b, p, s)
<1>1. Len(a \o b) = Len(a) + Len(b) /\ Len(a) \in Nat /\ Len(b) \in Nat /\ Len(s) \in Nat
  OBVIOUS
<1>2. \A k \in 1 .. Len(a) : (a \o b)[k] = a[k]
  OBVIOUS
<1> DEFINE c == a \o b
<1> HIDE DEF c
<1>3. ASSUME NEW k \in 1 .. Len(s) PROVE c[p + k - 1] = s[k]
  <2>1. p + k - 1 \in 1 .. Len(a)
    BY <1>1 DEF Occurs
  <2> QED
    BY <1>2, <2>1 DEF Occurs, c
<1>4. p + Len(s) <= Len(c) + 1
  BY <1>1 DEF Occurs, c
<1> QED
  BY <1>3, <1>4, Zenon DEF Occurs, c

\* One element occurs where it is.
LEMMA OccursOne ==
    ASSUME NEW S, NEW T \in Seq(S), NEW x, NEW p \in Nat
    PROVE  Occurs(T, p, <<x>>) <=> p <= Len(T) /\ T[p] = x
BY DEF Occurs

\* A sequence occurs in itself.
LEMMA OccursSelf ==
    ASSUME NEW S, NEW T \in Seq(S)
    PROVE  Occurs(T, 1, T)
BY DEF Occurs

-----------------------------------------------------------------------------
(* FlattenSeq                                                              *)

\* The recursion of FlattenSeq, and that there is what it speaks of.
LEMMA FlattenSteps ==
    ASSUME NEW S, NEW seqs \in Seq(Seq(S)), seqs # <<>>
    PROVE  \E f \in [1 .. Len(seqs) -> Seq(S)] :
              /\ FlattenSeq(seqs) = f[Len(seqs)]
              /\ f[1] = seqs[1]
              /\ \A i \in 2 .. Len(seqs) : f[i] = f[i - 1] \o seqs[i]
<1> DEFINE n == Len(seqs)
           F(f) == [i \in 1 .. n |-> IF i = 1 THEN seqs[i] ELSE f[i - 1] \o seqs[i]]
           flat == CHOOSE f : f = F(f)
<1>1. n \in Nat /\ n # 0 /\ \A i \in 1 .. n : seqs[i] \in Seq(S)
  OBVIOUS
<1>2. FlattenSeq(seqs) = flat[n]
  BY <1>1, Zenon DEF FlattenSeq
<1>3. \A a, b \in Seq(S) : a \o b \in Seq(S)
  OBVIOUS
<1> HIDE DEF n
<1>4. \E f \in [1 .. n -> Seq(S)] : f = F(f)
  <2> DEFINE Upto(f, k) == \A i \in 1 .. n : i <= k => f[i] = F(f)[i]
             T == {k \in Nat : \E f \in [1 .. n -> Seq(S)] : Upto(f, k)}
  <2>1. 0 \in T
    <3>1. [i \in 1 .. n |-> <<>>] \in [1 .. n -> Seq(S)]
      OBVIOUS
    <3>2. Upto([i \in 1 .. n |-> <<>>], 0)
      BY <1>1
    <3> HIDE DEF Upto
    <3> QED
      BY <3>1, <3>2, Zenon
  <2>2. ASSUME NEW k \in T PROVE k + 1 \in T
    <3>1. k \in Nat /\ k + 1 \in Nat
      OBVIOUS
    <3>2. PICK f \in [1 .. n -> Seq(S)] : Upto(f, k)
      BY Zenon
    <3> DEFINE g == F(f)
    <3>3. g \in [1 .. n -> Seq(S)]
      BY <1>1, <1>3, <3>2
    <3>4. Upto(g, k + 1)
      <4> SUFFICES ASSUME NEW i \in 1 .. n, i <= k + 1 PROVE g[i] = F(g)[i]
        BY Zenon
      <4>1. CASE i = 1
        BY <4>1
      <4>2. CASE i # 1
        <5>1. i - 1 \in 1 .. n /\ i - 1 <= k
          BY <1>1, <3>1, <4>2
        <5>2. f[i - 1] = g[i - 1]
          BY <3>2, <5>1, Zenon
        <5>3. g[i] = f[i - 1] \o seqs[i] /\ F(g)[i] = g[i - 1] \o seqs[i]
          BY <4>2, Zenon
        <5> QED
          BY <5>2, <5>3, Zenon
      <4> QED
        BY <4>1, <4>2
    <3> HIDE DEF g, Upto
    <3> QED
      BY <3>1, <3>3, <3>4, Zenon
  <2>3. n \in T
    <3>1. T \in SUBSET Nat
      OBVIOUS
    <3> HIDE DEF T
    <3> QED
      BY <1>1, <2>1, <2>2, <3>1, SetInduction, Zenon
  <2>4. PICK f \in [1 .. n -> Seq(S)] : \A i \in 1 .. n : f[i] = F(f)[i]
    <3>1. PICK f \in [1 .. n -> Seq(S)] : Upto(f, n)
      BY <2>3, Zenon
    <3>2. \A i \in 1 .. n : i <= n
      BY <1>1
    <3> QED
      BY <3>1, <3>2, Zenon
  <2>5. f = [i \in 1 .. n |-> f[i]] /\ F(f) = [i \in 1 .. n |-> F(f)[i]]
    BY Zenon
  <2> HIDE DEF F
  <2>6. f = F(f)
    BY <2>4, <2>5
  <2> QED
    BY <2>6, Zenon
<1>5. flat = F(flat)
  BY <1>4, Zenon
<1>6. /\ flat[1] = seqs[1]
      /\ \A i \in 2 .. n : flat[i] = flat[i - 1] \o seqs[i]
      /\ flat = [i \in 1 .. n |-> flat[i]]
  <2>1. \A i \in 1 .. n : flat[i] = IF i = 1 THEN seqs[i] ELSE flat[i - 1] \o seqs[i]
    BY <1>5, Zenon
  <2>2. F(flat) = [i \in 1 .. n |-> F(flat)[i]]
    <3>1. ASSUME NEW f PROVE F(f) = [i \in 1 .. n |-> F(f)[i]]
      BY Zenon
    <3> HIDE DEF F, flat
    <3> QED
      BY <3>1, Zenon
  <2> HIDE DEF flat, F
  <2>3. flat = [i \in 1 .. n |-> flat[i]]
    BY <1>5, <2>2, Zenon
  <2>4. 1 \in 1 .. n /\ \A i \in 2 .. n : i \in 1 .. n /\ i # 1
    BY <1>1
  <2> QED
    BY <2>1, <2>3, <2>4, Zenon
<1> HIDE DEF flat
<1>7. \A i \in 1 .. n : flat[i] \in Seq(S)
  <2> DEFINE T == {k \in Nat : \A i \in 1 .. n : i <= k => flat[i] \in Seq(S)}
  <2>1. 0 \in T
    OBVIOUS
  <2>2. ASSUME NEW k \in T PROVE k + 1 \in T
    <3> SUFFICES ASSUME NEW i \in 1 .. n, i <= k + 1 PROVE flat[i] \in Seq(S)
      OBVIOUS
    <3>1. CASE i = 1
      BY <1>1, <1>6, <3>1
    <3>2. CASE i # 1
      <4>1. i \in 2 .. n /\ i - 1 \in 1 .. n /\ i - 1 <= k
        BY <1>1, <3>2
      <4>2. flat[i - 1] \in Seq(S) /\ seqs[i] \in Seq(S)
        BY <1>1, <4>1
      <4> QED
        BY <1>3, <1>6, <4>1, <4>2
    <3> QED
      BY <3>1, <3>2
  <2>3. n \in T
    <3>1. T \in SUBSET Nat
      OBVIOUS
    <3> HIDE DEF T
    <3> QED
      BY <1>1, <2>1, <2>2, <3>1, SetInduction, Zenon
  <2> QED
    BY <1>1, <2>3
<1>8. flat \in [1 .. n -> Seq(S)]
  BY <1>6, <1>7
<1> QED
  BY <1>2, <1>6, <1>8, Zenon DEF n

\* What FlattenSeq returns is made of its parts' elements.
LEMMA FlattenTyped ==
    ASSUME NEW S, NEW seqs \in Seq(Seq(S))
    PROVE  FlattenSeq(seqs) \in Seq(S)
<1>1. CASE seqs = <<>>
  <2>1. Len(seqs) = 0 /\ seqs \in Seq(S)
    BY <1>1
  <2> QED
    BY <2>1, Zenon DEF FlattenSeq
<1>2. CASE seqs # <<>>
  <2>1. PICK f \in [1 .. Len(seqs) -> Seq(S)] : FlattenSeq(seqs) = f[Len(seqs)]
    BY <1>2, FlattenSteps, Zenon
  <2>2. Len(seqs) \in 1 .. Len(seqs)
    BY <1>2
  <2> QED
    BY <2>1, <2>2, Zenon
<1> QED
  BY <1>1, <1>2, Zenon

\* The parts lie one behind the other: the i-th from off[i] on, the first at 1.
Layout(q, seqs, off) ==
    /\ off \in [1 .. Len(seqs) + 1 -> Nat]
    /\ off[1] = 1 /\ off[Len(seqs) + 1] = Len(q) + 1
    /\ \A i \in 1 .. Len(seqs) : /\ off[i + 1] = off[i] + Len(seqs[i])
                                /\ Occurs(q, off[i], seqs[i])

\* FlattenSeq lays its parts out so.
LEMMA FlattenLayout ==
    ASSUME NEW S, NEW seqs \in Seq(Seq(S))
    PROVE  \E off : Layout(FlattenSeq(seqs), seqs, off)
<1> DEFINE q == FlattenSeq(seqs)
           n == Len(seqs)
<1>1. q \in Seq(S)
  BY FlattenTyped, Zenon
<1>2. n \in Nat /\ \A i \in 1 .. n : seqs[i] \in Seq(S)
  OBVIOUS
<1>3. CASE seqs = <<>>
  <2>1. n = 0 /\ q = <<>>
    <3>1. Len(seqs) = 0
      BY <1>3
    <3> QED
      BY <1>3, <3>1, Zenon DEF FlattenSeq
  <2> DEFINE off == [i \in 1 .. n + 1 |-> 1]
  <2>2. Layout(q, seqs, off)
    <3>1. Len(q) = 0
      BY <2>1
    <3> HIDE DEF q
    <3> QED
      BY <2>1, <3>1 DEF Layout
  <2> QED
    BY <2>2, Zenon
<1>4. CASE seqs # <<>>
  <2>1. PICK f \in [1 .. n -> Seq(S)] :
              /\ q = f[n]
              /\ f[1] = seqs[1]
              /\ \A i \in 2 .. n : f[i] = f[i - 1] \o seqs[i]
    BY <1>4, FlattenSteps, Zenon
  <2> DEFINE off == [i \in 1 .. n + 1 |-> IF i = 1 THEN 1 ELSE Len(f[i - 1]) + 1]
  <2>2. n > 0
    BY <1>2, <1>4
  <2> HIDE DEF q, n
  <2>3. ASSUME NEW i \in 1 .. n PROVE Len(f[i]) \in Nat
    BY <2>1, <2>3
  <2>4. off \in [1 .. n + 1 -> Nat]
    <3>1. ASSUME NEW i \in 1 .. n + 1, i # 1 PROVE i - 1 \in 1 .. n
      BY <1>2, <3>1
    <3> QED
      BY <2>3, <3>1
  <2>5. off[1] = 1 /\ off[n + 1] = Len(q) + 1
    BY <1>2, <2>1, <2>2
  <2>6. ASSUME NEW i \in 1 .. n
        PROVE  /\ off[i] \in Nat
               /\ off[i + 1] = off[i] + Len(seqs[i])
               /\ Occurs(f[i], off[i], seqs[i])
    <3>1. off[i] \in Nat /\ off[i + 1] = Len(f[i]) + 1
      BY <1>2, <2>4
    <3>2. CASE i = 1
      <4>1. f[i] = seqs[i] /\ seqs[i] \in Seq(S) /\ off[i] = 1
        BY <1>2, <2>1, <3>2
      <4>2. Len(seqs[i]) \in Nat
        BY <4>1
      <4> HIDE DEF off
      <4> QED
        BY <3>1, <4>1, <4>2, OccursSelf
    <3>3. CASE i # 1
      <4>1. i \in 2 .. n /\ i - 1 \in 1 .. n
        BY <1>2, <3>3
      <4>2. f[i] = f[i - 1] \o seqs[i] /\ off[i] = Len(f[i - 1]) + 1
        <5>1. f[i] = f[i - 1] \o seqs[i]
          BY <2>1, <4>1, Zenon
        <5>2. i \in 1 .. n + 1
          BY <1>2
        <5> QED
          BY <3>3, <5>1, <5>2, Zenon
      <4>3. f[i - 1] \in Seq(S) /\ seqs[i] \in Seq(S) /\ f[i] \in Seq(S)
        BY <1>2, <2>1, <4>1
      <4>4. Len(f[i]) = Len(f[i - 1]) + Len(seqs[i])
        BY <4>2, <4>3
      <4>5. Occurs(f[i], 1, f[i])
        BY <4>3, OccursSelf, Zenon
      <4>6. Occurs(f[i], 1 + Len(f[i - 1]), seqs[i])
        BY <4>2, <4>3, <4>5, OccursConcat, 1 \in Nat
      <4>7. 1 + Len(f[i - 1]) = Len(f[i - 1]) + 1
        BY <4>3
      <4>8. Occurs(f[i], off[i], seqs[i])
        BY <4>2, <4>6, <4>7, Zenon
      <4>9. Len(f[i - 1]) \in Nat /\ Len(seqs[i]) \in Nat
        BY <4>3
      <4> HIDE DEF off
      <4>10. off[i + 1] = off[i] + Len(seqs[i])
        <5> HIDE DEF Occurs
        <5>1. \A x, y, z \in Nat : x = y + z => x + 1 = y + 1 + z
          OBVIOUS
        <5>2. Len(f[i]) \in Nat
          BY <2>3, Zenon
        <5>3. Len(f[i]) + 1 = Len(f[i - 1]) + 1 + Len(seqs[i])
          BY <4>4, <4>9, <5>1, <5>2, Zenon
        <5> QED
          BY <3>1, <4>2, <5>3, Zenon
      <4> QED
        BY <3>1, <4>8, <4>10, Zenon
    <3> QED
      BY <3>2, <3>3
  <2> HIDE DEF off
  <2>7. ASSUME NEW i \in 1 .. n PROVE Occurs(q, off[i], seqs[i])
    <3> DEFINE T == {k \in Nat : i + k <= n => Occurs(f[i + k], off[i], seqs[i])}
    <3>1. 0 \in T
      BY <2>6
    <3>2. ASSUME NEW k \in T PROVE k + 1 \in T
      <4> SUFFICES ASSUME i + (k + 1) <= n PROVE Occurs(f[i + (k + 1)], off[i], seqs[i])
        OBVIOUS
      <4> DEFINE j == i + (k + 1)
      <4>1. Occurs(f[i + k], off[i], seqs[i])
        BY <1>2
      <4>2. j \in 2 .. n /\ j - 1 = i + k /\ i + k \in 1 .. n /\ j \in 1 .. n
        BY <1>2
      <4> HIDE DEF j
      <4>3. f[j] = f[i + k] \o seqs[j]
        BY <2>1, <4>2
      <4>4. f[i + k] \in Seq(S) /\ seqs[j] \in Seq(S) /\ f[j] \in Seq(S) /\ seqs[i] \in Seq(S)
        BY <1>2, <2>1, <4>2
      <4>5. off[i] \in Nat /\ off[i] # 0
        <5>1. i = 1 \/ i - 1 \in 1 .. n
          BY <1>2
        <5>2. off[i] = IF i = 1 THEN 1 ELSE Len(f[i - 1]) + 1
          BY <1>2 DEF off
        <5> QED
          BY <2>3, <5>1, <5>2
      <4>6. Occurs(f[j], off[i], seqs[i])
        BY <4>1, <4>3, <4>4, <4>5, OccursLonger, Zenon
      <4> QED
        BY <4>6 DEF j
    <3>3. n - i \in T
      <4>1. T \in SUBSET Nat
        OBVIOUS
      <4>2. n - i \in Nat
        BY <1>2
      <4> HIDE DEF T
      <4> QED
        BY <3>1, <3>2, <4>1, <4>2, SetInduction, Zenon
    <3>4. i + (n - i) = n /\ n <= n
      BY <1>2
    <3> QED
      BY <2>1, <3>3, <3>4
  <2>8. Layout(q, seqs, off)
    BY <2>4, <2>5, <2>6, <2>7, Zenon DEF Layout, n
  <2> QED
    BY <2>8, Zenon DEF q
<1> QED
  BY <1>3, <1>4, Zenon

\* Each place of a FlattenSeq lies in one of its parts.
LEMMA LayoutCovers ==
    ASSUME NEW S, NEW seqs \in Seq(Seq(S)), NEW q, NEW off, Layout(q, seqs, off), Len(q) \in Nat,
           NEW k \in 1 .. Len(q)
    PROVE  \E i \in 1 .. Len(seqs) : off[i] <= k /\ k < off[i + 1]
<1> DEFINE T == {j \in 1 .. Len(seqs) + 1 : off[j] > k}
<1>1. Len(seqs) \in Nat
  OBVIOUS
<1>2. Len(seqs) + 1 \in T /\ 1 \notin T /\ T \in SUBSET Nat
  BY <1>1 DEF Layout
<1>3. PICK j \in T : \A y \in T : j <= y
  <2> HIDE DEF T
  <2> QED
    BY <1>2, LeastNat, Zenon
<1>4. j \in 1 .. Len(seqs) + 1 /\ off[j] > k /\ j # 1
  BY <1>2, <1>3
<1>5. j - 1 \in 1 .. Len(seqs) /\ j - 1 \in 1 .. Len(seqs) + 1 /\ (j - 1) + 1 = j
  BY <1>1, <1>4
<1>6. ~(j <= j - 1)
  BY <1>4
<1>7. j - 1 \notin T
  BY <1>3, <1>6, Zenon
<1>8. off[j - 1] \in Nat /\ ~(off[j - 1] > k)
  BY <1>5, <1>7, Zenon DEF Layout
<1>9. off[j - 1] <= k /\ k < off[(j - 1) + 1]
  BY <1>4, <1>5, <1>8 DEF Layout
<1> QED
  BY <1>5, <1>9, Zenon

\* Parts of one element each make the sequence of these elements.
LEMMA FlattenSingles ==
    ASSUME NEW S, NEW s \in Seq(S), NEW seqs,
           seqs = [i \in 1 .. Len(s) |-> <<s[i]>>]
    PROVE  FlattenSeq(seqs) = s
<1>1. /\ seqs \in Seq(Seq(S)) /\ Len(seqs) = Len(s) /\ Len(s) \in Nat
      /\ \A i \in 1 .. Len(s) : seqs[i] = <<s[i]>> /\ Len(seqs[i]) = 1
  OBVIOUS
<1> DEFINE q == FlattenSeq(seqs)
<1>2. q \in Seq(S)
  BY <1>1, FlattenTyped, Zenon
<1>3. PICK off : Layout(q, seqs, off)
  BY <1>1, FlattenLayout, Zenon
<1> HIDE DEF q
<1>4. ASSUME NEW i \in 1 .. Len(s) + 1 PROVE off[i] = i
  <2> DEFINE T == {k \in Nat : k + 1 <= Len(s) + 1 => off[k + 1] = k + 1}
  <2>1. 0 \in T
    BY <1>3 DEF Layout
  <2>2. ASSUME NEW k \in T PROVE k + 1 \in T
    BY <1>1, <1>3 DEF Layout
  <2>3. i - 1 \in T
    <3>1. T \in SUBSET Nat /\ i - 1 \in Nat
      BY <1>1
    <3> HIDE DEF T
    <3> QED
      BY <2>1, <2>2, <3>1, SetInduction, Zenon
  <2> QED
    BY <1>1, <2>3
<1>5. Len(q) = Len(s)
  BY <1>1, <1>2, <1>3, <1>4 DEF Layout
<1>6. ASSUME NEW i \in 1 .. Len(s) PROVE q[i] = s[i]
  <2>1. Occurs(q, i, <<s[i]>>)
    BY <1>1, <1>3, <1>4 DEF Layout
  <2> QED
    BY <1>1, <1>2, <2>1, OccursOne
<1>7. q = s
  BY <1>2, <1>5, <1>6, SeqEqual
<1> QED
  BY <1>7 DEF q

\* Induction over the naturals, from all smaller ones.
LEMMA StrongInduction ==
    ASSUME NEW T \in SUBSET Nat, \A n \in Nat : (\A m \in Nat : m < n => m \in T) => n \in T
    PROVE  T = Nat
<1> DEFINE U == {n \in Nat : \A m \in Nat : m < n => m \in T}
<1>1. 0 \in U
  OBVIOUS
<1>2. ASSUME NEW n \in U PROVE n + 1 \in U
  <2>1. n \in Nat /\ n \in T
    OBVIOUS
  <2>2. \A m \in Nat : m < n + 1 => m < n \/ m = n
    BY <2>1
  <2> QED
    BY <2>1, <2>2
<1>3. U = Nat
  <2>1. U \in SUBSET Nat
    OBVIOUS
  <2> HIDE DEF U
  <2> QED
    BY <1>1, <1>2, <2>1, SetInduction, Zenon
<1> QED
  BY <1>3

\* Induction over the places of a sequence, from all later ones.
LEMMA Downward ==
    ASSUME NEW n \in Nat, NEW T \in SUBSET (1 .. n + 1),
           \A i \in 1 .. n + 1 : (\A j \in 1 .. n + 1 : j > i => j \in T) => i \in T
    PROVE  \A i \in 1 .. n + 1 : i \in T
<1> DEFINE U == {m \in Nat : m <= n => n + 1 - m \in T}
<1>1. ASSUME NEW m \in Nat, \A k \in Nat : k < m => k \in U PROVE m \in U
  <2>1. ASSUME m <= n PROVE n + 1 - m \in T
    <3> DEFINE i == n + 1 - m
    <3>1. i \in 1 .. n + 1
      BY <2>1
    <3>2. ASSUME NEW j \in 1 .. n + 1, j > i PROVE j \in T
      <4> DEFINE k == n + 1 - j
      <4>1. k \in Nat /\ k < m /\ k <= n /\ n + 1 - k = j
        BY <2>1, <3>2
      <4>2. k \in U
        BY <1>1, <4>1
      <4> HIDE DEF k
      <4> QED
        BY <4>1, <4>2
    <3> HIDE DEF i
    <3> QED
      BY <3>1, <3>2 DEF i
  <2> QED
    BY <2>1
<1>2. U = Nat
  <2>1. U \in SUBSET Nat
    OBVIOUS
  <2> HIDE DEF U
  <2> QED
    BY <1>1, <2>1, StrongInduction, Zenon
<1> TAKE i \in 1 .. n + 1
<1>3. n + 1 - i \in Nat /\ n + 1 - i <= n /\ n + 1 - (n + 1 - i) = i
  OBVIOUS
<1> QED
  BY <1>2, <1>3
=============================================================================
