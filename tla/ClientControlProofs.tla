------------------------ MODULE ClientControlProofs ------------------------
(***************************************************************************)
(* Proofs about NvReply, for documents of any length, cut anywhere, in one *)
(* piece or in chunks; and about ClientControl and NvPairing, for any set  *)
(* of machines, any app lists and any settings a request may hold.         *)
(***************************************************************************)
EXTENDS ClientControl, SequenceLemmas, FiniteSetTheorems

-----------------------------------------------------------------------------
(* The shape of the two recursions: the piece at i, and then what follows  *)
(* further down, up to a piece that is the last one.                       *)

Pieces(f, n, last, piece, next) ==
    f = [i \in 1 .. n |-> IF i \in last THEN piece[i] ELSE piece[i] \o f[next[i]]]

PiecesFit(n, S, last, piece, next) ==
    /\ n \in Nat /\ last \subseteq 1 .. n
    /\ piece \in [1 .. n -> Seq(S)]
    /\ \A i \in (1 .. n) \ last : next[i] \in Nat /\ i < next[i] /\ next[i] <= n

\* There is such a function.
LEMMA PiecesExist ==
    ASSUME NEW n, NEW S, NEW last, NEW piece, NEW next, PiecesFit(n, S, last, piece, next)
    PROVE  \E f : Pieces(f, n, last, piece, next)
<1> DEFINE Good(f, i) == f[i] = IF i \in last THEN piece[i] ELSE piece[i] \o f[next[i]]
           T == {k \in Nat : \E f \in [1 .. n -> Seq(S)] :
                                \A i \in 1 .. n : i + k > n => Good(f, i)}
<1> USE DEF PiecesFit
<1>1. 0 \in T
  <2>1. piece \in [1 .. n -> Seq(S)] /\ \A i \in 1 .. n : ~(i + 0 > n)
    OBVIOUS
  <2> QED
    BY <2>1
<1>2. ASSUME NEW k \in T PROVE k + 1 \in T
  <2>1. k \in Nat /\ \E f \in [1 .. n -> Seq(S)] : \A i \in 1 .. n : i + k > n => Good(f, i)
    BY Zenon
  <2>2. PICK f \in [1 .. n -> Seq(S)] : \A i \in 1 .. n : i + k > n => Good(f, i)
    BY <2>1, Zenon
  <2> SUFFICES \E g \in [1 .. n -> Seq(S)] : \A i \in 1 .. n : i + (k + 1) > n => Good(g, i)
    <3>1. k + 1 \in Nat
      BY <2>1
    <3> QED
      BY <3>1, Zenon
  <2>3. CASE k + 1 > n
    <3> HIDE DEF Good
    <3>1. \A i \in 1 .. n : i + k > n
      BY <2>1, <2>3
    <3> QED
      BY <2>2, <3>1, Zenon
  <2>4. CASE k + 1 <= n
    <3> DEFINE j == n - k
               v == IF j \in last THEN piece[j] ELSE piece[j] \o f[next[j]]
               g == [f EXCEPT ![j] = v]
    <3>1. j \in 1 .. n /\ k \in Nat
      BY <2>1, <2>4
    <3>2. v \in Seq(S)
      <4>1. piece[j] \in Seq(S)
        BY <3>1
      <4>2. ASSUME j \notin last PROVE f[next[j]] \in Seq(S)
        BY <3>1, <4>2
      <4>3. \A a, b \in Seq(S) : a \o b \in Seq(S)
        OBVIOUS
      <4> HIDE DEF j
      <4> QED
        BY <4>1, <4>2, <4>3
    <3> HIDE DEF v
    <3>3. g \in [1 .. n -> Seq(S)] /\ g[j] = v /\ \A i \in 1 .. n : i # j => g[i] = f[i]
      BY <3>1, <3>2
    <3> HIDE DEF g
    <3>4. ASSUME NEW i \in 1 .. n, i + (k + 1) > n
          PROVE  Good(g, i)
      <4>1. i \notin last => next[i] \in 1 .. n /\ next[i] # j
        BY <3>1, <3>4
      <4>2. CASE i = j
        BY <3>3, <4>1, <4>2 DEF v
      <4>3. CASE i # j
        <5>1. i + k > n
          BY <3>1, <3>4, <4>3
        <5>2. Good(f, i)
          BY <2>2, <5>1, Zenon
        <5> QED
          BY <3>3, <4>1, <4>3, <5>2
      <4> QED
        BY <4>2, <4>3
    <3> QED
      BY <3>3, <3>4, Zenon
  <2>5. k + 1 > n \/ k + 1 <= n
    BY <2>1
  <2> QED
    BY <2>3, <2>4, <2>5, Zenon
<1>3. n \in T
  BY <1>1, <1>2, SetInduction
<1>4. PICK f \in [1 .. n -> Seq(S)] : \A i \in 1 .. n : Good(f, i)
  BY <1>3
<1> QED
  BY <1>4 DEF Pieces

\* Whatever satisfies the recursion is put together of the pieces' elements.
LEMMA PiecesTyped ==
    ASSUME NEW n, NEW S, NEW last, NEW piece, NEW next, PiecesFit(n, S, last, piece, next),
           NEW f, Pieces(f, n, last, piece, next)
    PROVE  \A i \in 1 .. n : f[i] \in Seq(S)
<1> DEFINE T == {k \in Nat : \A i \in 1 .. n : i + k > n => f[i] \in Seq(S)}
<1> USE DEF PiecesFit
<1>1. 0 \in T
  OBVIOUS
<1>2. ASSUME NEW k \in T PROVE k + 1 \in T
  <2> SUFFICES ASSUME NEW i \in 1 .. n, i + (k + 1) > n PROVE f[i] \in Seq(S)
    OBVIOUS
  <2>1. f[i] = IF i \in last THEN piece[i] ELSE piece[i] \o f[next[i]]
    BY DEF Pieces
  <2>2. i \notin last => f[next[i]] \in Seq(S)
    BY <1>2
  <2>3. piece[i] \in Seq(S) /\ \A a, b \in Seq(S) : a \o b \in Seq(S)
    OBVIOUS
  <2> QED
    BY <2>1, <2>2, <2>3
<1>3. n \in T
  BY <1>1, <1>2, SetInduction
<1> QED
  BY <1>3

-----------------------------------------------------------------------------
(* Chunks and cut answers are made of the document's elements              *)

\* The cells of chunked answers: elements, and sizes that are numbers.
Cells(S) == S \cup {Element("size", k) : k \in Nat}

\* A part of a sequence of cells is one.
LEMMA PartTyped ==
    ASSUME NEW S, NEW s \in Seq(S), NEW a \in Int, NEW b \in Int, a >= 1, b <= Len(s)
    PROVE  SubSeq(s, a, b) \in Seq(S)
OBVIOUS

\* The i-th element of a document and those that share its chunk.
Chunk(doc, n, i) == SubSeq(doc, i, IF i + n - 1 < Len(doc) THEN i + n - 1 ELSE Len(doc))

ChunkTable(f, S, doc, n) ==
    \A i \in 1 .. Len(doc) + n :
        /\ f[i] \in Seq(Cells(S))
        /\ i > Len(doc) => f[i] = <<Element("size", 0)>>
        /\ i <= Len(doc) => f[i] = <<Element("size", Len(Chunk(doc, n, i)))>>
                                      \o Chunk(doc, n, i) \o f[i + n]

\* The recursion of a chunked body; it holds the document's elements and sizes.
LEMMA ChunkedSteps ==
    ASSUME NEW S, NEW doc \in Seq(S), NEW n \in Nat, n > 0
    PROVE  \E f : Chunked(doc, n) = f[1] /\ ChunkTable(f, S, doc, n)
<1> DEFINE chunk(i) == SubSeq(doc, i, IF i + n - 1 < Len(doc) THEN i + n - 1 ELSE Len(doc))
           top   == Len(doc) + n
           F(f)  == [i \in 1 .. Len(doc) + n |->
                        IF i > Len(doc) THEN <<Element("size", 0)>>
                        ELSE <<Element("size", Len(chunk(i)))>> \o chunk(i) \o f[i + n]]
           last  == {i \in 1 .. top : i > Len(doc)}
           piece == [i \in 1 .. top |->
                        IF i > Len(doc) THEN <<Element("size", 0)>>
                        ELSE <<Element("size", Len(chunk(i)))>> \o chunk(i)]
           next  == [i \in 1 .. top |-> i + n]
           from  == CHOOSE f : f = F(f)
<1>1. Chunked(doc, n) = from[1]
  BY Zenon DEF Chunked
<1>2. \A i \in 1 .. Len(doc) : chunk(i) \in Seq(S)
  BY PartTyped
<1>3. Len(doc) \in Nat /\ top \in Nat /\ 1 \in 1 .. top
  OBVIOUS
<1> HIDE DEF chunk
<1>4. \A i \in 1 .. top : piece[i] \in Seq(Cells(S))
  <2> TAKE i \in 1 .. top
  <2>1. CASE i > Len(doc)
    <3>1. Element("size", 0) \in Cells(S)
      BY DEF Cells
    <3> QED
      BY <2>1, <3>1
  <2>2. CASE ~(i > Len(doc))
    <3>1. chunk(i) \in Seq(S)
      BY <1>2, <1>3, <2>2
    <3>2. chunk(i) \in Seq(Cells(S)) /\ Len(chunk(i)) \in Nat
      BY <3>1 DEF Cells
    <3>3. Element("size", Len(chunk(i))) \in Cells(S)
      BY <3>2 DEF Cells
    <3>4. \A c \in Cells(S), q \in Seq(Cells(S)) : <<c>> \o q \in Seq(Cells(S))
      OBVIOUS
    <3>5. piece[i] = <<Element("size", Len(chunk(i)))>> \o chunk(i)
      BY <2>2, Zenon
    <3> HIDE DEF piece
    <3> QED
      BY <3>2, <3>3, <3>4, <3>5, Zenon
  <2> QED
    BY <2>1, <2>2, Zenon
<1>5. PiecesFit(top, Cells(S), last, piece, next)
  <2>1. piece \in [1 .. top -> Seq(Cells(S))]
    BY <1>4, Zenon
  <2> HIDE DEF piece
  <2>2. last \subseteq 1 .. top
    OBVIOUS
  <2>3. \A i \in (1 .. top) \ last : next[i] \in Nat /\ i < next[i] /\ next[i] <= top
    BY <1>3
  <2> QED
    BY <1>3, <2>1, <2>2, <2>3, Zenon DEF PiecesFit
<1>6. \A f : f = F(f) <=> Pieces(f, top, last, piece, next)
  <2> TAKE f
  <2> DEFINE G == [i \in 1 .. top |-> IF i \in last THEN piece[i] ELSE piece[i] \o f[next[i]]]
  <2>1. ASSUME NEW i \in 1 .. top PROVE F(f)[i] = G[i]
    <3>1. CASE i > Len(doc)
      BY <3>1, Zenon
    <3>2. CASE ~(i > Len(doc))
      <4>1. /\ F(f)[i] = <<Element("size", Len(chunk(i)))>> \o chunk(i) \o f[i + n]
            /\ G[i] = <<Element("size", Len(chunk(i)))>> \o chunk(i) \o f[i + n]
        BY <3>2, Zenon
      <4> QED
        BY <4>1, Zenon
    <3> QED
      BY <3>1, <3>2, Zenon
  <2>2. F(f) = G
    <3>1. F(f) = [i \in 1 .. top |-> F(f)[i]] /\ G = [i \in 1 .. top |-> G[i]]
      BY Zenon
    <3> HIDE DEF F, G
    <3> QED
      BY <2>1, <3>1
  <2> QED
    BY <2>2, Zenon DEF Pieces
<1> HIDE DEF F, top, last, piece, next
<1>7. Pieces(from, top, last, piece, next)
  BY <1>5, <1>6, PiecesExist, Zenon
<1>8. \A i \in 1 .. top : from[i] \in Seq(Cells(S))
  BY <1>5, <1>7, PiecesTyped, Zenon
<1>9. from = F(from)
  BY <1>6, <1>7, Zenon
<1> HIDE DEF from
<1>10. ASSUME NEW i \in 1 .. top
       PROVE  /\ i > Len(doc) => from[i] = <<Element("size", 0)>>
              /\ i <= Len(doc) =>
                    from[i] = <<Element("size", Len(chunk(i)))>> \o chunk(i) \o from[i + n]
  <2>1. from[i] = F(from)[i]
    BY <1>9, Zenon
  <2>2. i <= Len(doc) => ~(i > Len(doc))
    BY <1>3 DEF top
  <2> QED
    BY <2>1, <2>2, Zenon DEF F, top
<1>11. \A i : chunk(i) = Chunk(doc, n, i)
  BY Zenon DEF chunk, Chunk
<1> QED
  BY <1>1, <1>8, <1>10, <1>11, Zenon DEF top, ChunkTable

\* A chunked body holds the document's elements and sizes.
LEMMA ChunkedTyped ==
    ASSUME NEW S, NEW doc \in Seq(S), NEW n \in Nat, n > 0
    PROVE  Chunked(doc, n) \in Seq(Cells(S))
<1>1. 1 \in 1 .. Len(doc) + n
  OBVIOUS
<1> QED
  BY <1>1, ChunkedSteps, Zenon DEF ChunkTable

\* dechunk is done at the i-th place.
ChunksEnd(body, i) ==
    \/ i > Len(body)
    \/ body[i].tag # "size"
    \/ body[i].val = 0
    \/ i + body[i].val > Len(body)

DechunkTable(f, S, body) ==
    \A i \in 1 .. Len(body) + 1 :
        /\ f[i] \in Seq(S)
        /\ ChunksEnd(body, i) => f[i] = <<>>
        /\ ~ChunksEnd(body, i) =>
              f[i] = SubSeq(body, i + 1, i + body[i].val) \o f[i + body[i].val + 1]

\* The recursion of dechunk; what it makes of a body is made of the body's cells.
LEMMA DechunkSteps ==
    ASSUME NEW S, NEW body \in Seq(S), \A e \in S : e.tag = "size" => e.val \in Nat
    PROVE  \E f : Dechunk(body) = f[1] /\ DechunkTable(f, S, body)
<1> DEFINE top   == Len(body) + 1
           Ends(i) == \/ i > Len(body)
                      \/ body[i].tag # "size"
                      \/ body[i].val = 0
                      \/ i + body[i].val > Len(body)
           F(f)  == [i \in 1 .. Len(body) + 1 |->
                        IF Ends(i) THEN <<>>
                        ELSE SubSeq(body, i + 1, i + body[i].val) \o f[i + body[i].val + 1]]
           last  == {i \in 1 .. top : Ends(i)}
           piece == [i \in 1 .. top |->
                        IF Ends(i) THEN <<>> ELSE SubSeq(body, i + 1, i + body[i].val)]
           next  == [i \in 1 .. top |-> i + body[i].val + 1]
           from  == CHOOSE f : f = F(f)
<1>1. Dechunk(body) = from[1]
  BY Zenon DEF Dechunk
<1>2. Len(body) \in Nat /\ top \in Nat /\ 1 \in 1 .. top
  OBVIOUS
<1>3. ASSUME NEW i \in 1 .. top, ~Ends(i)
      PROVE  /\ i \in 1 .. Len(body) /\ body[i].val \in Nat
             /\ body[i].val # 0 /\ i + body[i].val <= Len(body)
  <2>1. i \in 1 .. Len(body)
    BY <1>2, <1>3
  <2>2. body[i] \in S /\ body[i].tag = "size"
    BY <1>3, <2>1
  <2>3. body[i].val \in Nat
    BY <2>2, Zenon
  <2> QED
    BY <1>2, <1>3, <2>1, <2>3
<1> HIDE DEF Ends
<1>4. \A i \in 1 .. top : piece[i] \in Seq(S)
  <2> TAKE i \in 1 .. top
  <2>1. CASE Ends(i)
    BY <2>1
  <2>2. CASE ~Ends(i)
    <3> DEFINE v == body[i].val
    <3>1. i \in 1 .. Len(body) /\ v \in Nat /\ i + v <= Len(body)
      BY <1>3, <2>2, Zenon
    <3>2. piece[i] = SubSeq(body, i + 1, i + v)
      BY <2>2, Zenon
    <3> HIDE DEF v, piece
    <3>3. i + 1 \in Int /\ i + v \in Int /\ i + 1 >= 1
      BY <3>1
    <3> QED
      BY <3>1, <3>2, <3>3, PartTyped
  <2> QED
    BY <2>1, <2>2, Zenon
<1>5. PiecesFit(top, S, last, piece, next)
  <2>1. piece \in [1 .. top -> Seq(S)]
    BY <1>4, Zenon
  <2> HIDE DEF piece
  <2>2. last \subseteq 1 .. top
    OBVIOUS
  <2>3. \A i \in (1 .. top) \ last : next[i] \in Nat /\ i < next[i] /\ next[i] <= top
    <3> TAKE i \in (1 .. top) \ last
    <3> DEFINE v == body[i].val
    <3>1. i \in 1 .. Len(body) /\ v \in Nat /\ v # 0 /\ i + v <= Len(body)
      BY <1>3, Zenon
    <3>2. next[i] = i + v + 1
      BY Zenon
    <3> HIDE DEF v, next
    <3> QED
      BY <1>2, <3>1, <3>2
  <2> QED
    BY <1>2, <2>1, <2>2, <2>3, Zenon DEF PiecesFit
<1>6. \A f : f = F(f) <=> Pieces(f, top, last, piece, next)
  <2> TAKE f
  <2> DEFINE G == [i \in 1 .. top |-> IF i \in last THEN piece[i] ELSE piece[i] \o f[next[i]]]
  <2>1. ASSUME NEW i \in 1 .. top PROVE F(f)[i] = G[i]
    <3>1. CASE Ends(i)
      BY <3>1, Zenon
    <3>2. CASE ~Ends(i)
      BY <3>2, Zenon
    <3> QED
      BY <3>1, <3>2, Zenon
  <2>2. F(f) = G
    <3>1. F(f) = [i \in 1 .. top |-> F(f)[i]] /\ G = [i \in 1 .. top |-> G[i]]
      BY Zenon
    <3> HIDE DEF F, G
    <3> QED
      BY <2>1, <3>1
  <2> QED
    BY <2>2, Zenon DEF Pieces
<1> HIDE DEF F, top, last, piece, next
<1>7. Pieces(from, top, last, piece, next)
  BY <1>5, <1>6, PiecesExist, Zenon
<1>8. \A i \in 1 .. top : from[i] \in Seq(S)
  BY <1>5, <1>7, PiecesTyped, Zenon
<1>9. from = F(from)
  BY <1>6, <1>7, Zenon
<1> HIDE DEF from
<1>10. ASSUME NEW i \in 1 .. top
       PROVE  /\ Ends(i) => from[i] = <<>>
              /\ ~Ends(i) =>
                    from[i] = SubSeq(body, i + 1, i + body[i].val) \o from[i + body[i].val + 1]
  <2>1. from[i] = F(from)[i]
    BY <1>9, Zenon
  <2> QED
    BY <2>1, Zenon DEF F, top
<1>11. \A i : Ends(i) <=> ChunksEnd(body, i)
  BY Zenon DEF Ends, ChunksEnd
<1> QED
  BY <1>1, <1>8, <1>10, <1>11, Zenon DEF top, DechunkTable

\* What dechunk makes of any body is made of the body's cells.
LEMMA DechunkTyped ==
    ASSUME NEW S, NEW body \in Seq(S), \A e \in S : e.tag = "size" => e.val \in Nat
    PROVE  Dechunk(body) \in Seq(S)
<1>1. 1 \in 1 .. Len(body) + 1
  OBVIOUS
<1> QED
  BY <1>1, DechunkSteps, Zenon DEF DechunkTable

\* The elements of a document, of which none is a chunk's size.
Elements(doc) == {doc[i] : i \in 1 .. Len(doc)}
IsDocument(doc) == doc \in Seq(Elements(doc)) /\ \A e \in Elements(doc) : e.tag # "size"

\* Whatever is lost and however it was sent, what the engine takes for the
\* answer is made of elements of the document and of sizes.
THEOREM NothingInvented ==
    ASSUME NEW doc, IsDocument(doc), NEW x \in Received(doc)
    PROVE  x \in Seq(Cells(Elements(doc)))
<1> DEFINE S == Elements(doc)
           C == Cells(S)
<1>1. doc \in Seq(S) /\ doc \in Seq(C)
  BY DEF IsDocument, Cells
<1>2. \A e \in C : e.tag = "size" => e.val \in Nat
  <2>1. \A e \in S : e.tag # "size"
    BY Zenon DEF IsDocument
  <2>2. \A k \in Nat : Element("size", k).val = k
    BY DEF Element
  <2> HIDE DEF S
  <2> QED
    BY <2>1, <2>2, Zenon DEF Cells
<1>3. Chunked(doc, ChunkSize) \in Seq(C)
  <2>1. ChunkSize \in Nat /\ ChunkSize > 0
    BY DEF ChunkSize
  <2> QED
    BY <1>1, <2>1, ChunkedTyped, Zenon
<1> HIDE DEF C
<1>4. ASSUME NEW s \in Seq(C), NEW b \in RecvAll(s)
      PROVE  b \in Seq(C)
  <2>1. PICK n \in 0 .. Len(s) : b = SubSeq(s, 1, n)
    BY <1>4, Zenon DEF RecvAll
  <2>2. n \in Int /\ n <= Len(s) /\ 1 \in Int /\ 1 >= 1
    BY <2>1
  <2> QED
    BY <2>1, <2>2, PartTyped
<1>5. ASSUME NEW b \in RecvAll(doc), x = ParseHttpResponse("plain", b)
      PROVE  x \in Seq(C)
  <2>1. x = b
    BY <1>5, Zenon DEF ParseHttpResponse
  <2> QED
    BY <1>1, <1>4, <2>1, Zenon
<1>6. ASSUME NEW b \in RecvAll(Chunked(doc, ChunkSize)), x = ParseHttpResponse("chunked", b)
      PROVE  x \in Seq(C)
  <2>1. x = Dechunk(b)
    BY <1>6, Zenon DEF ParseHttpResponse
  <2>2. b \in Seq(C)
    BY <1>3, <1>4, <1>6, Zenon
  <2> QED
    BY <1>2, <2>1, <2>2, DechunkTyped, Zenon
<1>7. \/ x = <<>>
      \/ \E b \in RecvAll(doc) : x = ParseHttpResponse("plain", b)
      \/ \E b \in RecvAll(Chunked(doc, ChunkSize)) : x = ParseHttpResponse("chunked", b)
  BY SMT DEF Received
<1>8. <<>> \in Seq(C)
  OBVIOUS
<1>9. x \in Seq(C)
  BY <1>5, <1>6, <1>7, <1>8, Zenon
<1> QED
  BY <1>9, Zenon DEF C

\* x is what the engine may take for doc, if all went well or not.
Arrives(doc, x) == x = doc \/ x \in Received(doc)

\* What xml_text finds in it is what the document says under that tag, or it
\* finds nothing.
THEOREM TextIsFromDocument ==
    ASSUME NEW doc, IsDocument(doc), NEW x, Arrives(doc, x),
           NEW tag, tag # "size", NEW ifAbsent
    PROVE  \/ XmlText(x, tag, ifAbsent) = ifAbsent
           \/ \E e \in Elements(doc) : e.tag = tag /\ XmlText(x, tag, ifAbsent) = e.val
<1> DEFINE at == {i \in 1 .. Len(x) : x[i].tag = tag}
           C  == Cells(Elements(doc))
<1>1. x \in Seq(C)
  <2>1. CASE x = doc
    BY <2>1 DEF IsDocument, Cells
  <2>2. CASE x \in Received(doc)
    BY <2>2, NothingInvented, Zenon
  <2> QED
    BY <2>1, <2>2, Zenon DEF Arrives
<1> HIDE DEF C
<1>2. CASE at = {}
  BY <1>2, Zenon DEF XmlText
<1>3. CASE at # {}
  <2>1. XmlText(x, tag, ifAbsent) = x[Min(at)].val
    BY <1>3, Zenon DEF XmlText
  <2>2. at \in SUBSET Nat
    BY <1>1
  <2>3. Min(at) \in at
    <3>1. \E i \in at : \A j \in at : i <= j
      BY <1>3, <2>2, LeastNat, Zenon
    <3> HIDE DEF at
    <3> QED
      BY <3>1, Zenon DEF Min
  <2>4. PICK e : e = x[Min(at)] /\ e \in C /\ e.tag = tag
    <3> DEFINE i == Min(at)
    <3>1. i \in 1 .. Len(x) /\ x[i].tag = tag
      BY <2>3, Zenon
    <3> HIDE DEF i
    <3>2. x[i] \in C
      BY <1>1, <3>1
    <3> QED
      BY <3>1, <3>2, Zenon DEF i
  <2>5. e \in Elements(doc)
    <3>1. \A k \in Nat : Element("size", k).tag = "size"
      BY DEF Element
    <3> QED
      BY <2>4, <3>1, Zenon DEF C, Cells
  <2> QED
    BY <2>1, <2>4, <2>5, Zenon
<1> QED
  BY <1>2, <1>3, Zenon

-----------------------------------------------------------------------------
(* The machines, a pairing, a launch                                       *)

\* A machine, a handler's variables and a stream have the fields they start with.
HostShape(h)    == h = [trusts |-> h.trusts, pairing |-> h.pairing, app |-> h.app, key |-> h.key]
AttemptShape(a) == a = [salt |-> a.salt, key |-> a.key, cert |-> a.cert, resp |-> a.resp,
                        verdict |-> a.verdict]
JobShape(j)     == j = [name |-> j.name, ref |-> j.ref, settings |-> j.settings, id |-> j.id,
                        game |-> j.game]
StreamShape(s)  == s = [on |-> s.on, key |-> s.key, settings |-> s.settings]

HostsShape ==
    /\ hosts = [m \in Machines |-> hosts[m]]
    /\ \A m \in Machines : HostShape(hosts[m])

\* What a request may do to the machines: one of them, and over HTTPS only the
\* one whose certificate is expected, does what it does.
Touches(https, cert, does) ==
    \/ hosts' = hosts
    \/ \E m \in Machines : /\ https => TlsOk(cert, m)
                           /\ hosts' = [hosts EXCEPT ![m] = does[m].host]

\* How a request to the address may end.
LEMMA RequestEnds ==
    ASSUME NEW https \in BOOLEAN, NEW cert, NEW does, NEW w \in Request(https, cert, does)
    PROVE  \/ w = [hosts |-> hosts, xml |-> <<>>]
           \/ \E m \in Machines :
                 /\ https => TlsOk(cert, m)
                 /\ w.hosts = [hosts EXCEPT ![m] = does[m].host]
                 /\ Arrives(does[m].xml, w.xml)
<1> DEFINE lost == [hosts |-> hosts, xml |-> <<>>]
           ways(m) == {[hosts |-> [hosts EXCEPT ![m] = does[m].host], xml |-> x] :
                          x \in IF calm THEN {does[m].xml} ELSE Received(does[m].xml)}
<1>1. Answering \subseteq Machines
  BY MachinesAssumption DEF Answering
<1>2. w = lost \/ \E m \in Answering :
          w \in IF https /\ ~TlsOk(cert, m) THEN {lost} ELSE ways(m)
  BY SMT DEF Request
<1> HIDE DEF lost, ways
<1>4. w = lost \/ \E m \in Machines : (https => TlsOk(cert, m)) /\ w \in ways(m)
  BY <1>1, <1>2
<1>3. ASSUME NEW m \in Machines, w \in ways(m)
      PROVE  /\ w.hosts = [hosts EXCEPT ![m] = does[m].host]
             /\ Arrives(does[m].xml, w.xml)
  BY <1>3 DEF ways, Arrives
<1> QED
  BY <1>4, <1>3 DEF lost

\* The machines after a request are as Touches says.
LEMMA RequestTouches ==
    ASSUME NEW https \in BOOLEAN, NEW cert, NEW does, NEW w \in Request(https, cert, does),
           hosts' = w.hosts
    PROVE  Touches(https, cert, does)
BY RequestEnds DEF Touches

-----------------------------------------------------------------------------
(* Pairing leaves the remote-input keys and the apps alone                 *)

SameKeys ==
    \A m \in Machines : hosts'[m].key = hosts[m].key /\ hosts'[m].app = hosts[m].app

KeepsKeys(does) ==
    \A m \in Machines : /\ HostShape(does[m].host)
                        /\ does[m].host.key = hosts[m].key /\ does[m].host.app = hosts[m].app

\* A machine that keeps its key and its app keeps them through the request.
LEMMA TouchesKeepsKeys ==
    ASSUME HostsShape, NEW https, NEW cert, NEW does,
           Touches(https, cert, does), KeepsKeys(does)
    PROVE  HostsShape' /\ SameKeys
<1>1. CASE hosts' = hosts
  BY <1>1 DEF HostsShape, SameKeys
<1>2. ASSUME NEW m \in Machines, hosts' = [hosts EXCEPT ![m] = does[m].host]
      PROVE  HostsShape' /\ SameKeys
  <2>1. \A n \in Machines : hosts'[n] = IF n = m THEN does[m].host ELSE hosts[n]
    BY <1>2 DEF HostsShape
  <2>2. hosts' = [n \in Machines |-> hosts'[n]]
    BY <1>2 DEF HostsShape
  <2>3. \A n \in Machines : /\ HostShape(hosts'[n])
                            /\ hosts'[n].key = hosts[n].key /\ hosts'[n].app = hosts[n].app
    BY <2>1 DEF HostsShape, KeepsKeys
  <2> QED
    BY <2>2, <2>3 DEF HostsShape, SameKeys
<1> QED
  BY <1>1, <1>2 DEF Touches

\* A machine stays one when a field of it changes, and keeps the other fields.
LEMMA HostExcept ==
    ASSUME NEW h, HostShape(h), NEW x
    PROVE  /\ [h EXCEPT !.pairing = x]
                 = [trusts |-> h.trusts, pairing |-> x, app |-> h.app, key |-> h.key]
           /\ [h EXCEPT !.trusts = x]
                 = [trusts |-> x, pairing |-> h.pairing, app |-> h.app, key |-> h.key]
           /\ [h EXCEPT !.app = x]
                 = [trusts |-> h.trusts, pairing |-> h.pairing, app |-> x, key |-> h.key]
           /\ [h EXCEPT !.key = x]
                 = [trusts |-> h.trusts, pairing |-> h.pairing, app |-> h.app, key |-> x]
BY DEF HostShape

\* The same for two fields.
LEMMA HostExceptTwo ==
    ASSUME NEW h, HostShape(h), NEW x, NEW y
    PROVE  /\ [h EXCEPT !.pairing = x, !.trusts = y]
                 = [trusts |-> y, pairing |-> x, app |-> h.app, key |-> h.key]
           /\ [h EXCEPT !.app = x, !.key = y]
                 = [trusts |-> h.trusts, pairing |-> h.pairing, app |-> x, key |-> y]
<1> DEFINE f == [h EXCEPT !.pairing = x]
           g == [h EXCEPT !.app = x]
<1>1. /\ f = [trusts |-> h.trusts, pairing |-> x, app |-> h.app, key |-> h.key]
      /\ g = [trusts |-> h.trusts, pairing |-> h.pairing, app |-> x, key |-> h.key]
  BY HostExcept
<1> HIDE DEF f, g
<1>2. HostShape(f) /\ HostShape(g)
  BY <1>1 DEF HostShape
<1>3. /\ [f EXCEPT !.trusts = y] = [trusts |-> y, pairing |-> x, app |-> h.app, key |-> h.key]
      /\ [g EXCEPT !.key = y] = [trusts |-> h.trusts, pairing |-> h.pairing, app |-> x, key |-> y]
  BY <1>1, <1>2 DEF HostShape
<1> QED
  BY <1>3, Zenon DEF f, g

\* No pairing request makes a machine change its key or its app.
LEMMA PairingKeepsKeys ==
    ASSUME HostsShape
    PROVE  /\ KeepsKeys([m \in Machines |-> OnServerInfo(m)])
           /\ \A salt, typed : KeepsKeys([m \in Machines |-> OnGetServerCert(m, salt, typed)])
           /\ \A data : KeepsKeys([m \in Machines |-> OnClientChallenge(m, data)])
           /\ \A data : KeepsKeys([m \in Machines |-> OnServerChallengeResp(m, data)])
           /\ \A x, y : KeepsKeys([m \in Machines |-> OnClientPairingSecret(m, x, y)])
           /\ KeepsKeys([m \in Machines |-> OnPairChallenge(m)])
           /\ KeepsKeys([m \in Machines |-> OnUnpair(m)])
<1> USE DEF KeepsKeys, HostsShape, Reply
<1>1. ASSUME NEW m \in Machines, NEW s
      PROVE  /\ HostShape(Keeps(m, s))
             /\ Keeps(m, s).key = hosts[m].key /\ Keeps(m, s).app = hosts[m].app
             /\ LET h == [hosts[m] EXCEPT !.pairing = s, !.trusts = TRUE]
                IN  HostShape(h) /\ h.key = hosts[m].key /\ h.app = hosts[m].app
  <2>1. HostShape(hosts[m])
    OBVIOUS
  <2>2. /\ Keeps(m, s) = [trusts |-> hosts[m].trusts, pairing |-> s,
                           app |-> hosts[m].app, key |-> hosts[m].key]
        /\ [hosts[m] EXCEPT !.pairing = s, !.trusts = TRUE]
              = [trusts |-> TRUE, pairing |-> s, app |-> hosts[m].app, key |-> hosts[m].key]
    <3> HIDE DEF HostsShape, KeepsKeys, Reply
    <3>1. Keeps(m, s) = [trusts |-> hosts[m].trusts, pairing |-> s,
                         app |-> hosts[m].app, key |-> hosts[m].key]
      BY <2>1, HostExcept, Zenon DEF Keeps
    <3>2. [hosts[m] EXCEPT !.pairing = s, !.trusts = TRUE]
              = [trusts |-> TRUE, pairing |-> s, app |-> hosts[m].app, key |-> hosts[m].key]
      BY <2>1, HostExceptTwo, Zenon
    <3> QED
      BY <3>1, <3>2, Zenon
  <2> QED
    BY <2>2 DEF HostShape
<1>2. KeepsKeys([m \in Machines |-> OnServerInfo(m)])
  BY DEF OnServerInfo
<1>3. ASSUME NEW salt, NEW typed
      PROVE  KeepsKeys([m \in Machines |-> OnGetServerCert(m, salt, typed)])
  BY <1>1 DEF OnGetServerCert
<1>4. ASSUME NEW data PROVE KeepsKeys([m \in Machines |-> OnClientChallenge(m, data)])
  BY <1>1 DEF OnClientChallenge, Refusal
<1>5. ASSUME NEW data PROVE KeepsKeys([m \in Machines |-> OnServerChallengeResp(m, data)])
  BY <1>1 DEF OnServerChallengeResp, Refusal
<1>6. ASSUME NEW x, NEW y PROVE KeepsKeys([m \in Machines |-> OnClientPairingSecret(m, x, y)])
  BY <1>1 DEF OnClientPairingSecret, Refusal
<1>7. KeepsKeys([m \in Machines |-> OnPairChallenge(m)])
  BY DEF OnPairChallenge
<1>8. KeepsKeys([m \in Machines |-> OnUnpair(m)])
  BY <1>1 DEF OnUnpair
<1> QED
  BY <1>2, <1>3, <1>4, <1>5, <1>6, <1>7, <1>8

-----------------------------------------------------------------------------
(* The attempt of nv_pair: no verdict that ends in unpair is a success     *)

AttemptInv == AttemptShape(att) /\ att.verdict # "paired"

\* An attempt stays one when a field of it changes, and keeps the other fields.
LEMMA AttemptExcept ==
    ASSUME NEW a, AttemptShape(a), NEW x
    PROVE  /\ [a EXCEPT !.salt = x] = [salt |-> x, key |-> a.key, cert |-> a.cert,
                                       resp |-> a.resp, verdict |-> a.verdict]
           /\ [a EXCEPT !.key = x] = [salt |-> a.salt, key |-> x, cert |-> a.cert,
                                      resp |-> a.resp, verdict |-> a.verdict]
           /\ [a EXCEPT !.cert = x] = [salt |-> a.salt, key |-> a.key, cert |-> x,
                                       resp |-> a.resp, verdict |-> a.verdict]
           /\ [a EXCEPT !.resp = x] = [salt |-> a.salt, key |-> a.key, cert |-> a.cert,
                                       resp |-> x, verdict |-> a.verdict]
           /\ [a EXCEPT !.verdict = x] = [salt |-> a.salt, key |-> a.key, cert |-> a.cert,
                                          resp |-> a.resp, verdict |-> x]
BY DEF AttemptShape

\* The same for the salt and the key.
LEMMA AttemptKeyed ==
    ASSUME NEW a, AttemptShape(a), NEW x, NEW y
    PROVE  [a EXCEPT !.salt = x, !.key = y] = [salt |-> x, key |-> y, cert |-> a.cert,
                                               resp |-> a.resp, verdict |-> a.verdict]
<1> DEFINE b == [a EXCEPT !.salt = x]
<1>1. b = [salt |-> x, key |-> a.key, cert |-> a.cert, resp |-> a.resp, verdict |-> a.verdict]
  BY AttemptExcept
<1> HIDE DEF b
<1>2. [b EXCEPT !.key = y] = [salt |-> x, key |-> y, cert |-> a.cert, resp |-> a.resp,
                              verdict |-> a.verdict]
  BY <1>1 DEF AttemptShape
<1> QED
  BY <1>2, Zenon DEF b

\* What a handler's return leaves.
LEMMA AttemptReturns ==
    ASSUME NEW result, Return(result)
    PROVE  AttemptInv' /\ att' = NoAttempt /\ pc' = "idle" /\ answer' = result
BY DEF Return, AttemptInv, AttemptShape, NoAttempt

\* A cancelled attempt has its verdict, which is not success.
LEMMA AttemptCancelled ==
    ASSUME AttemptInv, NEW result, result # "paired", Cancel(result)
    PROVE  /\ AttemptInv' /\ pc' = "unpair" /\ answer' = answer
           /\ att' = [salt |-> att.salt, key |-> att.key, cert |-> att.cert,
                      resp |-> att.resp, verdict |-> result]
<1>1. att' = [salt |-> att.salt, key |-> att.key, cert |-> att.cert,
              resp |-> att.resp, verdict |-> result]
  BY AttemptExcept, Zenon DEF Cancel, Goto, AttemptInv
<1> QED
  BY <1>1 DEF Cancel, Goto, AttemptInv, AttemptShape

\* The handler goes on with the attempt, of which only fields that are no
\* verdict have changed.
LEMMA AttemptGoesOn ==
    ASSUME AttemptInv, NEW x, NEW y, NEW where,
           \/ Goto(where, att)
           \/ Goto(where, [att EXCEPT !.salt = x, !.key = y])
           \/ Goto(where, [att EXCEPT !.cert = x])
           \/ Goto(where, [att EXCEPT !.resp = x])
    PROVE  AttemptInv' /\ pc' = where /\ answer' = answer
<1>1. \/ att' = att
      \/ att' = [salt |-> x, key |-> y, cert |-> att.cert, resp |-> att.resp,
                 verdict |-> att.verdict]
      \/ att' = [salt |-> att.salt, key |-> att.key, cert |-> x, resp |-> att.resp,
                 verdict |-> att.verdict]
      \/ att' = [salt |-> att.salt, key |-> att.key, cert |-> att.cert, resp |-> x,
                 verdict |-> att.verdict]
  <2>1. AttemptShape(att)
    BY DEF AttemptInv
  <2>2. [att EXCEPT !.salt = x, !.key = y]
          = [salt |-> x, key |-> y, cert |-> att.cert, resp |-> att.resp, verdict |-> att.verdict]
    BY <2>1, AttemptKeyed, Zenon
  <2>3. [att EXCEPT !.cert = x] = [salt |-> att.salt, key |-> att.key, cert |-> x,
                                   resp |-> att.resp, verdict |-> att.verdict]
    BY <2>1, AttemptExcept, Zenon
  <2>4. [att EXCEPT !.resp = x] = [salt |-> att.salt, key |-> att.key, cert |-> att.cert,
                                   resp |-> x, verdict |-> att.verdict]
    BY <2>1, AttemptExcept, Zenon
  <2> QED
    BY <2>2, <2>3, <2>4, Zenon DEF Goto
<1>2. pc' = where /\ answer' = answer
  BY Zenon DEF Goto
<1> QED
  BY <1>1, <1>2 DEF AttemptInv, AttemptShape

\* A PIN typed too late has done on the host what one in time does.
LEMMA TimesOutTouches ==
    ASSUME GetServerCertTimesOut
    PROVE  \E typed : Touches(FALSE, None, [m \in Machines |-> OnGetServerCert(m, att.salt, typed)])
<1>1. PICK typed : \E m \in Answering :
          hosts' = [hosts EXCEPT ![m] = OnGetServerCert(m, att.salt, typed).host]
  BY Zenon DEF GetServerCertTimesOut
<1>2. PICK m \in Machines : hosts' = [hosts EXCEPT ![m] = OnGetServerCert(m, att.salt, typed).host]
  BY <1>1, MachinesAssumption, Zenon DEF Answering
<1> DEFINE does == [n \in Machines |-> OnGetServerCert(n, att.salt, typed)]
<1>3. does[m] = OnGetServerCert(m, att.salt, typed)
  BY Zenon
<1> HIDE DEF does
<1>4. hosts' = [hosts EXCEPT ![m] = does[m].host]
  BY <1>2, <1>3, Zenon
<1>5. Touches(FALSE, None, does)
  BY <1>4, Zenon DEF Touches
<1> QED
  BY <1>5, Zenon DEF does

\* Every step of nv_pair keeps the shapes, the keys, the apps and the verdict.
LEMMA PairStepKeeps ==
    ASSUME HostsShape, AttemptInv, PairStep
    PROVE  AttemptInv' /\ HostsShape' /\ SameKeys
<1>1. CASE PairInfo
  <2>1. AttemptInv'
    BY <1>1, AttemptReturns, AttemptGoesOn, Zenon DEF PairInfo
  <2>2. hosts' = hosts
    BY <1>1, Zenon DEF PairInfo
  <2> QED
    BY <2>1, <2>2 DEF HostsShape, SameKeys
<1>2. CASE GetServerCert
  <2>1. PICK typed : \E w \in Plain([m \in Machines |-> OnGetServerCert(m, att.salt, typed)]) :
          /\ hosts' = w.hosts
          /\ LET cert == XmlText(w.xml, "plaincert", None)
             IN  IF ~PairedOk(w.xml) THEN Return("pairing_failed")
                 ELSE IF cert = None THEN Cancel("already_pairing")
                 ELSE Goto("pair2", [att EXCEPT !.cert = cert])
    BY <1>2, Zenon DEF GetServerCert
  <2>2. AttemptInv'
    BY <2>1, AttemptReturns, AttemptCancelled, AttemptGoesOn, Zenon
  <2>3. Touches(FALSE, None, [m \in Machines |-> OnGetServerCert(m, att.salt, typed)])
    BY <2>1, RequestTouches, Zenon DEF Plain
  <2> QED
    BY <2>2, <2>3, TouchesKeepsKeys, PairingKeepsKeys, Zenon
<1>3. CASE ClientChallenge
  <2> DEFINE does == [m \in Machines |->
                      OnClientChallenge(m, AesEncrypt(RandomChallenge(att.salt), att.key))]
  <2>1. PICK w \in Request(FALSE, None, does) :
          /\ hosts' = w.hosts
          /\ \/ Cancel("pairing_failed")
             \/ \E x : Goto("pair3", [att EXCEPT !.resp = x])
    BY <1>3, Zenon DEF ClientChallenge, Plain
  <2>2. AttemptInv'
    BY <2>1, AttemptReturns, AttemptCancelled, AttemptGoesOn, Zenon
  <2>3. Touches(FALSE, None, does)
    BY <2>1, RequestTouches, Zenon
  <2>4. KeepsKeys(does)
    BY PairingKeepsKeys, Zenon
  <2> QED
    BY <2>2, <2>3, <2>4, TouchesKeepsKeys, Zenon
<1>4. CASE ServerChallengeResp
  <2> DEFINE does == [m \in Machines |-> OnServerChallengeResp(m, AesEncrypt(
                GenHash(att.key.gen7, <<att.resp.challenge, "us", ClientSecret(att.salt)>>),
                    att.key))]
  <2>1. PICK w \in Request(FALSE, None, does) :
          /\ hosts' = w.hosts
          /\ Cancel("pairing_failed") \/ Cancel("pin_wrong") \/ Goto("pair4", att)
    BY <1>4, Zenon DEF ServerChallengeResp, JudgeSecret, Plain
  <2>2. AttemptInv'
    BY <2>1, AttemptReturns, AttemptCancelled, AttemptGoesOn, Zenon
  <2>3. Touches(FALSE, None, does)
    BY <2>1, RequestTouches, Zenon
  <2>4. KeepsKeys(does)
    BY PairingKeepsKeys, Zenon
  <2> QED
    BY <2>2, <2>3, <2>4, TouchesKeepsKeys, Zenon
<1>5. CASE ClientPairingSecret
  <2> DEFINE does == [m \in Machines |-> OnClientPairingSecret(m,
                ClientSecret(att.salt), SignMessage(ClientSecret(att.salt), "us"))]
  <2>1. PICK w \in Request(FALSE, None, does) :
          /\ hosts' = w.hosts
          /\ Cancel("pairing_failed") \/ Goto("pair5", att)
    BY <1>5, Zenon DEF ClientPairingSecret, Plain
  <2>2. AttemptInv'
    BY <2>1, AttemptReturns, AttemptCancelled, AttemptGoesOn, Zenon
  <2>3. Touches(FALSE, None, does)
    BY <2>1, RequestTouches, Zenon
  <2>4. KeepsKeys(does)
    BY PairingKeepsKeys, Zenon
  <2> QED
    BY <2>2, <2>3, <2>4, TouchesKeepsKeys, Zenon
<1>6. CASE PairChallenge
  <2> DEFINE does == [m \in Machines |-> OnPairChallenge(m)]
  <2>1. PICK w \in Request(TRUE, att.cert, does) :
          /\ hosts' = w.hosts
          /\ Cancel("pairing_failed") \/ Return("paired")
    BY <1>6, Zenon DEF PairChallenge
  <2>2. AttemptInv'
    BY <2>1, AttemptReturns, AttemptCancelled, AttemptGoesOn, Zenon
  <2>3. Touches(TRUE, att.cert, does)
    BY <2>1, RequestTouches, Zenon
  <2>4. KeepsKeys(does)
    BY PairingKeepsKeys, Zenon
  <2> QED
    BY <2>2, <2>3, <2>4, TouchesKeepsKeys, Zenon
<1>7. CASE Unpair
  <2> DEFINE does == [m \in Machines |-> OnUnpair(m)]
  <2>1. PICK w \in Request(FALSE, None, does) :
          hosts' = w.hosts /\ Return(att.verdict)
    BY <1>7, Zenon DEF Unpair, Plain
  <2>2. AttemptInv'
    BY <2>1, AttemptReturns, AttemptCancelled, AttemptGoesOn, Zenon
  <2>3. Touches(FALSE, None, does)
    BY <2>1, RequestTouches, Zenon
  <2>4. KeepsKeys(does)
    BY PairingKeepsKeys, Zenon
  <2> QED
    BY <2>2, <2>3, <2>4, TouchesKeepsKeys, Zenon
<1>8. CASE GetServerCertTimesOut
  <2>1. AttemptInv'
    BY <1>8, AttemptReturns, Zenon DEF GetServerCertTimesOut
  <2>2. PICK typed : Touches(FALSE, None, [m \in Machines |-> OnGetServerCert(m, att.salt, typed)])
    BY <1>8, TimesOutTouches, Zenon
  <2> QED
    BY <2>1, <2>2, TouchesKeepsKeys, PairingKeepsKeys, Zenon
<1> QED
  BY <1>1, <1>2, <1>3, <1>4, <1>5, <1>6, <1>7, <1>8 DEF PairStep

-----------------------------------------------------------------------------
(* The settings and the key of a stream                                    *)

\* A cast to int gives an int.
LEMMA CastGivesInt ==
    ASSUME NEW h \in Int PROVE CastToInt(h) \subseteq Int
<1> DEFINE whole == IF h >= 0 THEN h \div 2 ELSE -((-h) \div 2)
<1>1. whole \in Int
  OBVIOUS
<1> HIDE DEF whole
<1>2. CastToInt(h) = IF whole \in -MaxInt - 1 .. MaxInt THEN {whole}
                     ELSE {-MaxInt - 1, IF whole > 0 THEN MaxInt ELSE -MaxInt - 1}
  BY Zenon DEF CastToInt, whole
<1> QED
  BY <1>1, <1>2, ClientAssumption

\* What InRange lets pass is within the bounds.
LEMMA RangeIsBounds ==
    ASSUME NEW n, n.width \in Int, n.height \in Int, n.fps \in Int, n.bitrateKbps \in Int,
           InRange(n)
    PROVE  InBounds(n)
BY SMT DEF InRange, InBounds, Within

\* The defaults of StreamSettings are documented.
LEMMA DefaultsDocumented == Documented(Defaults)
<1> DEFINE n == [width |-> 1920, height |-> 1080, fps |-> 60, bitrateKbps |-> 20000]
<1>1. InBounds(n)
  <2>1. n.width \in Int /\ n.height \in Int /\ n.fps \in Int /\ n.bitrateKbps \in Int
    BY SMT
  <2>2. InRange(n)
    BY SMT DEF InRange
  <2> HIDE DEF n
  <2> QED
    BY <2>1, <2>2, RangeIsBounds, SMT
<1> HIDE DEF n
<1>2. Defaults = [num |-> n, displayMode |-> "fullscreen"]
  BY SMT DEF Defaults, n
<1> QED
  BY <1>1, <1>2, SMT DEF Documented, Modes

\* What validate_stream_settings lets pass is documented.
LEMMA ValidIsDocumented ==
    ASSUME NEW s \in Settings, NEW v \in ValidateStreamSettings(s)
    PROVE  Documented(v)
<1>1. s.kind \in {"null", "object", "other"} /\ \A f \in Fields : s.num[f] \in Int
  BY ClientAssumption
<1>2. CASE s.kind = "null"
  <2>1. v = Defaults
    BY <1>2, Zenon DEF ValidateStreamSettings
  <2> QED
    BY <2>1, DefaultsDocumented, Zenon
<1>3. CASE s.kind = "other"
  BY <1>3, Zenon DEF ValidateStreamSettings
<1>4. CASE s.kind = "object"
  <2>1. PICK n \in [Fields -> UNION {CastToInt(s.num[f]) : f \in Fields}] :
              /\ \A f \in Fields : n[f] \in CastToInt(s.num[f])
              /\ InRange(n) /\ s.displayMode \in Modes
              /\ v = [num |-> n, displayMode |-> s.displayMode]
    BY <1>4, Zenon DEF ValidateStreamSettings
  <2>2. \A f \in Fields : n[f] \in Int
    BY <1>1, <2>1, CastGivesInt
  <2>3. n.width \in Int /\ n.height \in Int /\ n.fps \in Int /\ n.bitrateKbps \in Int
    BY <2>2 DEF Fields
  <2>4. InBounds(n)
    BY <2>1, <2>3, RangeIsBounds, SMT
  <2> QED
    BY <2>1, <2>4, SMT DEF Documented
<1> QED
  BY <1>1, <1>2, <1>3, <1>4

\* A random key is a new one: there are more keys than machines and streams.
LEMMA FreshKeyIsNew ==
    /\ FreshKey \in Nat /\ FreshKey # 0 /\ FreshKey # stream.key
    /\ \A m \in Machines : FreshKey # hosts[m].key
<1> DEFINE n == Cardinality(Machines)
           T == {hosts[m].key : m \in Machines}
           f == [m \in Machines |-> hosts[m].key]
           U == T \cup {stream.key}
<1>1. n \in Nat /\ IsFiniteSet(Machines)
  BY FS_CardinalityType, MachinesAssumption
<1>2. f \in Surjection(Machines, T)
  BY DEF Surjection
<1>3. IsFiniteSet(T) /\ Cardinality(T) <= n
  BY <1>1, <1>2, FS_Surjection
<1> HIDE DEF T
<1>4. Cardinality(T) \in Nat
  BY <1>3, FS_CardinalityType
<1>5. /\ IsFiniteSet(U)
      /\ Cardinality(U) = IF stream.key \in T THEN Cardinality(T) ELSE Cardinality(T) + 1
  BY <1>3, FS_AddElement
<1>6. IsFiniteSet(U) /\ Cardinality(U) \in Nat /\ Cardinality(U) <= n + 1
  BY <1>1, <1>3, <1>4, <1>5
<1> HIDE DEF U
<1>7. Cardinality(Keys) = n + 2
  BY <1>1, FS_Interval DEF Keys
<1>8. ~(Keys \subseteq U)
  BY <1>1, <1>6, <1>7, FS_Subset
<1>9. FreshKey \in Keys \ U
  BY <1>8, Zenon DEF FreshKey, U, T
<1>10. FreshKey \in 1 .. n + 2 /\ FreshKey \notin U
  BY <1>9 DEF Keys
<1> QED
  BY <1>1, <1>10 DEF U, T

-----------------------------------------------------------------------------
(* The invariant of the client                                             *)

JobInv == JobShape(job) /\ Documented(job.settings)

\* A running stream has a key, and only the machine it runs on may have it too.
KeyInv ==
    stream # NoStream =>
        stream.key # 0 /\ \A m \in Machines : hosts[m].key = stream.key => m = stream.on

StreamInv == Documented(stream.settings) /\ KeyInv

\* The inductive invariant behind KeyStaysWithHost, StreamedAsDocumented and
\* PairedIsMutual.
ClientInv == HostsShape /\ AttemptInv /\ JobInv /\ StreamInv

\* The job of a handler that is called has its settings.
LEMMA JobNamed ==
    ASSUME NEW name, NEW ref, NEW v
    PROVE  JobShape(NewJob(name, ref, v)) /\ NewJob(name, ref, v).settings = v
BY SMT DEF JobShape, NewJob

\* What a handler leaves when it returns.
LEMMA JobFinished ==
    ASSUME NEW result, Finish(result)
    PROVE  AttemptInv' /\ JobInv' /\ pc' = "idle" /\ answer' = result
<1>1. AttemptInv' /\ pc' = "idle" /\ answer' = result
  BY AttemptReturns, Zenon DEF Finish
<1>2. job' = NoJob
  BY Zenon DEF Finish
<1>3. JobShape(NoJob) /\ NoJob.settings = Defaults
  BY JobNamed, Zenon DEF NoJob
<1> QED
  BY <1>1, <1>2, <1>3, DefaultsDocumented, Zenon DEF JobInv

\* A request of client.start or client.apps keeps the job but for its id and game.
LEMMA JobExcept ==
    ASSUME NEW j, JobShape(j), NEW x, NEW y
    PROVE  /\ JobShape([j EXCEPT !.id = x, !.game = y])
           /\ [j EXCEPT !.id = x, !.game = y].settings = j.settings
           /\ JobShape([j EXCEPT !.id = x]) /\ [j EXCEPT !.id = x].settings = j.settings
<1> DEFINE k == [j EXCEPT !.id = x]
<1>1. k = [name |-> j.name, ref |-> j.ref, settings |-> j.settings, id |-> x, game |-> j.game]
  BY DEF JobShape
<1>2. JobShape(k) /\ k.settings = j.settings
  BY <1>1 DEF JobShape
<1> HIDE DEF k
<1>3. [k EXCEPT !.game = y] = [name |-> j.name, ref |-> j.ref, settings |-> j.settings,
                               id |-> x, game |-> y]
  BY <1>1, <1>2 DEF JobShape
<1>4. JobShape([k EXCEPT !.game = y]) /\ [k EXCEPT !.game = y].settings = j.settings
  BY <1>3, Zenon DEF JobShape
<1> QED
  BY <1>2, <1>4, Zenon DEF k

\* The stream, and the keys, go on as they are.
LEMMA StreamStays ==
    ASSUME StreamInv, stream' = stream, SameKeys
    PROVE  StreamInv'
BY Zenon DEF StreamInv, KeyInv, SameKeys

\* Nothing of a machine but its key matters to the stream; without it the
\* machine may become any other.
LEMMA MachineChanges ==
    ASSUME HostsShape, NEW m \in Machines, NEW h, HostShape(h),
           hosts' = [hosts EXCEPT ![m] = h]
    PROVE  /\ HostsShape'
           /\ \A n \in Machines : hosts'[n] = IF n = m THEN h ELSE hosts[n]
BY DEF HostsShape

\* What others do to a machine keeps the keys of the machines, except that a
\* machine may lose its key when its app ends or changes.
LEMMA OthersKeep ==
    ASSUME HostsShape, NEW m \in Machines
    PROVE  /\ HostEdits(m) \/ HostForgets(m) \/ OtherPairs(m) \/ OtherEnds(m)
                 => HostsShape' /\ SameKeys
           /\ HostApp(m) => HostsShape' /\ \A n \in Machines : hosts'[n].key \in {0, hosts[n].key}
<1> DEFINE h == hosts[m]
<1>1. HostShape(h)
  BY DEF HostsShape
<1> DEFINE Kept(g) == HostShape(g) /\ g.key = h.key /\ g.app = h.app
<1>2. \A x : Kept([h EXCEPT !.trusts = x]) /\ Kept([h EXCEPT !.pairing = x])
  <2> TAKE x
  <2>1. /\ [h EXCEPT !.trusts = x]
              = [trusts |-> x, pairing |-> h.pairing, app |-> h.app, key |-> h.key]
        /\ [h EXCEPT !.pairing = x]
              = [trusts |-> h.trusts, pairing |-> x, app |-> h.app, key |-> h.key]
    BY <1>1, HostExcept, Zenon
  <2> QED
    BY <2>1 DEF HostShape
<1>3. \A x, y : LET g == [h EXCEPT !.app = x, !.key = y] IN HostShape(g) /\ g.key = y
  <2> TAKE x, y
  <2>1. [h EXCEPT !.app = x, !.key = y]
          = [trusts |-> h.trusts, pairing |-> h.pairing, app |-> x, key |-> y]
    BY <1>1, HostExceptTwo, Zenon
  <2> QED
    BY <2>1 DEF HostShape
<1> HIDE DEF h
<1>4. ASSUME NEW g, Kept(g), hosts' = [hosts EXCEPT ![m] = g]
      PROVE  HostsShape' /\ SameKeys
  <2>1. /\ HostsShape'
        /\ \A n \in Machines : hosts'[n] = IF n = m THEN g ELSE hosts[n]
    BY <1>4, MachineChanges, Zenon
  <2> QED
    BY <1>4, <2>1 DEF SameKeys, h
<1>5. ASSUME HostEdits(m) \/ HostForgets(m) \/ OtherPairs(m) \/ OtherEnds(m)
      PROVE  HostsShape' /\ SameKeys
  <2>1. \E x : \/ hosts' = [hosts EXCEPT ![m] = [h EXCEPT !.trusts = x]]
               \/ hosts' = [hosts EXCEPT ![m] = [h EXCEPT !.pairing = x]]
    BY <1>5, Zenon DEF HostEdits, HostForgets, OtherPairs, OtherEnds, h
  <2> QED
    BY <2>1, <1>2, <1>4, Zenon
<1>6. ASSUME HostApp(m)
      PROVE  HostsShape' /\ \A n \in Machines : hosts'[n].key \in {0, hosts[n].key}
  <2>1. PICK x : hosts' = [hosts EXCEPT ![m] = [h EXCEPT !.app = x, !.key = 0]]
    BY <1>6, Zenon DEF HostApp, h
  <2>2. PICK g : HostShape(g) /\ g.key = 0 /\ hosts' = [hosts EXCEPT ![m] = g]
    BY <2>1, <1>3, Zenon
  <2>3. /\ HostsShape'
        /\ \A n \in Machines : hosts'[n] = IF n = m THEN g ELSE hosts[n]
    BY <2>2, MachineChanges, Zenon
  <2>4. \A n \in Machines : hosts'[n].key \in {0, hosts[n].key}
    BY <2>2, <2>3
  <2> QED
    BY <2>3, <2>4
<1> QED
  BY <1>5, <1>6

\* A machine asked to launch or resume has its old key or the new one after it,
\* and the same pairing session.
LEMMA LaunchKeys ==
    ASSUME HostsShape, NEW m \in Machines, NEW verb, NEW j
    PROVE  LET g == OnLaunchOrResume(m, LaunchArgs(verb, j)).host
           IN  /\ HostShape(g) /\ g.key \in {hosts[m].key, FreshKey}
               /\ g.pairing = hosts[m].pairing
<1> DEFINE h   == hosts[m]
           req == LaunchArgs(verb, j)
<1>1. HostShape(h)
  BY DEF HostsShape
<1>2. req.key = FreshKey
  BY DEF LaunchArgs
<1>3. \A x, y : LET g == [h EXCEPT !.app = x, !.key = y]
                IN  HostShape(g) /\ g.key = y /\ g.pairing = h.pairing
  <2> TAKE x, y
  <2>1. [h EXCEPT !.app = x, !.key = y]
          = [trusts |-> h.trusts, pairing |-> h.pairing, app |-> x, key |-> y]
    BY <1>1, HostExceptTwo, Zenon
  <2> QED
    BY <2>1 DEF HostShape
<1>4. \A y : LET g == [h EXCEPT !.key = y]
             IN  HostShape(g) /\ g.key = y /\ g.pairing = h.pairing
  <2> TAKE y
  <2>1. [h EXCEPT !.key = y]
          = [trusts |-> h.trusts, pairing |-> h.pairing, app |-> h.app, key |-> y]
    BY <1>1, HostExcept, Zenon
  <2> QED
    BY <2>1 DEF HostShape
<1>5. \A g, x : Reply(g, x).host = g
  BY DEF Reply
<1> HIDE DEF req
<1>6. \/ OnLaunchOrResume(m, req).host = [h EXCEPT !.app = req.id, !.key = req.key]
      \/ OnLaunchOrResume(m, req).host = [h EXCEPT !.key = req.key]
      \/ OnLaunchOrResume(m, req).host = h
  BY <1>5, Zenon DEF OnLaunchOrResume, Refusal
<1> HIDE DEF h
<1> DEFINE g == OnLaunchOrResume(m, req).host
<1>7. HostShape(g) /\ (g.key = FreshKey \/ g = h) /\ g.pairing = h.pairing
  <2>1. CASE g = [h EXCEPT !.app = req.id, !.key = req.key]
    <3>1. LET f == [h EXCEPT !.app = req.id, !.key = req.key]
          IN  HostShape(f) /\ f.key = req.key /\ f.pairing = h.pairing
      BY <1>3, Zenon
    <3>2. HostShape(g) /\ g.key = req.key /\ g.pairing = h.pairing
      BY <2>1, <3>1, Zenon
    <3> QED
      BY <1>2, <3>2, Zenon
  <2>2. CASE g = [h EXCEPT !.key = req.key]
    BY <1>2, <1>4, <2>2, Zenon
  <2>3. CASE g = h
    BY <1>1, <2>3, Zenon
  <2> QED
    BY <1>6, <2>1, <2>2, <2>3, Zenon
<1> HIDE DEF g
<1>8. HostShape(g) /\ g.key \in {hosts[m].key, FreshKey} /\ g.pairing = hosts[m].pairing
  BY <1>7 DEF h
<1> QED
  BY <1>8, Zenon DEF req, g

\* Only the pinned machine gets the new key.
LEMMA LaunchTouches ==
    ASSUME HostsShape, NEW verb, NEW j,
           Touches(TRUE, pin, [m \in Machines |-> OnLaunchOrResume(m, LaunchArgs(verb, j))])
    PROVE  /\ HostsShape'
           /\ \A n \in Machines : \/ hosts'[n].key = hosts[n].key
                                  \/ n = pin /\ hosts'[n].key = FreshKey
<1> DEFINE does == [m \in Machines |-> OnLaunchOrResume(m, LaunchArgs(verb, j))]
<1>1. CASE hosts' = hosts
  BY <1>1, Zenon DEF HostsShape
<1>2. ASSUME NEW m \in Machines, TlsOk(pin, m), hosts' = [hosts EXCEPT ![m] = does[m].host]
      PROVE  /\ HostsShape'
             /\ \A n \in Machines : \/ hosts'[n].key = hosts[n].key
                                    \/ n = pin /\ hosts'[n].key = FreshKey
  <2>1. m = pin
    BY <1>2, Zenon DEF TlsOk
  <2>2. does[m].host = OnLaunchOrResume(m, LaunchArgs(verb, j)).host
    BY Zenon
  <2>3. PICK g : /\ hosts' = [hosts EXCEPT ![m] = g]
                 /\ HostShape(g) /\ g.key \in {hosts[m].key, FreshKey}
    BY <1>2, <2>2, LaunchKeys, Zenon
  <2>4. HostsShape' /\ \A n \in Machines : hosts'[n] = IF n = m THEN g ELSE hosts[n]
    BY <2>3, MachineChanges, Zenon
  <2>5. \A n \in Machines : \/ hosts'[n].key = hosts[n].key
                            \/ n = pin /\ hosts'[n].key = FreshKey
    BY <2>1, <2>3, <2>4
  <2> QED
    BY <2>4, <2>5
<1> QED
  BY <1>1, <1>2, Zenon DEF Touches

\* client.start's last request and the start of the stream.
LEMMA LaunchStep ==
    ASSUME ClientInv, LaunchOrResume
    PROVE  ClientInv'
<1> DEFINE does == [m \in Machines |-> OnLaunchOrResume(m, LaunchArgs(LaunchVerb(job.game), job))]
<1>1. HostsShape /\ JobInv /\ StreamInv
  BY Zenon DEF ClientInv
<1>2. AttemptInv' /\ JobInv'
  <2>1. \E r : Finish(r)
    BY Zenon DEF LaunchOrResume
  <2> QED
    BY <2>1, JobFinished, Zenon
<1>3. \/ hosts' = hosts /\ stream' = stream
      \/ \E w \in Request(TRUE, pin, does) :
            /\ hosts' = w.hosts
            /\ \/ stream' = stream
               \/ stream' = [on |-> pin, key |-> FreshKey, settings |-> job.settings]
  BY Zenon DEF LaunchOrResume, Secured
<1>4. \/ hosts' = hosts /\ stream' = stream
      \/ /\ Touches(TRUE, pin, does)
         /\ \/ stream' = stream
            \/ stream' = [on |-> pin, key |-> FreshKey, settings |-> job.settings]
  BY <1>3, RequestTouches, Zenon
<1> HIDE DEF does
<1>5. CASE hosts' = hosts /\ stream' = stream
  <2>1. HostsShape' /\ SameKeys
    BY <1>1, <1>5, Zenon DEF HostsShape, SameKeys
  <2> QED
    BY <1>1, <1>2, <1>5, <2>1, StreamStays, Zenon DEF ClientInv
<1>6. CASE Touches(TRUE, pin, does)
  <2>1. /\ HostsShape'
        /\ \A n \in Machines : \/ hosts'[n].key = hosts[n].key
                               \/ n = pin /\ hosts'[n].key = FreshKey
    BY <1>1, <1>6, LaunchTouches, Zenon DEF does
  <2>2. /\ FreshKey # 0 /\ FreshKey # stream.key
        /\ \A n \in Machines : FreshKey # hosts[n].key
    BY FreshKeyIsNew
  <2>3. ASSUME stream' = stream
        PROVE  StreamInv'
    BY <1>1, <2>1, <2>2, <2>3, Zenon DEF StreamInv, KeyInv
  <2>4. ASSUME stream' = [on |-> pin, key |-> FreshKey, settings |-> job.settings]
        PROVE  StreamInv'
    <3>1. /\ stream'.on = pin /\ stream'.key = FreshKey
          /\ stream'.settings = job.settings
      BY <2>4
    <3> QED
      BY <1>1, <2>1, <2>2, <3>1, Zenon DEF StreamInv, KeyInv, JobInv
  <2> QED
    BY <1>2, <1>4, <2>1, <2>3, <2>4, Zenon DEF ClientInv
<1> QED
  BY <1>4, <1>5, <1>6, Zenon

\* client.apps, client.start and their requests up to the launch.
LEMMA StartKeeps ==
    ASSUME ClientInv, ClientApps \/ ClientStart \/ InfoHttp \/ InfoHttps \/ FetchAppList
    PROVE  ClientInv'
<1>1. HostsShape /\ AttemptInv /\ JobInv /\ StreamInv
  BY Zenon DEF ClientInv
<1>2. hosts' = hosts /\ stream' = stream
  BY Zenon DEF ClientApps, ClientStart, InfoHttp, InfoHttps, FetchAppList
<1>3. HostsShape' /\ StreamInv'
  <2>1. HostsShape' /\ SameKeys
    BY <1>1, <1>2, Zenon DEF HostsShape, SameKeys
  <2> QED
    BY <1>1, <1>2, <2>1, StreamStays, Zenon
<1>4. ASSUME NEW where, NEW j, Step(where, j), JobShape(j), j.settings = job.settings
      PROVE  AttemptInv' /\ JobInv'
  <2>1. AttemptInv'
    BY <1>1, <1>4, AttemptGoesOn, Zenon DEF Step
  <2> QED
    BY <1>1, <1>4, <2>1, Zenon DEF Step, JobInv
<1>5. ASSUME NEW j, ConnectPairedHost(j), JobShape(j), Documented(j.settings)
      PROVE  AttemptInv' /\ JobInv'
  <2>1. CASE \E r : Finish(r)
    BY <2>1, JobFinished, Zenon
  <2>2. CASE att' = NoAttempt /\ job' = j
    BY <1>5, <2>2 DEF AttemptInv, AttemptShape, NoAttempt, JobInv
  <2> QED
    BY <1>5, <2>1, <2>2, Zenon DEF ConnectPairedHost
<1>6. AttemptInv' /\ JobInv'
  <2>1. CASE ClientApps
    <3>1. Finish("bad_params") \/ ConnectPairedHost(NewJob("apps", NoTitle, Defaults))
      BY <2>1, Zenon DEF ClientApps
    <3> QED
      BY <1>5, <3>1, JobNamed, JobFinished, DefaultsDocumented, Zenon
  <2>2. CASE ClientStart
    <3>1. CASE \E r : Finish(r)
      BY <3>1, JobFinished, Zenon
    <3>2. ASSUME NEW s \in Settings, NEW v \in ValidateStreamSettings(s), NEW r \in Refs,
                 ConnectPairedHost(NewJob("start", r, v))
          PROVE  AttemptInv' /\ JobInv'
      BY <1>5, <3>2, JobNamed, ValidIsDocumented, Zenon
    <3> QED
      BY <2>2, <3>1, <3>2, Zenon DEF ClientStart
  <2>3. CASE InfoHttp
    <3>1. (\E r : Finish(r)) \/ \E where : Step(where, job)
      BY <2>3, Zenon DEF InfoHttp
    <3> QED
      BY <1>1, <1>4, <3>1, JobFinished, Zenon DEF JobInv
  <2>4. CASE InfoHttps
    <3>1. \/ \E r : Finish(r)
          \/ \E where, x, y : Step(where, [job EXCEPT !.id = x, !.game = y])
      BY <2>4, Zenon DEF InfoHttps
    <3> QED
      BY <1>1, <1>4, <3>1, JobFinished, JobExcept, Zenon DEF JobInv
  <2>5. CASE FetchAppList
    <3>1. (\E r : Finish(r)) \/ \E where, x : Step(where, [job EXCEPT !.id = x])
      BY <2>5, Zenon DEF FetchAppList
    <3> QED
      BY <1>1, <1>4, <3>1, JobFinished, JobExcept, Zenon DEF JobInv
  <2> QED
    BY <2>1, <2>2, <2>3, <2>4, <2>5, Zenon
<1> QED
  BY <1>3, <1>6, Zenon DEF ClientInv

\* client.stop and the end of a session.
LEMMA StopKeeps ==
    ASSUME ClientInv, ClientStop
    PROVE  ClientInv'
<1>1. HostsShape /\ AttemptInv /\ JobInv
  BY Zenon DEF ClientInv
<1>2. hosts' = hosts /\ stream' = NoStream
  BY Zenon DEF ClientStop
<1>3. NoStream.settings = Defaults
  BY SMT DEF NoStream
<1>4. StreamInv'
  BY <1>2, <1>3, DefaultsDocumented, Zenon DEF StreamInv, KeyInv
<1>5. AttemptInv' /\ JobInv'
  <2>1. (\E r : Finish(r)) \/ (att' = att /\ job' = job)
    BY Zenon DEF ClientStop
  <2> QED
    BY <1>1, <2>1, JobFinished, Zenon DEF AttemptInv, JobInv
<1> QED
  BY <1>1, <1>2, <1>4, <1>5, Zenon DEF ClientInv, HostsShape

\* The pairing of NvPairing, the host's owner and other clients.
LEMMA PairingKeeps ==
    ASSUME ClientInv, job' = job, stream' = stream,
           \/ Pairing \/ TrustHost
           \/ \E m \in Restless : HostApp(m) \/ HostEdits(m)
    PROVE  ClientInv'
<1>1. HostsShape /\ AttemptInv /\ JobInv /\ StreamInv
  BY Zenon DEF ClientInv
<1>2. JobInv'
  BY <1>1, Zenon DEF JobInv
<1>3. Restless \subseteq Machines
  BY MachinesAssumption
<1>4. ASSUME AttemptInv', HostsShape', SameKeys
      PROVE  ClientInv'
  BY <1>1, <1>2, <1>4, StreamStays, Zenon DEF ClientInv
<1>5. ASSUME att' = att
      PROVE  AttemptInv'
  BY <1>1, <1>5, Zenon DEF AttemptInv
<1>6. CASE PairStep
  BY <1>1, <1>4, <1>6, PairStepKeeps, Zenon
<1>7. CASE ClientPair \/ TrustHost \/ Calms
  <2>1. hosts' = hosts
    BY <1>7, Zenon DEF ClientPair, TrustHost, Calms
  <2>2. (\E r : Return(r)) \/ att' = NoAttempt \/ att' = att
    BY <1>7, Zenon DEF ClientPair, TrustHost, Calms
  <2>3. AttemptShape(NoAttempt) /\ NoAttempt.verdict # "paired"
    BY DEF AttemptShape, NoAttempt
  <2>4. AttemptInv'
    BY <1>5, <2>2, <2>3, AttemptReturns, Zenon DEF AttemptInv
  <2> QED
    BY <1>1, <1>4, <2>1, <2>4, Zenon DEF HostsShape, SameKeys
<1>8. ASSUME NEW m \in Restless, HostForgets(m) \/ OtherPairs(m) \/ OtherEnds(m) \/ HostEdits(m)
      PROVE  ClientInv'
  <2>1. HostsShape' /\ SameKeys
    BY <1>1, <1>3, <1>8, OthersKeep, Zenon
  <2>2. att' = att
    BY <1>8, Zenon DEF HostForgets, OtherPairs, OtherEnds, HostEdits
  <2> QED
    BY <1>4, <1>5, <2>1, <2>2, Zenon
<1>9. ASSUME NEW m \in Restless, HostApp(m)
      PROVE  ClientInv'
  <2>1. HostsShape' /\ \A n \in Machines : hosts'[n].key \in {0, hosts[n].key}
    BY <1>1, <1>3, <1>9, OthersKeep, Zenon
  <2>2. StreamInv'
    BY <1>1, <2>1, Zenon DEF StreamInv, KeyInv
  <2>3. att' = att
    BY <1>9, Zenon DEF HostApp
  <2> QED
    BY <1>2, <1>5, <2>1, <2>2, <2>3, Zenon DEF ClientInv
<1> QED
  BY <1>6, <1>7, <1>8, <1>9, Zenon DEF Pairing

\* ClientInv is an invariant: the lemmas above are its step, action by action.
THEOREM ClientInvariant == Spec => []ClientInv
<1>1. Init => ClientInv
  <2> SUFFICES ASSUME Init PROVE ClientInv
    OBVIOUS
  <2> DEFINE h == [trusts |-> FALSE, pairing |-> NoPairing, app |-> 0, key |-> 0]
  <2>1. HostShape(h)
    BY DEF HostShape
  <2> HIDE DEF h
  <2>2. HostsShape
    <3>1. hosts = [m \in Machines |-> h]
      BY Zenon DEF Init, PairInit, h
    <3> QED
      BY <2>1, <3>1 DEF HostsShape
  <2>3. AttemptInv
    <3>1. att = NoAttempt
      BY Zenon DEF Init, PairInit
    <3> QED
      BY <3>1 DEF AttemptInv, AttemptShape, NoAttempt
  <2>4. JobInv
    <3>1. JobShape(NoJob) /\ NoJob.settings = Defaults
      BY JobNamed, Zenon DEF NoJob
    <3> QED
      BY <3>1, DefaultsDocumented, Zenon DEF Init, JobInv
  <2>5. StreamInv
    <3>1. NoStream.settings = Defaults
      BY SMT DEF NoStream
    <3> QED
      BY <3>1, DefaultsDocumented, Zenon DEF Init, StreamInv, KeyInv
  <2> QED
    BY <2>2, <2>3, <2>4, <2>5, Zenon DEF ClientInv
<1>2. ClientInv /\ [Next]_clientVars => ClientInv'
  <2> SUFFICES ASSUME ClientInv, [Next]_clientVars PROVE ClientInv'
    OBVIOUS
  <2>1. CASE ClientApps \/ ClientStart \/ ClientStop \/ StartStep
    BY <2>1, StartKeeps, StopKeeps, LaunchStep, Zenon DEF StartStep
  <2>2. CASE /\ \/ Pairing \/ TrustHost
                \/ \E m \in Restless : HostApp(m) \/ HostEdits(m)
             /\ job' = job /\ stream' = stream
    BY <2>2, PairingKeeps, Zenon
  <2>3. CASE UNCHANGED clientVars
    BY <2>3, Zenon DEF clientVars, pairVars, ClientInv, HostsShape, AttemptInv, JobInv,
                       StreamInv, KeyInv
  <2> QED
    BY <2>1, <2>2, <2>3, Zenon DEF Next
<1> QED
  BY <1>1, <1>2, PTL DEF Spec

\* For any number of machines behind the address, none but the pinned one ever
\* has the remote-input key of a running stream.
THEOREM KeyNeverLeaks == Spec => []KeyStaysWithHost
<1>1. ClientInv => KeyStaysWithHost
  BY Zenon DEF ClientInv, StreamInv, KeyInv, KeyStaysWithHost
<1> QED
  BY <1>1, ClientInvariant, PTL

\* Whatever numbers a request holds, only documented settings are streamed with.
THEOREM SettingsAreDocumented == Spec => []StreamedAsDocumented
<1>1. ClientInv => StreamedAsDocumented
  BY Zenon DEF ClientInv, StreamInv, StreamedAsDocumented
<1> QED
  BY <1>1, ClientInvariant, PTL

-----------------------------------------------------------------------------
(* Success is mutual                                                       *)

\* An answer that did not arrive is no success.
LEMMA NothingIsNotPaired == ~PairedOk(<<>>)
<1> DEFINE at == {i \in 1 .. Len(<<>>) : <<>>[i].tag = "root"}
<1>1. at = {}
  OBVIOUS
<1>2. XmlText(<<>>, "root", "") = ""
  BY <1>1, Zenon DEF XmlText
<1> QED
  BY <1>2, Zenon DEF PairedOk, StatusOk

\* Only stage 5 answers "paired", and only over a channel to the machine whose
\* certificate stage 1 brought.
LEMMA PairedStep ==
    ASSUME AttemptInv, Next, Answers("paired")
    PROVE  hosts[att.cert].trusts /\ pin' \in {pin, att.cert}
<1>1. pc # "idle" /\ pc' = "idle" /\ answer' = "paired"
  BY Zenon DEF Answers
<1>2. ASSUME NEW r, Return(r) PROVE r = "paired"
  BY <1>1, <1>2, Zenon DEF Return
<1>3. ASSUME NEW r, Cancel(r) PROVE FALSE
  BY <1>1, <1>3, Zenon DEF Cancel, Goto
<1>4. ASSUME NEW where, NEW a, Goto(where, a) PROVE where = "idle"
  BY <1>1, <1>4, Zenon DEF Goto
<1>5. ASSUME pc' = pc PROVE FALSE
  BY <1>1, <1>5
<1>6. ASSUME NEW r, Finish(r) PROVE r = "paired"
  BY <1>2, <1>6, Zenon DEF Finish
<1>7. CASE PairChallenge
  <2> DEFINE does == [m \in Machines |-> OnPairChallenge(m)]
  <2>1. PICK w \in Request(TRUE, att.cert, does) : PairedOk(w.xml) /\ pin' \in {pin, att.cert}
    BY <1>3, <1>7, Zenon DEF PairChallenge
  <2> HIDE DEF does
  <2>2. w # [hosts |-> hosts, xml |-> <<>>]
    <3>1. [hosts |-> hosts, xml |-> <<>>].xml = <<>>
      OBVIOUS
    <3> QED
      BY <2>1, <3>1, NothingIsNotPaired, Zenon
  <2>3. \E m \in Machines : TlsOk(att.cert, m)
    BY <2>2, RequestEnds, Zenon
  <2> QED
    BY <2>1, <2>3, Zenon DEF TlsOk
<1>8. ~PairInfo /\ ~GetServerCert /\ ~GetServerCertTimesOut /\ ~ClientChallenge
  BY <1>2, <1>3, <1>4, Zenon
     DEF PairInfo, GetServerCert, GetServerCertTimesOut, ClientChallenge
<1>9. ~ServerChallengeResp /\ ~ClientPairingSecret /\ ~Unpair
  BY <1>2, <1>3, <1>4, Zenon DEF ServerChallengeResp, JudgeSecret, ClientPairingSecret, Unpair,
                                 AttemptInv
<1>10. ~ClientPair /\ ~TrustHost /\ ~ClientApps /\ ~ClientStart
  BY <1>1, Zenon DEF ClientPair, TrustHost, ClientApps, ClientStart
<1>11. /\ ~InfoHttp /\ ~InfoHttps /\ ~FetchAppList
       /\ ~LaunchOrResume /\ ~ClientStop
  BY <1>1, <1>4, <1>5, <1>6, Zenon
     DEF InfoHttp, InfoHttps, FetchAppList, LaunchOrResume, ClientStop, Step
<1>12. ASSUME NEW m
       PROVE  ~HostApp(m) /\ ~HostEdits(m) /\ ~HostForgets(m) /\ ~OtherPairs(m) /\ ~OtherEnds(m)
  BY <1>5, Zenon DEF HostApp, HostEdits, HostForgets, OtherPairs, OtherEnds
<1>13. ~Calms
  BY <1>5, Zenon DEF Calms
<1> QED
  BY <1>7, <1>8, <1>9, <1>10, <1>11, <1>12, <1>13, Zenon DEF Next, Pairing, PairStep, StartStep

\* For any number of machines behind the address, "paired" means that the
\* machine whose certificate is returned trusts the client at that moment.
THEOREM PairingIsMutual == Spec => PairedIsMutual
<1>1. ClientInv /\ [Next]_clientVars
        => [Answers("paired") => hosts[att.cert].trusts /\ pin' \in {pin, att.cert}]_pairVars
  <2>1. ClientInv => AttemptInv
    BY Zenon DEF ClientInv
  <2>2. UNCHANGED clientVars => UNCHANGED pairVars
    BY DEF clientVars
  <2> QED
    BY <2>1, <2>2, PairedStep, Zenon
<1> QED
  BY <1>1, ClientInvariant, PTL DEF Spec, PairedIsMutual

-----------------------------------------------------------------------------
(* The PIN is blamed for the PIN only                                      *)

SessionShape(s) == s = [owner |-> s.owner, key |-> s.key, stage |-> s.stage, hash |-> s.hash]

\* A session of ours has a key derived from its salt, a PIN and the machine's
\* generation.
SessionOn(m, s) ==
    /\ SessionShape(s)
    /\ s.owner = "us" => \E salt, typed : s.key = DeriveAesKey(salt, typed, m \notin OldGen)

SessionInv == \A m \in Machines : SessionOn(m, hosts[m].pairing)

\* The response nv_pair has from machine m if m's session has this key.
Response(m, key) ==
    IF key = att.key THEN HostResponse(m, RandomChallenge(att.salt), key) ELSE GarbageResponse

\* From stage 1 on, a session of ours on the machine whose certificate we got is
\* of this attempt; it has reached stage 2 only if the response is its own.
CertInv ==
    LET s == hosts[att.cert].pairing
    IN  /\ att.cert \in Machines
        /\ s.owner = "us" => s.key.salt = att.salt
        /\ pc = "pair2" /\ s.owner = "us" => s.stage = 1
        /\ pc = "pair3" /\ s.owner = "us" /\ s.stage = 2 => att.resp = Response(att.cert, s.key)

PinInv ==
    /\ SessionInv
    /\ pc \in {"pairinfo", "pair1", "pair2", "pair3"} => att.verdict = "none"
    /\ pc \in {"pair1", "pair2", "pair3"} =>
          \E gen7 : att.key = DeriveAesKey(att.salt, "right", gen7)
    /\ pc \in {"pair2", "pair3"} => CertInv

\* A sequence of elements that are no sizes is a document.
LEMMA DocumentOf ==
    ASSUME NEW S, NEW doc \in Seq(S), \A e \in S : e.tag # "size"
    PROVE  IsDocument(doc) /\ Elements(doc) \subseteq S
<1>1. Elements(doc) \subseteq S /\ doc \in Seq(Elements(doc))
  BY DEF Elements
<1> QED
  BY <1>1, Zenon DEF IsDocument

\* The elements of the host's answers.
LEMMA AnswersAre ==
    ASSUME NEW e, e.tag # "size"
    PROVE  LET ok == {Element("root", "200"), Element("paired", "1")}
           IN  /\ IsDocument(PairFields(<<e>>)) /\ Elements(PairFields(<<e>>)) \subseteq ok \cup {e}
               /\ IsDocument(PairFields(<<>>)) /\ Elements(PairFields(<<>>)) \subseteq ok
               /\ IsDocument(Answer("400", <<>>))
               /\ Elements(Answer("400", <<>>)) \subseteq {Element("root", "400")}
<1> DEFINE r == Element("root", "200")
           p == Element("paired", "1")
           q == Element("root", "400")
<1>1. r.tag # "size" /\ p.tag # "size" /\ q.tag # "size"
  BY DEF Element
<1> HIDE DEF r, p, q
<1>2. <<r>> \o (<<p>> \o <<e>>) \in Seq({r, p, e})
  <2>1. <<r>> \in Seq({r, p, e}) /\ <<p>> \in Seq({r, p, e}) /\ <<e>> \in Seq({r, p, e})
    OBVIOUS
  <2> QED
    BY <2>1, ConcatProperties, Zenon
<1>3. <<r>> \o (<<p>> \o <<>>) \in Seq({r, p})
  <2>1. <<r>> \in Seq({r, p}) /\ <<p>> \in Seq({r, p}) /\ <<>> \in Seq({r, p})
    OBVIOUS
  <2> QED
    BY <2>1, ConcatProperties, Zenon
<1>4. <<q>> \o <<>> \in Seq({q})
  <2>1. <<q>> \in Seq({q}) /\ <<>> \in Seq({q})
    OBVIOUS
  <2> QED
    BY <2>1, ConcatProperties, Zenon
<1>5. /\ IsDocument(<<r>> \o (<<p>> \o <<e>>)) /\ IsDocument(<<r>> \o (<<p>> \o <<>>))
      /\ IsDocument(<<q>> \o <<>>)
      /\ Elements(<<r>> \o (<<p>> \o <<e>>)) \subseteq {r, p, e}
      /\ Elements(<<r>> \o (<<p>> \o <<>>)) \subseteq {r, p}
      /\ Elements(<<q>> \o <<>>) \subseteq {q}
  <2>1. /\ \A d \in {r, p, e} : d.tag # "size"
        /\ \A d \in {r, p} : d.tag # "size"
        /\ \A d \in {q} : d.tag # "size"
    BY <1>1, Zenon
  <2>2. /\ IsDocument(<<r>> \o (<<p>> \o <<e>>))
        /\ Elements(<<r>> \o (<<p>> \o <<e>>)) \subseteq {r, p, e}
    BY <1>2, <2>1, DocumentOf, Zenon
  <2>3. /\ IsDocument(<<r>> \o (<<p>> \o <<>>))
        /\ Elements(<<r>> \o (<<p>> \o <<>>)) \subseteq {r, p}
    BY <1>3, <2>1, DocumentOf, Zenon
  <2>4. IsDocument(<<q>> \o <<>>) /\ Elements(<<q>> \o <<>>) \subseteq {q}
    BY <1>4, <2>1, DocumentOf, Zenon
  <2> QED
    BY <2>2, <2>3, <2>4, Zenon
<1> QED
  BY <1>5, Zenon DEF PairFields, Answer, r, p, q

\* What is read of an answer with one field besides the status.
LEMMA FieldIsRead ==
    ASSUME NEW tag, tag \notin {"size", "root", "paired"}, NEW val, NEW ifAbsent, NEW doc,
           doc = PairFields(<<Element(tag, val)>>), NEW x, Arrives(doc, x)
    PROVE  XmlText(x, tag, ifAbsent) = ifAbsent \/ XmlText(x, tag, ifAbsent) = val
<1> DEFINE e == Element(tag, val)
<1>1. e.tag = tag /\ e.val = val
  BY DEF Element
<1>2. Element("root", "200").tag = "root" /\ Element("paired", "1").tag = "paired"
  BY DEF Element
<1> HIDE DEF e
<1>3. e.tag # "size" /\ tag # "size" /\ tag # "root" /\ tag # "paired"
  BY <1>1
<1>4. IsDocument(doc) /\ \A d \in Elements(doc) :
                            d \in {Element("root", "200"), Element("paired", "1"), e}
  <2>1. /\ IsDocument(PairFields(<<e>>))
        /\ Elements(PairFields(<<e>>)) \subseteq {Element("root", "200"), Element("paired", "1")}
                                                   \cup {e}
    BY <1>3, AnswersAre, Zenon
  <2>2. doc = PairFields(<<e>>)
    BY Zenon DEF e
  <2> QED
    BY <2>1, <2>2, Zenon
<1>5. \/ XmlText(x, tag, ifAbsent) = ifAbsent
      \/ \E d \in Elements(doc) : d.tag = tag /\ XmlText(x, tag, ifAbsent) = d.val
  BY <1>3, <1>4, TextIsFromDocument
<1> QED
  BY <1>1, <1>2, <1>3, <1>4, <1>5, Zenon

\* What is read of an answer without one.
LEMMA NothingIsRead ==
    ASSUME NEW tag, tag \notin {"size", "root", "paired"}, NEW ifAbsent, NEW doc,
           doc \in {PairFields(<<>>), Answer("400", <<>>)}, NEW x, Arrives(doc, x)
    PROVE  XmlText(x, tag, ifAbsent) = ifAbsent
<1>1. /\ Element("root", "200").tag = "root" /\ Element("paired", "1").tag = "paired"
      /\ Element("root", "400").tag = "root"
  BY DEF Element
<1>2. tag # "size" /\ tag # "root" /\ tag # "paired"
  OBVIOUS
<1>3. IsDocument(doc) /\ \A d \in Elements(doc) : d \in
          {Element("root", "200"), Element("paired", "1"), Element("root", "400")}
  <2>1. Element("root", "400").tag # "size"
    BY <1>1
  <2>2. /\ IsDocument(PairFields(<<>>)) /\ IsDocument(Answer("400", <<>>))
        /\ Elements(PairFields(<<>>)) \subseteq {Element("root", "200"), Element("paired", "1")}
        /\ Elements(Answer("400", <<>>)) \subseteq {Element("root", "400")}
    BY <2>1, AnswersAre, Zenon
  <2> QED
    BY <2>2, Zenon
<1>4. \/ XmlText(x, tag, ifAbsent) = ifAbsent
      \/ \E d \in Elements(doc) : d.tag = tag
  BY <1>2, <1>3, TextIsFromDocument
<1> QED
  BY <1>1, <1>2, <1>3, <1>4, Zenon

\* A session stays one when its stage changes.
LEMMA SessionExcept ==
    ASSUME NEW s, SessionShape(s), NEW x
    PROVE  [s EXCEPT !.stage = x]
             = [owner |-> s.owner, key |-> s.key, stage |-> x, hash |-> s.hash]
BY DEF SessionShape

\* The same when its digest changes as well.
LEMMA SessionDigest ==
    ASSUME NEW s, SessionShape(s), NEW x, NEW y
    PROVE  [s EXCEPT !.stage = x, !.hash = y]
             = [owner |-> s.owner, key |-> s.key, stage |-> x, hash |-> y]
<1> DEFINE r == [s EXCEPT !.stage = x]
<1>1. r = [owner |-> s.owner, key |-> s.key, stage |-> x, hash |-> s.hash]
  BY SessionExcept, Zenon
<1> HIDE DEF r
<1>2. SessionShape(r)
  BY <1>1 DEF SessionShape
<1>3. [r EXCEPT !.hash = y] = [owner |-> s.owner, key |-> s.key, stage |-> x, hash |-> y]
  BY <1>1, <1>2 DEF SessionShape
<1> QED
  BY <1>3, Zenon DEF r

\* The session of a machine after its pairing was set.
LEMMA KeepsSession ==
    ASSUME HostsShape, NEW m \in Machines, NEW s
    PROVE  Keeps(m, s).pairing = s /\ [hosts[m] EXCEPT !.pairing = s, !.trusts = TRUE].pairing = s
<1>1. HostShape(hosts[m])
  BY Zenon DEF HostsShape
<1>2. Keeps(m, s) = [trusts |-> hosts[m].trusts, pairing |-> s,
                     app |-> hosts[m].app, key |-> hosts[m].key]
  BY <1>1, HostExcept, Zenon DEF Keeps
<1>3. [hosts[m] EXCEPT !.pairing = s, !.trusts = TRUE]
        = [trusts |-> TRUE, pairing |-> s, app |-> hosts[m].app, key |-> hosts[m].key]
  BY <1>1, HostExceptTwo, Zenon
<1> QED
  BY <1>2, <1>3

\* A host that is not pairing, or pairs with another client.
LEMMA ForeignSessions ==
    ASSUME NEW m
    PROVE  /\ SessionOn(m, NoPairing) /\ NoPairing.owner # "us"
           /\ SessionOn(m, [NoPairing EXCEPT !.owner = "other"])
           /\ [NoPairing EXCEPT !.owner = "other"].owner # "us"
<1>1. SessionShape(NoPairing) /\ NoPairing.owner = "nobody"
  BY DEF SessionShape, NoPairing
<1> DEFINE s == [NoPairing EXCEPT !.owner = "other"]
<1>2. s = [owner |-> "other", key |-> NoPairing.key, stage |-> NoPairing.stage,
           hash |-> NoPairing.hash]
  BY <1>1 DEF SessionShape
<1> HIDE DEF s
<1>3. SessionShape(s) /\ s.owner = "other"
  BY <1>2 DEF SessionShape
<1>4. SessionOn(m, NoPairing) /\ NoPairing.owner # "us" /\ SessionOn(m, s) /\ s.owner # "us"
  BY <1>1, <1>3, Zenon DEF SessionOn
<1> QED
  BY <1>4, Zenon DEF s

\* What a machine makes of stage 1, and answers.
LEMMA Stage1Is ==
    ASSUME HostsShape, SessionInv, NEW m \in Machines, NEW salt, NEW typed,
           NEW o, o = OnGetServerCert(m, salt, typed)
    PROVE  /\ SessionOn(m, o.host.pairing)
           /\ \/ o.xml = PairFields(<<>>)
              \/ /\ o.xml = PairFields(<<Element("plaincert", m)>>)
                 /\ o.host.pairing.key = DeriveAesKey(salt, typed, m \notin OldGen)
                 /\ o.host.pairing.stage = 1
<1> DEFINE k == DeriveAesKey(salt, typed, m \notin OldGen)
           s == [owner |-> "us", key |-> k, stage |-> 1, hash |-> Garbage]
<1>1. SessionShape(s) /\ s.key = k /\ s.stage = 1
  BY DEF SessionShape
<1>2. \A g, x : Reply(g, x).host = g /\ Reply(g, x).xml = x
  BY DEF Reply
<1>3. \/ o.host = hosts[m] /\ o.xml = PairFields(<<>>)
      \/ o.host = Keeps(m, s) /\ o.xml = PairFields(<<Element("plaincert", m)>>)
  BY <1>2, Zenon DEF OnGetServerCert
<1> HIDE DEF s
<1>4. Keeps(m, s).pairing = s
  BY KeepsSession, Zenon
<1>5. SessionOn(m, s)
  BY <1>1, Zenon DEF SessionOn
<1> QED
  BY <1>1, <1>3, <1>4, <1>5, Zenon DEF SessionInv

\* What a machine makes of stage 2, and answers.
LEMMA Stage2Is ==
    ASSUME HostsShape, SessionInv, NEW m \in Machines, NEW data,
           NEW o, o = OnClientChallenge(m, data)
    PROVE  LET s == hosts[m].pairing
           IN  /\ SessionOn(m, o.host.pairing)
               /\ \/ o.xml = Answer("400", <<>>)
                  \/ /\ o.xml = PairFields(<<Element("challengeresponse",
                           AesEncrypt(HostResponse(m, AesDecrypt(data, s.key), s.key), s.key))>>)
                     /\ s.owner = "us" /\ o.host.pairing.key = s.key
<1> DEFINE s == hosts[m].pairing
           t == [s EXCEPT !.stage = 2]
<1>1. SessionOn(m, s)
  BY Zenon DEF SessionInv
<1>2. t = [owner |-> s.owner, key |-> s.key, stage |-> 2, hash |-> s.hash]
  BY <1>1, SessionExcept, Zenon DEF SessionOn
<1>3. \A g, x : Reply(g, x).host = g /\ Reply(g, x).xml = x
  BY DEF Reply
<1>4. \/ o.host = hosts[m] /\ o.xml = Answer("400", <<>>)
      \/ /\ o.host = Keeps(m, t) /\ Ready(m, 1)
         /\ o.xml = PairFields(<<Element("challengeresponse",
               AesEncrypt(HostResponse(m, AesDecrypt(data, s.key), s.key), s.key))>>)
  BY <1>3, Zenon DEF OnClientChallenge, Refusal
<1> HIDE DEF t
<1>5. Keeps(m, t).pairing = t
  BY KeepsSession, Zenon
<1>6. SessionShape(t) /\ t.owner = s.owner /\ t.key = s.key
  <2> HIDE DEF s
  <2> QED
    BY <1>2 DEF SessionShape
<1>7. SessionOn(m, t)
  BY <1>1, <1>6, Zenon DEF SessionOn
<1> QED
  BY <1>1, <1>4, <1>5, <1>6, <1>7, Zenon DEF Ready

\* What a machine makes of stage 3, and answers.
LEMMA Stage3Is ==
    ASSUME HostsShape, SessionInv, NEW m \in Machines, NEW data,
           NEW o, o = OnServerChallengeResp(m, data)
    PROVE  LET s == hosts[m].pairing
           IN  /\ SessionOn(m, o.host.pairing)
               /\ \/ o.xml = Answer("400", <<>>)
                  \/ /\ o.xml = PairFields(<<Element("pairingsecret", SignedSecret(m, s.key))>>)
                     /\ s.owner = "us" /\ s.stage = 2
<1> DEFINE s == hosts[m].pairing
           h == AesDecrypt(data, s.key)
           t == [s EXCEPT !.stage = 3, !.hash = h]
<1>1. SessionOn(m, s)
  BY Zenon DEF SessionInv
<1>2. t = [owner |-> s.owner, key |-> s.key, stage |-> 3, hash |-> h]
  <2>1. SessionShape(s)
    BY <1>1, Zenon DEF SessionOn
  <2> HIDE DEF s, h
  <2>2. \A x, y : [s EXCEPT !.stage = x, !.hash = y]
                    = [owner |-> s.owner, key |-> s.key, stage |-> x, hash |-> y]
    BY <2>1, SessionDigest, Zenon
  <2> QED
    BY <2>2, Zenon
<1>3. \A g, x : Reply(g, x).host = g /\ Reply(g, x).xml = x
  BY DEF Reply
<1>4. \/ o.host = hosts[m] /\ o.xml = Answer("400", <<>>)
      \/ /\ o.host = Keeps(m, t) /\ Ready(m, 2)
         /\ o.xml = PairFields(<<Element("pairingsecret", SignedSecret(m, s.key))>>)
  BY <1>3, Zenon DEF OnServerChallengeResp, Refusal
<1> HIDE DEF t, h
<1>5. Keeps(m, t).pairing = t
  BY KeepsSession, Zenon
<1>6. SessionShape(t) /\ t.owner = s.owner /\ t.key = s.key
  <2> HIDE DEF s
  <2> QED
    BY <1>2 DEF SessionShape
<1>7. SessionOn(m, t)
  BY <1>1, <1>6, Zenon DEF SessionOn
<1> QED
  BY <1>1, <1>4, <1>5, <1>6, <1>7, Zenon DEF Ready

\* The other requests leave a session as it is, or end it.
LEMMA OtherStagesAre ==
    ASSUME HostsShape, SessionInv, NEW m \in Machines, NEW x, NEW y
    PROVE  /\ SessionOn(m, OnClientPairingSecret(m, x, y).host.pairing)
           /\ SessionOn(m, OnPairChallenge(m).host.pairing)
           /\ SessionOn(m, OnUnpair(m).host.pairing)
<1>1. SessionOn(m, hosts[m].pairing) /\ SessionOn(m, NoPairing)
  BY ForeignSessions, Zenon DEF SessionInv
<1>2. \A g, z : Reply(g, z).host = g
  BY DEF Reply
<1>3. /\ Keeps(m, NoPairing).pairing = NoPairing
      /\ [hosts[m] EXCEPT !.pairing = NoPairing, !.trusts = TRUE].pairing = NoPairing
  BY KeepsSession, Zenon
<1>4. OnClientPairingSecret(m, x, y).host.pairing \in {hosts[m].pairing, NoPairing}
  BY <1>2, <1>3, Zenon DEF OnClientPairingSecret, Refusal
<1>5. OnPairChallenge(m).host.pairing \in {hosts[m].pairing, NoPairing}
  BY <1>2, <1>3, Zenon DEF OnPairChallenge
<1>6. OnUnpair(m).host.pairing \in {hosts[m].pairing, NoPairing}
  BY <1>2, <1>3, Zenon DEF OnUnpair
<1> QED
  BY <1>1, <1>4, <1>5, <1>6, Zenon

\* A request that keeps sessions well-formed on each machine keeps them so.
LEMMA TouchesKeepsSessions ==
    ASSUME HostsShape, SessionInv, NEW https, NEW cert, NEW does,
           Touches(https, cert, does), \A m \in Machines : SessionOn(m, does[m].host.pairing)
    PROVE  SessionInv'
<1>1. CASE hosts' = hosts
  BY <1>1, Zenon DEF SessionInv
<1>2. ASSUME NEW m \in Machines, hosts' = [hosts EXCEPT ![m] = does[m].host]
      PROVE  SessionInv'
  <2>1. \A n \in Machines : hosts'[n] = IF n = m THEN does[m].host ELSE hosts[n]
    BY <1>2 DEF HostsShape
  <2> QED
    BY <2>1 DEF SessionInv
<1> QED
  BY <1>1, <1>2, Zenon DEF Touches

\* Away from the first three stages only the sessions matter.
LEMMA PinElsewhere ==
    ASSUME SessionInv', pc' \notin {"pairinfo", "pair1", "pair2", "pair3"}
    PROVE  PinInv'
BY Zenon DEF PinInv

\* Stage 1 without an answer in time: a session more, and the attempt is over.
LEMMA PinTimesOut ==
    ASSUME HostsShape, PinInv, GetServerCertTimesOut
    PROVE  PinInv'
<1>1. SessionInv
  BY Zenon DEF PinInv
<1>2. pc' = "idle"
  BY Zenon DEF GetServerCertTimesOut, Return
<1>3. PICK typed : Touches(FALSE, None, [m \in Machines |-> OnGetServerCert(m, att.salt, typed)])
  BY TimesOutTouches, Zenon
<1> DEFINE does == [m \in Machines |-> OnGetServerCert(m, att.salt, typed)]
<1>4. ASSUME NEW m \in Machines PROVE SessionOn(m, does[m].host.pairing)
  <2> DEFINE o == does[m]
  <2>1. o = OnGetServerCert(m, att.salt, typed)
    BY Zenon
  <2> HIDE DEF o
  <2>2. SessionOn(m, o.host.pairing)
    BY <1>1, <2>1, Stage1Is, Zenon
  <2> QED
    BY <2>2, Zenon DEF o
<1> HIDE DEF does
<1>5. Touches(FALSE, None, does)
  BY <1>3, Zenon DEF does
<1>6. SessionInv'
  BY <1>1, <1>4, <1>5, TouchesKeepsSessions, Zenon
<1>7. pc' \notin {"pairinfo", "pair1", "pair2", "pair3"}
  BY <1>2
<1> QED
  BY <1>6, <1>7, PinElsewhere, Zenon

\* Stage 1 of nv_pair: the certificate is that of the machine with the new session.
LEMMA PinStage1 ==
    ASSUME HostsShape, AttemptInv, PinInv, GetServerCert
    PROVE  PinInv'
<1>1. SessionInv /\ att.verdict = "none" /\ \E g : att.key = DeriveAesKey(att.salt, "right", g)
  BY Zenon DEF PinInv, GetServerCert
<1>2. PICK typed : \E w \in Plain([m \in Machines |-> OnGetServerCert(m, att.salt, typed)]) :
          /\ hosts' = w.hosts
          /\ LET cert == XmlText(w.xml, "plaincert", None)
             IN  IF ~PairedOk(w.xml) THEN Return("pairing_failed")
                 ELSE IF cert = None THEN Cancel("already_pairing")
                 ELSE Goto("pair2", [att EXCEPT !.cert = cert])
  BY Zenon DEF GetServerCert
<1> DEFINE does == [m \in Machines |-> OnGetServerCert(m, att.salt, typed)]
<1>3. \A m \in Machines : does[m] = OnGetServerCert(m, att.salt, typed)
  BY Zenon
<1> HIDE DEF does
<1>4. PICK w \in Request(FALSE, None, does) :
          /\ hosts' = w.hosts
          /\ LET cert == XmlText(w.xml, "plaincert", None)
             IN  IF ~PairedOk(w.xml) THEN Return("pairing_failed")
                 ELSE IF cert = None THEN Cancel("already_pairing")
                 ELSE Goto("pair2", [att EXCEPT !.cert = cert])
  BY <1>2, Zenon DEF does, Plain
<1>5. SessionInv'
  <2>1. Touches(FALSE, None, does)
    BY <1>4, RequestTouches, Zenon
  <2>2. ASSUME NEW m \in Machines PROVE SessionOn(m, does[m].host.pairing)
    <3> DEFINE o == does[m]
    <3>1. o = OnGetServerCert(m, att.salt, typed)
      BY <1>3, Zenon
    <3> HIDE DEF o
    <3>2. SessionOn(m, o.host.pairing)
      BY <1>1, <3>1, Stage1Is, Zenon
    <3> QED
      BY <3>2, Zenon DEF o
  <2> QED
    BY <1>1, <2>1, <2>2, TouchesKeepsSessions, Zenon
<1>6. CASE (\E r : Return(r)) \/ Cancel("already_pairing")
  <2>1. pc' \in {"idle", "unpair"}
    BY <1>6, Zenon DEF Return, Cancel, Goto
  <2> QED
    BY <1>5, <2>1, PinElsewhere, Zenon
<1> DEFINE cert == XmlText(w.xml, "plaincert", None)
<1>7. CASE PairedOk(w.xml) /\ cert # None /\ Goto("pair2", [att EXCEPT !.cert = cert])
  <2>1. PICK m \in Machines :
            /\ w.hosts = [hosts EXCEPT ![m] = does[m].host]
            /\ Arrives(does[m].xml, w.xml)
    <3>1. w # [hosts |-> hosts, xml |-> <<>>]
      <4>1. [hosts |-> hosts, xml |-> <<>>].xml = <<>>
        OBVIOUS
      <4> QED
        BY <1>7, <4>1, NothingIsNotPaired, Zenon
    <3> QED
      BY <3>1, RequestEnds, Zenon
  <2>2. /\ cert = m
        /\ does[m].host.pairing.key = DeriveAesKey(att.salt, typed, m \notin OldGen)
        /\ does[m].host.pairing.stage = 1
    <3>1. \/ does[m].xml = PairFields(<<>>)
          \/ /\ does[m].xml = PairFields(<<Element("plaincert", m)>>)
             /\ does[m].host.pairing.key = DeriveAesKey(att.salt, typed, m \notin OldGen)
             /\ does[m].host.pairing.stage = 1
      BY <1>1, <1>3, Stage1Is
    <3>2. "plaincert" \notin {"size", "root", "paired"}
      OBVIOUS
    <3>3. ASSUME does[m].xml = PairFields(<<>>) PROVE cert = None
      BY <2>1, <3>2, <3>3, NothingIsRead, Zenon
    <3>4. ASSUME does[m].xml = PairFields(<<Element("plaincert", m)>>)
          PROVE  cert = None \/ cert = m
      BY <2>1, <3>2, <3>4, FieldIsRead
    <3> QED
      BY <1>7, <3>1, <3>3, <3>4, Zenon
  <2>3. hosts'[m] = does[m].host
    BY <1>4, <2>1 DEF HostsShape
  <2> HIDE DEF cert
  <2>4. pc' = "pair2" /\ att' = [salt |-> att.salt, key |-> att.key, cert |-> cert,
                                 resp |-> att.resp, verdict |-> att.verdict]
    BY <1>7, AttemptExcept, Zenon DEF Goto, AttemptInv
  <2>5. att'.salt = att.salt /\ att'.key = att.key /\ att'.cert = m /\ att'.verdict = att.verdict
    BY <2>2, <2>4
  <2>6. DeriveAesKey(att.salt, typed, m \notin OldGen).salt = att.salt
    BY DEF DeriveAesKey
  <2>7. CertInv'
    BY <2>2, <2>3, <2>4, <2>5, <2>6, Zenon DEF CertInv
  <2> QED
    BY <1>1, <1>5, <2>5, <2>7, Zenon DEF PinInv
<1> QED
  BY <1>4, <1>6, <1>7, Zenon

\* Stage 2: the response is that of the machine's session, or the machine stays
\* behind.
LEMMA PinStage2 ==
    ASSUME HostsShape, AttemptInv, PinInv, ClientChallenge
    PROVE  PinInv'
<1>1. /\ pc = "pair2" /\ SessionInv /\ CertInv /\ att.verdict = "none"
      /\ \E g : att.key = DeriveAesKey(att.salt, "right", g)
  BY Zenon DEF PinInv, ClientChallenge
<1> DEFINE data == AesEncrypt(RandomChallenge(att.salt), att.key)
           does == [m \in Machines |-> OnClientChallenge(m, data)]
<1>2. \A m \in Machines : does[m] = OnClientChallenge(m, data)
  BY Zenon
<1>3. PICK w \in Request(FALSE, None, does) :
          /\ hosts' = w.hosts
          /\ LET cipher == XmlText(w.xml, "challengeresponse", NoCipher)
             IN  IF ~PairedOk(w.xml) \/ cipher = NoCipher THEN Cancel("pairing_failed")
                 ELSE Goto("pair3", [att EXCEPT !.resp =
                          IF cipher.key = att.key THEN cipher.text ELSE GarbageResponse])
  BY Zenon DEF ClientChallenge, Plain
<1> HIDE DEF does, data
<1>4. SessionInv'
  <2>1. Touches(FALSE, None, does)
    BY <1>3, RequestTouches, Zenon
  <2>2. ASSUME NEW m \in Machines PROVE SessionOn(m, does[m].host.pairing)
    <3> DEFINE o == does[m]
    <3>1. o = OnClientChallenge(m, data)
      BY <1>2, Zenon
    <3> HIDE DEF o
    <3>2. SessionOn(m, o.host.pairing)
      BY <1>1, <3>1, Stage2Is, Zenon
    <3> QED
      BY <3>2, Zenon DEF o
  <2> QED
    BY <1>1, <2>1, <2>2, TouchesKeepsSessions, Zenon
<1>5. CASE Cancel("pairing_failed")
  <2>1. pc' = "unpair"
    BY <1>5, Zenon DEF Cancel, Goto
  <2> QED
    BY <1>4, <2>1, PinElsewhere, Zenon
<1> DEFINE cipher == XmlText(w.xml, "challengeresponse", NoCipher)
           resp   == IF cipher.key = att.key THEN cipher.text ELSE GarbageResponse
<1>6. CASE PairedOk(w.xml) /\ cipher # NoCipher /\ Goto("pair3", [att EXCEPT !.resp = resp])
  <2>1. PICK m \in Machines : /\ w.hosts = [hosts EXCEPT ![m] = does[m].host]
                              /\ Arrives(does[m].xml, w.xml)
    <3>1. w # [hosts |-> hosts, xml |-> <<>>]
      <4>1. [hosts |-> hosts, xml |-> <<>>].xml = <<>>
        OBVIOUS
      <4> QED
        BY <1>6, <4>1, NothingIsNotPaired, Zenon
    <3> QED
      BY <3>1, RequestEnds, Zenon
  <2> DEFINE s == hosts[m].pairing
             c == AesEncrypt(HostResponse(m, AesDecrypt(data, s.key), s.key), s.key)
  <2>2. cipher = c /\ s.owner = "us" /\ does[m].host.pairing.key = s.key
    <3>1. \/ does[m].xml = Answer("400", <<>>)
          \/ /\ does[m].xml = PairFields(<<Element("challengeresponse", c)>>)
             /\ s.owner = "us" /\ does[m].host.pairing.key = s.key
      BY <1>1, <1>2, Stage2Is
    <3> HIDE DEF c
    <3>2. "challengeresponse" \notin {"size", "root", "paired"}
      OBVIOUS
    <3>3. ASSUME does[m].xml = Answer("400", <<>>) PROVE cipher = NoCipher
      BY <2>1, <3>2, <3>3, NothingIsRead, Zenon
    <3>4. ASSUME does[m].xml = PairFields(<<Element("challengeresponse", c)>>)
          PROVE  cipher = NoCipher \/ cipher = c
      BY <2>1, <3>2, <3>4, FieldIsRead
    <3> QED
      BY <1>6, <3>1, <3>3, <3>4, Zenon
  <2>3. \A n \in Machines : hosts'[n] = IF n = m THEN does[m].host ELSE hosts[n]
    BY <1>3, <2>1 DEF HostsShape
  <2>4. s.key = att.key => resp = HostResponse(m, RandomChallenge(att.salt), s.key)
    <3>1. c.key = s.key /\ c.text = HostResponse(m, AesDecrypt(data, s.key), s.key)
      BY DEF AesEncrypt
    <3>2. data.key = att.key /\ data.text = RandomChallenge(att.salt)
      BY DEF AesEncrypt, data
    <3> HIDE DEF c
    <3>3. s.key = att.key => AesDecrypt(data, s.key) = RandomChallenge(att.salt)
      BY <3>2, Zenon DEF AesDecrypt
    <3> QED
      BY <2>2, <3>1, <3>3, Zenon
  <2>5. s.key # att.key => resp = GarbageResponse
    <3>1. c.key = s.key
      BY DEF AesEncrypt
    <3> HIDE DEF c
    <3> QED
      BY <2>2, <3>1, Zenon
  <2> HIDE DEF resp, c, cipher
  <2>6. pc' = "pair3" /\ att' = [salt |-> att.salt, key |-> att.key, cert |-> att.cert,
                                 resp |-> resp, verdict |-> att.verdict]
    BY <1>6, AttemptExcept, Zenon DEF Goto, AttemptInv
  <2>7. /\ att'.salt = att.salt /\ att'.key = att.key /\ att'.cert = att.cert
        /\ att'.resp = resp /\ att'.verdict = att.verdict
    BY <2>6
  <2>8. CertInv'
    <3>1. CASE m = att.cert
      <4>1. hosts'[att'.cert].pairing.key = s.key /\ s.key.salt = att.salt /\ att'.cert = m
        BY <1>1, <2>2, <2>3, <2>7, <3>1, Zenon DEF CertInv
      <4>2. att'.resp = IF s.key = att'.key
                        THEN HostResponse(m, RandomChallenge(att'.salt), s.key)
                        ELSE GarbageResponse
        BY <2>4, <2>5, <2>7, Zenon
      <4> QED
        BY <2>6, <2>7, <4>1, <4>2, Zenon DEF CertInv, Response
    <3>2. CASE m # att.cert
      <4>1. att.cert \in Machines /\ hosts'[att'.cert].pairing = hosts[att.cert].pairing
        BY <1>1, <2>3, <2>7, <3>2, Zenon DEF CertInv
      <4>2. hosts[att.cert].pairing.owner = "us" => hosts[att.cert].pairing.stage # 2
        BY <1>1 DEF CertInv
      <4> QED
        BY <1>1, <2>6, <2>7, <4>1, <4>2, Zenon DEF CertInv
    <3> QED
      BY <3>1, <3>2, Zenon
  <2> QED
    BY <1>1, <1>4, <2>7, <2>8, Zenon DEF PinInv
<1> QED
  BY <1>3, <1>5, <1>6, Zenon

\* serverinfo: the attempt gets its salt and, from the right PIN, its key.
LEMMA PinInfo ==
    ASSUME HostsShape, AttemptInv, PinInv, PairInfo
    PROVE  PinInv'
<1>1. pc = "pairinfo" /\ SessionInv /\ att.verdict = "none" /\ hosts' = hosts
  BY Zenon DEF PinInv, PairInfo
<1>2. SessionInv'
  BY <1>1, Zenon DEF SessionInv
<1>3. \/ \E r : Return(r)
      \/ \E x, g : Goto("pair1", [att EXCEPT !.salt = x, !.key = DeriveAesKey(x, "right", g)])
  BY Zenon DEF PairInfo
<1>4. ASSUME NEW r, Return(r) PROVE PinInv'
  BY <1>2, <1>4, PinElsewhere, Zenon DEF Return
<1>5. ASSUME NEW x, NEW g,
             Goto("pair1", [att EXCEPT !.salt = x, !.key = DeriveAesKey(x, "right", g)])
      PROVE  PinInv'
  <2> DEFINE k == DeriveAesKey(x, "right", g)
  <2> HIDE DEF k
  <2>1. pc' = "pair1" /\ att' = [att EXCEPT !.salt = x, !.key = k]
    BY <1>5, Zenon DEF Goto, k
  <2>2. att' = [salt |-> x, key |-> k, cert |-> att.cert, resp |-> att.resp,
                verdict |-> att.verdict]
    BY <2>1, AttemptKeyed, Zenon DEF AttemptInv
  <2>3. att'.salt = x /\ att'.key = k /\ att'.verdict = "none"
    BY <1>1, <2>2
  <2> QED
    BY <1>2, <2>1, <2>3, Zenon DEF PinInv, k
<1> QED
  BY <1>3, <1>4, <1>5, Zenon

\* Stage 3 and what follows it: the attempt leaves the stages that matter.
LEMMA PinLater ==
    ASSUME HostsShape, PinInv,
           ServerChallengeResp \/ ClientPairingSecret \/ PairChallenge \/ Unpair
    PROVE  PinInv'
<1>1. SessionInv
  BY Zenon DEF PinInv
<1>2. pc' \notin {"pairinfo", "pair1", "pair2", "pair3"}
  <2>1. pc' \in {"idle", "unpair", "pair4", "pair5"}
    BY Zenon DEF ServerChallengeResp, JudgeSecret, ClientPairingSecret, PairChallenge, Unpair,
                 Return, Cancel, Goto
  <2> QED
    BY <2>1
<1>3. ASSUME NEW https \in BOOLEAN, NEW cert, NEW does, NEW w \in Request(https, cert, does),
             hosts' = w.hosts, \A m \in Machines : SessionOn(m, does[m].host.pairing)
      PROVE  PinInv'
  BY <1>1, <1>2, <1>3, RequestTouches, TouchesKeepsSessions, PinElsewhere, Zenon
<1>4. CASE ServerChallengeResp
  <2> DEFINE data == AesEncrypt(GenHash(att.key.gen7,
                        <<att.resp.challenge, "us", ClientSecret(att.salt)>>), att.key)
             does == [m \in Machines |-> OnServerChallengeResp(m, data)]
  <2>1. PICK w \in Request(FALSE, None, does) : hosts' = w.hosts
    BY <1>4, Zenon DEF ServerChallengeResp, Plain
  <2>2. \A m \in Machines : does[m] = OnServerChallengeResp(m, data)
    BY Zenon
  <2> HIDE DEF does, data
  <2>3. ASSUME NEW m \in Machines PROVE SessionOn(m, does[m].host.pairing)
    <3> DEFINE o == does[m]
    <3>1. o = OnServerChallengeResp(m, data)
      BY <2>2, Zenon
    <3> HIDE DEF o
    <3>2. SessionOn(m, o.host.pairing)
      BY <1>1, <3>1, Stage3Is, Zenon
    <3> QED
      BY <3>2, Zenon DEF o
  <2> QED
    BY <1>3, <2>1, <2>3, Zenon
<1>5. CASE ClientPairingSecret
  <2> DEFINE sign == SignMessage(ClientSecret(att.salt), "us")
             does == [m \in Machines |-> OnClientPairingSecret(m, ClientSecret(att.salt), sign)]
  <2>1. PICK w \in Request(FALSE, None, does) : hosts' = w.hosts
    BY <1>5, Zenon DEF ClientPairingSecret, Plain
  <2>2. \A m \in Machines : SessionOn(m, does[m].host.pairing)
    BY <1>1, OtherStagesAre, Zenon
  <2> HIDE DEF does
  <2> QED
    BY <1>3, <2>1, <2>2, Zenon
<1>6. CASE PairChallenge
  <2> DEFINE does == [m \in Machines |-> OnPairChallenge(m)]
  <2>1. PICK w \in Request(TRUE, att.cert, does) : hosts' = w.hosts
    BY <1>6, Zenon DEF PairChallenge
  <2>2. \A m \in Machines : SessionOn(m, does[m].host.pairing)
    BY <1>1, OtherStagesAre, Zenon
  <2> HIDE DEF does
  <2> QED
    BY <1>3, <2>1, <2>2, Zenon
<1>7. CASE Unpair
  <2> DEFINE does == [m \in Machines |-> OnUnpair(m)]
  <2>1. PICK w \in Request(FALSE, None, does) : hosts' = w.hosts
    BY <1>7, Zenon DEF Unpair, Plain
  <2>2. \A m \in Machines : SessionOn(m, does[m].host.pairing)
    BY <1>1, OtherStagesAre, Zenon
  <2> HIDE DEF does
  <2> QED
    BY <1>3, <2>1, <2>2, Zenon
<1> QED
  BY <1>4, <1>5, <1>6, <1>7, Zenon

\* An attempt does not notice that a machine forgets its session or takes up
\* another client's.
LEMMA PinGoesOn ==
    ASSUME PinInv, pc' = pc, att' = att,
           \A m \in Machines : \/ hosts'[m].pairing = hosts[m].pairing
                               \/ /\ SessionOn(m, hosts'[m].pairing)
                                  /\ hosts'[m].pairing.owner # "us"
    PROVE  PinInv'
<1>1. SessionInv'
  BY Zenon DEF PinInv, SessionInv
<1>2. ASSUME CertInv PROVE CertInv'
  BY <1>2, Zenon DEF CertInv, Response
<1> QED
  BY <1>1, <1>2, Zenon DEF PinInv

\* What others do to a machine.
LEMMA PinOthers ==
    ASSUME HostsShape, PinInv, NEW m \in Machines,
           HostEdits(m) \/ HostApp(m) \/ HostForgets(m) \/ OtherPairs(m) \/ OtherEnds(m)
    PROVE  PinInv'
<1> DEFINE h == hosts[m]
<1>1. HostShape(h)
  BY Zenon DEF HostsShape
<1>2. pc' = pc /\ att' = att
  BY Zenon DEF HostEdits, HostApp, HostForgets, OtherPairs, OtherEnds
<1> DEFINE other == [NoPairing EXCEPT !.owner = "other"]
<1>3. \/ \E x : hosts' = [hosts EXCEPT ![m] = [h EXCEPT !.trusts = x]]
      \/ \E x, y : hosts' = [hosts EXCEPT ![m] = [h EXCEPT !.app = x, !.key = y]]
      \/ \E s \in {NoPairing, other} : hosts' = [hosts EXCEPT ![m] = [h EXCEPT !.pairing = s]]
  <2>1. CASE HostEdits(m)
    BY <2>1, Zenon DEF HostEdits
  <2>2. CASE HostApp(m)
    <3> HIDE DEF h, other
    <3>1. PICK x : hosts' = [hosts EXCEPT ![m] = [h EXCEPT !.app = x, !.key = 0]]
      BY <2>2, Zenon DEF HostApp, h
    <3> QED
      BY <3>1, Zenon
  <2>3. CASE HostForgets(m) \/ OtherEnds(m)
    BY <2>3, Zenon DEF HostForgets, OtherEnds
  <2>4. CASE OtherPairs(m)
    BY <2>4, Zenon DEF OtherPairs
  <2> QED
    BY <2>1, <2>2, <2>3, <2>4, Zenon
<1>4. \A s \in {NoPairing, other} : SessionOn(m, s) /\ s.owner # "us"
  BY ForeignSessions, Zenon
<1> HIDE DEF h, other
<1>5. ASSUME NEW g, hosts' = [hosts EXCEPT ![m] = g],
             g.pairing = h.pairing \/ (SessionOn(m, g.pairing) /\ g.pairing.owner # "us")
      PROVE  PinInv'
  <2>1. \A n \in Machines : hosts'[n] = IF n = m THEN g ELSE hosts[n]
    BY <1>5 DEF HostsShape
  <2> QED
    BY <1>2, <1>5, <2>1, PinGoesOn, Zenon DEF h
<1>6. ASSUME NEW x, NEW y
      PROVE  /\ [h EXCEPT !.trusts = x].pairing = h.pairing
             /\ [h EXCEPT !.app = x, !.key = y].pairing = h.pairing
             /\ [h EXCEPT !.pairing = x].pairing = x
  <2>1. /\ [h EXCEPT !.trusts = x]
              = [trusts |-> x, pairing |-> h.pairing, app |-> h.app, key |-> h.key]
        /\ [h EXCEPT !.pairing = x]
              = [trusts |-> h.trusts, pairing |-> x, app |-> h.app, key |-> h.key]
    BY <1>1, HostExcept, Zenon
  <2>2. [h EXCEPT !.app = x, !.key = y]
          = [trusts |-> h.trusts, pairing |-> h.pairing, app |-> x, key |-> y]
    BY <1>1, HostExceptTwo, Zenon
  <2> QED
    BY <2>1, <2>2
<1>7. ASSUME NEW x, hosts' = [hosts EXCEPT ![m] = [h EXCEPT !.trusts = x]]
      PROVE  PinInv'
  BY <1>5, <1>6, <1>7, Zenon
<1>8. ASSUME NEW x, NEW y, hosts' = [hosts EXCEPT ![m] = [h EXCEPT !.app = x, !.key = y]]
      PROVE  PinInv'
  BY <1>5, <1>6, <1>8, Zenon
<1>9. ASSUME NEW s \in {NoPairing, other}, hosts' = [hosts EXCEPT ![m] = [h EXCEPT !.pairing = s]]
      PROVE  PinInv'
  <2>1. [h EXCEPT !.pairing = s].pairing = s /\ SessionOn(m, s) /\ s.owner # "us"
    BY <1>4, <1>6, Zenon
  <2> QED
    BY <1>5, <1>9, <2>1, Zenon
<1> QED
  BY <1>3, <1>7, <1>8, <1>9, Zenon

\* The other handlers do not pair.
LEMMA PinHandlers ==
    ASSUME HostsShape, PinInv,
           \/ ClientPair \/ TrustHost \/ Calms \/ ClientApps \/ ClientStart \/ ClientStop
           \/ InfoHttp \/ InfoHttps \/ FetchAppList
    PROVE  PinInv'
<1>1. hosts' = hosts /\ SessionInv
  BY Zenon DEF PinInv, ClientPair, TrustHost, Calms, ClientApps, ClientStart, ClientStop,
               InfoHttp, InfoHttps, FetchAppList
<1>2. SessionInv'
  BY <1>1, Zenon DEF SessionInv
<1>3. CASE ClientPair /\ pc' = "pairinfo" /\ att' = NoAttempt
  <2>1. NoAttempt.verdict = "none"
    BY DEF NoAttempt
  <2> QED
    BY <1>2, <1>3, <2>1, Zenon DEF PinInv
<1>4. CASE pc' = pc /\ att' = att
  BY <1>1, <1>4, PinGoesOn, Zenon
<1>5. CASE pc' \in {"idle", "info", "authinfo", "apps", "launch"}
  <2>1. pc' \notin {"pairinfo", "pair1", "pair2", "pair3"}
    BY <1>5
  <2> QED
    BY <1>2, <2>1, PinElsewhere, Zenon
<1>6. CASE ClientPair \/ TrustHost \/ Calms \/ ClientStop
  BY <1>3, <1>4, <1>5, <1>6, Zenon DEF ClientPair, TrustHost, Calms, ClientStop, Finish, Return
<1>7. CASE ClientApps \/ ClientStart
  <2>1. pc' \in {"idle", "info"}
    BY <1>7, Zenon DEF ClientApps, ClientStart, ConnectPairedHost, Finish, Return
  <2> QED
    BY <1>5, <2>1, Zenon
<1>8. CASE InfoHttp \/ InfoHttps \/ FetchAppList
  <2>1. ASSUME NEW r, Finish(r) PROVE pc' = "idle"
    BY <2>1, Zenon DEF Finish, Return
  <2>2. ASSUME NEW where, NEW j, Step(where, j) PROVE pc' = where
    BY <2>2, Zenon DEF Step, Goto
  <2>3. pc' \in {"idle", "authinfo", "apps", "launch"}
    BY <1>8, <2>1, <2>2, Zenon DEF InfoHttp, InfoHttps, FetchAppList
  <2> QED
    BY <1>5, <2>3, Zenon
<1> QED
  BY <1>6, <1>7, <1>8, Zenon

\* A launch has nothing to do with the pairing.
LEMMA PinLaunch ==
    ASSUME HostsShape, PinInv, LaunchOrResume
    PROVE  PinInv'
<1> DEFINE does == [m \in Machines |-> OnLaunchOrResume(m, LaunchArgs(LaunchVerb(job.game), job))]
<1>1. SessionInv
  BY Zenon DEF PinInv
<1>2. pc' \notin {"pairinfo", "pair1", "pair2", "pair3"}
  <2>1. pc' = "idle"
    BY Zenon DEF LaunchOrResume, Finish, Return
  <2> QED
    BY <2>1
<1>3. \A m \in Machines : SessionOn(m, does[m].host.pairing)
  BY <1>1, LaunchKeys, Zenon DEF SessionInv
<1>4. hosts' = hosts \/ Touches(TRUE, pin, does)
  BY RequestTouches, Zenon DEF LaunchOrResume, Secured
<1> HIDE DEF does
<1>5. Touches(TRUE, pin, does)
  BY <1>4, Zenon DEF Touches
<1> QED
  BY <1>1, <1>2, <1>3, <1>5, TouchesKeepsSessions, PinElsewhere, Zenon

\* PinInv is an invariant, given the shapes that ClientInv keeps.
THEOREM PinInvariant == Spec => []PinInv
<1>1. Init => PinInv
  <2> SUFFICES ASSUME Init PROVE PinInv
    OBVIOUS
  <2> DEFINE h == [trusts |-> FALSE, pairing |-> NoPairing, app |-> 0, key |-> 0]
  <2>1. pc = "idle" /\ hosts = [m \in Machines |-> h]
    BY Zenon DEF Init, PairInit
  <2>2. h.pairing = NoPairing
    OBVIOUS
  <2> HIDE DEF h
  <2>3. SessionInv
    BY <2>1, <2>2, ForeignSessions, Zenon DEF SessionInv
  <2>4. pc \notin {"pairinfo", "pair1", "pair2", "pair3"}
    BY <2>1
  <2> QED
    BY <2>3, <2>4, Zenon DEF PinInv
<1>2. PinInv /\ ClientInv /\ [Next]_clientVars => PinInv'
  <2> SUFFICES ASSUME PinInv, ClientInv, [Next]_clientVars PROVE PinInv'
    OBVIOUS
  <2>1. HostsShape /\ AttemptInv
    BY Zenon DEF ClientInv
  <2>2. CASE PairStep
    BY <2>1, <2>2, PinInfo, PinStage1, PinTimesOut, PinStage2, PinLater, Zenon DEF PairStep
  <2>3. CASE \E m \in Restless :
                HostEdits(m) \/ HostApp(m) \/ HostForgets(m) \/ OtherPairs(m) \/ OtherEnds(m)
    <3>1. Restless \subseteq Machines
      BY MachinesAssumption
    <3> QED
      BY <2>1, <2>3, <3>1, PinOthers, Zenon
  <2>4. CASE \/ ClientPair \/ TrustHost \/ Calms \/ ClientApps \/ ClientStart \/ ClientStop
             \/ StartStep
    BY <2>1, <2>4, PinHandlers, PinLaunch, Zenon DEF StartStep
  <2>5. CASE UNCHANGED clientVars
    <3>1. pc' = pc /\ att' = att /\ hosts' = hosts
      BY <2>5, Zenon DEF clientVars, pairVars
    <3> QED
      BY <3>1, PinGoesOn, Zenon
  <2> QED
    BY <2>2, <2>3, <2>4, <2>5, Zenon DEF Next, Pairing
<1> QED
  BY <1>1, <1>2, ClientInvariant, PTL DEF Spec

\* Stage 3 finds the PIN wrong only when it was.
LEMMA PinJudged ==
    ASSUME HostsShape, AttemptInv, PinInv, ServerChallengeResp, att'.verdict = "pin_wrong"
    PROVE  LET key == hosts[att.cert].pairing.key
           IN  key.salt = att.salt /\ (key.typed # "right" \/ key.gen7 # att.key.gen7)
<1>1. /\ pc = "pair3" /\ SessionInv /\ CertInv /\ att.verdict = "none"
  BY Zenon DEF PinInv, ServerChallengeResp
<1>2. PICK gen7 : att.key = DeriveAesKey(att.salt, "right", gen7)
  BY <1>1, Zenon DEF PinInv
<1> DEFINE data == AesEncrypt(GenHash(att.key.gen7,
                      <<att.resp.challenge, "us", ClientSecret(att.salt)>>), att.key)
           does == [m \in Machines |-> OnServerChallengeResp(m, data)]
<1>3. \A m \in Machines : does[m] = OnServerChallengeResp(m, data)
  BY Zenon
<1>4. PICK w \in Request(FALSE, None, does) :
          LET s == XmlText(w.xml, "pairingsecret", NoSecret)
          IN  IF ~PairedOk(w.xml) \/ s = NoSecret THEN Cancel("pairing_failed")
              ELSE JudgeSecret(s)
  BY Zenon DEF ServerChallengeResp, Plain
<1> HIDE DEF does, data
<1> DEFINE s == XmlText(w.xml, "pairingsecret", NoSecret)
<1>5. ~Cancel("pairing_failed")
  <2> SUFFICES ASSUME Cancel("pairing_failed") PROVE FALSE
    OBVIOUS
  <2>1. "pairing_failed" # "paired"
    OBVIOUS
  <2>2. att' = [salt |-> att.salt, key |-> att.key, cert |-> att.cert,
                resp |-> att.resp, verdict |-> "pairing_failed"]
    BY <2>1, AttemptCancelled, Zenon
  <2> QED
    BY <2>2
<1>6. ~Goto("pair4", att)
  BY <1>1 DEF Goto
<1>7. /\ PairedOk(w.xml) /\ s # NoSecret
      /\ VerifySignature(s.secret, s.signature, att.cert)
      /\ att.resp.hash # GenHash(att.key.gen7, <<RandomChallenge(att.salt), att.cert, s.secret>>)
  BY <1>4, <1>5, <1>6, Zenon DEF JudgeSecret
<1>8. PICK m \in Machines : Arrives(does[m].xml, w.xml)
  <2>1. w # [hosts |-> hosts, xml |-> <<>>]
    <3>1. [hosts |-> hosts, xml |-> <<>>].xml = <<>>
      OBVIOUS
    <3> QED
      BY <1>7, <3>1, NothingIsNotPaired, Zenon
  <2> QED
    BY <2>1, RequestEnds, Zenon
<1> DEFINE p == hosts[m].pairing
           v == SignedSecret(m, p.key)
<1>9. s = v /\ p.owner = "us" /\ p.stage = 2
  <2>1. \/ does[m].xml = Answer("400", <<>>)
        \/ /\ does[m].xml = PairFields(<<Element("pairingsecret", v)>>)
           /\ p.owner = "us" /\ p.stage = 2
    BY <1>1, <1>3, Stage3Is
  <2> HIDE DEF v
  <2>2. "pairingsecret" \notin {"size", "root", "paired"}
    OBVIOUS
  <2>3. ASSUME does[m].xml = Answer("400", <<>>) PROVE s = NoSecret
    BY <1>8, <2>2, <2>3, NothingIsRead, Zenon
  <2>4. ASSUME does[m].xml = PairFields(<<Element("pairingsecret", v)>>)
        PROVE  s = NoSecret \/ s = v
    BY <1>8, <2>2, <2>4, FieldIsRead
  <2> QED
    BY <1>7, <2>1, <2>3, <2>4, Zenon
<1>10. v.secret = HostSecret(m, p.key) /\ v.signature = SignMessage(HostSecret(m, p.key), m)
  BY DEF SignedSecret
<1> HIDE DEF s, v
<1>11. m = att.cert
  <2>1. SignMessage(HostSecret(m, p.key), m) = SignMessage(HostSecret(m, p.key), att.cert)
    BY <1>7, <1>9, <1>10, Zenon DEF VerifySignature
  <2>2. \A x, y, z : <<"signature", y, x>> = <<"signature", z, x>> => y = z
    OBVIOUS
  <2> QED
    BY <2>1, <2>2, Zenon DEF SignMessage
<1>12. p.key.salt = att.salt /\ att.resp = Response(att.cert, p.key)
  BY <1>1, <1>9, <1>11, Zenon DEF CertInv
<1>13. p.key # att.key
  <2> SUFFICES ASSUME p.key = att.key PROVE FALSE
    OBVIOUS
  <2>1. att.resp = HostResponse(m, RandomChallenge(att.salt), p.key)
    BY <1>11, <1>12, Zenon DEF Response
  <2>2. att.resp.hash =
            GenHash(m \notin OldGen, <<RandomChallenge(att.salt), m, HostSecret(m, p.key)>>)
    BY <2>1 DEF HostResponse
  <2>3. att.key.gen7 = (m \notin OldGen)
    <3> DEFINE new == m \notin OldGen
    <3>1. PICK salt, typed : att.key = DeriveAesKey(salt, typed, new)
      BY <1>1, <1>9, Zenon DEF SessionInv, SessionOn
    <3> HIDE DEF new
    <3>2. att.key.gen7 = new
      BY <3>1 DEF DeriveAesKey
    <3> QED
      BY <3>2, Zenon DEF new
  <2> QED
    BY <1>7, <1>9, <1>10, <1>11, <2>2, <2>3, Zenon
<1>14. ASSUME p.key.typed = "right", p.key.gen7 = att.key.gen7
       PROVE  FALSE
  <2>1. PICK x, y, z : p.key = DeriveAesKey(x, y, z)
    BY <1>1, <1>9, Zenon DEF SessionInv, SessionOn
  <2>2. p.key.salt = x /\ p.key.typed = y /\ p.key.gen7 = z
    <3> HIDE DEF p
    <3> QED
      BY <2>1 DEF DeriveAesKey
  <2>3. att.key.gen7 = gen7
    BY <1>2 DEF DeriveAesKey
  <2>4. x = att.salt /\ y = "right" /\ z = gen7
    BY <1>12, <1>14, <2>2, <2>3, Zenon
  <2> QED
    BY <1>2, <1>13, <2>1, <2>4, Zenon
<1> QED
  BY <1>11, <1>12, <1>14, Zenon

\* For any machines behind the address: whatever answers come in, in whatever
\* pieces, and whatever sessions earlier attempts left on the machines, the PIN is
\* blamed only for a PIN, or for a generation misread.
THEOREM PinIsBlamedRightly == Spec => PinBlamedRightly
<1> DEFINE Blamed == pc = "pair3" /\ att'.verdict = "pin_wrong" =>
              LET key == hosts[att.cert].pairing.key
              IN  key.salt = att.salt /\ (key.typed # "right" \/ key.gen7 # att.key.gen7)
<1>1. ASSUME PinInv, ClientInv, Next
      PROVE  Blamed
  <2> SUFFICES ASSUME pc = "pair3", att'.verdict = "pin_wrong"
               PROVE  LET key == hosts[att.cert].pairing.key
                      IN  key.salt = att.salt /\ (key.typed # "right" \/ key.gen7 # att.key.gen7)
    OBVIOUS
  <2>1. HostsShape /\ AttemptInv
    BY <1>1, Zenon DEF ClientInv
  <2>2. att.verdict = "none" /\ att' # att
    BY <1>1 DEF PinInv
  <2>3. CASE ServerChallengeResp
    BY <1>1, <2>1, <2>3, PinJudged, Zenon
  <2>4. /\ ~PairInfo /\ ~GetServerCert /\ ~GetServerCertTimesOut /\ ~ClientChallenge
        /\ ~ClientPairingSecret /\ ~PairChallenge /\ ~Unpair
    BY DEF PairInfo, GetServerCert, GetServerCertTimesOut, ClientChallenge, ClientPairingSecret,
           PairChallenge, Unpair
  <2>5. ~ClientPair /\ ~TrustHost /\ ~ClientApps /\ ~ClientStart /\ ~StartStep
    BY DEF ClientPair, TrustHost, ClientApps, ClientStart, StartStep, InfoHttp, InfoHttps,
           FetchAppList, LaunchOrResume
  <2>6. ~ClientStop /\ ~Calms
    BY <2>2 DEF ClientStop, Calms
  <2>7. ASSUME NEW m
        PROVE  ~HostApp(m) /\ ~HostEdits(m) /\ ~HostForgets(m) /\ ~OtherPairs(m) /\ ~OtherEnds(m)
    BY <2>2, Zenon DEF HostApp, HostEdits, HostForgets, OtherPairs, OtherEnds
  <2> QED
    BY <1>1, <2>3, <2>4, <2>5, <2>6, <2>7, Zenon DEF Next, Pairing, PairStep
<1>2. PinInv /\ ClientInv /\ [Next]_clientVars => [Blamed]_pairVars
  <2>1. UNCHANGED clientVars => UNCHANGED pairVars
    BY DEF clientVars
  <2> QED
    BY <1>1, <2>1, Zenon
<1> QED
  BY <1>2, PinInvariant, ClientInvariant, PTL DEF Spec, PinBlamedRightly

-----------------------------------------------------------------------------
(* What is received of a document is a start of it                         *)

\* The sizes in a chunked body are numbers.
LEMMA CellSizes ==
    ASSUME NEW S, \A e \in S : e.tag # "size"
    PROVE  \A e \in Cells(S) : e.tag = "size" => e.val \in Nat
<1>1. \A k \in Nat : Element("size", k).val = k
  BY DEF Element
<1> QED
  BY <1>1, Zenon DEF Cells

\* What a chunk holds.
LEMMA ChunkIs ==
    ASSUME NEW S, NEW doc \in Seq(S), NEW n \in Nat, n > 0, NEW i \in 1 .. Len(doc)
    PROVE  /\ Chunk(doc, n, i) \in Seq(S)
           /\ Len(Chunk(doc, n, i)) \in Nat /\ Len(Chunk(doc, n, i)) > 0
           /\ i + Len(Chunk(doc, n, i)) = IF i + n > Len(doc) THEN Len(doc) + 1 ELSE i + n
           /\ \A k \in 1 .. Len(Chunk(doc, n, i)) : Chunk(doc, n, i)[k] = doc[i + k - 1]
<1> DEFINE b == IF i + n - 1 < Len(doc) THEN i + n - 1 ELSE Len(doc)
<1>1. b \in Int /\ i <= b /\ b <= Len(doc) /\ Len(doc) \in Nat
      /\ b + 1 = IF i + n > Len(doc) THEN Len(doc) + 1 ELSE i + n
  OBVIOUS
<1>2. Chunk(doc, n, i) = SubSeq(doc, i, b)
  BY Zenon DEF Chunk
<1> HIDE DEF b
<1>3. /\ SubSeq(doc, i, b) \in Seq(S) /\ Len(SubSeq(doc, i, b)) = b - i + 1
      /\ \A k \in 1 .. b - i + 1 : SubSeq(doc, i, b)[k] = doc[i + k - 1]
  BY <1>1
<1> QED
  BY <1>1, <1>2, <1>3

\* However a chunked document is cut, dechunk gives a start of it.
LEMMA DechunkedIsStart ==
    ASSUME NEW S, NEW doc \in Seq(S), NEW n \in Nat, n > 0, \A e \in S : e.tag # "size",
           NEW b \in RecvAll(Chunked(doc, n))
    PROVE  Occurs(doc, 1, Dechunk(b)) /\ Dechunk(b) \in Seq(Cells(S))
<1> DEFINE C == Chunked(doc, n)
           D == Cells(S)
<1>1. \A e \in D : e.tag = "size" => e.val \in Nat
  BY CellSizes, Zenon
<1>2. PICK f : C = f[1] /\ ChunkTable(f, S, doc, n)
  BY ChunkedSteps, Zenon
<1>3. C \in Seq(D)
  BY ChunkedTyped, Zenon
<1>4. doc \in Seq(D)
  BY DEF Cells
<1> HIDE DEF C, D
<1>5. /\ b \in Seq(D) /\ Len(b) \in Nat /\ Len(b) <= Len(C) /\ Len(C) \in Nat
      /\ \A k \in 1 .. Len(b) : b[k] = C[k]
  <2>1. PICK m \in 0 .. Len(C) : b = SubSeq(C, 1, m)
    BY Zenon DEF RecvAll, C
  <2> QED
    BY <1>3, <2>1
<1>6. PICK g : Dechunk(b) = g[1] /\ DechunkTable(g, D, b)
  BY <1>1, <1>5, DechunkSteps, Zenon
<1> DEFINE Lo(i) == IF i > Len(doc) THEN Len(doc) + 1 ELSE i
           top   == Len(doc) + n - 1
           T     == {i \in 1 .. top + 1 : \A p \in 1 .. Len(b) + 1 :
                        Occurs(C, p, f[i]) => Occurs(doc, Lo(i), g[p])}
<1>7. top \in Nat /\ top + 1 = Len(doc) + n /\ Len(doc) \in Nat
  OBVIOUS
<1>8. \A k \in Nat : Element("size", k).val = k
  BY DEF Element
<1> HIDE DEF top
<1>9. ASSUME NEW i \in 1 .. top + 1, \A j \in 1 .. top + 1 : j > i => j \in T
      PROVE  i \in T
  <2> SUFFICES ASSUME NEW p \in 1 .. Len(b) + 1, Occurs(C, p, f[i])
               PROVE  Occurs(doc, Lo(i), g[p])
    BY Zenon
  <2>1. i \in 1 .. Len(doc) + n /\ p \in Nat
    BY <1>5, <1>7
  <2>2. ASSUME g[p] = <<>> PROVE Occurs(doc, Lo(i), g[p])
    BY <1>7, <2>1, <2>2 DEF Occurs
  <2>3. CASE i > Len(doc)
    <3> DEFINE e == Element("size", 0)
    <3>1. f[i] = <<e>>
      BY <1>2, <2>1, <2>3, Zenon DEF ChunkTable
    <3>2. e.val = 0
      BY <1>8
    <3> HIDE DEF e
    <3>3. p <= Len(C) /\ C[p] = e
      BY <1>3, <2>1, <3>1, OccursOne
    <3>4. p > Len(b) \/ b[p] = C[p]
      BY <1>5, <2>1
    <3>5. ChunksEnd(b, p)
      BY <3>2, <3>3, <3>4, Zenon DEF ChunksEnd
    <3> QED
      BY <1>6, <2>2, <3>5, Zenon DEF DechunkTable
  <2>4. CASE i <= Len(doc)
    <3> DEFINE c == Chunk(doc, n, i)
               L == Len(c)
               e == Element("size", L)
               r == f[i + n]
    <3>1. i \in 1 .. Len(doc) /\ i + n \in 1 .. Len(doc) + n /\ i + n > i
          /\ i + n \in 1 .. top + 1
      BY <1>7, <2>1, <2>4
    <3>2. /\ c \in Seq(S) /\ L \in Nat /\ L > 0
          /\ i + L = Lo(i + n)
          /\ \A k \in 1 .. L : c[k] = doc[i + k - 1]
      <4>1. i + L = IF i + n > Len(doc) THEN Len(doc) + 1 ELSE i + n
        BY <3>1, ChunkIs
      <4>2. /\ c \in Seq(S) /\ L \in Nat /\ L > 0
            /\ \A k \in 1 .. L : c[k] = doc[i + k - 1]
        BY <3>1, ChunkIs
      <4> QED
        BY <4>1, <4>2, Zenon
    <3>3. f[i] = <<e>> \o c \o r
      BY <1>2, <2>1, <2>4, Zenon DEF ChunkTable
    <3>4. e.val = L /\ e \in D
      <4>1. Element("size", L) \in Cells(S)
        BY <3>2, Zenon DEF Cells
      <4> QED
        BY <1>8, <3>2, <4>1, Zenon DEF D
    <3>5. c \in Seq(D) /\ r \in Seq(D)
      <4>1. \A s \in Seq(S) : s \in Seq(D)
        BY DEF D, Cells
      <4> QED
        BY <1>2, <3>1, <3>2, <4>1, Zenon DEF ChunkTable, D
    <3> HIDE DEF c, L, e, r, Lo
    <3>6. /\ p <= Len(C) /\ C[p] = e
          /\ Occurs(C, p + 1, c) /\ Occurs(C, p + L + 1, r)
      <4>1. <<e>> \in Seq(D) /\ <<e>> \o c \in Seq(D) /\ Len(<<e>>) = 1
            /\ Len(<<e>> \o c) = L + 1
        BY <3>4, <3>5 DEF L
      <4> DEFINE ec == <<e>> \o c
      <4> HIDE DEF ec
      <4>2. Occurs(C, p, ec) /\ Occurs(C, p + Len(ec), r)
        BY <1>3, <2>1, <3>3, <3>5, <4>1, OccursConcat, Zenon DEF ec
      <4>3. Occurs(C, p, <<e>>) /\ Occurs(C, p + Len(<<e>>), c)
        BY <1>3, <2>1, <3>5, <4>1, <4>2, OccursConcat, Zenon DEF ec
      <4>4. p + Len(ec) = p + L + 1 /\ p + Len(<<e>>) = p + 1
        <5>1. Len(ec) = L + 1
          BY <4>1, Zenon DEF ec
        <5> QED
          BY <2>1, <3>2, <4>1, <5>1
      <4>5. p <= Len(C) /\ C[p] = e
        BY <1>3, <2>1, <4>3, OccursOne
      <4> QED
        BY <4>2, <4>3, <4>4, <4>5, Zenon
    <3>7. CASE ChunksEnd(b, p)
      BY <1>6, <2>2, <3>7, Zenon DEF DechunkTable
    <3>8. CASE ~ChunksEnd(b, p)
      <4>1. p <= Len(b) /\ b[p] = e /\ p + L <= Len(b)
        <5>1. ~(p > Len(b)) /\ ~(p + b[p].val > Len(b))
          BY <3>8, Zenon DEF ChunksEnd
        <5>2. p \in 1 .. Len(b)
          BY <1>5, <2>1, <5>1
        <5>3. b[p] = e
          BY <1>5, <3>6, <5>2, Zenon
        <5> QED
          BY <1>5, <2>1, <3>2, <3>4, <5>1, <5>2, <5>3
      <4> DEFINE h == SubSeq(b, p + 1, p + L)
                 q == p + L + 1
      <4>2. g[p] = h \o g[q]
        BY <1>6, <3>4, <3>8, <4>1, Zenon DEF DechunkTable
      <4>3. q \in 1 .. Len(b) + 1 /\ p + 1 \in Int /\ p + L \in Int
        <5>1. p \in Nat /\ p <= Len(b) /\ Len(b) \in Nat
          BY <1>5, <2>1, <4>1
        <5>2. L \in Nat /\ p + L <= Len(b)
          BY <3>2, <4>1, Zenon
        <5> QED
          BY <5>1, <5>2
      <4>4. /\ h \in Seq(D) /\ Len(h) = L
            /\ \A k \in 1 .. L : h[k] = b[p + k]
        <5>1. b \in Seq(D) /\ p \in Nat /\ L \in Nat /\ p + L <= Len(b)
          BY <1>5, <2>1, <3>2, <4>1
        <5> QED
          BY <5>1
      <4> HIDE DEF h, q
      <4>5. Occurs(doc, i, h)
        <5>1. ASSUME NEW k \in 1 .. L PROVE h[k] = doc[i + k - 1]
          <6>1. h[k] = b[p + k] /\ p + k \in 1 .. Len(b) /\ p + k = p + 1 + k - 1
            BY <1>5, <2>1, <3>2, <4>1, <4>4
          <6>2. b[p + k] = C[p + 1 + k - 1]
            BY <1>5, <6>1
          <6>3. C[p + 1 + k - 1] = c[k]
            BY <3>6, Zenon DEF Occurs, L
          <6> QED
            BY <3>2, <6>1, <6>2, <6>3
        <5>2. i + L <= Len(doc) + 1
          BY <1>7, <3>1, <3>2 DEF Lo
        <5> QED
          BY <4>4, <5>1, <5>2 DEF Occurs
      <4>6. Occurs(doc, i + Len(h), g[q])
        <5>1. i + n \in T
          BY <1>9, <3>1, Zenon
        <5>2. Occurs(C, q, f[i + n])
          BY <3>6, Zenon DEF q, r
        <5>3. Occurs(doc, Lo(i + n), g[q])
          BY <4>3, <5>1, <5>2, Zenon
        <5> QED
          BY <3>2, <4>4, <5>3, Zenon
      <4>7. Occurs(doc, i, h \o g[q])
        <5>1. g[q] \in Seq(D)
          BY <1>6, <4>3, Zenon DEF DechunkTable
        <5>2. i \in Nat
          BY <3>1
        <5> QED
          BY <1>4, <4>4, <4>5, <4>6, <5>1, <5>2, OccursConcat, Zenon
      <4>8. Lo(i) = i
        BY <1>7, <3>1 DEF Lo
      <4> QED
        BY <4>2, <4>7, <4>8, Zenon
    <3> QED
      BY <3>7, <3>8, Zenon
  <2> QED
    BY <1>7, <2>1, <2>3, <2>4
<1>10. 1 \in T
  <2>1. T \in SUBSET (1 .. top + 1)
    BY Zenon
  <2>2. 1 \in 1 .. top + 1
    BY <1>7
  <2> HIDE DEF T
  <2> QED
    BY <1>7, <1>9, <2>1, <2>2, Downward, Zenon
<1>11. Occurs(C, 1, f[1])
  BY <1>2, <1>3, OccursSelf, Zenon
<1>12. 1 \in 1 .. Len(b) + 1 /\ Lo(1) = 1
  BY <1>5, <1>7
<1>13. Occurs(doc, 1, g[1])
  BY <1>10, <1>11, <1>12, Zenon
<1> QED
  BY <1>6, <1>12, <1>13, Zenon DEF D, DechunkTable

\* What the engine takes for a document is a start of it.
LEMMA ArrivesAsStart ==
    ASSUME NEW S, NEW doc \in Seq(S), \A e \in S : e.tag # "size", NEW x, Arrives(doc, x)
    PROVE  Occurs(doc, 1, x) /\ x \in Seq(Cells(S))
<1>1. \A s \in Seq(S) : s \in Seq(Cells(S))
  BY DEF Cells
<1>2. CASE x = doc
  BY <1>1, <1>2, OccursSelf, Zenon
<1>3. CASE x = <<>>
  BY <1>3 DEF Occurs
<1>4. ASSUME NEW b \in RecvAll(doc), x = b
      PROVE  Occurs(doc, 1, x) /\ x \in Seq(Cells(S))
  <2>1. PICK m \in 0 .. Len(doc) : b = SubSeq(doc, 1, m)
    BY Zenon DEF RecvAll
  <2>2. /\ b \in Seq(S) /\ Len(b) = m /\ Len(doc) \in Nat
        /\ \A k \in 1 .. m : b[k] = doc[k]
    BY <2>1
  <2>3. Occurs(doc, 1, b)
    BY <2>2 DEF Occurs
  <2> QED
    BY <1>1, <1>4, <2>2, <2>3, Zenon
<1>5. ASSUME NEW b \in RecvAll(Chunked(doc, ChunkSize)), x = Dechunk(b)
      PROVE  Occurs(doc, 1, x) /\ x \in Seq(Cells(S))
  <2>1. ChunkSize \in Nat /\ ChunkSize > 0
    BY DEF ChunkSize
  <2> QED
    BY <1>5, <2>1, DechunkedIsStart, Zenon
<1>6. \/ x = doc \/ x = <<>>
      \/ \E b \in RecvAll(doc) : x = b
      \/ \E b \in RecvAll(Chunked(doc, ChunkSize)) : x = Dechunk(b)
  <2>1. \A b : ParseHttpResponse("plain", b) = b /\ ParseHttpResponse("chunked", b) = Dechunk(b)
    BY Zenon DEF ParseHttpResponse
  <2>2. \/ x = doc \/ x = <<>>
        \/ \E b \in RecvAll(doc) : x = ParseHttpResponse("plain", b)
        \/ \E b \in RecvAll(Chunked(doc, ChunkSize)) : x = ParseHttpResponse("chunked", b)
    BY SMT DEF Received, Arrives
  <2> QED
    BY <2>1, <2>2, Zenon
<1> QED
  BY <1>2, <1>3, <1>4, <1>5, <1>6, Zenon

-----------------------------------------------------------------------------
(* The app list                                                            *)

AppInfos == [id : Nat, title : Titles]

\* The elements of an entry as a host writes it.
AppPart(a) ==
    <<Element("App", ""), Element("AppTitle", a.title)>>
        \o (IF a.id > 0 THEN <<Element("ID", a.id)>> ELSE <<>>)
        \o <<Element("/App", "")>>

AppCells ==
    {Element("App", ""), Element("/App", ""), Element("root", "200")}
        \cup {Element("AppTitle", t) : t \in Titles} \cup {Element("ID", k) : k \in Nat}

\* The entry of an app: it opens first and closes last, and says the app's
\* title and, if at all, its id.
EntryOf(p, a) ==
    /\ p \in Seq(AppCells) /\ Len(p) \in Nat /\ Len(p) > 1
    /\ p[Len(p)].tag = "/App"
    /\ \A k \in 1 .. Len(p) : /\ p[k].tag = "App" => k = 1
                              /\ p[k].tag = "ID" => p[k].val = a.id
                              /\ p[k].tag = "AppTitle" => p[k].val = a.title

\* r is s and one more element, x.
Longer(S, r, s, x) ==
    /\ r \in Seq(S) /\ Len(r) = Len(s) + 1 /\ r[Len(s) + 1] = x
    /\ \A k \in 1 .. Len(s) : r[k] = s[k]

\* One more element.
LEMMA OneMore ==
    ASSUME NEW S, NEW s \in Seq(S), NEW x \in S
    PROVE  Longer(S, s \o <<x>>, s, x)
BY DEF Longer

\* The elements of an entry are of that kind.
LEMMA AppPartIs ==
    ASSUME NEW a \in AppInfos
    PROVE  EntryOf(AppPart(a), a)
<1> DEFINE o == Element("App", "")
           t == Element("AppTitle", a.title)
           d == Element("ID", a.id)
           c == Element("/App", "")
<1>1. o.tag = "App" /\ t.tag = "AppTitle" /\ t.val = a.title
      /\ d.tag = "ID" /\ d.val = a.id /\ c.tag = "/App"
  BY DEF Element
<1>2. a.id \in Nat /\ a.title \in Titles
  BY DEF AppInfos
<1>3. o \in AppCells /\ t \in AppCells /\ d \in AppCells /\ c \in AppCells
  BY <1>2, Zenon DEF AppCells
<1> HIDE DEF o, t, d, c
<1> DEFINE p == AppPart(a)
<1>4. CASE a.id > 0
  <2>1. p = <<o, t>> \o <<d>> \o <<c>>
    BY <1>4, Zenon DEF AppPart, o, t, d, c
  <2> DEFINE q == <<o, t>>
             r == q \o <<d>>
  <2>2. q \in Seq(AppCells) /\ Len(q) = 2 /\ q[1] = o /\ q[2] = t
    BY <1>3
  <2> HIDE DEF q
  <2>3. r \in Seq(AppCells) /\ Len(r) = 3 /\ r[1] = o /\ r[2] = t /\ r[3] = d
    <3>1. Longer(AppCells, r, q, d)
      BY <1>3, <2>2, OneMore, Zenon
    <3> HIDE DEF r
    <3> QED
      BY <2>2, <3>1 DEF Longer
  <2> HIDE DEF p, r
  <2>4. /\ p \in Seq(AppCells) /\ Len(p) = 4
        /\ p[1] = o /\ p[2] = t /\ p[3] = d /\ p[4] = c
    <3>1. p = r \o <<c>>
      BY <2>1, Zenon DEF r, q
    <3>2. Longer(AppCells, p, r, c)
      BY <1>3, <2>3, <3>1, OneMore, Zenon
    <3> QED
      BY <2>3, <3>2 DEF Longer
  <2>5. \A k \in 1 .. Len(p) : k = 1 \/ k = 2 \/ k = 3 \/ k = 4
    BY <2>4
  <2>6. EntryOf(p, a)
    <3>1. Len(p) \in Nat /\ Len(p) > 1 /\ p[Len(p)] = c
      BY <2>4
    <3>2. p[Len(p)].tag = "/App"
      BY <1>1, <3>1, Zenon
    <3>3. ASSUME NEW k \in 1 .. Len(p)
          PROVE  /\ p[k].tag = "App" => k = 1
                 /\ p[k].tag = "ID" => p[k].val = a.id
                 /\ p[k].tag = "AppTitle" => p[k].val = a.title
      BY <1>1, <2>4, <2>5
    <3> QED
      BY <2>4, <3>1, <3>2, <3>3, Zenon DEF EntryOf
  <2> QED
    BY <2>6, Zenon DEF p
<1>5. CASE ~(a.id > 0)
  <2>1. p = <<o, t>> \o <<>> \o <<c>>
    BY <1>5, Zenon DEF AppPart, o, t, c
  <2> DEFINE q == <<o, t>>
             r == q \o <<>>
  <2>2. q \in Seq(AppCells) /\ Len(q) = 2 /\ q[1] = o /\ q[2] = t
    BY <1>3
  <2> HIDE DEF q
  <2>3. r \in Seq(AppCells) /\ Len(r) = 2 /\ r[1] = o /\ r[2] = t
    BY <2>2
  <2> HIDE DEF p, r
  <2>4. /\ p \in Seq(AppCells) /\ Len(p) = 3
        /\ p[1] = o /\ p[2] = t /\ p[3] = c
    <3>1. p = r \o <<c>>
      BY <2>1, Zenon DEF r, q
    <3>2. Longer(AppCells, p, r, c)
      BY <1>3, <2>3, <3>1, OneMore, Zenon
    <3> QED
      BY <2>3, <3>2 DEF Longer
  <2>5. \A k \in 1 .. Len(p) : k = 1 \/ k = 2 \/ k = 3
    BY <2>4
  <2>6. EntryOf(p, a)
    <3>1. Len(p) \in Nat /\ Len(p) > 1 /\ p[Len(p)] = c
      BY <2>4
    <3>2. p[Len(p)].tag = "/App"
      BY <1>1, <3>1, Zenon
    <3>3. ASSUME NEW k \in 1 .. Len(p)
          PROVE  /\ p[k].tag = "App" => k = 1
                 /\ p[k].tag = "ID" => p[k].val = a.id
                 /\ p[k].tag = "AppTitle" => p[k].val = a.title
      BY <1>1, <2>4, <2>5
    <3> QED
      BY <2>4, <3>1, <3>2, <3>3, Zenon DEF EntryOf
  <2> QED
    BY <2>6, Zenon DEF p
<1> QED
  BY <1>4, <1>5, Zenon

\* The answer to an applist request.
AppList(apps) == Answer("200", AppElements(apps))

\* No element of it is a size.
LEMMA AppCellTags ==
    /\ \A e \in AppCells : e.tag # "size"
    /\ Element("root", "200").tag = "root"
<1>1. \A tag, val : Element(tag, val).tag = tag
  BY DEF Element
<1>2. "App" # "size" /\ "/App" # "size" /\ "root" # "size" /\ "AppTitle" # "size" /\ "ID" # "size"
  OBVIOUS
<1> QED
  BY <1>1, <1>2, Zenon DEF AppCells

\* Where an <App> stands in an app list, the entry of an app of the list does.
LEMMA AppListIs ==
    ASSUME NEW apps \in Seq(AppInfos)
    PROVE  /\ AppList(apps) \in Seq(AppCells)
           /\ \A i \in 1 .. Len(AppList(apps)) : AppList(apps)[i].tag = "App" =>
                 \E a \in 1 .. Len(apps) : \E p :
                     EntryOf(p, apps[a]) /\ Occurs(AppList(apps), i, p)
<1> DEFINE seqs == [a \in 1 .. Len(apps) |-> AppPart(apps[a])]
           F    == FlattenSeq(seqs)
           root == Element("root", "200")
           doc  == <<root>> \o F
<1>1. AppList(apps) = doc
  <2>1. AppElements(apps) = F
    BY Zenon DEF AppElements, AppPart
  <2> QED
    BY <2>1, Zenon DEF AppList, Answer
<1>2. \A a \in 1 .. Len(apps) : apps[a] \in AppInfos
  OBVIOUS
<1>3. \A a \in 1 .. Len(apps) : EntryOf(AppPart(apps[a]), apps[a])
  BY <1>2, AppPartIs, Zenon
<1>4. /\ seqs \in Seq(Seq(AppCells)) /\ Len(seqs) = Len(apps) /\ Len(apps) \in Nat
      /\ \A a \in 1 .. Len(apps) : seqs[a] = AppPart(apps[a])
  <2>1. \A a \in 1 .. Len(apps) : AppPart(apps[a]) \in Seq(AppCells)
    BY <1>3, Zenon DEF EntryOf
  <2> QED
    BY <2>1
<1> HIDE DEF seqs
<1>5. F \in Seq(AppCells)
  BY <1>4, FlattenTyped, Zenon
<1>6. PICK off : Layout(F, seqs, off)
  BY <1>4, FlattenLayout, Zenon
<1> HIDE DEF F
<1>7. root \in AppCells /\ root.tag = "root"
  BY AppCellTags, Zenon DEF AppCells
<1> HIDE DEF root
<1>8. /\ doc \in Seq(AppCells) /\ Len(doc) = Len(F) + 1 /\ doc[1] = root
      /\ Len(F) \in Nat /\ \A k \in 1 .. Len(F) : doc[k + 1] = F[k]
  BY <1>5, <1>7
<1> HIDE DEF doc
<1>9. ASSUME NEW i \in 1 .. Len(doc), doc[i].tag = "App"
      PROVE  \E a \in 1 .. Len(apps) : \E p : EntryOf(p, apps[a]) /\ Occurs(doc, i, p)
  <2>1. i # 1
    BY <1>7, <1>8, <1>9
  <2> DEFINE k == i - 1
  <2>2. k \in 1 .. Len(F) /\ k + 1 = i /\ doc[i] = F[k]
    BY <1>8, <2>1
  <2>3. PICK a \in 1 .. Len(seqs) : off[a] <= k /\ k < off[a + 1]
    BY <1>4, <1>6, <1>8, <2>2, LayoutCovers, Zenon
  <2> DEFINE p == seqs[a]
  <2>4. a \in 1 .. Len(apps) /\ EntryOf(p, apps[a])
    BY <1>3, <1>4, <2>3, Zenon
  <2>5. /\ off[a] \in Nat /\ off[a + 1] = off[a] + Len(p) /\ Occurs(F, off[a], p)
        /\ Len(p) \in Nat
    <3>1. a \in 1 .. Len(seqs) + 1
      BY <1>4, <2>3
    <3> QED
      BY <1>6, <2>3, <2>4, <3>1, Zenon DEF Layout, EntryOf
  <2> HIDE DEF p, k
  <2> DEFINE n == k - off[a] + 1
  <2>6. n \in 1 .. Len(p) /\ off[a] + n - 1 = k
    <3>1. off[a] <= k /\ k < off[a] + Len(p) /\ off[a] \in Nat /\ Len(p) \in Nat /\ k \in Nat
      <4>1. k \in Nat
        BY <2>2
      <4> QED
        BY <2>3, <2>5, <4>1, Zenon
    <3> QED
      BY <3>1
  <2>7. F[k] = p[n]
    BY <2>5, <2>6 DEF Occurs
  <2>8. n = 1
    BY <1>9, <2>2, <2>4, <2>6, <2>7, Zenon DEF EntryOf
  <2>9. off[a] = k
    BY <2>2, <2>5, <2>8
  <2>10. Occurs(F, k, p)
    BY <2>5, <2>9, Zenon
  <2>11. Occurs(doc, i, p)
    <3>1. k + Len(p) <= Len(F) + 1
      BY <2>10, Zenon DEF Occurs
    <3>2. i + Len(p) <= Len(doc) + 1
      BY <1>8, <2>2, <2>5, <3>1
    <3>3. ASSUME NEW m \in 1 .. Len(p) PROVE doc[i + m - 1] = p[m]
      <4>1. F[k + m - 1] = p[m]
        BY <2>10, Zenon DEF Occurs
      <4>2. k + m - 1 \in 1 .. Len(F) /\ (k + m - 1) + 1 = i + m - 1
        BY <1>8, <2>2, <2>5, <3>1
      <4> QED
        BY <1>8, <4>1, <4>2
    <3> QED
      BY <3>2, <3>3, Zenon DEF Occurs
  <2> QED
    BY <2>4, <2>11, Zenon
<1> QED
  BY <1>1, <1>8, <1>9, Zenon

\* What xml_text finds in a start of p is what p says under that tag, or nothing.
LEMMA TextOfStart ==
    ASSUME NEW S, NEW b \in Seq(S), NEW p, Len(p) \in Nat, Occurs(p, 1, b), NEW tag, NEW ifAbsent
    PROVE  \/ XmlText(b, tag, ifAbsent) = ifAbsent
           \/ \E k \in 1 .. Len(p) : p[k].tag = tag /\ XmlText(b, tag, ifAbsent) = p[k].val
<1> DEFINE at == {i \in 1 .. Len(b) : b[i].tag = tag}
<1>1. CASE at = {}
  BY <1>1, Zenon DEF XmlText
<1>2. CASE at # {}
  <2> DEFINE k == Min(at)
  <2>1. XmlText(b, tag, ifAbsent) = b[k].val
    BY <1>2, Zenon DEF XmlText
  <2>2. at \in SUBSET Nat
    OBVIOUS
  <2>3. k \in at
    <3> HIDE DEF at
    <3> QED
      BY <1>2, <2>2, MinNat, Zenon
  <2>4. k \in 1 .. Len(b) /\ b[k].tag = tag
    BY <2>3, Zenon
  <2> HIDE DEF k
  <2>5. k \in 1 .. Len(p) /\ b[k] = p[k]
    <3>1. Len(b) \in Nat /\ 1 + k - 1 = k
      BY <2>4
    <3>2. p[1 + k - 1] = b[k] /\ 1 + Len(b) <= Len(p) + 1
      BY <2>4, Zenon DEF Occurs
    <3> QED
      BY <2>4, <3>1, <3>2
  <2> QED
    BY <2>1, <2>4, <2>5, Zenon
<1> QED
  BY <1>1, <1>2, Zenon

\* An entry that is looked at, in a document that may be cut, is a start of the
\* entry that the host wrote there: it never reaches into the next one.
LEMMA BlockIsStart ==
    ASSUME NEW S, NEW x \in Seq(S), NEW doc, Len(doc) \in Nat, Occurs(doc, 1, x),
           NEW i \in 1 .. Len(x), NEW p, NEW a, EntryOf(p, a), Occurs(doc, i, p)
    PROVE  Block(x, i) \in Seq(S) /\ Occurs(p, 1, Block(x, i))
<1> DEFINE ends == {j \in i + 1 .. Len(x) : x[j].tag = "/App"}
           e    == IF ends = {} THEN Len(x) ELSE Min(ends)
           c    == i + Len(p) - 1
<1>1. /\ Len(x) \in Nat /\ Len(p) \in Nat /\ Len(p) > 1 /\ p[Len(p)].tag = "/App"
      /\ Len(x) <= Len(doc)
  BY DEF EntryOf, Occurs
<1>2. \A k \in 1 .. Len(x) : x[k] = doc[k]
  BY DEF Occurs
<1>3. \A k \in 1 .. Len(p) : doc[i + k - 1] = p[k]
  BY Zenon DEF Occurs
<1>4. c \in Nat /\ i < c
  BY <1>1
<1>5. ASSUME c <= Len(x) PROVE c \in ends
  <2>1. c \in i + 1 .. Len(x) /\ c \in 1 .. Len(x)
    BY <1>1, <1>4, <1>5
  <2>2. doc[c] = p[Len(p)]
    <3>1. Len(p) \in 1 .. Len(p)
      BY <1>1
    <3> QED
      BY <1>3, <3>1, Zenon
  <2>3. x[c] = p[Len(p)]
    BY <1>2, <2>1, <2>2, Zenon
  <2>4. x[c].tag = "/App"
    BY <1>1, <2>3, Zenon
  <2> HIDE DEF c
  <2> QED
    BY <2>1, <2>4, Zenon
<1> HIDE DEF c
<1>6. e \in Nat /\ i <= e /\ e <= Len(x) /\ e <= c
  <2>1. CASE ends = {}
    <3>1. e = Len(x)
      BY <2>1, Zenon
    <3>2. ~(c <= Len(x))
      BY <1>5, <2>1, Zenon
    <3> HIDE DEF e
    <3> QED
      BY <1>1, <1>4, <3>1, <3>2
  <2>2. CASE ends # {}
    <3>1. e = Min(ends)
      BY <2>2, Zenon
    <3>2. ends \in SUBSET Nat
      BY <1>1
    <3>3. Min(ends) \in ends /\ \A y \in ends : Min(ends) <= y
      <4> HIDE DEF ends
      <4> QED
        BY <2>2, <3>2, MinNat, Zenon
    <3>4. e \in i + 1 .. Len(x) /\ (c <= Len(x) => e <= c)
      <4>1. e \in ends /\ (c \in ends => e <= c)
        BY <3>1, <3>3, Zenon
      <4> QED
        BY <1>5, <4>1, Zenon
    <3> HIDE DEF e
    <3> QED
      BY <1>1, <1>4, <3>4
  <2> QED
    BY <2>1, <2>2, Zenon
<1>7. Block(x, i) = SubSeq(x, i, e)
  BY Zenon DEF Block
<1> HIDE DEF e
<1> DEFINE b == SubSeq(x, i, e)
<1>8. /\ b \in Seq(S) /\ Len(b) = e - i + 1
      /\ \A k \in 1 .. e - i + 1 : b[k] = x[i + k - 1]
  <2>1. i \in Nat /\ i >= 1 /\ e \in Nat /\ i <= e /\ e <= Len(x) /\ x \in Seq(S)
    BY <1>6
  <2> QED
    BY <2>1
<1> HIDE DEF b
<1>9. Len(b) \in Nat /\ Len(b) <= Len(p)
  BY <1>1, <1>6, <1>8 DEF c
<1>10. ASSUME NEW k \in 1 .. Len(b) PROVE p[1 + k - 1] = b[k]
  <2>1. k \in 1 .. Len(p) /\ k \in 1 .. e - i + 1 /\ i + k - 1 \in 1 .. Len(x) /\ 1 + k - 1 = k
    BY <1>1, <1>6, <1>8, <1>9
  <2>2. b[k] = x[i + k - 1] /\ x[i + k - 1] = doc[i + k - 1] /\ doc[i + k - 1] = p[k]
    BY <1>2, <1>3, <1>8, <2>1, Zenon
  <2> QED
    BY <2>1, <2>2
<1>11. 1 + Len(b) <= Len(p) + 1
  BY <1>1, <1>9
<1>12. Occurs(p, 1, b)
  BY <1>10, <1>11, Zenon DEF Occurs
<1> QED
  BY <1>7, <1>8, <1>12, Zenon DEF b

\* The apps of a list, by id and title.
Listing(apps) == {[id |-> apps[a].id, title |-> apps[a].title] : a \in 1 .. Len(apps)}

\* A usable entry of what was received of an app list is an app of the list.
LEMMA EntryIsListed ==
    ASSUME NEW apps \in Seq(AppInfos), NEW x, Arrives(AppList(apps), x),
           NEW i \in 1 .. Len(x), Opens(x, i), Usable(Entry(x, i))
    PROVE  Entry(x, i) \in Listing(apps)
<1> DEFINE doc == AppList(apps)
           C   == Cells(AppCells)
<1>1. doc \in Seq(AppCells) /\ Len(doc) \in Nat
  <2>1. doc \in Seq(AppCells)
    BY AppListIs, Zenon
  <2> HIDE DEF doc
  <2> QED
    BY <2>1
<1>2. Occurs(doc, 1, x) /\ x \in Seq(C)
  BY <1>1, AppCellTags, ArrivesAsStart, Zenon
<1> HIDE DEF doc, C
<1>3. i \in 1 .. Len(doc) /\ doc[i] = x[i]
  BY <1>1, <1>2 DEF Occurs
<1>4. doc[i].tag = "App"
  BY <1>3, Zenon DEF Opens
<1>5. PICK a \in 1 .. Len(apps) : \E p : EntryOf(p, apps[a]) /\ Occurs(doc, i, p)
  BY <1>3, <1>4, AppListIs, Zenon DEF doc
<1>6. PICK p : EntryOf(p, apps[a]) /\ Occurs(doc, i, p)
  BY <1>5, Zenon
<1> DEFINE b == Block(x, i)
<1>7. b \in Seq(C) /\ Occurs(p, 1, b)
  BY <1>1, <1>2, <1>6, BlockIsStart, Zenon
<1> HIDE DEF b
<1>8. Len(p) \in Nat
  BY <1>6, Zenon DEF EntryOf
<1>9. XmlText(b, "ID", 0) = 0 \/ XmlText(b, "ID", 0) = apps[a].id
  <2>1. \/ XmlText(b, "ID", 0) = 0
        \/ \E k \in 1 .. Len(p) : p[k].tag = "ID" /\ XmlText(b, "ID", 0) = p[k].val
    BY <1>7, <1>8, TextOfStart
  <2> QED
    BY <1>6, <2>1, Zenon DEF EntryOf
<1>10. XmlText(b, "AppTitle", NoTitle) = NoTitle \/ XmlText(b, "AppTitle", NoTitle) = apps[a].title
  <2>1. \/ XmlText(b, "AppTitle", NoTitle) = NoTitle
        \/ \E k \in 1 .. Len(p) :
              p[k].tag = "AppTitle" /\ XmlText(b, "AppTitle", NoTitle) = p[k].val
    BY <1>7, <1>8, TextOfStart
  <2> QED
    BY <1>6, <2>1, Zenon DEF EntryOf
<1> DEFINE v == XmlText(b, "ID", 0)
           t == XmlText(b, "AppTitle", NoTitle)
<1>11. Entry(x, i) = [id |-> v, title |-> t]
  BY Zenon DEF Entry, b
<1> HIDE DEF v, t
<1>12. Entry(x, i).id = v /\ Entry(x, i).title = t
  BY <1>11
<1>13. ~(0 > 0)
  OBVIOUS
<1>14. v # 0 /\ t # NoTitle
  BY <1>12, <1>13, Zenon DEF Usable
<1>15. v = apps[a].id /\ t = apps[a].title
  BY <1>9, <1>10, <1>14, Zenon DEF v, t
<1> QED
  BY <1>11, <1>15, Zenon DEF Listing

\* parse_app_list gives apps of the host's list, however the answer was cut.
LEMMA ParsedIsListed ==
    ASSUME NEW apps \in Seq(AppInfos), NEW x, Arrives(AppList(apps), x)
    PROVE  ParseAppList(x) \in Seq(Listing(apps))
<1> DEFINE L == Listing(apps)
           part(i) == IF Opens(x, i) /\ Usable(Entry(x, i)) THEN <<Entry(x, i)>> ELSE <<>>
           seqs == [i \in 1 .. Len(x) |-> part(i)]
<1>1. Len(x) \in Nat
  <2>1. AppList(apps) \in Seq(AppCells)
    BY AppListIs, Zenon
  <2>2. x \in Seq(Cells(AppCells))
    BY <2>1, AppCellTags, ArrivesAsStart, Zenon
  <2> QED
    BY <2>2
<1>2. ASSUME NEW i \in 1 .. Len(x) PROVE part(i) \in Seq(L)
  <2>1. \A e \in L : <<e>> \in Seq(L)
    OBVIOUS
  <2>2. <<>> \in Seq(L)
    OBVIOUS
  <2>3. CASE Opens(x, i) /\ Usable(Entry(x, i))
    BY <2>1, <2>3, EntryIsListed, Zenon
  <2>4. CASE ~(Opens(x, i) /\ Usable(Entry(x, i)))
    BY <2>2, <2>4, Zenon
  <2> QED
    BY <2>3, <2>4, Zenon
<1>3. ParseAppList(x) = FlattenSeq(seqs)
  BY Zenon DEF ParseAppList
<1> HIDE DEF L, part
<1>4. seqs \in Seq(Seq(L))
  BY <1>1, <1>2
<1> HIDE DEF seqs
<1>5. FlattenSeq(seqs) \in Seq(L)
  BY <1>4, FlattenTyped, Zenon
<1> QED
  BY <1>3, <1>5, Zenon DEF L

\* An app with this id and this title is among the apps.
Offers(apps, id, word) ==
    \E a \in 1 .. Len(apps) : apps[a].id = id /\ apps[a].title.word = word

\* A name that is resolved against what was received of a host's app list, in
\* whatever state it arrived, is the title of an app with that id on the host.
THEOREM NameResolvesOnHost ==
    ASSUME NEW apps \in Seq(AppInfos), NEW x, Arrives(AppList(apps), x), NEW ref,
           Leading[ref.word] = 0, ~(ResolveAppId(ParseAppList(x), ref) <= 0)
    PROVE  Offers(apps, ResolveAppId(ParseAppList(x), ref), ref.word)
<1> DEFINE list == ParseAppList(x)
           matches == {i \in 1 .. Len(list) : list[i].title.word = ref.word}
           id == ResolveAppId(list, ref)
<1>1. list \in Seq(Listing(apps))
  BY ParsedIsListed, Zenon
<1> HIDE DEF list
<1>2. 0 <= 0 /\ ~(0 > 0)
  OBVIOUS
<1>3. matches # {} /\ id = list[Min(matches)].id
  BY <1>2, Zenon DEF ResolveAppId, list
<1>4. matches \in SUBSET Nat
  BY <1>1
<1>5. Min(matches) \in matches
  <2> HIDE DEF matches
  <2> QED
    BY <1>3, <1>4, MinNat, Zenon
<1>6. PICK k \in 1 .. Len(list) : list[k].title.word = ref.word /\ id = list[k].id
  BY <1>3, <1>5, Zenon
<1>7. list[k] \in Listing(apps)
  BY <1>1
<1>8. PICK a \in 1 .. Len(apps) : list[k] = [id |-> apps[a].id, title |-> apps[a].title]
  BY <1>7, Zenon DEF Listing
<1>9. list[k].id = apps[a].id /\ list[k].title = apps[a].title
  BY <1>8
<1> QED
  BY <1>6, <1>9, Zenon DEF list, Offers

-----------------------------------------------------------------------------
(* A name starts its own app                                               *)

\* The job's id and title are those of an app on m.
NamedOn(m, j) == Offers(Apps[m], j.id, j.ref.word)

\* When client.start is about to launch an app it was given by name, it has the
\* id of an app of that name on the pinned machine.
NameInv == pc = "launch" /\ Leading[job.ref.word] = 0 => NamedOn(pin, job)

\* An answer that did not arrive has no good status.
LEMMA NothingIsNotOk == ~StatusOk(<<>>)
<1> DEFINE at == {i \in 1 .. Len(<<>>) : <<>>[i].tag = "root"}
<1>1. at = {}
  OBVIOUS
<1>2. XmlText(<<>>, "root", "") = ""
  BY <1>1, Zenon DEF XmlText
<1> QED
  BY <1>2, Zenon DEF StatusOk

\* A job keeps its reference when its id is set.
LEMMA JobKeepsRef ==
    ASSUME NEW j, JobShape(j), NEW x
    PROVE  [j EXCEPT !.id = x].ref = j.ref /\ [j EXCEPT !.id = x].id = x
<1> DEFINE k == [j EXCEPT !.id = x]
<1>1. k = [name |-> j.name, ref |-> j.ref, settings |-> j.settings, id |-> x, game |-> j.game]
  BY DEF JobShape
<1>2. k.ref = j.ref /\ k.id = x
  BY <1>1
<1> QED
  BY <1>2, Zenon

\* A machine answers an applist request with its list.
LEMMA AppListAnswer ==
    ASSUME NEW m
    PROVE  OnApplist(m).xml = AppList(Apps[m])
<1>1. \A h, x : Reply(h, x).xml = x
  BY DEF Reply
<1>2. OnApplist(m) = Reply(hosts[m], AppList(Apps[m]))
  BY Zenon DEF OnApplist, AppList
<1> QED
  BY <1>1, <1>2, Zenon

\* The app list comes from the pinned machine, and so does the id.
LEMMA FetchNames ==
    ASSUME ClientInv, FetchAppList
    PROVE  NameInv'
<1> DEFINE does == [m \in Machines |-> OnApplist(m)]
<1>1. JobShape(job)
  BY Zenon DEF ClientInv, JobInv
<1>2. ASSUME NEW r, Finish(r) PROVE NameInv'
  BY <1>2, JobFinished, Zenon DEF NameInv
<1>3. (\E r : Finish(r)) \/ \E w \in Request(TRUE, pin, does) :
          LET id == ResolveAppId(ParseAppList(w.xml), job.ref)
          IN  StatusOk(w.xml) /\ ~(id <= 0) /\ Step("launch", [job EXCEPT !.id = id])
  BY Zenon DEF FetchAppList, Secured
<1>4. \A m \in Machines : does[m].xml = AppList(Apps[m])
  BY AppListAnswer, Zenon
<1> HIDE DEF does
<1>5. ASSUME NEW w \in Request(TRUE, pin, does), StatusOk(w.xml),
             NEW id, id = ResolveAppId(ParseAppList(w.xml), job.ref), ~(id <= 0),
             Step("launch", [job EXCEPT !.id = id]), pin' = pin
      PROVE  NameInv'
  <2>1. w # [hosts |-> hosts, xml |-> <<>>]
    <3>1. [hosts |-> hosts, xml |-> <<>>].xml = <<>>
      OBVIOUS
    <3> QED
      BY <1>5, <3>1, NothingIsNotOk, Zenon
  <2>2. PICK m \in Machines : TlsOk(pin, m) /\ Arrives(does[m].xml, w.xml)
    BY <2>1, RequestEnds, Zenon
  <2>3. m = pin
    BY <2>2, Zenon DEF TlsOk
  <2>4. Apps[m] \in Seq(AppInfos)
    BY AppsAssumption, Zenon DEF AppInfos
  <2>5. Arrives(AppList(Apps[m]), w.xml)
    BY <1>4, <2>2, Zenon
  <2>6. job'.ref = job.ref /\ job'.id = id
    BY <1>1, <1>5, JobKeepsRef, Zenon DEF Step
  <2>7. ASSUME Leading[job.ref.word] = 0
        PROVE  Offers(Apps[m], id, job.ref.word)
    <3>1. ~(ResolveAppId(ParseAppList(w.xml), job.ref) <= 0)
      BY <1>5, Zenon
    <3>2. Offers(Apps[m], ResolveAppId(ParseAppList(w.xml), job.ref), job.ref.word)
      BY <2>4, <2>5, <2>7, <3>1, NameResolvesOnHost, Zenon
    <3> QED
      BY <1>5, <3>2, Zenon
  <2> QED
    BY <1>5, <2>3, <2>6, <2>7, Zenon DEF NameInv, NamedOn
<1>6. pin' = pin
  BY Zenon DEF FetchAppList
<1> QED
  BY <1>2, <1>3, <1>5, <1>6, Zenon

\* Every step keeps it: no other step comes to the launch with a name, and the
\* pin does not change on the way there.
LEMMA NameStep ==
    ASSUME ClientInv, NameInv, [Next]_clientVars
    PROVE  NameInv'
<1>1. ASSUME pc' # "launch" PROVE NameInv'
  BY <1>1, Zenon DEF NameInv
<1>2. ASSUME pc' = pc, job' = job, pin' = pin PROVE NameInv'
  BY <1>2, Zenon DEF NameInv
<1>3. ASSUME NEW r, Return(r) PROVE NameInv'
  <2>1. pc' = "idle"
    BY <1>3, Zenon DEF Return
  <2> QED
    BY <1>1, <2>1
<1>4. ASSUME NEW r, Finish(r) PROVE NameInv'
  BY <1>3, <1>4, Zenon DEF Finish
<1>5. ASSUME NEW where, NEW a, Goto(where, a), where # "launch" PROVE NameInv'
  BY <1>1, <1>5, Zenon DEF Goto
<1>6. ASSUME NEW r, Cancel(r) PROVE NameInv'
  <2>1. "unpair" # "launch"
    OBVIOUS
  <2> QED
    BY <1>5, <1>6, <2>1, Zenon DEF Cancel
<1>7. /\ "pair1" # "launch" /\ "pair2" # "launch" /\ "pair3" # "launch" /\ "pair4" # "launch"
      /\ "pair5" # "launch" /\ "info" # "launch" /\ "authinfo" # "launch" /\ "apps" # "launch"
      /\ "pairinfo" # "launch"
  OBVIOUS
<1>8. CASE PairStep
  <2>1. CASE PairInfo \/ GetServerCert \/ GetServerCertTimesOut \/ ClientChallenge
    BY <1>3, <1>5, <1>6, <1>7, <2>1, Zenon
       DEF PairInfo, GetServerCert, GetServerCertTimesOut, ClientChallenge
  <2>2. CASE ServerChallengeResp \/ ClientPairingSecret
    BY <1>5, <1>6, <1>7, <2>2, Zenon DEF ServerChallengeResp, JudgeSecret, ClientPairingSecret
  <2>3. CASE PairChallenge \/ Unpair
    BY <1>3, <1>6, <2>3, Zenon DEF PairChallenge, Unpair
  <2> QED
    BY <1>8, <2>1, <2>2, <2>3, Zenon DEF PairStep
<1>9. CASE ClientPair \/ TrustHost
  BY <1>1, <1>3, <1>7, <1>9, Zenon DEF ClientPair, TrustHost
<1>10. ASSUME NEW m, job' = job,
              \/ HostApp(m) \/ HostEdits(m) \/ HostForgets(m) \/ OtherPairs(m) \/ OtherEnds(m)
              \/ Calms
       PROVE  NameInv'
  BY <1>2, <1>10, Zenon DEF HostApp, HostEdits, HostForgets, OtherPairs, OtherEnds, Calms
<1>11. CASE ClientApps \/ ClientStart
  <2>1. (\E r : Finish(r)) \/ \E j : ConnectPairedHost(j)
    BY <1>11, Zenon DEF ClientApps, ClientStart
  <2> QED
    BY <1>1, <1>4, <1>7, <2>1, Zenon DEF ConnectPairedHost
<1>12. CASE ClientStop
  BY <1>2, <1>4, <1>12, Zenon DEF ClientStop
<1>13. CASE InfoHttp
  BY <1>4, <1>5, <1>7, <1>13, Zenon DEF InfoHttp, Step
<1>14. CASE InfoHttps
  <2> DEFINE id == Leading[job.ref.word]
  <2>1. \/ \E r : Finish(r)
        \/ \E y : Step(IF id > 0 THEN "launch" ELSE "apps", [job EXCEPT !.id = id, !.game = y])
    BY <1>14, Zenon DEF InfoHttps
  <2>2. ASSUME NEW y, Step("launch", [job EXCEPT !.id = id, !.game = y]), id > 0
        PROVE  NameInv'
    <3>1. JobShape(job)
      BY Zenon DEF ClientInv, JobInv
    <3>2. job'.ref = job.ref
      <4>1. job' = [job EXCEPT !.id = id, !.game = y]
        BY <2>2, Zenon DEF Step
      <4>2. \A x : [job EXCEPT !.id = x, !.game = y].ref = job.ref
        BY <3>1, SMT DEF JobShape
      <4> HIDE DEF id
      <4> QED
        BY <4>1, <4>2, Zenon
    <3>3. ~(0 > 0)
      OBVIOUS
    <3> QED
      BY <2>2, <3>2, <3>3, Zenon DEF NameInv
  <2>3. ASSUME NEW y, Step("apps", [job EXCEPT !.id = id, !.game = y])
        PROVE  NameInv'
    BY <1>5, <1>7, <2>3, Zenon DEF Step
  <2> HIDE DEF id
  <2> QED
    BY <1>4, <2>1, <2>2, <2>3, Zenon
<1>15. CASE FetchAppList
  BY <1>15, FetchNames, Zenon
<1>16. CASE LaunchOrResume
  BY <1>4, <1>16, Zenon DEF LaunchOrResume
<1>17. CASE UNCHANGED clientVars
  BY <1>2, <1>17, Zenon DEF clientVars, pairVars
<1> QED
  BY <1>8, <1>9, <1>10, <1>11, <1>12, <1>13, <1>14, <1>15, <1>16, <1>17, Zenon
     DEF Next, Pairing, StartStep

\* Whatever client.start is about to launch by name is on the pinned machine.
THEOREM NameInvariant == Spec => []NameInv
<1>1. Init => NameInv
  BY Zenon DEF Init, PairInit, NameInv
<1>2. ClientInv /\ NameInv /\ [Next]_clientVars => NameInv'
  BY NameStep, Zenon
<1> QED
  BY <1>1, <1>2, ClientInvariant, PTL DEF Spec

\* A machine asked to launch or resume runs the app it ran, or the job's.
LEMMA LaunchApps ==
    ASSUME HostsShape, NEW m \in Machines, NEW verb, NEW j
    PROVE  LET g == OnLaunchOrResume(m, LaunchArgs(verb, j)).host
           IN  HostShape(g) /\ (g.app = hosts[m].app \/ g.app = j.id)
<1> DEFINE h   == hosts[m]
           req == LaunchArgs(verb, j)
           g   == OnLaunchOrResume(m, req).host
<1>1. HostShape(h)
  BY DEF HostsShape
<1>2. \A f, x : Reply(f, x).host = f
  BY DEF Reply
<1>3. HostShape(g)
  BY LaunchKeys, Zenon
<1>4. verb = "launch" => req.id = j.id
  BY DEF LaunchArgs
<1>5. req.verb = verb
  BY DEF LaunchArgs
<1> HIDE DEF req
<1>6. \/ verb = "launch" /\ g = [h EXCEPT !.app = req.id, !.key = req.key]
      \/ g = [h EXCEPT !.key = req.key]
      \/ g = h
  BY <1>2, <1>5, Zenon DEF OnLaunchOrResume, Refusal
<1> HIDE DEF g, h
<1>7. CASE verb = "launch" /\ g = [h EXCEPT !.app = req.id, !.key = req.key]
  <2>1. g = [trusts |-> h.trusts, pairing |-> h.pairing, app |-> req.id, key |-> req.key]
    BY <1>1, <1>7, HostExceptTwo, Zenon
  <2>2. g.app = req.id
    BY <2>1
  <2> QED
    BY <1>3, <1>4, <1>7, <2>2, Zenon DEF g, req
<1>8. CASE g = [h EXCEPT !.key = req.key]
  <2>1. g = [trusts |-> h.trusts, pairing |-> h.pairing, app |-> h.app, key |-> req.key]
    BY <1>1, <1>8, HostExcept, Zenon
  <2>2. g.app = h.app
    BY <2>1
  <2> QED
    BY <1>3, <2>2, Zenon DEF g, h, req
<1>9. CASE g = h
  BY <1>3, <1>9, Zenon DEF g, h, req
<1> QED
  BY <1>6, <1>7, <1>8, <1>9, Zenon

\* A machine whose app ends or is started by another client loses the key.
LEMMA HostAppTakesKey ==
    ASSUME HostsShape, NEW m \in Machines, HostApp(m)
    PROVE  \A n \in Machines : hosts'[n] = hosts[n] \/ hosts'[n].key = 0
<1> DEFINE h == hosts[m]
<1>1. HostShape(h)
  BY DEF HostsShape
<1>2. PICK x : hosts' = [hosts EXCEPT ![m] = [h EXCEPT !.app = x, !.key = 0]]
  BY Zenon DEF HostApp
<1> DEFINE g == [h EXCEPT !.app = x, !.key = 0]
<1>3. g = [trusts |-> h.trusts, pairing |-> h.pairing, app |-> x, key |-> 0]
  BY <1>1, HostExceptTwo, Zenon
<1>4. hosts' = [hosts EXCEPT ![m] = g]
  BY <1>2, Zenon
<1> HIDE DEF g, h
<1>5. HostShape(g) /\ g.key = 0
  BY <1>3 DEF HostShape
<1>6. \A n \in Machines : hosts'[n] = IF n = m THEN g ELSE hosts[n]
  BY <1>4, <1>5, MachineChanges, Zenon
<1> QED
  BY <1>5, <1>6, Zenon

\* m got another app, and a key with it, for a job with a name.
Started(m) == hosts'[m].app # hosts[m].app /\ hosts'[m].key # 0 /\ Leading[job.ref.word] = 0

\* Only a launch starts an app with our key, and it starts the one that was named.
LEMMA StartedStep ==
    ASSUME ClientInv, NameInv, Next, NEW m \in Machines, Started(m)
    PROVE  \E i \in 1 .. Len(Apps[m]) :
               Apps[m][i].id = hosts'[m].app /\ Apps[m][i].title.word = job.ref.word
<1>1. HostsShape /\ AttemptInv
  BY Zenon DEF ClientInv
<1>2. Restless \subseteq Machines
  BY MachinesAssumption
<1>3. ~SameKeys /\ hosts' # hosts /\ hosts'[m] # hosts[m] /\ hosts'[m].key # 0
  BY Zenon DEF Started, SameKeys
<1>4. ~PairStep
  BY <1>1, <1>3, PairStepKeeps, Zenon
<1>5. ~ClientPair /\ ~TrustHost /\ ~Calms
  BY <1>3, Zenon DEF ClientPair, TrustHost, Calms
<1>6. ASSUME NEW n \in Restless
      PROVE  ~HostForgets(n) /\ ~OtherPairs(n) /\ ~OtherEnds(n) /\ ~HostEdits(n) /\ ~HostApp(n)
  <2>1. n \in Machines
    BY <1>2, <1>6
  <2> QED
    BY <1>1, <1>3, <2>1, OthersKeep, HostAppTakesKey, Zenon
<1>7. ~ClientApps /\ ~ClientStart /\ ~ClientStop /\ ~InfoHttp /\ ~InfoHttps /\ ~FetchAppList
  BY <1>3, Zenon DEF ClientApps, ClientStart, ClientStop, InfoHttp, InfoHttps, FetchAppList
<1>8. LaunchOrResume
  BY <1>4, <1>5, <1>6, <1>7, Zenon DEF Next, Pairing, StartStep
<1> DEFINE does == [n \in Machines |-> OnLaunchOrResume(n, LaunchArgs(LaunchVerb(job.game), job))]
<1>9. \E w \in Request(TRUE, pin, does) : hosts' = w.hosts
  BY <1>3, <1>8, Zenon DEF LaunchOrResume, Secured
<1>10. Touches(TRUE, pin, does)
  BY <1>9, RequestTouches, Zenon
<1>11. PICK n \in Machines : TlsOk(pin, n) /\ hosts' = [hosts EXCEPT ![n] = does[n].host]
  BY <1>3, <1>10, Zenon DEF Touches
<1>12. PICK g : /\ hosts' = [hosts EXCEPT ![n] = g] /\ HostShape(g)
                /\ g.app = hosts[n].app \/ g.app = job.id
  <2>1. does[n].host = OnLaunchOrResume(n, LaunchArgs(LaunchVerb(job.game), job)).host
    BY Zenon
  <2> QED
    BY <1>1, <1>11, <2>1, LaunchApps, Zenon
<1> HIDE DEF does
<1>13. \A k \in Machines : hosts'[k] = IF k = n THEN g ELSE hosts[k]
  <2>1. HostsShape /\ HostShape(g)
    BY <1>1, <1>12, Zenon
  <2>2. hosts' = [hosts EXCEPT ![n] = g]
    BY <1>12, Zenon
  <2> QED
    BY <2>1, <2>2, MachineChanges, Zenon
<1>14. m = n /\ hosts'[m] = g
  <2>1. m # n => hosts'[m] = hosts[m]
    BY <1>13, Zenon
  <2>2. m = n
    BY <1>3, <2>1, Zenon
  <2> QED
    BY <1>13, <2>2, Zenon
<1>15. m = pin /\ hosts'[m].app = job.id
  BY <1>11, <1>12, <1>14, Zenon DEF TlsOk, Started
<1>16. pc = "launch" /\ Leading[job.ref.word] = 0
  BY <1>8, Zenon DEF LaunchOrResume, Started
<1> QED
  BY <1>15, <1>16, Zenon DEF NameInv, NamedOn, Offers

\* However an app list arrives, a client.start that was given a name starts an
\* app of that name: its id was resolved on the list of the machine it is
\* launched on.
THEOREM NamedAppStarts == Spec => NamedAppIsStarted
<1>1. ClientInv /\ NameInv /\ [Next]_clientVars =>
        [\A m \in Machines :
            hosts'[m].app # hosts[m].app /\ hosts'[m].key # 0 /\ Leading[job.ref.word] = 0 =>
                \E i \in 1 .. Len(Apps[m]) :
                    Apps[m][i].id = hosts'[m].app /\ Apps[m][i].title.word = job.ref.word]_clientVars
  BY StartedStep, Zenon DEF Started
<1> QED
  BY <1>1, ClientInvariant, NameInvariant, PTL DEF Spec, NamedAppIsStarted
=============================================================================
