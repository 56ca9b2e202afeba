-------------------------- MODULE IpcServerProofs --------------------------
(***************************************************************************)
(* Proofs about IpcServer, for any set of emitting threads, any number of  *)
(* requests and events and a pipe of any capacity: IpcInv is inductive,    *)
(* frames arrive whole and in order, and write_locked implements the       *)
(* channel of FrameChannel.                                                *)
(***************************************************************************)
EXTENDS IpcServer, SequenceTheorems, TLAPS

Holding == {"header", "body", "ok", "failed"}

\* write_mu_ excludes: a thread past the lock is the one that holds it.  Only a
\* response can fail while the launcher reads.
LockInv ==
    /\ \A t \in Threads : wr[t].st \in Holding <=> lock = t
    /\ \A e \in Emitters : wr[e].st = "failed" => ~outOpen

\* What each thread is writing, by where it is.
CallInv ==
    /\ wr["main"].st # "idle" <=> pc \in {"helloing", "answering"}
    /\ pc = "helloing" => wr["main"].frame = Hello
    /\ pc = "answering" => \E ok \in BOOLEAN : wr["main"].frame = Res(begun, ok)
    /\ pc \in {"dispatch", "joining", "answering"} => current.id = begun /\ begun > 0
    /\ \A e \in Emitters : wr[e].st # "idle" => wr[e].frame = Event(e, events[e]) /\ events[e] > 0

\* On the wire headers and bodies alternate, counted from the first piece of the
\* frame that the launcher is reading (h = 1: it has the header, r, already), and a
\* body follows its own header.
Part(n) == IF n % 2 = 1 THEN "header" ELSE "body"
FrameBefore(p, r, k) == IF k = 1 THEN r ELSE p[k - 1].frame
ValidWire(p, h, r) ==
    \A k \in 1 .. Len(p) :
        /\ p[k].frame # NoFrame /\ p[k].part = Part(k + h)
        /\ p[k].part = "body" => p[k].frame = FrameBefore(p, r, k)

\* The piece that comes next.
NextPart  == Part(Len(pipe) + 1 + HeaderRead)
LastFrame == FrameBefore(pipe, rx, Len(pipe) + 1)

\* The wire is well formed as far as the launcher has read it and beyond, and a
\* thread between the two pieces of a frame owns its end.
WireInv ==
    /\ ~outOpen => pipe = <<>>
    /\ rx # Garbage /\ FramesIntact
    /\ ValidWire(pipe, HeaderRead, rx)
    /\ outOpen => /\ \A t \in Threads : wr[t].st = "body" =>
                            NextPart = "body" /\ wr[t].frame = LastFrame
                  /\ (\A t \in Threads : wr[t].st # "body") => NextPart = "header"

\* The requests not yet read are numbered from begun + 1 on, in this order and
\* without a gap.
Req(f) == f.kind = "req"
UnreadIn(box, lo, hi) == \A i \in 1 .. Len(box) : Req(box[i]) => box[i].id \in lo .. hi
Rising(box) == \A i, j \in 1 .. Len(box) :
                  i < j /\ Req(box[i]) /\ Req(box[j]) => box[i].id < box[j].id
Unread(box, n) == \E i \in 1 .. Len(box) : Req(box[i]) /\ box[i].id = n
InboxInv ==
    /\ begun <= asked
    /\ UnreadIn(inbox, begun + 1, asked) /\ Rising(inbox)
    /\ pc # "ended" => \A n \in begun + 1 .. asked : Unread(inbox, n)

\* How far thread t has numbered its frames, and whether the last one has yet to
\* enter the pipe or was given up.
Top(t) == IF t = "main" THEN begun ELSE events[t]
Unsent(t) ==
    \/ wr[t].st \in {"want", "header", "body"} /\ wr[t].frame # Hello
    \/ t = "main" /\ pc \in {"dispatch", "joining"}
GivenUp(t) == t = "main" /\ (wr[t].st = "failed" \/ pc = "ended")

\* t's frames in the launcher's log g and, as bodies, on the wire p.
BodyOf(c, t)    == c.part = "body" /\ Of(c.frame, t)
InLog(g, t, n)  == \E i \in 1 .. Len(g) : Of(g[i], t) /\ Num(g[i]) = n
InPipe(p, t, n) == \E k \in 1 .. Len(p) : BodyOf(p[k], t) /\ Num(p[k].frame) = n

\* They lie in order along the log and then the wire, numbered up to top; the
\* numbers in absent are not there yet, and only those in missing may be left out.
LogBelow(g, t, top)  == \A i \in 1 .. Len(g) : Of(g[i], t) => Num(g[i]) \in 1 .. top
PipeBelow(p, t, top) == \A k \in 1 .. Len(p) : BodyOf(p[k], t) => Num(p[k].frame) \in 1 .. top
PipeRising(p, t) == \A k, l \in 1 .. Len(p) :
    k < l /\ BodyOf(p[k], t) /\ BodyOf(p[l], t) => Num(p[k].frame) < Num(p[l].frame)
LogFirst(g, p, t) == \A i \in 1 .. Len(g), k \in 1 .. Len(p) :
    Of(g[i], t) /\ BodyOf(p[k], t) => Num(g[i]) < Num(p[k].frame)
OrderedIn(g, p, t, top, absent, missing) ==
    /\ InOrder(g, t) /\ PipeRising(p, t) /\ LogFirst(g, p, t)
    /\ LogBelow(g, t, top) /\ PipeBelow(p, t, top)
    /\ \A n \in absent : ~InLog(g, t, n) /\ ~InPipe(p, t, n)
    /\ \A n \in 1 .. top : InLog(g, t, n) \/ InPipe(p, t, n) \/ n \in missing

Absent(t)  == {n \in {Top(t)} : Unsent(t)}
Missing(t) == {n \in 1 .. Top(t) : ~outOpen \/ (n = Top(t) /\ (Unsent(t) \/ GivenUp(t)))}
Ordered(t) == OrderedIn(got, pipe, t, Top(t), Absent(t), Missing(t))

OrderInv == \A t \in Threads : Ordered(t)

\* The hello is the first thing on the wire: before it no other thread lives.
NothingWritten == got = <<>> /\ rx = NoFrame /\ pipe = <<>>
OnlyHello ==
    /\ alive = {} /\ \A e \in Emitters : wr[e].st = "idle"
    /\ pc \in {"hello", "helloing", "ended"} /\ wr["main"].st \notin {"body", "ok"}
HelloInv ==
    /\ got # <<>> => got[1] = Hello
    /\ got = <<>> /\ rx # NoFrame => rx = Hello
    /\ got = <<>> /\ rx = NoFrame /\ pipe # <<>> => pipe[1].frame = Hello
    /\ outOpen /\ NothingWritten => OnlyHello

IpcInv == TypeOK /\ LockInv /\ CallInv /\ WireInv /\ InboxInv /\ OrderInv /\ HelloInv

-----------------------------------------------------------------------------
(* The values that flow through the server                                 *)

\* The frames that the engine writes are frames.
LEMMA FrameValues ==
    /\ NoFrame \in Frames /\ Hello \in Frames
    /\ \A n \in Nat, ok \in BOOLEAN : Res(n, ok) \in Frames
    /\ \A e \in Emitters, n \in Nat : Event(e, n) \in Frames
  BY DEF Frames, NoFrame, Hello, Res, Event

\* Their kinds tell them apart.
LEMMA FrameKinds ==
    /\ NoFrame.kind = "none" /\ Hello.kind = "hello" /\ Garbage.kind = "garbage"
    /\ \A n \in Nat, ok \in BOOLEAN : Res(n, ok).kind = "res" /\ Res(n, ok).id = n
    /\ \A e \in Emitters, n \in Nat :
          Event(e, n).kind = "event" /\ Event(e, n).from = e /\ Event(e, n).n = n
  BY DEF NoFrame, Hello, Garbage, Res, Event

\* A write_locked call is a state and a frame.
LEMMA CallValues ==
    /\ Idle \in Calls
    /\ \A f \in Frames, s \in WriteStates : [st |-> s, frame |-> f] \in Calls
    /\ \A c \in Calls : c.st \in WriteStates /\ c.frame \in Frames
  BY FrameValues DEF Calls, Idle, WriteStates

\* Pieces of the wire.
LEMMA PieceValues ==
    \A f \in Frames, s \in {"header", "body"} : [part |-> s, frame |-> f] \in Pieces
  BY DEF Pieces

\* What the launcher sends.
LEMMA InValues ==
    /\ \A k \in {"hello", "noise"} : [kind |-> k] \in InFrames
    /\ \A n \in Nat, m \in Methods : [kind |-> "req", id |-> n, method |-> m] \in InFrames
    /\ \A f \in InFrames : f.kind = "req" => f.id \in Nat /\ f.method \in Methods
  BY DEF InFrames

-----------------------------------------------------------------------------
(* One lemma for each part of the invariant                                *)

\* Every step keeps the values in their sets.
LEMMA TypeStep ==
    ASSUME IpcInv, [Next]_vars PROVE TypeOK'
<1> USE IpcAssumption
    DEF IpcInv, TypeOK, Threads, launcherVars, readerVars, streamVars, Submit, Answer, Reach
<1>1. CASE SendHello
  <2>1. wr' \in [Threads -> Calls]
    BY <1>1, FrameValues, CallValues DEF SendHello, WriteStates
  <2> QED
    BY <2>1, <1>1 DEF SendHello
<1>2. CASE ReadHello
  <2>1. inbox' \in Seq(InFrames)
    BY <1>2, HeadTailProperties DEF ReadHello
  <2> QED
    BY <2>1, <1>2 DEF ReadHello
<1>3. CASE ReadFrame
  <2>1. inbox' \in Seq(InFrames) /\ Head(inbox) \in InFrames
    BY <1>3, HeadTailProperties DEF ReadFrame
  <2>2. current' \in [id : Nat, method : Methods \cup {"none"}]
    BY <2>1, <1>3, InValues DEF ReadFrame
  <2> QED
    BY <2>1, <2>2, <1>3 DEF ReadFrame
<1>4. CASE ReadFails
  BY <1>4 DEF ReadFails
<1>5. CASE HandleStart
  <2>1. wr' \in [Threads -> Calls]
    BY <1>5, FrameValues, CallValues DEF HandleStart, WriteStates
  <2> QED
    BY <2>1, <1>5 DEF HandleStart
<1>6. CASE HandleStop
  BY <1>6 DEF HandleStop
<1>7. CASE StopJoined
  <2>1. wr' \in [Threads -> Calls]
    BY <1>7, FrameValues, CallValues DEF StopJoined, WriteStates
  <2> QED
    BY <2>1, <1>7 DEF StopJoined
<1>8. CASE HandleCall
  <2>1. PICK ok \in BOOLEAN : Answer(ok)
    BY <1>8 DEF HandleCall
  <2>2. wr' \in [Threads -> Calls]
    BY <2>1, FrameValues, CallValues DEF WriteStates
  <2> QED
    BY <2>1, <2>2, <1>8 DEF HandleCall
<1>9. CASE MainWritten
  <2>1. wr' \in [Threads -> Calls]
    BY <1>9, FrameValues, CallValues DEF MainWritten, WriteStates
  <2> QED
    BY <2>1, <1>9 DEF MainWritten
<1>10. ASSUME NEW x \in Threads, Lock(x) PROVE TypeOK'
  <2>1. wr' \in [Threads -> Calls]
    BY <1>10, FrameValues, CallValues DEF Lock, WriteStates
  <2> QED
    BY <2>1, <1>10 DEF Lock
<1>11. ASSUME NEW x \in Threads, WritePiece(x) PROVE TypeOK'
  <2>1. wr' \in [Threads -> Calls]
    BY <1>11, CallValues DEF WritePiece, WriteStates
  <2>2. [part |-> wr[x].st, frame |-> wr[x].frame] \in Pieces
    BY <1>11, CallValues, PieceValues DEF WritePiece
  <2>3. pipe' \in Seq(Pieces)
    BY <2>2, <1>11, AppendProperties DEF WritePiece
  <2> QED
    BY <2>1, <2>3, <1>11 DEF WritePiece
<1>12. ASSUME NEW x \in Threads, WriteFails(x) PROVE TypeOK'
  <2>1. wr' \in [Threads -> Calls]
    BY <1>12, FrameValues, CallValues DEF WriteFails, WriteStates
  <2> QED
    BY <2>1, <1>12 DEF WriteFails
<1>13. ASSUME NEW x \in Emitters, EmitBegins(x) PROVE TypeOK'
  <2> DEFINE n == events[x] + 1
  <2>1. /\ events' = [events EXCEPT ![x] = n] /\ n \in Nat
        /\ wr' = [wr EXCEPT ![x] = [st |-> "want", frame |-> Event(x, n)]]
        /\ UNCHANGED <<pc, current, result, launcherVars, begun, lock, pipe, outOpen,
                       readerVars, alive, stopping>>
    BY <1>13 DEF EmitBegins
  <2>2. wr' \in [Threads -> Calls] /\ events' \in [Emitters -> Nat]
    BY <2>1, FrameValues, CallValues DEF WriteStates
  <2> QED
    BY <2>1, <2>2
<1>14. ASSUME NEW x \in Emitters, EmitReturns(x) PROVE TypeOK'
  <2>1. wr' \in [Threads -> Calls]
    BY <1>14, FrameValues, CallValues DEF EmitReturns, WriteStates
  <2> QED
    BY <2>1, <1>14 DEF EmitReturns
<1>15. ASSUME NEW x \in Emitters, EmitterEnds(x) PROVE TypeOK'
  BY <1>15 DEF EmitterEnds
<1>16. CASE LauncherGreets
  <2>1. inbox' \in Seq(InFrames)
    BY <1>16, AppendProperties, InValues DEF LauncherGreets
  <2> QED
    BY <2>1, <1>16 DEF LauncherGreets
<1>17. CASE LauncherAsks
  <2>1. PICK m \in Methods :
            inbox' = Append(inbox, [kind |-> "req", id |-> asked + 1, method |-> m])
    BY <1>17 DEF LauncherAsks
  <2>2. inbox' \in Seq(InFrames)
    BY <2>1, AppendProperties, InValues
  <2> QED
    BY <2>2, <1>17 DEF LauncherAsks
<1>18. CASE LauncherNoise
  <2>1. inbox' \in Seq(InFrames)
    BY <1>18, AppendProperties, InValues DEF LauncherNoise
  <2> QED
    BY <2>1, <1>18 DEF LauncherNoise
<1>19. CASE LauncherCloses
  BY <1>19 DEF LauncherCloses
<1>20. CASE LauncherDeaf
  <2>1. <<>> \in Seq(Pieces)
    OBVIOUS
  <2> QED
    BY <2>1, <1>20 DEF LauncherDeaf
<1>21. CASE LauncherReads
  <2>1. pipe' \in Seq(Pieces) /\ Head(pipe) \in Pieces
    BY <1>21, HeadTailProperties DEF LauncherReads
  <2>2. Head(pipe).frame \in Frames
    BY <2>1 DEF Pieces
  <2>3. rx' \in Frames \cup {Garbage}
    BY <2>2, <1>21, FrameValues DEF LauncherReads
  <2>4. PICK f \in Frames \cup {Garbage} : got' = got \/ got' = Append(got, f)
    BY <2>2, <1>21 DEF LauncherReads
  <2>5. Append(got, f) \in Seq(Frames \cup {Garbage})
    BY AppendProperties
  <2>6. got' \in Seq(Frames \cup {Garbage})
    BY <2>4, <2>5
  <2> QED
    BY <2>1, <2>3, <2>6, <1>21 DEF LauncherReads
<1>22. CASE UNCHANGED vars
  BY <1>22 DEF vars
<1> QED
  BY <1>1, <1>2, <1>3, <1>4, <1>5, <1>6, <1>7, <1>8, <1>9, <1>10, <1>11, <1>12, <1>13, <1>14,
     <1>15, <1>16, <1>17, <1>18, <1>19, <1>20, <1>21, <1>22
  DEF Next, MainStep, Ended

\* Every step keeps write_mu_ with the thread that is writing.
LEMMA LockStep ==
    ASSUME IpcInv, [Next]_vars PROVE LockInv'
<1> USE IpcAssumption
    DEF IpcInv, TypeOK, LockInv, CallInv, Holding, Threads, launcherVars, readerVars, streamVars,
        Submit, Answer, Reach
<1>1. CASE SendHello
  BY <1>1 DEF SendHello
<1>2. CASE ReadHello
  BY <1>2 DEF ReadHello
<1>3. CASE ReadFrame
  BY <1>3 DEF ReadFrame
<1>4. CASE ReadFails
  BY <1>4 DEF ReadFails
<1>5. CASE HandleStart
  BY <1>5 DEF HandleStart
<1>6. CASE HandleStop
  BY <1>6 DEF HandleStop
<1>7. CASE StopJoined
  BY <1>7 DEF StopJoined
<1>8. CASE HandleCall
  BY <1>8 DEF HandleCall
<1>9. CASE MainWritten
  <2>1. wr' = [wr EXCEPT !["main"] = Idle] /\ lock' = "none" /\ UNCHANGED outOpen
    BY <1>9 DEF MainWritten
  <2> QED
    BY <2>1, <1>9 DEF MainWritten, Idle
<1>10. ASSUME NEW x \in Threads, Lock(x) PROVE LockInv'
  BY <1>10 DEF Lock
<1>11. ASSUME NEW x \in Threads, WritePiece(x) PROVE LockInv'
  BY <1>11 DEF WritePiece
<1>12. ASSUME NEW x \in Threads, WriteFails(x) PROVE LockInv'
  <2>1. wr'[x].st = "failed" /\ \A t \in Threads \ {x} : wr'[t] = wr[t]
    BY <1>12 DEF WriteFails
  <2>2. ASSUME x \in Emitters, wr[x].st # "idle" PROVE wr[x].frame.kind = "event"
    BY <2>2, FrameKinds
  <2> QED
    BY <2>1, <2>2, <1>12 DEF WriteFails
<1>13. ASSUME NEW x \in Emitters, EmitBegins(x) PROVE LockInv'
  BY <1>13 DEF EmitBegins
<1>14. ASSUME NEW x \in Emitters, EmitReturns(x) PROVE LockInv'
  <2> QED
    BY <1>14 DEF EmitReturns, Idle
<1>15. ASSUME NEW x \in Emitters, EmitterEnds(x) PROVE LockInv'
  BY <1>15 DEF EmitterEnds
<1>16. CASE LauncherGreets
  BY <1>16 DEF LauncherGreets
<1>17. CASE LauncherAsks
  BY <1>17 DEF LauncherAsks
<1>18. CASE LauncherNoise
  BY <1>18 DEF LauncherNoise
<1>19. CASE LauncherCloses
  BY <1>19 DEF LauncherCloses
<1>20. CASE LauncherDeaf
  BY <1>20 DEF LauncherDeaf
<1>21. CASE LauncherReads
  BY <1>21 DEF LauncherReads
<1>22. CASE UNCHANGED vars
  BY <1>22 DEF vars
<1> QED
  BY <1>1, <1>2, <1>3, <1>4, <1>5, <1>6, <1>7, <1>8, <1>9, <1>10, <1>11, <1>12, <1>13, <1>14,
     <1>15, <1>16, <1>17, <1>18, <1>19, <1>20, <1>21, <1>22
  DEF Next, MainStep, Ended

\* The first request in the inbox is the one after the last that was handled.
LEMMA FirstRequest ==
    ASSUME IpcInv, pc # "ended", inbox # <<>>, Req(inbox[1])
    PROVE  inbox[1].id = begun + 1
<1>1. /\ inbox \in Seq(InFrames) /\ Len(inbox) \in Nat \ {0} /\ begun \in Nat /\ asked \in Nat
      /\ UnreadIn(inbox, begun + 1, asked) /\ Rising(inbox)
      /\ \A n \in begun + 1 .. asked : Unread(inbox, n)
  BY DEF IpcInv, TypeOK, InboxInv
<1>2. inbox[1].id \in begun + 1 .. asked
  BY <1>1 DEF UnreadIn
<1>3. PICK i \in 1 .. Len(inbox) : Req(inbox[i]) /\ inbox[i].id = begun + 1
  BY <1>1, <1>2 DEF Unread
<1>4. 1 < i => inbox[1].id < inbox[i].id
  BY <1>1, <1>3 DEF Rising
<1> QED
  BY <1>1, <1>2, <1>3, <1>4

\* A frame comes in at the end of the inbox; a request gets the next number.
LEMMA InboxGrows ==
    ASSUME NEW box \in Seq(InFrames), NEW f \in InFrames, NEW lo \in Nat, NEW hi \in Nat,
           UnreadIn(box, lo, hi), Rising(box), NEW hi2 \in Nat,
           IF Req(f) THEN f.id = hi + 1 /\ hi2 = hi + 1 ELSE hi2 = hi
    PROVE  /\ UnreadIn(Append(box, f), lo, hi2) \/ hi + 1 < lo
           /\ Rising(Append(box, f))
           /\ \A n \in Nat : Unread(box, n) => Unread(Append(box, f), n)
           /\ Req(f) => Unread(Append(box, f), f.id)
<1> DEFINE new == Append(box, f)
<1>1. /\ Len(new) = Len(box) + 1 /\ new[Len(box) + 1] = f /\ Len(box) \in Nat
      /\ \A i \in 1 .. Len(box) : new[i] = box[i]
  BY AppendProperties
<1> HIDE DEF new
<1>2. ASSUME NEW i \in 1 .. Len(new), Req(new[i])
      PROVE  (i \in 1 .. Len(box) /\ new[i] = box[i] /\ box[i].id \in lo .. hi)
              \/ (i = Len(box) + 1 /\ new[i].id = hi + 1 /\ hi2 = hi + 1)
  BY <1>1, <1>2 DEF UnreadIn
<1>3. UnreadIn(new, lo, hi2) \/ hi + 1 < lo
  BY <1>2 DEF UnreadIn
<1>4. Rising(new)
  <2> SUFFICES ASSUME NEW i \in 1 .. Len(new), NEW j \in 1 .. Len(new), i < j,
                      Req(new[i]), Req(new[j])
               PROVE  new[i].id < new[j].id
    BY DEF Rising
  <2>1. i \in 1 .. Len(box) /\ new[i] = box[i] /\ box[i].id \in lo .. hi
    BY <1>1, <1>2
  <2>2. CASE j \in 1 .. Len(box)
    BY <1>1, <2>1, <2>2 DEF Rising
  <2>3. CASE j = Len(box) + 1
    BY <1>1, <1>2, <2>1, <2>3
  <2> QED
    BY <1>1, <2>2, <2>3
<1>5. \A n \in Nat : Unread(box, n) => Unread(new, n)
  BY <1>1 DEF Unread
<1>6. Req(f) => Unread(new, f.id)
  BY <1>1 DEF Unread
<1> QED
  BY <1>3, <1>4, <1>5, <1>6 DEF new

\* A frame is taken from the front of the inbox.
LEMMA InboxShrinks ==
    ASSUME NEW box \in Seq(InFrames), box # <<>>, NEW lo \in Nat, NEW hi \in Nat,
           UnreadIn(box, lo, hi), Rising(box)
    PROVE  /\ UnreadIn(Tail(box), lo, hi) /\ Rising(Tail(box))
           /\ Req(box[1]) => UnreadIn(Tail(box), box[1].id + 1, hi)
           /\ \A n \in Nat : Unread(box, n) =>
                  Unread(Tail(box), n) \/ (Req(box[1]) /\ n = box[1].id)
<1> DEFINE new == Tail(box)
<1>1. /\ Len(box) \in Nat \ {0} /\ Len(new) = Len(box) - 1
      /\ \A i \in 1 .. Len(new) : new[i] = box[i + 1] /\ i + 1 \in 1 .. Len(box)
  BY HeadTailProperties
<1> HIDE DEF new
<1>2. UnreadIn(new, lo, hi)
  BY <1>1 DEF UnreadIn
<1>3. ASSUME NEW i \in 1 .. Len(new), NEW j \in 1 .. Len(new), i < j, Req(new[i]), Req(new[j])
      PROVE  new[i].id < new[j].id
  <2>1. i + 1 \in 1 .. Len(box) /\ j + 1 \in 1 .. Len(box) /\ i + 1 < j + 1
    BY <1>1, <1>3
  <2>2. new[i] = box[i + 1] /\ new[j] = box[j + 1]
    BY <1>1
  <2> QED
    BY <1>3, <2>1, <2>2 DEF Rising
<1>4. ASSUME Req(box[1]) PROVE UnreadIn(new, box[1].id + 1, hi)
  <2>1. box[1].id \in lo .. hi
    BY <1>1, <1>4 DEF UnreadIn
  <2> SUFFICES ASSUME NEW i \in 1 .. Len(new), Req(new[i]) PROVE new[i].id \in box[1].id + 1 .. hi
    BY DEF UnreadIn
  <2>2. new[i].id \in lo .. hi
    BY <1>2 DEF UnreadIn
  <2>3. 1 \in 1 .. Len(box) /\ i + 1 \in 1 .. Len(box) /\ 1 < i + 1 /\ new[i] = box[i + 1]
    BY <1>1
  <2>4. box[1].id < new[i].id
    BY <1>4, <2>3 DEF Rising
  <2> QED
    BY <2>1, <2>2, <2>4
<1>5. ASSUME NEW n \in Nat, Unread(box, n)
      PROVE  Unread(new, n) \/ (Req(box[1]) /\ n = box[1].id)
  <2>1. PICK i \in 1 .. Len(box) : Req(box[i]) /\ box[i].id = n
    BY <1>5 DEF Unread
  <2>2. i # 1 => i - 1 \in 1 .. Len(new) /\ new[i - 1] = box[i]
    BY <1>1
  <2> QED
    BY <2>1, <2>2 DEF Unread
<1> QED
  BY <1>2, <1>3, <1>4, <1>5 DEF new, Rising

\* Every step keeps what a thread is writing in line with where it is.
LEMMA CallStep ==
    ASSUME IpcInv, [Next]_vars PROVE CallInv'
<1> USE IpcAssumption
    DEF IpcInv, TypeOK, CallInv, Threads, launcherVars, readerVars, streamVars, Submit, Answer,
        Reach, Idle
<1>1. CASE SendHello
  BY <1>1 DEF SendHello
<1>2. CASE ReadHello
  BY <1>2 DEF ReadHello
<1>3. CASE ReadFrame
  <2>1. inbox[1].kind = "req" => inbox[1].id = begun + 1
    BY <1>3, FirstRequest DEF ReadFrame, Req
  <2> QED
    BY <2>1, <1>3 DEF ReadFrame
<1>4. CASE ReadFails
  BY <1>4 DEF ReadFails
<1>5. CASE HandleStart
  BY <1>5 DEF HandleStart
<1>6. CASE HandleStop
  BY <1>6 DEF HandleStop
<1>7. CASE StopJoined
  <2>1. wr'["main"] = [st |-> "want", frame |-> Res(begun, TRUE)]
    BY <1>7 DEF StopJoined
  <2> QED
    BY <2>1, <1>7 DEF StopJoined
<1>8. CASE HandleCall
  BY <1>8 DEF HandleCall
<1>9. CASE MainWritten
  BY <1>9 DEF MainWritten
<1>10. ASSUME NEW x \in Threads, Lock(x) PROVE CallInv'
  <2>1. /\ \A t \in Threads : /\ wr'[t].frame = wr[t].frame
                              /\ wr'[t].st = "idle" <=> wr[t].st = "idle"
        /\ UNCHANGED <<pc, begun, current, events>>
    BY <1>10 DEF Lock
  <2> QED
    BY <2>1
<1>11. ASSUME NEW x \in Threads, WritePiece(x) PROVE CallInv'
  <2>1. /\ \A t \in Threads : /\ wr'[t].frame = wr[t].frame
                              /\ wr'[t].st = "idle" <=> wr[t].st = "idle"
        /\ UNCHANGED <<pc, begun, current, events>>
    BY <1>11 DEF WritePiece
  <2> QED
    BY <2>1
<1>12. ASSUME NEW x \in Threads, WriteFails(x) PROVE CallInv'
  <2>1. /\ \A t \in Threads : /\ wr'[t].frame = wr[t].frame
                              /\ wr'[t].st = "idle" <=> wr[t].st = "idle"
        /\ UNCHANGED <<pc, begun, current, events>>
    BY <1>12 DEF WriteFails
  <2> QED
    BY <2>1
<1>13. ASSUME NEW x \in Emitters, EmitBegins(x) PROVE CallInv'
  <2> DEFINE n == events[x] + 1
  <2>1. /\ events' = [events EXCEPT ![x] = n] /\ n \in Nat /\ n > 0
        /\ wr' = [wr EXCEPT ![x] = [st |-> "want", frame |-> Event(x, n)]]
        /\ UNCHANGED <<pc, current, begun>>
    BY <1>13 DEF EmitBegins
  <2> QED
    BY <2>1
<1>14. ASSUME NEW x \in Emitters, EmitReturns(x) PROVE CallInv'
  BY <1>14 DEF EmitReturns
<1>15. ASSUME NEW x \in Emitters, EmitterEnds(x) PROVE CallInv'
  BY <1>15 DEF EmitterEnds
<1>16. CASE LauncherGreets
  BY <1>16 DEF LauncherGreets
<1>17. CASE LauncherAsks
  BY <1>17 DEF LauncherAsks
<1>18. CASE LauncherNoise
  BY <1>18 DEF LauncherNoise
<1>19. CASE LauncherCloses
  BY <1>19 DEF LauncherCloses
<1>20. CASE LauncherDeaf
  BY <1>20 DEF LauncherDeaf
<1>21. CASE LauncherReads
  BY <1>21 DEF LauncherReads
<1>22. CASE UNCHANGED vars
  BY <1>22 DEF vars
<1> QED
  BY <1>1, <1>2, <1>3, <1>4, <1>5, <1>6, <1>7, <1>8, <1>9, <1>10, <1>11, <1>12, <1>13, <1>14,
     <1>15, <1>16, <1>17, <1>18, <1>19, <1>20, <1>21, <1>22
  DEF Next, MainStep, Ended

\* The counters are numbers.
LEMMA IpcNumbers ==
    ASSUME IpcInv PROVE begun \in Nat /\ asked \in Nat /\ Len(inbox) \in Nat
  BY DEF IpcInv, TypeOK

\* Every step keeps the unread requests numbered on from the last one handled.
LEMMA InboxStep ==
    ASSUME IpcInv, [Next]_vars PROVE InboxInv'
<1> USE DEF launcherVars, Submit, Answer
<1>1. CASE SendHello
  BY <1>1 DEF SendHello, IpcInv, InboxInv
<1>2. CASE ReadHello
  <2>1. /\ UnreadIn(inbox, begun + 1, asked) /\ Rising(inbox) /\ begun <= asked /\ pc # "ended"
        /\ begun + 1 \in Nat /\ inbox \in Seq(InFrames) /\ inbox # <<>> /\ inbox' = Tail(inbox)
        /\ Head(inbox) = inbox[1] /\ \A n \in begun + 1 .. asked : Unread(inbox, n)
    BY <1>2 DEF InboxInv, IpcInv, TypeOK, ReadHello
  <2>2. /\ UnreadIn(inbox', begun + 1, asked) /\ Rising(inbox')
        /\ Req(inbox[1]) => UnreadIn(inbox', inbox[1].id + 1, asked)
        /\ \A n \in Nat : Unread(inbox, n) =>
               Unread(inbox', n) \/ (Req(inbox[1]) /\ n = inbox[1].id)
    BY <2>1, InboxShrinks, IpcNumbers
  <2>3. (~Req(inbox[1]) \/ pc' = "ended") /\ UNCHANGED <<begun, asked>>
    BY <2>1, <1>2 DEF ReadHello, Req
  <2>4. ASSUME pc' # "ended", NEW n \in begun + 1 .. asked PROVE Unread(inbox', n)
    BY <2>1, <2>2, <2>3, <2>4, IpcNumbers
  <2> QED
    BY <2>1, <2>2, <2>3, <2>4, <1>2 DEF ReadHello, InboxInv
<1>3. CASE ReadFrame
  <2>1. /\ UnreadIn(inbox, begun + 1, asked) /\ Rising(inbox) /\ begun <= asked /\ pc # "ended"
        /\ begun + 1 \in Nat /\ inbox \in Seq(InFrames) /\ inbox # <<>> /\ inbox' = Tail(inbox)
        /\ Head(inbox) = inbox[1] /\ \A n \in begun + 1 .. asked : Unread(inbox, n)
    BY <1>3 DEF InboxInv, IpcInv, TypeOK, ReadFrame
  <2>2. /\ UnreadIn(inbox', begun + 1, asked) /\ Rising(inbox')
        /\ Req(inbox[1]) => UnreadIn(inbox', inbox[1].id + 1, asked)
        /\ \A n \in Nat : Unread(inbox, n) =>
               Unread(inbox', n) \/ (Req(inbox[1]) /\ n = inbox[1].id)
    BY <2>1, InboxShrinks, IpcNumbers
  <2>3. asked' = asked /\ begun' = IF Req(inbox[1]) THEN begun + 1 ELSE begun
    BY <2>1, <1>3 DEF ReadFrame, Req
  <2>4. Req(inbox[1]) => inbox[1].id = begun + 1 /\ begun + 1 <= asked
    <3>1. Req(inbox[1]) => inbox[1].id = begun + 1
      BY <2>1, FirstRequest
    <3>2. Req(inbox[1]) => inbox[1].id \in begun + 1 .. asked
      BY <2>1, IpcNumbers DEF UnreadIn
    <3> QED
      BY <3>1, <3>2, IpcNumbers
  <2>5. begun' <= asked' /\ UnreadIn(inbox', begun' + 1, asked')
    BY <2>1, <2>2, <2>3, <2>4, IpcNumbers
  <2>6. ASSUME NEW n \in begun' + 1 .. asked' PROVE Unread(inbox', n)
    BY <2>1, <2>2, <2>3, <2>4, IpcNumbers
  <2> QED
    BY <2>2, <2>5, <2>6 DEF InboxInv
<1>4. CASE ReadFails
  BY <1>4 DEF ReadFails, IpcInv, InboxInv
<1>5. CASE HandleStart
  BY <1>5 DEF HandleStart, IpcInv, InboxInv
<1>6. CASE HandleStop
  BY <1>6 DEF HandleStop, IpcInv, InboxInv
<1>7. CASE StopJoined
  BY <1>7 DEF StopJoined, IpcInv, InboxInv
<1>8. CASE HandleCall
  BY <1>8 DEF HandleCall, IpcInv, InboxInv
<1>9. CASE MainWritten
  <2>1. pc # "ended" /\ UNCHANGED <<begun, asked, inbox>>
    BY <1>9 DEF MainWritten, IpcInv, CallInv
  <2> QED
    BY <2>1 DEF IpcInv, InboxInv
<1>10. ASSUME NEW x \in Threads, Lock(x) PROVE InboxInv'
  BY <1>10 DEF Lock, IpcInv, InboxInv
<1>11. ASSUME NEW x \in Threads, WritePiece(x) PROVE InboxInv'
  BY <1>11 DEF WritePiece, IpcInv, InboxInv
<1>12. ASSUME NEW x \in Threads, WriteFails(x) PROVE InboxInv'
  BY <1>12 DEF WriteFails, IpcInv, InboxInv
<1>13. ASSUME NEW x \in Emitters, EmitBegins(x) PROVE InboxInv'
  BY <1>13 DEF EmitBegins, IpcInv, InboxInv
<1>14. ASSUME NEW x \in Emitters, EmitReturns(x) PROVE InboxInv'
  BY <1>14 DEF EmitReturns, IpcInv, InboxInv
<1>15. ASSUME NEW x \in Emitters, EmitterEnds(x) PROVE InboxInv'
  BY <1>15 DEF EmitterEnds, IpcInv, InboxInv
<1>16. CASE LauncherGreets
  <2>1. PICK f \in InFrames : inbox' = Append(inbox, f) /\ ~Req(f) /\ asked' = asked
    BY <1>16, InValues DEF LauncherGreets, Req
  <2>2. /\ UnreadIn(inbox, begun + 1, asked) /\ Rising(inbox) /\ begun <= asked
        /\ begun + 1 \in Nat /\ inbox \in Seq(InFrames)
    BY DEF InboxInv, IpcInv, TypeOK
  <2>3. /\ UnreadIn(inbox', begun + 1, asked') /\ Rising(inbox')
        /\ \A n \in Nat : Unread(inbox, n) => Unread(inbox', n)
        /\ Req(f) => Unread(inbox', f.id)
    BY <2>1, <2>2, InboxGrows, IpcNumbers
  <2> QED
    BY <2>1, <2>2, <2>3, <1>16, IpcNumbers DEF LauncherGreets, InboxInv, IpcInv
<1>17. CASE LauncherAsks
  <2>1. PICK f \in InFrames : /\ inbox' = Append(inbox, f) /\ Req(f)
                              /\ f.id = asked + 1 /\ asked' = asked + 1
    BY <1>17, InValues, IpcNumbers DEF LauncherAsks, Req
  <2>2. /\ UnreadIn(inbox, begun + 1, asked) /\ Rising(inbox) /\ begun <= asked
        /\ begun + 1 \in Nat /\ inbox \in Seq(InFrames)
    BY DEF InboxInv, IpcInv, TypeOK
  <2>3. /\ UnreadIn(inbox', begun + 1, asked') /\ Rising(inbox')
        /\ \A n \in Nat : Unread(inbox, n) => Unread(inbox', n)
        /\ Req(f) => Unread(inbox', f.id)
    BY <2>1, <2>2, InboxGrows, IpcNumbers
  <2> QED
    BY <2>1, <2>2, <2>3, <1>17, IpcNumbers DEF LauncherAsks, InboxInv, IpcInv
<1>18. CASE LauncherNoise
  <2>1. PICK f \in InFrames : inbox' = Append(inbox, f) /\ ~Req(f) /\ asked' = asked
    BY <1>18, InValues DEF LauncherNoise, Req
  <2>2. /\ UnreadIn(inbox, begun + 1, asked) /\ Rising(inbox) /\ begun <= asked
        /\ begun + 1 \in Nat /\ inbox \in Seq(InFrames)
    BY DEF InboxInv, IpcInv, TypeOK
  <2>3. /\ UnreadIn(inbox', begun + 1, asked') /\ Rising(inbox')
        /\ \A n \in Nat : Unread(inbox, n) => Unread(inbox', n)
        /\ Req(f) => Unread(inbox', f.id)
    BY <2>1, <2>2, InboxGrows, IpcNumbers
  <2> QED
    BY <2>1, <2>2, <2>3, <1>18, IpcNumbers DEF LauncherNoise, InboxInv, IpcInv
<1>19. CASE LauncherCloses
  BY <1>19 DEF LauncherCloses, IpcInv, InboxInv
<1>20. CASE LauncherDeaf
  BY <1>20 DEF LauncherDeaf, IpcInv, InboxInv
<1>21. CASE LauncherReads
  BY <1>21 DEF LauncherReads, IpcInv, InboxInv
<1>22. CASE UNCHANGED vars
  BY <1>22 DEF vars, IpcInv, InboxInv
<1> QED
  BY <1>1, <1>2, <1>3, <1>4, <1>5, <1>6, <1>7, <1>8, <1>9, <1>10, <1>11, <1>12, <1>13, <1>14,
     <1>15, <1>16, <1>17, <1>18, <1>19, <1>20, <1>21, <1>22
  DEF Next, MainStep, Ended

-----------------------------------------------------------------------------
(* Header and body                                                         *)

\* Headers and bodies take turns.
LEMMA Parity ==
    /\ \A n \in Nat : Part(n) \in {"header", "body"}
    /\ \A n \in Nat : Part(n) = "header" <=> Part(n + 1) = "body"
    /\ Part(1) = "header" /\ Part(2) = "body"
  BY DEF Part

\* Whatever is being written is a frame.
LEMMA WrittenFrames ==
    ASSUME IpcInv, NEW t \in Threads, wr[t].st # "idle"
    PROVE  wr[t].frame \in Frames /\ wr[t].frame # NoFrame
<1>1. wr[t].frame \in Frames
  BY CallValues DEF IpcInv, TypeOK
<1>2. CASE t = "main"
  BY <1>1, <1>2, FrameKinds DEF IpcInv, TypeOK, CallInv
<1>3. CASE t \in Emitters
  BY <1>1, <1>3, FrameKinds DEF IpcInv, TypeOK, CallInv
<1> QED
  BY <1>2, <1>3 DEF Threads

\* The frames of the model are no garbage.
LEMMA NoGarbage == Garbage \notin Frames
  BY DEF Garbage, Frames, NoFrame, Hello

\* A piece that is due goes in at the end of the wire.
LEMMA WireGrows ==
    ASSUME NEW p \in Seq(Pieces), NEW h \in {0, 1}, NEW r, ValidWire(p, h, r), NEW c \in Pieces,
           c.frame # NoFrame, c.part = Part(Len(p) + 1 + h),
           c.part = "body" => c.frame = FrameBefore(p, r, Len(p) + 1)
    PROVE  /\ ValidWire(Append(p, c), h, r)
           /\ Len(Append(p, c)) = Len(p) + 1
           /\ FrameBefore(Append(p, c), r, Len(p) + 2) = c.frame
<1> DEFINE new == Append(p, c)
<1>1. /\ Len(new) = Len(p) + 1 /\ new[Len(p) + 1] = c /\ Len(p) \in Nat
      /\ \A i \in 1 .. Len(p) : new[i] = p[i]
  BY AppendProperties
<1> HIDE DEF new
<1>2. \A k \in 1 .. Len(p) + 1 : FrameBefore(new, r, k) = FrameBefore(p, r, k)
  BY <1>1 DEF FrameBefore
<1>3. ValidWire(new, h, r)
  <2> SUFFICES ASSUME NEW k \in 1 .. Len(new)
               PROVE  /\ new[k].frame # NoFrame /\ new[k].part = Part(k + h)
                      /\ new[k].part = "body" => new[k].frame = FrameBefore(new, r, k)
    BY DEF ValidWire
  <2>1. CASE k \in 1 .. Len(p)
    BY <1>1, <1>2, <2>1 DEF ValidWire
  <2>2. CASE k = Len(p) + 1
    BY <1>1, <1>2, <2>2
  <2> QED
    BY <1>1, <2>1, <2>2
<1>4. FrameBefore(new, r, Len(p) + 2) = c.frame
  <2>1. Len(p) + 2 # 1 /\ Len(p) + 2 - 1 = Len(p) + 1
    BY <1>1
  <2> QED
    BY <1>1, <2>1 DEF FrameBefore
<1> QED
  BY <1>1, <1>3, <1>4 DEF new

\* The launcher takes the first piece: a header when none is open, else the body
\* that belongs to it.
LEMMA WireShrinks ==
    ASSUME NEW p \in Seq(Pieces), p # <<>>, NEW h \in {0, 1}, NEW r, ValidWire(p, h, r)
    PROVE  /\ h = 0 => p[1].part = "header"
           /\ h = 1 => p[1].part = "body" /\ p[1].frame = r
           /\ p[1].frame # NoFrame
           /\ Len(Tail(p)) = Len(p) - 1
           /\ \A r2 : (h = 0 => r2 = p[1].frame) => ValidWire(Tail(p), 1 - h, r2)
           /\ \A r2 : (h = 0 /\ r2 = p[1].frame) \/ (h = 1 /\ Len(p) # 1)
                      => FrameBefore(Tail(p), r2, Len(p)) = FrameBefore(p, r, Len(p) + 1)
<1> DEFINE new == Tail(p)
<1>1. /\ Len(new) = Len(p) - 1 /\ Len(p) \in Nat \ {0}
      /\ \A k \in 1 .. Len(new) : new[k] = p[k + 1] /\ k + 1 \in 1 .. Len(p)
  BY HeadTailProperties
<1> HIDE DEF new
<1>2. p[1].frame # NoFrame /\ p[1].part = Part(1 + h) /\ (p[1].part = "body" => p[1].frame = r)
  BY <1>1 DEF ValidWire, FrameBefore
<1>3. (h = 0 => p[1].part = "header") /\ (h = 1 => p[1].part = "body" /\ p[1].frame = r)
  BY <1>2, Parity
<1>4. ASSUME NEW k \in 1 .. Len(new) PROVE Part(k + 1 + h) = Part(k + (1 - h))
  <2>1. Part(k) = Part(k + 2)
    BY <1>1 DEF Part
  <2> QED
    BY <1>1, <2>1
<1>5. ASSUME NEW r2, h = 0 => r2 = p[1].frame, NEW k \in 1 .. Len(new)
      PROVE  /\ new[k].frame # NoFrame /\ new[k].part = Part(k + (1 - h))
             /\ new[k].part = "body" => new[k].frame = FrameBefore(new, r2, k)
  <2>1. /\ p[k + 1].frame # NoFrame /\ p[k + 1].part = Part(k + 1 + h)
        /\ p[k + 1].part = "body" => p[k + 1].frame = p[k].frame
    BY <1>1 DEF ValidWire, FrameBefore
  <2>2. CASE k = 1
    <3>1. h = 1 => Part(k + 1 + h) = "header"
      BY <2>2, <1>1 DEF Part
    <3>2. h = 1 => new[k].part = "header"
      BY <1>1, <2>1, <3>1
    <3> QED
      BY <1>1, <1>4, <1>5, <2>1, <2>2, <3>2 DEF FrameBefore
  <2>3. CASE k # 1
    <3>1. k - 1 \in 1 .. Len(new) /\ new[k - 1] = p[k]
      BY <1>1, <2>3
    <3> QED
      BY <1>1, <1>4, <2>1, <2>3, <3>1 DEF FrameBefore
  <2> QED
    BY <2>2, <2>3
<1>6. ASSUME NEW r2, (h = 0 /\ r2 = p[1].frame) \/ (h = 1 /\ Len(p) # 1)
      PROVE  FrameBefore(new, r2, Len(p)) = FrameBefore(p, r, Len(p) + 1)
  <2>1. CASE Len(p) = 1
    BY <1>6, <2>1 DEF FrameBefore
  <2>2. CASE Len(p) # 1
    <3>1. Len(p) - 1 \in 1 .. Len(new) /\ new[Len(p) - 1] = p[Len(p)]
      BY <1>1, <2>2
    <3> QED
      BY <1>1, <2>2, <3>1 DEF FrameBefore
  <2> QED
    BY <2>1, <2>2
<1>7. \A r2 : (h = 0 => r2 = p[1].frame) => ValidWire(new, 1 - h, r2)
  BY <1>5 DEF ValidWire
<1> QED
  BY <1>1, <1>2, <1>3, <1>6, <1>7 DEF new

\* A step that leaves the wire alone and moves nobody into or out of the middle of
\* a frame.
WireStays ==
    /\ UNCHANGED <<pipe, outOpen, rx, got>>
    /\ \A t \in Threads : wr'[t].st = "body" <=> wr[t].st = "body"
    /\ \A t \in Threads : wr[t].st = "body" => wr'[t].frame = wr[t].frame

\* A step that leaves the wire and the half-written frames alone keeps WireInv.
LEMMA WireUndisturbed ==
    ASSUME WireInv, WireStays PROVE WireInv'
<1> USE DEF WireStays
<1>1. UNCHANGED <<HeaderRead, NextPart, LastFrame, FramesIntact, ValidWire(pipe, HeaderRead, rx)>>
  BY DEF HeaderRead, NextPart, LastFrame, FramesIntact, ValidWire
<1> QED
  BY <1>1 DEF WireInv

\* What the launcher reads: a header when no frame is open, else the body that
\* belongs to the header it has.
LEMMA ReadEffect ==
    ASSUME IpcInv, LauncherReads
    PROVE  /\ pipe \in Seq(Pieces) /\ pipe # <<>> /\ Len(pipe) \in Nat \ {0}
           /\ HeaderRead \in {0, 1}
           /\ ValidWire(pipe, HeaderRead, rx) /\ outOpen /\ got \in Seq(Frames \cup {Garbage})
           /\ pipe' = Tail(pipe) /\ UNCHANGED <<wr, outOpen>> /\ HeaderRead' = 1 - HeaderRead
           /\ pipe[1].frame \in Frames /\ pipe[1].frame # NoFrame
           /\ rx = NoFrame => pipe[1].part = "header" /\ rx' = pipe[1].frame /\ got' = got
           /\ rx # NoFrame => /\ pipe[1].part = "body" /\ pipe[1].frame = rx /\ rx' = NoFrame
                             /\ got' = Append(got, pipe[1].frame)
<1>1. /\ pipe \in Seq(Pieces) /\ HeaderRead \in {0, 1} /\ ValidWire(pipe, HeaderRead, rx)
      /\ Len(pipe) \in Nat /\ pipe # <<>> /\ outOpen
      /\ got \in Seq(Frames \cup {Garbage})
  BY DEF IpcInv, TypeOK, WireInv, HeaderRead, LauncherReads
<1>2. pipe' = Tail(pipe) /\ Head(pipe) = pipe[1] /\ UNCHANGED <<wr, outOpen>> /\ Len(pipe) # 0
  BY <1>1 DEF LauncherReads
<1>3. pipe[1].frame \in Frames
  <2>1. pipe[1] \in Pieces
    BY <1>1, <1>2
  <2> QED
    BY <2>1 DEF Pieces
<1>4. /\ rx = NoFrame => pipe[1].part = "header" /\ rx' = pipe[1].frame /\ got' = got
      /\ rx # NoFrame => /\ pipe[1].part = "body" /\ pipe[1].frame = rx /\ rx' = NoFrame
                        /\ got' = Append(got, pipe[1].frame)
      /\ pipe[1].frame # NoFrame
  BY <1>1, <1>2, WireShrinks DEF LauncherReads, HeaderRead
<1>5. HeaderRead' = 1 - HeaderRead
  BY <1>4 DEF HeaderRead
<1> QED
  BY <1>1, <1>2, <1>3, <1>4, <1>5

\* Only the holder of the lock is in the middle of a frame.
LEMMA OneInBody ==
    ASSUME IpcInv, NEW x \in Threads, wr[x].st \in Holding
    PROVE  \A t \in Threads : t # x => wr[t].st # "body"
  BY DEF IpcInv, LockInv, Holding

\* Every step keeps the wire well formed.
LEMMA WireStep ==
    ASSUME IpcInv, [Next]_vars PROVE WireInv'
<1> USE IpcAssumption DEF launcherVars
<1>1. CASE SendHello
  <2>1. WireStays
    BY <1>1 DEF SendHello, WireStays, IpcInv, TypeOK, CallInv, Submit, Answer, Reach, Threads,
                readerVars, Idle
  <2> QED
    BY <2>1, WireUndisturbed DEF IpcInv
<1>2. CASE ReadHello
  <2>1. WireStays
    BY <1>2 DEF ReadHello, WireStays, IpcInv, TypeOK, CallInv, Submit, Answer, Reach, Threads,
                readerVars, Idle
  <2> QED
    BY <2>1, WireUndisturbed DEF IpcInv
<1>3. CASE ReadFrame
  <2>1. WireStays
    BY <1>3 DEF ReadFrame, WireStays, IpcInv, TypeOK, CallInv, Submit, Answer, Reach, Threads,
                readerVars, Idle
  <2> QED
    BY <2>1, WireUndisturbed DEF IpcInv
<1>4. CASE ReadFails
  <2>1. WireStays
    BY <1>4 DEF ReadFails, WireStays, IpcInv, TypeOK, CallInv, Submit, Answer, Reach, Threads,
                readerVars, Idle
  <2> QED
    BY <2>1, WireUndisturbed DEF IpcInv
<1>5. CASE HandleStart
  <2>1. WireStays
    BY <1>5 DEF HandleStart, WireStays, IpcInv, TypeOK, CallInv, Submit, Answer, Reach, Threads,
                readerVars, Idle
  <2> QED
    BY <2>1, WireUndisturbed DEF IpcInv
<1>6. CASE HandleStop
  <2>1. WireStays
    BY <1>6 DEF HandleStop, WireStays, IpcInv, TypeOK, CallInv, Submit, Answer, Reach, Threads,
                readerVars, Idle
  <2> QED
    BY <2>1, WireUndisturbed DEF IpcInv
<1>7. CASE StopJoined
  <2>1. WireStays
    BY <1>7 DEF StopJoined, WireStays, IpcInv, TypeOK, CallInv, Submit, Answer, Reach, Threads,
                readerVars, Idle
  <2> QED
    BY <2>1, WireUndisturbed DEF IpcInv
<1>8. CASE HandleCall
  <2>1. WireStays
    BY <1>8 DEF HandleCall, WireStays, IpcInv, TypeOK, CallInv, Submit, Answer, Reach, Threads,
                readerVars, Idle
  <2> QED
    BY <2>1, WireUndisturbed DEF IpcInv
<1>9. CASE MainWritten
  <2>1. WireStays
    BY <1>9 DEF MainWritten, WireStays, IpcInv, TypeOK, CallInv, Submit, Answer, Reach, Threads,
                readerVars, Idle
  <2> QED
    BY <2>1, WireUndisturbed DEF IpcInv
<1>10. ASSUME NEW x \in Threads, Lock(x) PROVE WireInv'
  <2>1. WireStays
    BY <1>10 DEF Lock, WireStays, IpcInv, TypeOK, CallInv, Submit, Answer, Reach, Threads,
                 readerVars, Idle
  <2> QED
    BY <2>1, WireUndisturbed DEF IpcInv
<1>11. ASSUME NEW x \in Threads, WritePiece(x) PROVE WireInv'
  <2> DEFINE c == [part |-> wr[x].st, frame |-> wr[x].frame]
  <2>1. /\ pipe' = Append(pipe, c) /\ outOpen /\ UNCHANGED <<outOpen, rx, got, HeaderRead>>
        /\ wr[x].st \in {"header", "body"}
        /\ wr' = [wr EXCEPT ![x] = [st |-> IF wr[x].st = "header" THEN "body" ELSE "ok",
                                    frame |-> wr[x].frame]]
    BY <1>11 DEF WritePiece, Reach, readerVars, HeaderRead
  <2>2. wr[x].frame \in Frames /\ wr[x].frame # NoFrame
    BY <2>1, WrittenFrames
  <2>3. c \in Pieces /\ c.part = wr[x].st /\ c.frame = wr[x].frame
    BY <2>1, <2>2, PieceValues
  <2>4. /\ pipe \in Seq(Pieces) /\ HeaderRead \in {0, 1} /\ ValidWire(pipe, HeaderRead, rx)
        /\ Len(pipe) \in Nat /\ wr \in [Threads -> Calls]
    BY DEF IpcInv, TypeOK, WireInv, HeaderRead
  <2>5. \A t \in Threads : t # x => wr[t].st # "body"
    BY <2>1, OneInBody DEF Holding
  <2>6. wr[x].st = NextPart /\ (wr[x].st = "body" => wr[x].frame = LastFrame)
    BY <2>1, <2>5 DEF IpcInv, WireInv
  <2> HIDE DEF c
  <2>7. /\ ValidWire(pipe', HeaderRead, rx) /\ Len(pipe') = Len(pipe) + 1
        /\ FrameBefore(pipe', rx, Len(pipe) + 2) = wr[x].frame
    BY <2>1, <2>2, <2>3, <2>4, <2>6, WireGrows DEF NextPart, LastFrame
  <2>8. LastFrame' = wr[x].frame /\ NextPart' = Part(Len(pipe) + 2 + HeaderRead)
    <3>1. Len(pipe') + 1 = Len(pipe) + 2
      BY <2>4, <2>7
    <3> QED
      BY <2>1, <2>7, <3>1 DEF LastFrame, NextPart
  <2>9. NextPart' \in {"header", "body"} /\ (wr[x].st = "header" <=> NextPart' = "body")
    <3>1. /\ Len(pipe) + 1 + HeaderRead \in Nat
          /\ Len(pipe) + 2 + HeaderRead = (Len(pipe) + 1 + HeaderRead) + 1
      BY <2>4
    <3> QED
      BY <2>1, <2>6, <2>8, <3>1, Parity DEF NextPart
  <2>10. ASSUME NEW t \in Threads, wr'[t].st = "body"
         PROVE  wr[x].st = "header" /\ wr'[t].frame = wr[x].frame
    BY <2>1, <2>4, <2>5, <2>10
  <2>11. (\A t \in Threads : wr'[t].st # "body") => wr[x].st # "header"
    BY <2>1, <2>4
  <2>12. FramesIntact' /\ rx' # Garbage /\ ValidWire(pipe, HeaderRead, rx)'
    BY <2>1, <2>7 DEF IpcInv, WireInv, FramesIntact
  <2> QED
    BY <2>1, <2>8, <2>9, <2>10, <2>11, <2>12 DEF WireInv
<1>12. ASSUME NEW x \in Threads, WriteFails(x) PROVE WireInv'
  <2>1. CASE outOpen
    <3>1. WireStays
      BY <1>12, <2>1 DEF WriteFails, WireStays, IpcInv, TypeOK, Reach, readerVars
    <3> QED
      BY <3>1, WireUndisturbed DEF IpcInv
  <2>2. CASE ~outOpen
    BY <1>12, <2>2 DEF WriteFails, IpcInv, WireInv, readerVars, HeaderRead, FramesIntact, ValidWire
  <2> QED
    BY <2>1, <2>2 DEF IpcInv, TypeOK
<1>13. ASSUME NEW x \in Emitters, EmitBegins(x) PROVE WireInv'
  <2>1. WireStays
    BY <1>13 DEF EmitBegins, WireStays, IpcInv, TypeOK, CallInv, Submit, Answer, Reach, Threads,
                 readerVars, Idle
  <2> QED
    BY <2>1, WireUndisturbed DEF IpcInv
<1>14. ASSUME NEW x \in Emitters, EmitReturns(x) PROVE WireInv'
  <2>1. WireStays
    BY <1>14 DEF EmitReturns, WireStays, IpcInv, TypeOK, CallInv, Submit, Answer, Reach, Threads,
                 readerVars, Idle
  <2> QED
    BY <2>1, WireUndisturbed DEF IpcInv
<1>15. ASSUME NEW x \in Emitters, EmitterEnds(x) PROVE WireInv'
  <2>1. WireStays
    BY <1>15 DEF EmitterEnds, WireStays, IpcInv, TypeOK, CallInv, Submit, Answer, Reach, Threads,
                 readerVars, Idle
  <2> QED
    BY <2>1, WireUndisturbed DEF IpcInv
<1>16. CASE LauncherGreets
  <2>1. WireStays
    BY <1>16 DEF LauncherGreets, WireStays, IpcInv, TypeOK, CallInv, Submit, Answer, Reach,
                 Threads, readerVars, Idle
  <2> QED
    BY <2>1, WireUndisturbed DEF IpcInv
<1>17. CASE LauncherAsks
  <2>1. WireStays
    BY <1>17 DEF LauncherAsks, WireStays, IpcInv, TypeOK, CallInv, Submit, Answer, Reach, Threads,
                 readerVars, Idle
  <2> QED
    BY <2>1, WireUndisturbed DEF IpcInv
<1>18. CASE LauncherNoise
  <2>1. WireStays
    BY <1>18 DEF LauncherNoise, WireStays, IpcInv, TypeOK, CallInv, Submit, Answer, Reach,
                 Threads, readerVars, Idle
  <2> QED
    BY <2>1, WireUndisturbed DEF IpcInv
<1>19. CASE LauncherCloses
  <2>1. WireStays
    BY <1>19 DEF LauncherCloses, WireStays, IpcInv, TypeOK, CallInv, Submit, Answer, Reach,
                 Threads, readerVars, Idle
  <2> QED
    BY <2>1, WireUndisturbed DEF IpcInv
<1>20. CASE LauncherDeaf
  <2>1. pipe' = <<>> /\ outOpen' = FALSE /\ UNCHANGED <<rx, got>>
    BY <1>20 DEF LauncherDeaf, readerVars
  <2>2. ValidWire(pipe, HeaderRead, rx)' /\ FramesIntact'
    BY <2>1 DEF ValidWire, FramesIntact, IpcInv, WireInv
  <2> QED
    BY <2>1, <2>2 DEF IpcInv, WireInv
<1>21. CASE LauncherReads
  <2>1. /\ pipe \in Seq(Pieces) /\ pipe # <<>> /\ Len(pipe) \in Nat \ {0} /\ HeaderRead \in {0, 1}
        /\ ValidWire(pipe, HeaderRead, rx) /\ outOpen /\ got \in Seq(Frames \cup {Garbage})
        /\ rx # Garbage /\ FramesIntact
    BY <1>21, ReadEffect DEF IpcInv, WireInv
  <2>2. pipe' = Tail(pipe) /\ UNCHANGED <<wr, outOpen>>
    BY <1>21, ReadEffect
  <2>3. pipe[1].frame \in Frames
    BY <1>21, ReadEffect
  <2>4. /\ rx = NoFrame => pipe[1].part = "header" /\ rx' = pipe[1].frame /\ got' = got
        /\ rx # NoFrame => /\ pipe[1].part = "body" /\ pipe[1].frame = rx /\ rx' = NoFrame
                          /\ got' = Append(got, pipe[1].frame)
        /\ pipe[1].frame # NoFrame
    BY <1>21, ReadEffect
  <2>5. HeaderRead' = 1 - HeaderRead
    BY <1>21, ReadEffect
  <2>6. ValidWire(pipe', HeaderRead', rx') /\ Len(pipe') = Len(pipe) - 1
    BY <2>1, <2>2, <2>4, <2>5, WireShrinks DEF HeaderRead
  <2>7. rx' # Garbage
    BY <2>3, <2>4, NoGarbage, FrameKinds
  <2>8. FramesIntact'
    <3>1. CASE rx = NoFrame
      BY <2>1, <2>4, <3>1 DEF FramesIntact
    <3>2. CASE rx # NoFrame
      <4>1. pipe[1].frame # Garbage
        BY <2>3, NoGarbage
      <4>2. /\ Len(got') = Len(got) + 1 /\ got'[Len(got) + 1] = pipe[1].frame
            /\ \A i \in 1 .. Len(got) : got'[i] = got[i]
        BY <2>1, <2>3, <2>4, <3>2, AppendProperties
      <4> QED
        BY <2>1, <4>1, <4>2 DEF FramesIntact
    <3> QED
      BY <3>1, <3>2
  <2>9. NextPart' = NextPart
    <3>1. Len(pipe') + 1 + (1 - HeaderRead) = IF HeaderRead = 1 THEN Len(pipe) ELSE Len(pipe) + 1
      BY <2>1, <2>6
    <3>2. Part(Len(pipe)) = Part(Len(pipe) + 2)
      BY <2>1 DEF Part
    <3> QED
      BY <2>1, <2>5, <3>1, <3>2 DEF NextPart
  <2>10. NextPart = "body" => LastFrame' = LastFrame
    <3>1. LastFrame' = FrameBefore(pipe', rx', Len(pipe))
      BY <2>1, <2>6 DEF LastFrame
    <3>2. HeaderRead = 1 /\ Len(pipe) = 1 => NextPart = "header"
      BY DEF NextPart, Part
    <3>3. NextPart = "body" => \/ HeaderRead = 0 /\ rx' = pipe[1].frame
                               \/ HeaderRead = 1 /\ Len(pipe) # 1
      BY <2>1, <2>4, <3>2 DEF HeaderRead
    <3>4. \A r2 : (HeaderRead = 0 /\ r2 = pipe[1].frame) \/ (HeaderRead = 1 /\ Len(pipe) # 1)
                 => FrameBefore(Tail(pipe), r2, Len(pipe)) = FrameBefore(pipe, rx, Len(pipe) + 1)
      BY <2>1, WireShrinks
    <3> DEFINE r == rx'
    <3>5. NextPart = "body" => \/ HeaderRead = 0 /\ r = pipe[1].frame
                               \/ HeaderRead = 1 /\ Len(pipe) # 1
      BY <3>3
    <3> HIDE DEF r
    <3>6. NextPart = "body" =>
            FrameBefore(Tail(pipe), r, Len(pipe)) = FrameBefore(pipe, rx, Len(pipe) + 1)
      BY <3>4, <3>5
    <3> QED
      BY <2>2, <3>1, <3>6 DEF LastFrame, r
  <2> QED
    BY <2>1, <2>2, <2>6, <2>7, <2>8, <2>9, <2>10 DEF IpcInv, WireInv
<1>22. CASE UNCHANGED vars
  <2>1. WireStays
    BY <1>22 DEF vars, WireStays, IpcInv, TypeOK, CallInv, Submit, Answer, Reach, Threads,
                 readerVars, Idle
  <2> QED
    BY <2>1, WireUndisturbed DEF IpcInv
<1> QED
  BY <1>1, <1>2, <1>3, <1>4, <1>5, <1>6, <1>7, <1>8, <1>9, <1>10, <1>11, <1>12, <1>13, <1>14,
     <1>15, <1>16, <1>17, <1>18, <1>19, <1>20, <1>21, <1>22
  DEF Next, MainStep, Ended

-----------------------------------------------------------------------------
(* The order of frames                                                     *)

\* Nothing moves; the thread has less to add, or more excuses.
LEMMA OrderKept ==
    ASSUME NEW g, NEW p, NEW t, NEW top \in Nat, NEW absent, NEW missing,
           OrderedIn(g, p, t, top, absent, missing),
           NEW absent2 \in SUBSET absent, NEW missing2, missing \subseteq missing2
    PROVE  OrderedIn(g, p, t, top, absent2, missing2)
  BY DEF OrderedIn

\* The thread takes the next number, for a frame still to be written.
LEMMA OrderAdvances ==
    ASSUME NEW g, NEW p, NEW t, NEW top \in Nat, OrderedIn(g, p, t, top, {}, {})
    PROVE  OrderedIn(g, p, t, top + 1, {top + 1}, {top + 1})
<1>1. LogBelow(g, t, top + 1) /\ PipeBelow(p, t, top + 1)
  BY DEF OrderedIn, LogBelow, PipeBelow
<1>2. ~InLog(g, t, top + 1) /\ ~InPipe(p, t, top + 1)
  BY DEF OrderedIn, LogBelow, PipeBelow, InLog, InPipe
<1>3. \A n \in 1 .. top + 1 : n \in 1 .. top \/ n \in {top + 1}
  OBVIOUS
<1> QED
  BY <1>1, <1>2, <1>3 DEF OrderedIn

\* A piece that is no body of t changes nothing for t ...
LEMMA OrderIgnores ==
    ASSUME NEW g, NEW p \in Seq(Pieces), NEW c \in Pieces, NEW t, NEW top \in Nat,
           NEW absent, NEW missing, OrderedIn(g, p, t, top, absent, missing), ~BodyOf(c, t)
    PROVE  OrderedIn(g, Append(p, c), t, top, absent, missing)
<1> DEFINE new == Append(p, c)
<1>1. /\ Len(new) = Len(p) + 1 /\ new[Len(p) + 1] = c /\ Len(p) \in Nat
      /\ \A k \in 1 .. Len(p) : new[k] = p[k]
  BY AppendProperties
<1> HIDE DEF new
<1>2. ASSUME NEW k \in 1 .. Len(new), BodyOf(new[k], t)
      PROVE  k \in 1 .. Len(p) /\ new[k] = p[k]
  BY <1>1, <1>2
<1>3. PipeRising(new, t) /\ LogFirst(g, new, t) /\ PipeBelow(new, t, top)
  BY <1>1, <1>2 DEF OrderedIn, PipeRising, LogFirst, PipeBelow
<1>4. ASSUME NEW n PROVE InPipe(new, t, n) <=> InPipe(p, t, n)
  BY <1>1, <1>2 DEF InPipe
<1> QED
  BY <1>3, <1>4 DEF OrderedIn, new

\* ... and a body of t is the one with its last number.
LEMMA OrderGrows ==
    ASSUME NEW g, NEW p \in Seq(Pieces), NEW c \in Pieces, NEW t, NEW top \in Nat,
           OrderedIn(g, p, t, top, {top}, {top}), BodyOf(c, t), Num(c.frame) = top, top > 0
    PROVE  OrderedIn(g, Append(p, c), t, top, {}, {})
<1> DEFINE new == Append(p, c)
<1>1. /\ Len(new) = Len(p) + 1 /\ new[Len(p) + 1] = c /\ Len(p) \in Nat
      /\ \A k \in 1 .. Len(p) : new[k] = p[k]
  BY AppendProperties
<1> HIDE DEF new
<1>2. ASSUME NEW k \in 1 .. Len(new), BodyOf(new[k], t)
      PROVE  \/ k \in 1 .. Len(p) /\ new[k] = p[k] /\ Num(p[k].frame) \in 1 .. top - 1
             \/ k = Len(p) + 1 /\ new[k] = c
  <2>1. CASE k \in 1 .. Len(p)
    <3>1. Num(p[k].frame) \in 1 .. top
      BY <1>1, <1>2, <2>1 DEF OrderedIn, PipeBelow
    <3>2. Num(p[k].frame) # top
      BY <1>1, <1>2, <2>1 DEF OrderedIn, InPipe
    <3> QED
      BY <1>1, <2>1, <3>1, <3>2
  <2> QED
    BY <1>1, <2>1
<1>3. PipeBelow(new, t, top)
  BY <1>2 DEF PipeBelow
<1>4. PipeRising(new, t)
  <2> SUFFICES ASSUME NEW k \in 1 .. Len(new), NEW l \in 1 .. Len(new), k < l,
                      BodyOf(new[k], t), BodyOf(new[l], t)
               PROVE  Num(new[k].frame) < Num(new[l].frame)
    BY DEF PipeRising
  <2>1. k \in 1 .. Len(p) /\ new[k] = p[k] /\ Num(p[k].frame) \in 1 .. top - 1
    BY <1>1, <1>2
  <2>2. CASE l \in 1 .. Len(p)
    BY <1>1, <2>1, <2>2 DEF OrderedIn, PipeRising
  <2>3. CASE l = Len(p) + 1
    BY <1>1, <2>1, <2>3
  <2> QED
    BY <1>1, <2>2, <2>3
<1>5. LogFirst(g, new, t)
  <2> SUFFICES ASSUME NEW i \in 1 .. Len(g), NEW k \in 1 .. Len(new), Of(g[i], t), BodyOf(new[k], t)
               PROVE  Num(g[i]) < Num(new[k].frame)
    BY DEF LogFirst
  <2>1. CASE k \in 1 .. Len(p)
    BY <1>1, <2>1 DEF OrderedIn, LogFirst
  <2>2. CASE k = Len(p) + 1
    <3>1. Num(g[i]) \in 1 .. top
      BY DEF OrderedIn, LogBelow
    <3>2. Num(g[i]) # top
      BY DEF OrderedIn, InLog
    <3> QED
      BY <1>1, <2>2, <3>1, <3>2
  <2> QED
    BY <1>1, <2>1, <2>2
<1>6. ASSUME NEW n \in 1 .. top PROVE InLog(g, t, n) \/ InPipe(new, t, n)
  <2>1. CASE n = top
    BY <1>1, <2>1 DEF InPipe
  <2>2. CASE InPipe(p, t, n)
    BY <1>1, <2>2 DEF InPipe
  <2> QED
    BY <2>1, <2>2 DEF OrderedIn
<1> QED
  BY <1>3, <1>4, <1>5, <1>6 DEF OrderedIn, new

\* The launcher reads a piece that is no body of t ...
LEMMA OrderSkips ==
    ASSUME NEW g, NEW p \in Seq(Pieces), p # <<>>, NEW t, NEW top \in Nat,
           NEW absent, NEW missing, OrderedIn(g, p, t, top, absent, missing), ~BodyOf(p[1], t)
    PROVE  OrderedIn(g, Tail(p), t, top, absent, missing)
<1> DEFINE new == Tail(p)
<1>1. /\ Len(new) = Len(p) - 1 /\ Len(p) \in Nat \ {0}
      /\ \A k \in 1 .. Len(new) : new[k] = p[k + 1] /\ k + 1 \in 1 .. Len(p)
  BY HeadTailProperties
<1> HIDE DEF new
<1>2. PipeRising(new, t)
  <2> SUFFICES ASSUME NEW k \in 1 .. Len(new), NEW l \in 1 .. Len(new), k < l,
                      BodyOf(new[k], t), BodyOf(new[l], t)
               PROVE  Num(new[k].frame) < Num(new[l].frame)
    BY DEF PipeRising
  <2>1. k + 1 \in 1 .. Len(p) /\ l + 1 \in 1 .. Len(p) /\ k + 1 < l + 1
    BY <1>1
  <2> QED
    BY <1>1, <2>1 DEF OrderedIn, PipeRising
<1>3. LogFirst(g, new, t)
  BY <1>1 DEF OrderedIn, LogFirst
<1>4. PipeBelow(new, t, top)
  BY <1>1 DEF OrderedIn, PipeBelow
<1>5. ASSUME NEW n, InPipe(new, t, n) PROVE InPipe(p, t, n)
  BY <1>1, <1>5 DEF InPipe
<1>6. ASSUME NEW n, InPipe(p, t, n) PROVE InPipe(new, t, n)
  <2>1. PICK k \in 1 .. Len(p) : BodyOf(p[k], t) /\ Num(p[k].frame) = n
    BY <1>6 DEF InPipe
  <2>2. k - 1 \in 1 .. Len(new) /\ new[k - 1] = p[k]
    BY <1>1, <2>1
  <2> QED
    BY <2>1, <2>2 DEF InPipe
<1> QED
  BY <1>2, <1>3, <1>4, <1>5, <1>6 DEF OrderedIn, new

\* ... or a frame, which goes from the wire into its log.
LEMMA OrderLogs ==
    ASSUME NEW S, NEW g \in Seq(S), NEW f \in S, NEW p, NEW t, NEW top \in Nat,
           NEW absent, NEW missing, OrderedIn(g, p, t, top, absent, missing), ~Of(f, t)
    PROVE  OrderedIn(Append(g, f), p, t, top, absent, missing)
<1> DEFINE new == Append(g, f)
<1>1. /\ Len(new) = Len(g) + 1 /\ new[Len(g) + 1] = f /\ Len(g) \in Nat
      /\ \A i \in 1 .. Len(g) : new[i] = g[i]
  BY AppendProperties
<1> HIDE DEF new
<1>2. ASSUME NEW i \in 1 .. Len(new), Of(new[i], t)
      PROVE  i \in 1 .. Len(g) /\ new[i] = g[i]
  BY <1>1, <1>2
<1>3. LogBelow(new, t, top) /\ LogFirst(new, p, t)
  BY <1>2 DEF OrderedIn, LogFirst, LogBelow
<1>4. ASSUME NEW n PROVE InLog(new, t, n) <=> InLog(g, t, n)
  BY <1>1, <1>2 DEF InLog
<1>5. InOrder(new, t)
  <2> SUFFICES ASSUME NEW i \in 1 .. Len(new), Of(new[i], t)
               PROVE  /\ Num(new[i]) > 0
                      /\ \A j \in 1 .. i - 1 : Of(new[j], t) => Num(new[j]) < Num(new[i])
                      /\ \A n \in 1 .. Num(new[i]) - 1 :
                            \E j \in 1 .. i - 1 : Of(new[j], t) /\ Num(new[j]) = n
    BY DEF InOrder
  <2>1. /\ i \in 1 .. Len(g) /\ new[i] = g[i]
        /\ \A j \in 1 .. i - 1 : j \in 1 .. Len(g) /\ new[j] = g[j]
    BY <1>1, <1>2
  <2> QED
    BY <2>1 DEF OrderedIn, InOrder
<1> QED
  BY <1>3, <1>4, <1>5 DEF OrderedIn, new

\* Reading the body of the first frame keeps the order.
LEMMA OrderTakes ==
    ASSUME NEW S, NEW g \in Seq(S), NEW p \in Seq(Pieces), p # <<>>, NEW t, NEW top \in Nat,
           NEW absent, NEW missing \in SUBSET {top}, OrderedIn(g, p, t, top, absent, missing),
           BodyOf(p[1], t), p[1].frame \in S
    PROVE  OrderedIn(Append(g, p[1].frame), Tail(p), t, top, absent, missing)
<1> DEFINE new == Tail(p)
           log == Append(g, p[1].frame)
<1>1. /\ Len(new) = Len(p) - 1 /\ Len(p) \in Nat \ {0}
      /\ \A k \in 1 .. Len(new) : new[k] = p[k + 1] /\ k + 1 \in 1 .. Len(p)
  BY HeadTailProperties
<1>2. /\ Len(log) = Len(g) + 1 /\ log[Len(g) + 1] = p[1].frame /\ Len(g) \in Nat
      /\ \A i \in 1 .. Len(g) : log[i] = g[i]
  BY AppendProperties
<1> HIDE DEF new, log
<1>3. Num(p[1].frame) \in 1 .. top /\ Of(p[1].frame, t)
  BY <1>1 DEF OrderedIn, PipeBelow, BodyOf
<1>4. PipeRising(new, t)
  <2> SUFFICES ASSUME NEW k \in 1 .. Len(new), NEW l \in 1 .. Len(new), k < l,
                      BodyOf(new[k], t), BodyOf(new[l], t)
               PROVE  Num(new[k].frame) < Num(new[l].frame)
    BY DEF PipeRising
  <2>1. k + 1 \in 1 .. Len(p) /\ l + 1 \in 1 .. Len(p) /\ k + 1 < l + 1
    BY <1>1
  <2> QED
    BY <1>1, <2>1 DEF OrderedIn, PipeRising
<1>5. LogFirst(log, new, t)
  <2> SUFFICES ASSUME NEW i \in 1 .. Len(log), NEW k \in 1 .. Len(new), Of(log[i], t),
                      BodyOf(new[k], t)
               PROVE  Num(log[i]) < Num(new[k].frame)
    BY DEF LogFirst
  <2>1. new[k] = p[k + 1] /\ k + 1 \in 1 .. Len(p) /\ 1 \in 1 .. Len(p) /\ 1 < k + 1
    BY <1>1
  <2>2. CASE i \in 1 .. Len(g)
    BY <1>2, <2>1, <2>2 DEF OrderedIn, LogFirst
  <2>3. CASE i = Len(g) + 1
    BY <1>2, <2>1, <2>3 DEF OrderedIn, PipeRising
  <2> QED
    BY <1>2, <2>2, <2>3
<1>6. LogBelow(log, t, top) /\ PipeBelow(new, t, top)
  <2>1. LogBelow(log, t, top)
    BY <1>2, <1>3 DEF OrderedIn, LogBelow
  <2>2. PipeBelow(new, t, top)
    BY <1>1 DEF OrderedIn, PipeBelow
  <2> QED
    BY <2>1, <2>2
<1>7. ASSUME NEW n PROVE InLog(log, t, n) <=> InLog(g, t, n) \/ n = Num(p[1].frame)
  BY <1>2, <1>3 DEF InLog
<1>8. ASSUME NEW n, InPipe(new, t, n) PROVE InPipe(p, t, n)
  BY <1>1, <1>8 DEF InPipe
<1>9. ASSUME NEW n, InPipe(p, t, n) PROVE InPipe(new, t, n) \/ n = Num(p[1].frame)
  <2>1. PICK k \in 1 .. Len(p) : BodyOf(p[k], t) /\ Num(p[k].frame) = n
    BY <1>9 DEF InPipe
  <2>2. k # 1 => k - 1 \in 1 .. Len(new) /\ new[k - 1] = p[k]
    BY <1>1, <2>1
  <2> QED
    BY <2>1, <2>2 DEF InPipe
<1>10. InPipe(p, t, Num(p[1].frame))
  BY <1>1 DEF InPipe
<1>11. \A n \in absent : ~InLog(log, t, n) /\ ~InPipe(new, t, n)
  BY <1>7, <1>8, <1>10 DEF OrderedIn
<1>12. \A n \in 1 .. top : InLog(log, t, n) \/ InPipe(new, t, n) \/ n \in missing
  BY <1>7, <1>9 DEF OrderedIn
<1>13. ASSUME NEW n \in 1 .. Num(p[1].frame) - 1 PROVE InLog(g, t, n)
  <2>1. n \in 1 .. top /\ n \notin missing /\ n < Num(p[1].frame)
    BY <1>3, <1>13
  <2>2. ASSUME InPipe(p, t, n) PROVE FALSE
    <3>1. PICK k \in 1 .. Len(p) : BodyOf(p[k], t) /\ Num(p[k].frame) = n
      BY <2>2 DEF InPipe
    <3>2. 1 \in 1 .. Len(p) /\ (k = 1 \/ 1 < k)
      BY <1>1, <3>1
    <3>3. 1 < k => Num(p[1].frame) < Num(p[k].frame)
      BY <3>1, <3>2 DEF OrderedIn, PipeRising
    <3> QED
      BY <1>3, <2>1, <3>1, <3>2, <3>3
  <2> QED
    BY <2>1, <2>2 DEF OrderedIn
<1>14. InOrder(log, t)
  <2> SUFFICES ASSUME NEW i \in 1 .. Len(log), Of(log[i], t)
               PROVE  /\ Num(log[i]) > 0
                      /\ \A j \in 1 .. i - 1 : Of(log[j], t) => Num(log[j]) < Num(log[i])
                      /\ \A n \in 1 .. Num(log[i]) - 1 :
                            \E j \in 1 .. i - 1 : Of(log[j], t) /\ Num(log[j]) = n
    BY DEF InOrder
  <2>1. CASE i \in 1 .. Len(g)
    <3>1. log[i] = g[i] /\ \A j \in 1 .. i - 1 : j \in 1 .. Len(g) /\ log[j] = g[j]
      BY <1>2, <2>1
    <3> QED
      BY <2>1, <3>1 DEF OrderedIn, InOrder
  <2>2. CASE i = Len(g) + 1
    <3>1. log[i] = p[1].frame /\ \A j \in 1 .. i - 1 : j \in 1 .. Len(g) /\ log[j] = g[j]
      BY <1>2, <2>2
    <3>2. \A j \in 1 .. i - 1 : Of(log[j], t) => Num(log[j]) < Num(log[i])
      BY <1>1, <3>1 DEF OrderedIn, LogFirst
    <3>3. \A n \in 1 .. Num(log[i]) - 1 : \E j \in 1 .. i - 1 : Of(log[j], t) /\ Num(log[j]) = n
      BY <1>2, <1>13, <2>2, <3>1 DEF InLog
    <3> QED
      BY <1>3, <3>1, <3>2, <3>3
  <2> QED
    BY <1>2, <2>1, <2>2
<1> QED
  BY <1>4, <1>5, <1>6, <1>11, <1>12, <1>14 DEF OrderedIn, new, log

\* The numbers that threads give out are numbers.
LEMMA Tops ==
    ASSUME IpcInv, NEW t \in Threads PROVE Top(t) \in Nat
  BY DEF IpcInv, TypeOK, Top, Threads

\* A step that moves no frame: t takes no new number and loses no excuse.
FramesStay(t) ==
    /\ UNCHANGED <<got, pipe, outOpen>> /\ Top(t)' = Top(t)
    /\ Unsent(t)' => Unsent(t)
    /\ outOpen /\ (Unsent(t) \/ GivenUp(t)) => Unsent(t)' \/ GivenUp(t)'

\* A step that leaves the frames of a thread where they are keeps their order.
LEMMA OrderUndisturbed ==
    ASSUME IpcInv, NEW t \in Threads, FramesStay(t) PROVE Ordered(t)'
<1> USE DEF FramesStay
<1>1. Absent(t)' \in SUBSET Absent(t) /\ Missing(t) \subseteq Missing(t)'
  BY DEF Absent, Missing
<1>2. OrderedIn(got, pipe, t, Top(t), Absent(t), Missing(t))
  BY DEF IpcInv, OrderInv, Ordered
<1>3. OrderedIn(got, pipe, t, Top(t), Absent(t)', Missing(t)')
  BY <1>1, <1>2, Tops, OrderKept
<1> QED
  BY <1>3 DEF Ordered

\* A step in which t takes its next number.
LEMMA OrderNext ==
    ASSUME IpcInv, NEW t \in Threads, UNCHANGED <<got, pipe, outOpen>>, Top(t)' = Top(t) + 1,
           ~Unsent(t), ~GivenUp(t), Unsent(t)'
    PROVE  Ordered(t)'
<1>1. CASE outOpen
  <2>1. /\ Absent(t) = {} /\ Missing(t) = {}
        /\ Absent(t)' = {Top(t) + 1} /\ {Top(t) + 1} \subseteq Missing(t)'
    BY <1>1, Tops DEF Absent, Missing
  <2>2. OrderedIn(got, pipe, t, Top(t), {}, {})
    BY <2>1 DEF IpcInv, OrderInv, Ordered
  <2>3. OrderedIn(got, pipe, t, Top(t) + 1, {Top(t) + 1}, {Top(t) + 1})
    BY <2>2, Tops, OrderAdvances
  <2>4. OrderedIn(got, pipe, t, Top(t) + 1, Absent(t)', Missing(t)')
    BY <2>1, <2>3, Tops, OrderKept
  <2> QED
    BY <2>4 DEF Ordered
<1>2. CASE ~outOpen
  <2> DEFINE top == Top(t)
  <2>1. OrderedIn(got, pipe, t, top, Absent(t), Missing(t)) /\ top \in Nat /\ Top(t)' = top + 1
    BY Tops DEF IpcInv, OrderInv, Ordered
  <2>2. Absent(t)' = {top + 1} /\ Missing(t)' = 1 .. top + 1
    BY <1>2, <2>1 DEF Absent, Missing
  <2> HIDE DEF top
  <2>3. LogBelow(got, t, top + 1) /\ PipeBelow(pipe, t, top + 1)
    BY <2>1 DEF OrderedIn, LogBelow, PipeBelow
  <2>4. ~InLog(got, t, top + 1) /\ ~InPipe(pipe, t, top + 1)
    BY <2>1 DEF OrderedIn, LogBelow, PipeBelow, InLog, InPipe
  <2>5. OrderedIn(got, pipe, t, top + 1, {top + 1}, 1 .. top + 1)
    BY <2>1, <2>3, <2>4 DEF OrderedIn
  <2> QED
    BY <2>1, <2>2, <2>5 DEF Ordered
<1> QED
  BY <1>1, <1>2 DEF IpcInv, TypeOK

\* A thread writes its own frames: the hello, or the one with its last number.
LEMMA WrittenOwn ==
    ASSUME IpcInv, NEW x \in Threads, wr[x].st # "idle"
    PROVE  /\ \/ wr[x].frame = Hello /\ x = "main" /\ pc = "helloing" /\ ~Of(wr[x].frame, x)
              \/ /\ wr[x].frame # Hello /\ Of(wr[x].frame, x)
                 /\ Num(wr[x].frame) = Top(x) /\ Top(x) > 0
           /\ \A u \in Threads : u # x => ~Of(wr[x].frame, u)
<1>1. CASE x = "main"
  <2>1. CASE pc = "helloing"
    <3>1. wr[x].frame = Hello /\ Hello.kind = "hello"
      BY <1>1, <2>1, FrameKinds DEF IpcInv, CallInv
    <3> QED
      BY <1>1, <2>1, <3>1 DEF Of
  <2>2. CASE pc = "answering"
    <3>1. PICK ok \in BOOLEAN : wr["main"].frame = Res(begun, ok)
      BY <2>2 DEF IpcInv, CallInv
    <3>2. begun \in Nat /\ begun > 0
      BY <2>2 DEF IpcInv, CallInv, TypeOK
    <3>3. wr["main"].frame.kind = "res" /\ wr["main"].frame.id = begun /\ wr["main"].frame # Hello
      BY <3>1, <3>2, FrameKinds
    <3> QED
      BY <1>1, <3>2, <3>3 DEF Of, Num, Top
  <2> QED
    BY <1>1, <2>1, <2>2 DEF IpcInv, CallInv
<1>2. CASE x \in Emitters
  <2>1. wr[x].frame = Event(x, events[x]) /\ events[x] \in Nat /\ events[x] > 0 /\ x # "main"
    BY <1>2, IpcAssumption DEF IpcInv, CallInv, TypeOK
  <2>2. /\ wr[x].frame.kind = "event" /\ wr[x].frame.from = x /\ wr[x].frame.n = events[x]
        /\ wr[x].frame # Hello
    BY <1>2, <2>1, FrameKinds
  <2> QED
    BY <1>2, <2>1, <2>2 DEF Of, Num, Top
<1> QED
  BY <1>1, <1>2 DEF Threads

\* Every step keeps each thread's frames in order.
LEMMA OrderStep ==
    ASSUME IpcInv, [Next]_vars, NEW t \in Threads PROVE Ordered(t)'
<1> USE IpcAssumption DEF launcherVars
<1>1. CASE SendHello
  <2>1. FramesStay(t)
    BY <1>1, FrameKinds DEF SendHello, FramesStay, IpcInv, TypeOK, CallInv, Top, Unsent, GivenUp,
                            Submit, Answer, Reach, Threads, readerVars, streamVars, Idle
  <2> QED
    BY <2>1, OrderUndisturbed
<1>2. CASE ReadHello
  <2>1. FramesStay(t)
    BY <1>2, FrameKinds DEF ReadHello, FramesStay, IpcInv, TypeOK, CallInv, Top, Unsent, GivenUp,
                            Submit, Answer, Reach, Threads, readerVars, streamVars, Idle
  <2> QED
    BY <2>1, OrderUndisturbed
<1>3. CASE ReadFrame
  <2>1. CASE t = "main" /\ Head(inbox).kind = "req"
    <3>1. /\ UNCHANGED <<got, pipe, outOpen>> /\ Top(t)' = Top(t) + 1
          /\ ~Unsent(t) /\ ~GivenUp(t) /\ Unsent(t)'
      BY <1>3, <2>1 DEF ReadFrame, IpcInv, TypeOK, CallInv, Top, Unsent, GivenUp, Threads,
                        readerVars
    <3> QED
      BY <3>1, OrderNext
  <2>2. CASE ~(t = "main" /\ Head(inbox).kind = "req")
    <3>1. /\ UNCHANGED <<got, pipe, outOpen>> /\ Top(t)' = Top(t)
          /\ Unsent(t)' => Unsent(t)
          /\ outOpen /\ (Unsent(t) \/ GivenUp(t)) => Unsent(t)' \/ GivenUp(t)'
      BY <1>3, <2>2 DEF ReadFrame, Top, Unsent, GivenUp, readerVars, streamVars
    <3> QED
      BY <3>1, OrderUndisturbed DEF FramesStay
  <2> QED
    BY <2>1, <2>2
<1>4. CASE ReadFails
  <2>1. FramesStay(t)
    BY <1>4, FrameKinds DEF ReadFails, FramesStay, IpcInv, TypeOK, CallInv, Top, Unsent, GivenUp,
                            Submit, Answer, Reach, Threads, readerVars, streamVars, Idle
  <2> QED
    BY <2>1, OrderUndisturbed
<1>5. CASE HandleStart
  <2>1. wr'["main"].frame # Hello
    <3>1. CallInv' /\ begun' \in Nat /\ pc' = "answering"
      BY <1>5, CallStep, TypeStep DEF HandleStart, Answer, TypeOK
    <3> QED
      BY <3>1, FrameKinds DEF CallInv
  <2>2. /\ UNCHANGED <<got, pipe, outOpen>> /\ Top(t)' = Top(t)
        /\ t # "main" => wr'[t] = wr[t]
        /\ wr'["main"].st = "want" /\ pc \in {"dispatch", "joining"} /\ pc' = "answering"
    BY <1>5 DEF HandleStart, IpcInv, TypeOK, Top, Submit, Answer, Threads, readerVars, streamVars
  <2>3. /\ Unsent(t)' => Unsent(t)
        /\ outOpen /\ (Unsent(t) \/ GivenUp(t)) => Unsent(t)' \/ GivenUp(t)'
    BY <2>1, <2>2 DEF Unsent, GivenUp
  <2> QED
    BY <2>2, <2>3, OrderUndisturbed DEF FramesStay
<1>6. CASE HandleStop
  <2>1. FramesStay(t)
    BY <1>6, FrameKinds DEF HandleStop, FramesStay, IpcInv, TypeOK, CallInv, Top, Unsent, GivenUp,
                            Submit, Answer, Reach, Threads, readerVars, streamVars, Idle
  <2> QED
    BY <2>1, OrderUndisturbed
<1>7. CASE StopJoined
  <2>1. wr'["main"].frame # Hello
    <3>1. CallInv' /\ begun' \in Nat /\ pc' = "answering"
      BY <1>7, CallStep, TypeStep DEF StopJoined, Answer, TypeOK
    <3> QED
      BY <3>1, FrameKinds DEF CallInv
  <2>2. /\ UNCHANGED <<got, pipe, outOpen>> /\ Top(t)' = Top(t)
        /\ t # "main" => wr'[t] = wr[t]
        /\ wr'["main"].st = "want" /\ pc \in {"dispatch", "joining"} /\ pc' = "answering"
    BY <1>7 DEF StopJoined, IpcInv, TypeOK, Top, Submit, Answer, Threads, readerVars, streamVars
  <2>3. /\ Unsent(t)' => Unsent(t)
        /\ outOpen /\ (Unsent(t) \/ GivenUp(t)) => Unsent(t)' \/ GivenUp(t)'
    BY <2>1, <2>2 DEF Unsent, GivenUp
  <2> QED
    BY <2>2, <2>3, OrderUndisturbed DEF FramesStay
<1>8. CASE HandleCall
  <2>1. FramesStay(t)
    BY <1>8, FrameKinds DEF HandleCall, FramesStay, IpcInv, TypeOK, CallInv, Top, Unsent, GivenUp,
                            Submit, Answer, Reach, Threads, readerVars, streamVars, Idle
  <2> QED
    BY <2>1, OrderUndisturbed
<1>9. CASE MainWritten
  <2>1. FramesStay(t)
    BY <1>9, FrameKinds DEF MainWritten, FramesStay, IpcInv, TypeOK, CallInv, Top, Unsent,
                            GivenUp, Submit, Answer, Reach, Threads, readerVars, streamVars, Idle
  <2> QED
    BY <2>1, OrderUndisturbed
<1>10. ASSUME NEW x \in Threads, Lock(x) PROVE Ordered(t)'
  <2>1. FramesStay(t)
    BY <1>10, FrameKinds DEF Lock, FramesStay, IpcInv, TypeOK, CallInv, Top, Unsent, GivenUp,
                             Submit, Answer, Reach, Threads, readerVars, streamVars, Idle
  <2> QED
    BY <2>1, OrderUndisturbed
<1>11. ASSUME NEW x \in Threads, WritePiece(x) PROVE Ordered(t)'
  <2> DEFINE c == [part |-> wr[x].st, frame |-> wr[x].frame]
  <2>1. /\ pipe' = Append(pipe, c) /\ outOpen /\ wr[x].st \in {"header", "body"}
        /\ UNCHANGED <<outOpen, got, pc, begun, events>>
        /\ wr' = [wr EXCEPT ![x] = [st |-> IF wr[x].st = "header" THEN "body" ELSE "ok",
                                    frame |-> wr[x].frame]]
    BY <1>11 DEF WritePiece, Reach, readerVars, streamVars
  <2>2. /\ wr[x].frame \in Frames /\ pipe \in Seq(Pieces) /\ wr \in [Threads -> Calls]
        /\ c \in Pieces /\ c.part = wr[x].st /\ c.frame = wr[x].frame
    BY <2>1, WrittenFrames, PieceValues DEF IpcInv, TypeOK
  <2> HIDE DEF c
  <2>3. Top(t)' = Top(t) /\ Top(t) \in Nat /\ GivenUp(t)' = GivenUp(t)
    <3>1. wr'[t].st = "failed" <=> wr[t].st = "failed"
      BY <2>1, <2>2
    <3> QED
      BY <2>1, <3>1, Tops DEF Top, GivenUp
  <2>4. /\ \/ wr[x].frame = Hello /\ x = "main" /\ pc = "helloing" /\ ~Of(wr[x].frame, x)
           \/ /\ wr[x].frame # Hello /\ Of(wr[x].frame, x)
              /\ Num(wr[x].frame) = Top(x) /\ Top(x) > 0
        /\ \A u \in Threads : u # x => ~Of(wr[x].frame, u)
    BY <2>1, WrittenOwn
  <2>5. OrderedIn(got, pipe, t, Top(t), Absent(t), Missing(t))
    BY DEF IpcInv, OrderInv, Ordered
  <2>6. CASE ~BodyOf(c, t)
    <3>1. OrderedIn(got, pipe', t, Top(t), Absent(t), Missing(t))
      BY <2>1, <2>2, <2>3, <2>5, <2>6, OrderIgnores
    <3>2. t # x => wr'[t] = wr[t]
      BY <2>1, <2>2
    <3>3. t = x /\ wr[t].frame # Hello => wr[t].st = "header" /\ wr'[t].st = "body"
      BY <2>1, <2>2, <2>4, <2>6 DEF BodyOf
    <3>4. t = x => wr'[t].frame = wr[t].frame
      BY <2>1, <2>2
    <3>5. Unsent(t)' <=> Unsent(t)
      <4>1. CASE t # x
        BY <2>1, <3>2, <4>1 DEF Unsent
      <4>2. CASE t = x /\ wr[t].frame # Hello
        BY <2>1, <3>3, <3>4, <4>2 DEF Unsent
      <4>3. CASE t = x /\ wr[t].frame = Hello
        BY <2>1, <2>4, <3>4, <4>3 DEF Unsent
      <4> QED
        BY <4>1, <4>2, <4>3
    <3>6. Absent(t)' \in SUBSET Absent(t) /\ Missing(t) \subseteq Missing(t)'
      BY <2>1, <2>3, <3>5 DEF Absent, Missing
    <3>7. OrderedIn(got, pipe', t, Top(t), Absent(t)', Missing(t)')
      BY <2>3, <3>1, <3>6, OrderKept
    <3> QED
      BY <2>1, <2>3, <3>7 DEF Ordered
  <2>7. CASE BodyOf(c, t)
    <3>1. t = x /\ wr[x].st = "body" /\ wr[x].frame # Hello /\ Num(c.frame) = Top(t) /\ Top(t) > 0
      BY <2>2, <2>4, <2>7 DEF BodyOf
    <3>2. Unsent(t) /\ Absent(t) = {Top(t)} /\ Missing(t) = {Top(t)}
      BY <2>1, <2>3, <3>1 DEF Unsent, Absent, Missing
    <3>3. pc \notin {"dispatch", "joining"} \/ t # "main"
      BY <2>1, <3>1 DEF IpcInv, CallInv
    <3>4. Absent(t)' = {}
      BY <2>1, <2>2, <3>1, <3>3 DEF Absent, Unsent
    <3>5. OrderedIn(got, pipe', t, Top(t), {}, {})
      BY <2>1, <2>2, <2>3, <2>5, <2>7, <3>1, <3>2, OrderGrows
    <3>6. OrderedIn(got, pipe', t, Top(t), Absent(t)', Missing(t)')
      BY <2>3, <3>4, <3>5, OrderKept
    <3> QED
      BY <2>1, <2>3, <3>6 DEF Ordered
  <2> QED
    BY <2>6, <2>7
<1>12. ASSUME NEW x \in Threads, WriteFails(x) PROVE Ordered(t)'
  <2>1. /\ wr'[x].st = "failed" /\ \A u \in Threads \ {x} : wr'[u] = wr[u]
        /\ UNCHANGED <<pc, begun, events, got, pipe, outOpen>>
    BY <1>12 DEF WriteFails, IpcInv, TypeOK, Reach, readerVars, streamVars
  <2>2. x \in Emitters => ~outOpen
    BY <2>1, LockStep DEF LockInv
  <2>3. Top(t)' = Top(t) /\ (Unsent(t)' => Unsent(t))
    BY <2>1 DEF Top, Unsent
  <2>4. outOpen /\ (Unsent(t) \/ GivenUp(t)) => Unsent(t)' \/ GivenUp(t)'
    BY <2>1, <2>2 DEF Unsent, GivenUp, Threads
  <2> QED
    BY <2>1, <2>3, <2>4, OrderUndisturbed DEF FramesStay
<1>13. ASSUME NEW x \in Emitters, EmitBegins(x) PROVE Ordered(t)'
  <2> DEFINE n == events[x] + 1
  <2>1. /\ events' = [events EXCEPT ![x] = n] /\ n \in Nat /\ wr[x].st = "idle"
        /\ wr' = [wr EXCEPT ![x] = [st |-> "want", frame |-> Event(x, n)]]
        /\ UNCHANGED <<pc, begun, got, pipe, outOpen>> /\ x # "main" /\ x \in Threads
    BY <1>13 DEF EmitBegins, IpcInv, TypeOK, Submit, readerVars, Threads
  <2>2. wr'[x].st = "want" /\ wr'[x].frame # Hello /\ events'[x] = events[x] + 1
    BY <2>1, FrameKinds DEF IpcInv, TypeOK
  <2>3. CASE t = x
    <3>1. Top(t)' = Top(t) + 1 /\ ~Unsent(t) /\ ~GivenUp(t) /\ Unsent(t)'
      BY <2>1, <2>2, <2>3 DEF Top, Unsent, GivenUp
    <3> QED
      BY <2>1, <3>1, OrderNext
  <2>4. CASE t # x
    <3>1. wr'[t] = wr[t] /\ Top(t)' = Top(t)
      BY <2>1, <2>4 DEF IpcInv, TypeOK, Top, Threads
    <3>2. Unsent(t)' = Unsent(t) /\ GivenUp(t)' = GivenUp(t)
      BY <2>1, <3>1 DEF Unsent, GivenUp
    <3> QED
      BY <2>1, <3>1, <3>2, OrderUndisturbed DEF FramesStay
  <2> QED
    BY <2>3, <2>4
<1>14. ASSUME NEW x \in Emitters, EmitReturns(x) PROVE Ordered(t)'
  <2>1. FramesStay(t)
    BY <1>14, FrameKinds DEF EmitReturns, FramesStay, IpcInv, TypeOK, CallInv, Top, Unsent,
                             GivenUp, Submit, Answer, Reach, Threads, readerVars, streamVars, Idle
  <2> QED
    BY <2>1, OrderUndisturbed
<1>15. ASSUME NEW x \in Emitters, EmitterEnds(x) PROVE Ordered(t)'
  <2>1. FramesStay(t)
    BY <1>15, FrameKinds DEF EmitterEnds, FramesStay, IpcInv, TypeOK, CallInv, Top, Unsent,
                             GivenUp, Submit, Answer, Reach, Threads, readerVars, streamVars, Idle
  <2> QED
    BY <2>1, OrderUndisturbed
<1>16. CASE LauncherGreets
  <2>1. FramesStay(t)
    BY <1>16, FrameKinds DEF LauncherGreets, FramesStay, IpcInv, TypeOK, CallInv, Top, Unsent,
                             GivenUp, Submit, Answer, Reach, Threads, readerVars, streamVars, Idle
  <2> QED
    BY <2>1, OrderUndisturbed
<1>17. CASE LauncherAsks
  <2>1. FramesStay(t)
    BY <1>17, FrameKinds DEF LauncherAsks, FramesStay, IpcInv, TypeOK, CallInv, Top, Unsent,
                             GivenUp, Submit, Answer, Reach, Threads, readerVars, streamVars, Idle
  <2> QED
    BY <2>1, OrderUndisturbed
<1>18. CASE LauncherNoise
  <2>1. FramesStay(t)
    BY <1>18, FrameKinds DEF LauncherNoise, FramesStay, IpcInv, TypeOK, CallInv, Top, Unsent,
                             GivenUp, Submit, Answer, Reach, Threads, readerVars, streamVars, Idle
  <2> QED
    BY <2>1, OrderUndisturbed
<1>19. CASE LauncherCloses
  <2>1. FramesStay(t)
    BY <1>19, FrameKinds DEF LauncherCloses, FramesStay, IpcInv, TypeOK, CallInv, Top, Unsent,
                             GivenUp, Submit, Answer, Reach, Threads, readerVars, streamVars, Idle
  <2> QED
    BY <2>1, OrderUndisturbed
<1>20. CASE LauncherDeaf
  <2>1. /\ pipe' = <<>> /\ outOpen' = FALSE /\ UNCHANGED <<got, wr, pc, begun, events>>
        /\ Top(t) \in Nat
    BY <1>20, Tops DEF LauncherDeaf, readerVars, streamVars
  <2>2. Top(t)' = Top(t) /\ Absent(t)' = Absent(t) /\ Missing(t)' = 1 .. Top(t)
    BY <2>1 DEF Top, Absent, Missing, Unsent
  <2>3. OrderedIn(got, pipe, t, Top(t), Absent(t), Missing(t))
    BY DEF IpcInv, OrderInv, Ordered
  <2>4. OrderedIn(got, <<>>, t, Top(t), Absent(t), 1 .. Top(t))
    BY <2>3 DEF OrderedIn, PipeRising, LogFirst, PipeBelow, InPipe
  <2> QED
    BY <2>1, <2>2, <2>4 DEF Ordered
<1>21. CASE LauncherReads
  <2>1. /\ UNCHANGED <<pc, begun, events, wr, outOpen>> /\ Top(t) \in Nat /\ outOpen
        /\ pipe' = Tail(pipe) /\ pipe # <<>> /\ pipe \in Seq(Pieces)
        /\ got \in Seq(Frames \cup {Garbage}) /\ pipe[1].frame \in Frames \cup {Garbage}
    BY <1>21, Tops, ReadEffect DEF LauncherReads, streamVars
  <2>2. /\ Top(t)' = Top(t) /\ Absent(t)' = Absent(t) /\ Missing(t)' = Missing(t)
        /\ Missing(t) \in SUBSET {Top(t)}
    BY <2>1 DEF Top, Absent, Missing, Unsent, GivenUp
  <2>3. OrderedIn(got, pipe, t, Top(t), Absent(t), Missing(t))
    BY DEF IpcInv, OrderInv, Ordered
  <2>4. CASE rx = NoFrame
    <3>1. got' = got /\ ~BodyOf(pipe[1], t)
      BY <1>21, <2>4, ReadEffect DEF BodyOf
    <3>2. OrderedIn(got, pipe', t, Top(t), Absent(t), Missing(t))
      BY <2>1, <2>3, <3>1, OrderSkips
    <3> QED
      BY <2>2, <3>1, <3>2 DEF Ordered
  <2>5. CASE rx # NoFrame
    <3>1. got' = Append(got, pipe[1].frame) /\ pipe[1].part = "body"
      BY <1>21, <2>5, ReadEffect
    <3>2. CASE Of(pipe[1].frame, t)
      <4>1. OrderedIn(got', pipe', t, Top(t), Absent(t), Missing(t))
        BY <2>1, <2>2, <2>3, <3>1, <3>2, OrderTakes DEF BodyOf
      <4> QED
        BY <2>2, <4>1 DEF Ordered
    <3>3. CASE ~Of(pipe[1].frame, t)
      <4>1. OrderedIn(got, pipe', t, Top(t), Absent(t), Missing(t))
        BY <2>1, <2>3, <3>3, OrderSkips DEF BodyOf
      <4>2. OrderedIn(got', pipe', t, Top(t), Absent(t), Missing(t))
        BY <2>1, <3>1, <3>3, <4>1, OrderLogs
      <4> QED
        BY <2>2, <4>2 DEF Ordered
    <3> QED
      BY <3>2, <3>3
  <2> QED
    BY <2>4, <2>5
<1>22. CASE UNCHANGED vars
  <2>1. FramesStay(t)
    BY <1>22, FrameKinds DEF vars, FramesStay, IpcInv, TypeOK, CallInv, Top, Unsent, GivenUp,
                             Submit, Answer, Reach, Threads, readerVars, streamVars, Idle
  <2> QED
    BY <2>1, OrderUndisturbed
<1> QED
  BY <1>1, <1>2, <1>3, <1>4, <1>5, <1>6, <1>7, <1>8, <1>9, <1>10, <1>11, <1>12, <1>13, <1>14,
     <1>15, <1>16, <1>17, <1>18, <1>19, <1>20, <1>21, <1>22
  DEF Next, MainStep, Ended

\* Every step keeps the hello in front.
LEMMA HelloStep ==
    ASSUME IpcInv, [Next]_vars PROVE HelloInv'
<1> USE IpcAssumption DEF launcherVars, readerVars, streamVars
<1>1. CASE SendHello
  <2>1. UNCHANGED <<got, rx, pipe, outOpen>>
    BY <1>1 DEF SendHello
  <2>2. outOpen /\ OnlyHello => OnlyHello'
    BY <1>1 DEF SendHello, OnlyHello, IpcInv, TypeOK, CallInv, Submit, Answer, Reach, Threads, Idle
  <2> QED
    BY <2>1, <2>2 DEF IpcInv, HelloInv, NothingWritten
<1>2. CASE ReadHello
  <2>1. UNCHANGED <<got, rx, pipe, outOpen>>
    BY <1>2 DEF ReadHello
  <2>2. outOpen /\ OnlyHello => OnlyHello'
    BY <1>2 DEF ReadHello, OnlyHello, IpcInv, TypeOK, CallInv, Submit, Answer, Reach, Threads, Idle
  <2> QED
    BY <2>1, <2>2 DEF IpcInv, HelloInv, NothingWritten
<1>3. CASE ReadFrame
  <2>1. UNCHANGED <<got, rx, pipe, outOpen>>
    BY <1>3 DEF ReadFrame
  <2>2. outOpen /\ OnlyHello => OnlyHello'
    BY <1>3 DEF ReadFrame, OnlyHello, IpcInv, TypeOK, CallInv, Submit, Answer, Reach, Threads, Idle
  <2> QED
    BY <2>1, <2>2 DEF IpcInv, HelloInv, NothingWritten
<1>4. CASE ReadFails
  <2>1. UNCHANGED <<got, rx, pipe, outOpen>>
    BY <1>4 DEF ReadFails
  <2>2. outOpen /\ OnlyHello => OnlyHello'
    BY <1>4 DEF ReadFails, OnlyHello, IpcInv, TypeOK, CallInv, Submit, Answer, Reach, Threads, Idle
  <2> QED
    BY <2>1, <2>2 DEF IpcInv, HelloInv, NothingWritten
<1>5. CASE HandleStart
  <2>1. UNCHANGED <<got, rx, pipe, outOpen>>
    BY <1>5 DEF HandleStart
  <2>2. outOpen /\ OnlyHello => OnlyHello'
    BY <1>5 DEF HandleStart, OnlyHello, IpcInv, TypeOK, CallInv, Submit, Answer, Reach, Threads,
                Idle
  <2> QED
    BY <2>1, <2>2 DEF IpcInv, HelloInv, NothingWritten
<1>6. CASE HandleStop
  <2>1. UNCHANGED <<got, rx, pipe, outOpen>>
    BY <1>6 DEF HandleStop
  <2>2. outOpen /\ OnlyHello => OnlyHello'
    BY <1>6 DEF HandleStop, OnlyHello, IpcInv, TypeOK, CallInv, Submit, Answer, Reach, Threads, Idle
  <2> QED
    BY <2>1, <2>2 DEF IpcInv, HelloInv, NothingWritten
<1>7. CASE StopJoined
  <2>1. UNCHANGED <<got, rx, pipe, outOpen>>
    BY <1>7 DEF StopJoined
  <2>2. outOpen /\ OnlyHello => OnlyHello'
    BY <1>7 DEF StopJoined, OnlyHello, IpcInv, TypeOK, CallInv, Submit, Answer, Reach, Threads, Idle
  <2> QED
    BY <2>1, <2>2 DEF IpcInv, HelloInv, NothingWritten
<1>8. CASE HandleCall
  <2>1. UNCHANGED <<got, rx, pipe, outOpen>>
    BY <1>8 DEF HandleCall
  <2>2. outOpen /\ OnlyHello => OnlyHello'
    BY <1>8 DEF HandleCall, OnlyHello, IpcInv, TypeOK, CallInv, Submit, Answer, Reach, Threads, Idle
  <2> QED
    BY <2>1, <2>2 DEF IpcInv, HelloInv, NothingWritten
<1>9. CASE MainWritten
  <2>1. UNCHANGED <<got, rx, pipe, outOpen>>
    BY <1>9 DEF MainWritten
  <2>2. outOpen /\ OnlyHello => OnlyHello'
    BY <1>9 DEF MainWritten, OnlyHello, IpcInv, TypeOK, CallInv, Submit, Answer, Reach, Threads,
                Idle
  <2> QED
    BY <2>1, <2>2 DEF IpcInv, HelloInv, NothingWritten
<1>10. ASSUME NEW x \in Threads, Lock(x) PROVE HelloInv'
  <2>1. UNCHANGED <<got, rx, pipe, outOpen>>
    BY <1>10 DEF Lock
  <2>2. outOpen /\ OnlyHello => OnlyHello'
    BY <1>10 DEF Lock, OnlyHello, IpcInv, TypeOK, CallInv, Submit, Answer, Reach, Threads, Idle
  <2> QED
    BY <2>1, <2>2 DEF IpcInv, HelloInv, NothingWritten
<1>11. ASSUME NEW x \in Threads, WritePiece(x) PROVE HelloInv'
  <2> DEFINE c == [part |-> wr[x].st, frame |-> wr[x].frame]
  <2>1. /\ pipe' = Append(pipe, c) /\ outOpen /\ wr[x].st \in {"header", "body"}
        /\ UNCHANGED <<got, rx, outOpen>>
    BY <1>11 DEF WritePiece
  <2>2. /\ wr[x].frame \in Frames /\ pipe \in Seq(Pieces)
        /\ c \in Pieces /\ c.frame = wr[x].frame
    BY <2>1, WrittenFrames, PieceValues DEF IpcInv, TypeOK
  <2> HIDE DEF c
  <2>3. /\ pipe' # <<>> /\ pipe # <<>> => pipe'[1] = pipe[1]
        /\ pipe = <<>> => pipe'[1] = c
    BY <2>1, <2>2, AppendProperties
  <2>4. NothingWritten => wr[x].frame = Hello
    BY <2>1 DEF IpcInv, CallInv, HelloInv, OnlyHello, Threads
  <2> QED
    BY <2>1, <2>2, <2>3, <2>4 DEF IpcInv, HelloInv, NothingWritten
<1>12. ASSUME NEW x \in Threads, WriteFails(x) PROVE HelloInv'
  <2>1. UNCHANGED <<got, rx, pipe, outOpen>>
    BY <1>12 DEF WriteFails
  <2>2. outOpen /\ OnlyHello => OnlyHello'
    BY <1>12 DEF WriteFails, OnlyHello, IpcInv, TypeOK, CallInv, Submit, Answer, Reach, Threads,
                 Idle
  <2> QED
    BY <2>1, <2>2 DEF IpcInv, HelloInv, NothingWritten
<1>13. ASSUME NEW x \in Emitters, EmitBegins(x) PROVE HelloInv'
  <2>1. UNCHANGED <<got, rx, pipe, outOpen>>
    BY <1>13 DEF EmitBegins
  <2>2. outOpen /\ OnlyHello => OnlyHello'
    BY <1>13 DEF EmitBegins, OnlyHello, IpcInv, TypeOK, CallInv, Submit, Answer, Reach, Threads,
                 Idle
  <2> QED
    BY <2>1, <2>2 DEF IpcInv, HelloInv, NothingWritten
<1>14. ASSUME NEW x \in Emitters, EmitReturns(x) PROVE HelloInv'
  <2>1. UNCHANGED <<got, rx, pipe, outOpen>>
    BY <1>14 DEF EmitReturns
  <2>2. outOpen /\ OnlyHello => OnlyHello'
    BY <1>14 DEF EmitReturns, OnlyHello, IpcInv, TypeOK, CallInv, Submit, Answer, Reach, Threads,
                 Idle
  <2> QED
    BY <2>1, <2>2 DEF IpcInv, HelloInv, NothingWritten
<1>15. ASSUME NEW x \in Emitters, EmitterEnds(x) PROVE HelloInv'
  <2>1. UNCHANGED <<got, rx, pipe, outOpen>>
    BY <1>15 DEF EmitterEnds
  <2>2. outOpen /\ OnlyHello => OnlyHello'
    BY <1>15 DEF EmitterEnds, OnlyHello, IpcInv, TypeOK, CallInv, Submit, Answer, Reach, Threads,
                 Idle
  <2> QED
    BY <2>1, <2>2 DEF IpcInv, HelloInv, NothingWritten
<1>16. CASE LauncherGreets
  <2>1. UNCHANGED <<got, rx, pipe, outOpen>>
    BY <1>16 DEF LauncherGreets
  <2>2. outOpen /\ OnlyHello => OnlyHello'
    BY <1>16 DEF LauncherGreets, OnlyHello, IpcInv, TypeOK, CallInv, Submit, Answer, Reach,
                 Threads, Idle
  <2> QED
    BY <2>1, <2>2 DEF IpcInv, HelloInv, NothingWritten
<1>17. CASE LauncherAsks
  <2>1. UNCHANGED <<got, rx, pipe, outOpen>>
    BY <1>17 DEF LauncherAsks
  <2>2. outOpen /\ OnlyHello => OnlyHello'
    BY <1>17 DEF LauncherAsks, OnlyHello, IpcInv, TypeOK, CallInv, Submit, Answer, Reach, Threads,
                 Idle
  <2> QED
    BY <2>1, <2>2 DEF IpcInv, HelloInv, NothingWritten
<1>18. CASE LauncherNoise
  <2>1. UNCHANGED <<got, rx, pipe, outOpen>>
    BY <1>18 DEF LauncherNoise
  <2>2. outOpen /\ OnlyHello => OnlyHello'
    BY <1>18 DEF LauncherNoise, OnlyHello, IpcInv, TypeOK, CallInv, Submit, Answer, Reach,
                 Threads, Idle
  <2> QED
    BY <2>1, <2>2 DEF IpcInv, HelloInv, NothingWritten
<1>19. CASE LauncherCloses
  <2>1. UNCHANGED <<got, rx, pipe, outOpen>>
    BY <1>19 DEF LauncherCloses
  <2>2. outOpen /\ OnlyHello => OnlyHello'
    BY <1>19 DEF LauncherCloses, OnlyHello, IpcInv, TypeOK, CallInv, Submit, Answer, Reach,
                 Threads, Idle
  <2> QED
    BY <2>1, <2>2 DEF IpcInv, HelloInv, NothingWritten
<1>20. CASE LauncherDeaf
  <2> QED
    BY <1>20 DEF LauncherDeaf, IpcInv, HelloInv, NothingWritten
<1>21. CASE LauncherReads
  <2>1. CASE rx = NoFrame
    <3>1. got' = got /\ rx' = pipe[1].frame /\ rx' # NoFrame /\ pipe # <<>>
      BY <1>21, <2>1, ReadEffect
    <3> QED
      BY <2>1, <3>1 DEF IpcInv, HelloInv, NothingWritten
  <2>2. CASE rx # NoFrame
    <3>1. /\ got' = Append(got, rx) /\ rx \in Frames \cup {Garbage}
          /\ got \in Seq(Frames \cup {Garbage})
      BY <1>21, <2>2, ReadEffect
    <3>2. got' # <<>> /\ (got = <<>> => got'[1] = rx) /\ (got # <<>> => got'[1] = got[1])
      BY <3>1, AppendProperties
    <3> QED
      BY <2>2, <3>2 DEF IpcInv, HelloInv, NothingWritten
  <2> QED
    BY <2>1, <2>2
<1>22. CASE UNCHANGED vars
  <2>1. UNCHANGED <<got, rx, pipe, outOpen>>
    BY <1>22 DEF vars
  <2>2. outOpen /\ OnlyHello => OnlyHello'
    BY <1>22 DEF vars, OnlyHello, IpcInv, TypeOK, CallInv, Submit, Answer, Reach, Threads, Idle
  <2> QED
    BY <2>1, <2>2 DEF IpcInv, HelloInv, NothingWritten
<1> QED
  BY <1>1, <1>2, <1>3, <1>4, <1>5, <1>6, <1>7, <1>8, <1>9, <1>10, <1>11, <1>12, <1>13, <1>14,
     <1>15, <1>16, <1>17, <1>18, <1>19, <1>20, <1>21, <1>22
  DEF Next, MainStep, Ended

-----------------------------------------------------------------------------
(* The theorems                                                            *)

\* The invariant holds in the beginning.
LEMMA IpcStart ==
    ASSUME Init PROVE IpcInv
<1> USE IpcAssumption DEF Init
<1>1. TypeOK
  <2>1. wr \in [Threads -> Calls]
    BY CallValues
  <2>2. inbox \in Seq(InFrames) /\ pipe \in Seq(Pieces) /\ got \in Seq(Frames \cup {Garbage})
    OBVIOUS
  <2>3. current \in [id : Nat, method : Methods \cup {"none"}]
    BY DEF NoReq
  <2> QED
    BY <2>1, <2>2, <2>3, FrameValues DEF TypeOK
<1>2. LockInv /\ CallInv
  BY DEF LockInv, CallInv, Holding, Idle, Threads
<1>3. WireInv
  <2>1. rx # Garbage
    BY FrameKinds
  <2>2. NextPart = "header"
    BY DEF NextPart, HeaderRead, Part
  <2> QED
    BY <2>1, <2>2 DEF WireInv, ValidWire, FramesIntact, Idle
<1>4. InboxInv
  BY DEF InboxInv, UnreadIn, Rising
<1>5. ASSUME NEW t \in Threads PROVE Ordered(t)
  <2>1. Top(t) = 0 /\ ~Unsent(t)
    BY DEF Top, Unsent, Idle, Threads
  <2> QED
    BY <2>1 DEF Ordered, OrderedIn, InOrder, PipeRising, LogFirst, LogBelow, PipeBelow, Absent
<1>6. HelloInv
  BY DEF HelloInv, OnlyHello, Idle, Threads
<1> QED
  BY <1>1, <1>2, <1>3, <1>4, <1>5, <1>6 DEF IpcInv, OrderInv

\* IpcInv is an invariant of the server: the lock, the calls in progress, the wire,
\* the inbox and the numbers of the frames agree at every moment.
THEOREM IpcInvariant == Spec => []IpcInv
<1>1. Init => IpcInv
  BY IpcStart
<1>2. IpcInv /\ [Next]_vars => IpcInv'
  BY TypeStep, LockStep, CallStep, WireStep, InboxStep, OrderStep, HelloStep
     DEF IpcInv, OrderInv, Threads
<1> QED
  BY <1>1, <1>2, PTL DEF Spec

\* write_locked never lets frames interleave: the launcher never meets a header
\* inside a body or a body without its header.
THEOREM FramesArriveWhole == Spec => []FramesIntact
<1>1. IpcInv => FramesIntact
  BY DEF IpcInv, WireInv
<1> QED
  BY <1>1, IpcInvariant, PTL

\* run() answers each request once, with its own id and in order.
THEOREM AnswersInOrder == Spec => []AnsweredOnceInOrder
<1>1. IpcInv => AnsweredOnceInOrder
  <2> SUFFICES ASSUME IpcInv PROVE AnsweredOnceInOrder
    OBVIOUS
  <2>1. InOrder(got, "main") /\ LogBelow(got, "main", begun) /\ begun \in Nat
    BY DEF IpcInv, TypeOK, OrderInv, Ordered, OrderedIn, Top, Threads
  <2>2. ASSUME NEW i \in 1 .. Len(got), Of(got[i], "main") PROVE got[i].id <= begun
    <3>1. Num(got[i]) = got[i].id
      BY <2>2 DEF Of, Num
    <3> QED
      BY <2>1, <2>2, <3>1 DEF LogBelow
  <2> QED
    BY <2>1, <2>2 DEF AnsweredOnceInOrder
<1> QED
  BY <1>1, IpcInvariant, PTL

\* What one thread emits arrives in the order it was emitted, without a gap, and
\* after the hello.
THEOREM EmittedInOrder == Spec => []EventsInOrder
<1>1. IpcInv => EventsInOrder
  BY DEF IpcInv, HelloInv, OrderInv, Ordered, OrderedIn, Threads, EventsInOrder
<1> QED
  BY <1>1, IpcInvariant, PTL

-----------------------------------------------------------------------------
(* write_locked implements the channel of whole frames                     *)

\* Two pieces make a frame.
LEMMA Halves ==
    \A n \in Nat : /\ n \div 2 \in Nat
                   /\ Part(n) = "header" => n = 2 * (n \div 2) + 1
                   /\ Part(n) = "body" => n = 2 * (n \div 2)
  BY DEF Part

\* The bodies on the wire.
LEMMA BodiesAre ==
    ASSUME NEW p \in Seq(Pieces), NEW h \in {0, 1}
    PROVE  /\ Bodies(p, h) \in Seq(Frames)
           /\ Len(Bodies(p, h)) = (Len(p) + h) \div 2
           /\ \A i \in 1 .. (Len(p) + h) \div 2 :
                 Bodies(p, h)[i] = p[2 * i - h].frame /\ 2 * i - h \in 1 .. Len(p)
<1> DEFINE n == (Len(p) + h) \div 2
<1>1. n \in Nat /\ 2 * n <= Len(p) + h
  <2>1. Len(p) + h \in Nat
    OBVIOUS
  <2>2. /\ n \in Nat /\ Part(Len(p) + h) \in {"header", "body"}
        /\ Part(Len(p) + h) = "header" => Len(p) + h = 2 * n + 1
        /\ Part(Len(p) + h) = "body" => Len(p) + h = 2 * n
    BY <2>1, Halves, Parity
  <2> QED
    BY <2>1, <2>2
<1> HIDE DEF n
<1>2. \A i \in 1 .. n : 2 * i - h \in 1 .. Len(p)
  BY <1>1
<1>3. ASSUME NEW k \in 1 .. Len(p) PROVE p[k].frame \in Frames
  <2>1. p[k] \in Pieces
    OBVIOUS
  <2> QED
    BY <2>1 DEF Pieces
<1>4. [i \in 1 .. n |-> p[2 * i - h].frame] \in Seq(Frames)
  BY <1>1, <1>2, <1>3
<1>5. Len([i \in 1 .. n |-> p[2 * i - h].frame]) = n
  BY <1>1
<1> QED
  BY <1>2, <1>4, <1>5 DEF Bodies, n

\* A header adds no body to the wire ...
LEMMA BodiesAfterHeader ==
    ASSUME NEW p \in Seq(Pieces), NEW h \in {0, 1}, NEW c \in Pieces,
           Part(Len(p) + 1 + h) = "header"
    PROVE  Bodies(Append(p, c), h) = Bodies(p, h)
<1> DEFINE new == Append(p, c)
<1>1. /\ Len(new) = Len(p) + 1 /\ Len(p) \in Nat /\ new \in Seq(Pieces)
      /\ \A k \in 1 .. Len(p) : new[k] = p[k]
  BY AppendProperties
<1> HIDE DEF new
<1>2. (Len(new) + h) \div 2 = (Len(p) + h) \div 2
  <2>1. Len(p) + h \in Nat /\ Len(new) + h = Len(p) + 1 + h /\ Len(p) + 1 + h = (Len(p) + h) + 1
    BY <1>1
  <2>2. Part(Len(p) + h) = "body"
    BY <2>1, Parity
  <2>3. Len(p) + h = 2 * ((Len(p) + h) \div 2) /\ Len(new) + h = 2 * ((Len(new) + h) \div 2) + 1
    BY <2>1, <2>2, Halves
  <2> QED
    BY <2>1, <2>3, Halves
<1>3. /\ Bodies(new, h) \in Seq(Frames) /\ Len(Bodies(new, h)) = (Len(new) + h) \div 2
      /\ \A i \in 1 .. (Len(new) + h) \div 2 :
            Bodies(new, h)[i] = new[2 * i - h].frame /\ 2 * i - h \in 1 .. Len(new)
  BY <1>1, BodiesAre
<1>4. /\ Bodies(p, h) \in Seq(Frames) /\ Len(Bodies(p, h)) = (Len(p) + h) \div 2
      /\ \A i \in 1 .. (Len(p) + h) \div 2 :
            Bodies(p, h)[i] = p[2 * i - h].frame /\ 2 * i - h \in 1 .. Len(p)
  BY BodiesAre
<1>5. \A i \in 1 .. (Len(p) + h) \div 2 : Bodies(new, h)[i] = Bodies(p, h)[i]
  BY <1>1, <1>2, <1>3, <1>4
<1>6. Bodies(new, h) = Bodies(p, h)
  BY <1>2, <1>3, <1>4, <1>5, SeqEqual
<1> QED
  BY <1>6 DEF new

\* ... and a body adds one.
LEMMA BodiesAfterBody ==
    ASSUME NEW p \in Seq(Pieces), NEW h \in {0, 1}, NEW c \in Pieces,
           Part(Len(p) + 1 + h) = "body"
    PROVE  Bodies(Append(p, c), h) = Append(Bodies(p, h), c.frame)
<1> DEFINE new == Append(p, c)
           old == Bodies(p, h)
           n   == (Len(p) + h) \div 2
<1>1. /\ Len(new) = Len(p) + 1 /\ Len(p) \in Nat /\ new \in Seq(Pieces)
      /\ new[Len(p) + 1] = c /\ \A k \in 1 .. Len(p) : new[k] = p[k]
  BY AppendProperties
<1> HIDE DEF new
<1>2. n \in Nat /\ (Len(new) + h) \div 2 = n + 1 /\ 2 * (n + 1) - h = Len(p) + 1
  <2>1. Len(p) + h \in Nat /\ Len(new) + h = Len(p) + 1 + h /\ Len(p) + 1 + h = (Len(p) + h) + 1
    BY <1>1
  <2>2. Part(Len(p) + h) = "header"
    BY <2>1, Parity
  <2>3. Len(p) + h = 2 * n + 1 /\ Len(new) + h = 2 * ((Len(new) + h) \div 2)
    BY <2>1, <2>2, Halves
  <2> QED
    BY <2>1, <2>3, Halves
<1>3. /\ old \in Seq(Frames) /\ Len(old) = n /\ c.frame \in Frames
      /\ \A i \in 1 .. n : old[i] = p[2 * i - h].frame /\ 2 * i - h \in 1 .. Len(p)
  BY BodiesAre DEF Pieces
<1>4. /\ Bodies(new, h) \in Seq(Frames) /\ Len(Bodies(new, h)) = (Len(new) + h) \div 2
      /\ \A i \in 1 .. (Len(new) + h) \div 2 : Bodies(new, h)[i] = new[2 * i - h].frame
  BY <1>1, BodiesAre
<1>10. (Len(new) + h) \div 2 = n + 1
  BY <1>2
<1> HIDE DEF old, n
<1>11. \A i \in 1 .. n + 1 : Bodies(new, h)[i] = new[2 * i - h].frame
  BY <1>4, <1>10
<1>5. Bodies(new, h)[n + 1] = c.frame
  <2>1. n + 1 \in 1 .. n + 1
    BY <1>2
  <2>2. Bodies(new, h)[n + 1] = new[2 * (n + 1) - h].frame
    BY <1>11, <2>1
  <2> QED
    BY <1>1, <1>2, <2>2
<1>6. ASSUME NEW i \in 1 .. n PROVE Bodies(new, h)[i] = old[i]
  <2>1. i \in 1 .. n + 1
    BY <1>2
  <2>2. Bodies(new, h)[i] = new[2 * i - h].frame
    BY <1>11, <2>1
  <2> QED
    BY <1>1, <1>3, <2>2
<1>7. /\ Append(old, c.frame) \in Seq(Frames) /\ Len(Append(old, c.frame)) = n + 1
      /\ Append(old, c.frame)[n + 1] = c.frame
      /\ \A i \in 1 .. n : Append(old, c.frame)[i] = old[i]
  BY <1>3, AppendProperties
<1>8. \A i \in 1 .. n + 1 : Bodies(new, h)[i] = Append(old, c.frame)[i]
  BY <1>2, <1>5, <1>6, <1>7
<1>9. Bodies(new, h) = Append(old, c.frame)
  BY <1>2, <1>4, <1>7, <1>8, SeqEqual
<1> QED
  BY <1>9 DEF new, old

\* Reading a header takes no body from the wire ...
LEMMA BodiesWithoutHeader ==
    ASSUME NEW p \in Seq(Pieces), p # <<>>
    PROVE  Bodies(Tail(p), 1) = Bodies(p, 0)
<1> DEFINE new == Tail(p)
<1>1. /\ Len(new) = Len(p) - 1 /\ Len(p) \in Nat \ {0} /\ new \in Seq(Pieces)
      /\ \A k \in 1 .. Len(new) : new[k] = p[k + 1]
  BY HeadTailProperties
<1> HIDE DEF new
<1>2. (Len(new) + 1) \div 2 = (Len(p) + 0) \div 2
  BY <1>1
<1>3. ASSUME NEW i \in 1 .. (Len(p) + 0) \div 2 PROVE Bodies(new, 1)[i] = Bodies(p, 0)[i]
  <2>1. i \in Int /\ Bodies(new, 1)[i] = new[2 * i - 1].frame /\ 2 * i - 1 \in 1 .. Len(new)
    <3>1. \A j \in 1 .. (Len(new) + 1) \div 2 :
             Bodies(new, 1)[j] = new[2 * j - 1].frame /\ 2 * j - 1 \in 1 .. Len(new)
      BY <1>1, BodiesAre
    <3>2. (Len(p) + 0) \div 2 \in Nat
      BY <1>1, Halves
    <3> QED
      BY <1>2, <3>1, <3>2
  <2>2. Bodies(p, 0)[i] = p[2 * i - 0].frame
    BY BodiesAre
  <2>3. 2 * i - 0 = (2 * i - 1) + 1
    BY <2>1
  <2> QED
    BY <1>1, <2>1, <2>2, <2>3
<1>4. /\ Bodies(new, 1) \in Seq(Frames) /\ Len(Bodies(new, 1)) = (Len(p) + 0) \div 2
      /\ Bodies(p, 0) \in Seq(Frames) /\ Len(Bodies(p, 0)) = (Len(p) + 0) \div 2
  BY <1>1, <1>2, BodiesAre
<1>5. Bodies(new, 1) = Bodies(p, 0)
  BY <1>3, <1>4, SeqEqual
<1> QED
  BY <1>5 DEF new

\* ... and reading a body takes the first one.
LEMMA BodiesWithoutBody ==
    ASSUME NEW p \in Seq(Pieces), p # <<>>
    PROVE  /\ Bodies(p, 1) # <<>> /\ Head(Bodies(p, 1)) = p[1].frame
           /\ Bodies(Tail(p), 0) = Tail(Bodies(p, 1))
<1> DEFINE new == Tail(p)
           old == Bodies(p, 1)
           n   == (Len(new) + 0) \div 2
<1>1. /\ Len(new) = Len(p) - 1 /\ Len(p) \in Nat \ {0} /\ new \in Seq(Pieces)
      /\ \A k \in 1 .. Len(new) : new[k] = p[k + 1]
  BY HeadTailProperties
<1> HIDE DEF new
<1>2. (Len(p) + 1) \div 2 = n + 1 /\ n \in Nat
  <2>1. Len(p) + 1 = (Len(new) + 0) + 2 /\ Len(new) + 0 \in Nat /\ Len(p) + 1 \in Nat
    BY <1>1
  <2>2. Part(Len(p) + 1) = Part(Len(new) + 0)
    BY <2>1 DEF Part
  <2>3. n \in Nat /\ (Len(p) + 1) \div 2 \in Nat
    BY <2>1, Halves
  <2>4. CASE Part(Len(p) + 1) = "header"
    <3>1. Len(p) + 1 = 2 * ((Len(p) + 1) \div 2) + 1 /\ Len(new) + 0 = 2 * n + 1
      BY <2>1, <2>2, <2>4, Halves
    <3> QED
      BY <2>1, <2>3, <3>1
  <2>5. CASE Part(Len(p) + 1) = "body"
    <3>1. Len(p) + 1 = 2 * ((Len(p) + 1) \div 2) /\ Len(new) + 0 = 2 * n
      BY <2>1, <2>2, <2>5, Halves
    <3> QED
      BY <2>1, <2>3, <3>1
  <2> QED
    BY <2>1, <2>4, <2>5, Parity
<1> HIDE DEF n
<1>3. old \in Seq(Frames) /\ Len(old) = n + 1
  BY <1>2, BodiesAre
<1>4. old # <<>> /\ Head(old) = old[1]
  BY <1>2, <1>3
<1>5. old[1] = p[2 * 1 - 1].frame
  BY <1>2, BodiesAre
<1>6. /\ Tail(old) \in Seq(Frames) /\ Len(Tail(old)) = n
      /\ \A i \in 1 .. n : Tail(old)[i] = old[i + 1]
  <2> HIDE DEF old
  <2>1. /\ Tail(old) \in Seq(Frames) /\ Len(Tail(old)) = Len(old) - 1
        /\ \A i \in 1 .. Len(Tail(old)) : Tail(old)[i] = old[i + 1]
    BY <1>3, <1>4, HeadTailProperties
  <2> QED
    BY <1>2, <1>3, <2>1
<1>7. Bodies(new, 0) \in Seq(Frames) /\ Len(Bodies(new, 0)) = n
  BY <1>1, BodiesAre DEF n
<1>8. ASSUME NEW i \in 1 .. n PROVE Bodies(new, 0)[i] = Tail(old)[i]
  <2>1. Bodies(new, 0)[i] = new[2 * i - 0].frame /\ 2 * i - 0 \in 1 .. Len(new)
    BY <1>1, BodiesAre DEF n
  <2>2. old[i + 1] = p[2 * (i + 1) - 1].frame
    BY <1>2, BodiesAre
  <2>3. 2 * (i + 1) - 1 = (2 * i - 0) + 1
    BY <1>2
  <2> QED
    BY <1>1, <1>6, <2>1, <2>2, <2>3
<1>9. Bodies(new, 0) = Tail(old)
  BY <1>6, <1>7, <1>8, SeqEqual
<1>10. 2 * 1 - 1 = 1
  OBVIOUS
<1> QED
  BY <1>4, <1>5, <1>9, <1>10 DEF new, old

\* A step of one call: what is handed in changes for that thread alone.
LEMMA HandedInAfter ==
    ASSUME IpcInv, NEW x \in Threads, NEW s \in WriteStates, NEW f,
           wr' = [wr EXCEPT ![x] = [st |-> s, frame |-> f]]
    PROVE  HandedIn' = [HandedIn EXCEPT ![x] =
               IF s \in {"want", "header", "body"} THEN f ELSE NoFrame]
<1>1. wr \in [Threads -> Calls]
  BY DEF IpcInv, TypeOK
<1>2. wr'[x] = [st |-> s, frame |-> f] /\ \A t \in Threads : t # x => wr'[t] = wr[t]
  BY <1>1
<1>3. wr'[x].st = s /\ wr'[x].frame = f
  BY <1>2
<1> DEFINE v == IF s \in {"want", "header", "body"} THEN f ELSE NoFrame
<1>4. HandedIn'[x] = v /\ \A t \in Threads : t # x => HandedIn'[t] = HandedIn[t]
  BY <1>2, <1>3 DEF HandedIn
<1>5. DOMAIN HandedIn' = Threads /\ DOMAIN HandedIn = Threads
  BY DEF HandedIn
<1>6. HandedIn' = [t \in Threads |-> HandedIn'[t]]
  BY DEF HandedIn
<1> HIDE DEF v
<1>7. HandedIn' = [HandedIn EXCEPT ![x] = v]
  BY <1>4, <1>5, <1>6
<1> QED
  BY <1>7 DEF v

\* A step that leaves calls and wire alone as far as the channel can tell.
LEMMA ChanUndisturbed ==
    ASSUME UNCHANGED <<pipe, rx, got>>,
           \A t \in Threads : HandedIn'[t] = HandedIn[t]
    PROVE  UNCHANGED Channel!chanVars
<1>1. HandedIn' = HandedIn
  BY DEF HandedIn
<1>2. Bodies(pipe, HeaderRead)' = Bodies(pipe, HeaderRead)
  BY DEF Bodies, HeaderRead
<1> QED
  BY <1>1, <1>2 DEF Channel!chanVars

\* write_locked is called.
LEMMA ChanHandIn ==
    ASSUME IpcInv, NEW x \in Threads, NEW f, f # NoFrame, wr[x].st = "idle",
           wr' = [wr EXCEPT ![x] = [st |-> "want", frame |-> f]], UNCHANGED <<pipe, rx, got>>
    PROVE  Channel!HandIn(x)
<1>1. HandedIn' = [HandedIn EXCEPT ![x] = f]
  BY HandedInAfter DEF WriteStates
<1>2. HandedIn[x] = NoFrame /\ HandedIn'[x] = f
  BY <1>1 DEF HandedIn
<1>3. Bodies(pipe, HeaderRead)' = Bodies(pipe, HeaderRead)
  BY DEF Bodies, HeaderRead
<1> QED
  BY <1>1, <1>2, <1>3 DEF Channel!HandIn

\* Every step of the server is a step of the channel, or none.
LEMMA ChanStep ==
    ASSUME IpcInv, [Next]_vars PROVE [Channel!ChanNext]_(Channel!chanVars)
<1> USE IpcAssumption DEF launcherVars, readerVars, streamVars
<1>1. CASE SendHello
  <2>1. /\ "main" \in Threads /\ wr["main"].st = "idle" /\ UNCHANGED <<pipe, rx, got>>
    BY <1>1 DEF SendHello, IpcInv, CallInv, TypeOK, Threads
  <2>2. PICK f : f # NoFrame /\ wr' = [wr EXCEPT !["main"] = [st |-> "want", frame |-> f]]
    BY <1>1, FrameKinds DEF SendHello, Submit
  <2> QED
    BY <2>1, <2>2, ChanHandIn DEF Channel!ChanNext
<1>2. CASE ReadHello
  <2>1. UNCHANGED <<pipe, rx, got>> /\ \A t \in Threads : HandedIn'[t] = HandedIn[t]
    BY <1>2 DEF ReadHello, HandedIn, IpcInv, TypeOK, Reach, Threads, Idle
  <2> QED
    BY <2>1, ChanUndisturbed
<1>3. CASE ReadFrame
  <2>1. UNCHANGED <<pipe, rx, got>> /\ \A t \in Threads : HandedIn'[t] = HandedIn[t]
    BY <1>3 DEF ReadFrame, HandedIn, IpcInv, TypeOK, Reach, Threads, Idle
  <2> QED
    BY <2>1, ChanUndisturbed
<1>4. CASE ReadFails
  <2>1. UNCHANGED <<pipe, rx, got>> /\ \A t \in Threads : HandedIn'[t] = HandedIn[t]
    BY <1>4 DEF ReadFails, HandedIn, IpcInv, TypeOK, Reach, Threads, Idle
  <2> QED
    BY <2>1, ChanUndisturbed
<1>5. CASE HandleStart
  <2>1. /\ "main" \in Threads /\ wr["main"].st = "idle" /\ UNCHANGED <<pipe, rx, got>>
    BY <1>5 DEF HandleStart, IpcInv, CallInv, TypeOK, Threads
  <2>2. PICK f : f # NoFrame /\ wr' = [wr EXCEPT !["main"] = [st |-> "want", frame |-> f]]
    <3>1. PICK f : wr' = [wr EXCEPT !["main"] = [st |-> "want", frame |-> f]]
      BY <1>5 DEF HandleStart, Answer, Submit
    <3>2. wr'["main"].frame = f
      BY <2>1, <3>1 DEF IpcInv, TypeOK
    <3>3. CallInv' /\ begun' \in Nat /\ pc' = "answering"
      BY <1>5, CallStep, TypeStep DEF HandleStart, Answer, TypeOK
    <3>4. f # NoFrame
      BY <3>2, <3>3, FrameKinds DEF CallInv
    <3> QED
      BY <3>1, <3>4
  <2> QED
    BY <2>1, <2>2, ChanHandIn DEF Channel!ChanNext
<1>6. CASE HandleStop
  <2>1. UNCHANGED <<pipe, rx, got>> /\ \A t \in Threads : HandedIn'[t] = HandedIn[t]
    BY <1>6 DEF HandleStop, HandedIn, IpcInv, TypeOK, Reach, Threads, Idle
  <2> QED
    BY <2>1, ChanUndisturbed
<1>7. CASE StopJoined
  <2>1. /\ "main" \in Threads /\ wr["main"].st = "idle" /\ UNCHANGED <<pipe, rx, got>>
    BY <1>7 DEF StopJoined, IpcInv, CallInv, TypeOK, Threads
  <2>2. PICK f : f # NoFrame /\ wr' = [wr EXCEPT !["main"] = [st |-> "want", frame |-> f]]
    <3>1. PICK f : wr' = [wr EXCEPT !["main"] = [st |-> "want", frame |-> f]]
      BY <1>7 DEF StopJoined, Answer, Submit
    <3>2. wr'["main"].frame = f
      BY <2>1, <3>1 DEF IpcInv, TypeOK
    <3>3. CallInv' /\ begun' \in Nat /\ pc' = "answering"
      BY <1>7, CallStep, TypeStep DEF StopJoined, Answer, TypeOK
    <3>4. f # NoFrame
      BY <3>2, <3>3, FrameKinds DEF CallInv
    <3> QED
      BY <3>1, <3>4
  <2> QED
    BY <2>1, <2>2, ChanHandIn DEF Channel!ChanNext
<1>8. CASE HandleCall
  <2>1. /\ "main" \in Threads /\ wr["main"].st = "idle" /\ UNCHANGED <<pipe, rx, got>>
    BY <1>8 DEF HandleCall, IpcInv, CallInv, TypeOK, Threads
  <2>2. PICK f : f # NoFrame /\ wr' = [wr EXCEPT !["main"] = [st |-> "want", frame |-> f]]
    <3>1. PICK f : wr' = [wr EXCEPT !["main"] = [st |-> "want", frame |-> f]]
      BY <1>8 DEF HandleCall, Answer, Submit
    <3>2. wr'["main"].frame = f
      BY <2>1, <3>1 DEF IpcInv, TypeOK
    <3>3. CallInv' /\ begun' \in Nat /\ pc' = "answering"
      BY <1>8, CallStep, TypeStep DEF HandleCall, Answer, TypeOK
    <3>4. f # NoFrame
      BY <3>2, <3>3, FrameKinds DEF CallInv
    <3> QED
      BY <3>1, <3>4
  <2> QED
    BY <2>1, <2>2, ChanHandIn DEF Channel!ChanNext
<1>9. CASE MainWritten
  <2>1. UNCHANGED <<pipe, rx, got>> /\ \A t \in Threads : HandedIn'[t] = HandedIn[t]
    BY <1>9 DEF MainWritten, HandedIn, IpcInv, TypeOK, Reach, Threads, Idle
  <2> QED
    BY <2>1, ChanUndisturbed
<1>10. ASSUME NEW x \in Threads, Lock(x) PROVE [Channel!ChanNext]_(Channel!chanVars)
  <2>1. UNCHANGED <<pipe, rx, got>> /\ \A t \in Threads : HandedIn'[t] = HandedIn[t]
    BY <1>10 DEF Lock, HandedIn, IpcInv, TypeOK, Reach, Threads, Idle
  <2> QED
    BY <2>1, ChanUndisturbed
<1>11. ASSUME NEW x \in Threads, WritePiece(x) PROVE [Channel!ChanNext]_(Channel!chanVars)
  <2> DEFINE c == [part |-> wr[x].st, frame |-> wr[x].frame]
  <2>1. /\ pipe' = Append(pipe, c) /\ outOpen /\ UNCHANGED <<got, rx>>
        /\ wr[x].st \in {"header", "body"}
        /\ wr' = [wr EXCEPT ![x] = [st |-> IF wr[x].st = "header" THEN "body" ELSE "ok",
                                    frame |-> wr[x].frame]]
    BY <1>11 DEF WritePiece, Reach
  <2>2. /\ wr[x].frame \in Frames /\ wr[x].frame # NoFrame /\ pipe \in Seq(Pieces)
        /\ c \in Pieces /\ c.frame = wr[x].frame /\ HeaderRead \in {0, 1}
    BY <2>1, WrittenFrames, PieceValues DEF IpcInv, TypeOK, HeaderRead
  <2>3. wr[x].st = NextPart /\ HeaderRead' = HeaderRead
    <3>1. \A t \in Threads : t # x => wr[t].st # "body"
      BY <2>1, OneInBody DEF Holding
    <3> QED
      BY <2>1, <3>1 DEF IpcInv, WireInv, HeaderRead
  <2>4. HandedIn' = [HandedIn EXCEPT ![x] = IF wr[x].st = "header" THEN wr[x].frame ELSE NoFrame]
    <3>1. CASE wr[x].st = "header"
      BY <2>1, <3>1, HandedInAfter DEF WriteStates
    <3>2. CASE wr[x].st = "body"
      BY <2>1, <3>2, HandedInAfter DEF WriteStates
    <3> QED
      BY <2>1, <3>1, <3>2
  <2>5. HandedIn[x] = wr[x].frame
    BY <2>1 DEF HandedIn
  <2> HIDE DEF c
  <2>6. CASE wr[x].st = "header"
    <3>1. Bodies(pipe', HeaderRead) = Bodies(pipe, HeaderRead)
      BY <2>1, <2>2, <2>3, <2>6, BodiesAfterHeader DEF NextPart
    <3>2. HandedIn' = HandedIn
      BY <2>4, <2>5, <2>6 DEF HandedIn
    <3> QED
      BY <2>1, <2>3, <3>1, <3>2 DEF Channel!chanVars
  <2>7. CASE wr[x].st = "body"
    <3>1. Bodies(pipe', HeaderRead) = Append(Bodies(pipe, HeaderRead), wr[x].frame)
      BY <2>1, <2>2, <2>3, <2>7, BodiesAfterBody DEF NextPart
    <3>2. HandedIn' = [HandedIn EXCEPT ![x] = NoFrame]
      BY <2>4, <2>7
    <3> QED
      BY <2>1, <2>2, <2>3, <2>5, <3>1, <3>2 DEF Channel!ChanNext, Channel!Enter
  <2> QED
    BY <2>1, <2>6, <2>7
<1>12. ASSUME NEW x \in Threads, WriteFails(x) PROVE [Channel!ChanNext]_(Channel!chanVars)
  <2>1. /\ wr[x].st \in {"header", "body"} /\ UNCHANGED <<pipe, rx, got>>
        /\ wr' = [wr EXCEPT ![x] = [st |-> "failed", frame |-> wr[x].frame]]
    BY <1>12 DEF WriteFails, Reach
  <2>2. HandedIn' = [HandedIn EXCEPT ![x] = NoFrame]
    BY <2>1, HandedInAfter DEF WriteStates
  <2>3. HandedIn[x] # NoFrame
    BY <2>1, WrittenFrames DEF HandedIn
  <2>4. Bodies(pipe, HeaderRead)' = Bodies(pipe, HeaderRead)
    BY <2>1 DEF Bodies, HeaderRead
  <2> QED
    BY <2>1, <2>2, <2>3, <2>4 DEF Channel!ChanNext, Channel!Drop
<1>13. ASSUME NEW x \in Emitters, EmitBegins(x) PROVE [Channel!ChanNext]_(Channel!chanVars)
  <2>1. /\ x \in Threads /\ wr[x].st = "idle" /\ UNCHANGED <<pipe, rx, got>>
        /\ wr' = [wr EXCEPT ![x] = [st |-> "want", frame |-> Event(x, events[x] + 1)]]
    BY <1>13 DEF EmitBegins, Submit, Threads
  <2>2. Event(x, events[x] + 1) # NoFrame
    BY FrameKinds DEF IpcInv, TypeOK
  <2>3. Channel!HandIn(x)
    BY <2>1, <2>2, ChanHandIn
  <2> QED
    BY <2>1, <2>3 DEF Channel!ChanNext
<1>14. ASSUME NEW x \in Emitters, EmitReturns(x) PROVE [Channel!ChanNext]_(Channel!chanVars)
  <2>1. UNCHANGED <<pipe, rx, got>> /\ \A t \in Threads : HandedIn'[t] = HandedIn[t]
    BY <1>14 DEF EmitReturns, HandedIn, IpcInv, TypeOK, Reach, Threads, Idle
  <2> QED
    BY <2>1, ChanUndisturbed
<1>15. ASSUME NEW x \in Emitters, EmitterEnds(x) PROVE [Channel!ChanNext]_(Channel!chanVars)
  <2>1. UNCHANGED <<pipe, rx, got>> /\ \A t \in Threads : HandedIn'[t] = HandedIn[t]
    BY <1>15 DEF EmitterEnds, HandedIn, IpcInv, TypeOK, Reach, Threads, Idle
  <2> QED
    BY <2>1, ChanUndisturbed
<1>16. CASE LauncherGreets
  <2>1. UNCHANGED <<pipe, rx, got>> /\ \A t \in Threads : HandedIn'[t] = HandedIn[t]
    BY <1>16 DEF LauncherGreets, HandedIn, IpcInv, TypeOK, Reach, Threads, Idle
  <2> QED
    BY <2>1, ChanUndisturbed
<1>17. CASE LauncherAsks
  <2>1. UNCHANGED <<pipe, rx, got>> /\ \A t \in Threads : HandedIn'[t] = HandedIn[t]
    BY <1>17 DEF LauncherAsks, HandedIn, IpcInv, TypeOK, Reach, Threads, Idle
  <2> QED
    BY <2>1, ChanUndisturbed
<1>18. CASE LauncherNoise
  <2>1. UNCHANGED <<pipe, rx, got>> /\ \A t \in Threads : HandedIn'[t] = HandedIn[t]
    BY <1>18 DEF LauncherNoise, HandedIn, IpcInv, TypeOK, Reach, Threads, Idle
  <2> QED
    BY <2>1, ChanUndisturbed
<1>19. CASE LauncherCloses
  <2>1. UNCHANGED <<pipe, rx, got>> /\ \A t \in Threads : HandedIn'[t] = HandedIn[t]
    BY <1>19 DEF LauncherCloses, HandedIn, IpcInv, TypeOK, Reach, Threads, Idle
  <2> QED
    BY <2>1, ChanUndisturbed
<1>20. CASE LauncherDeaf
  <2>1. pipe' = <<>> /\ UNCHANGED <<got, rx, wr>>
    BY <1>20 DEF LauncherDeaf
  <2>2. Bodies(pipe', HeaderRead') = <<>>
    <3>1. HeaderRead' \in {0, 1} /\ <<>> \in Seq(Pieces) /\ Len(<<>>) = 0
      BY DEF HeaderRead
    <3>2. (0 + HeaderRead') \div 2 = 0
      <4>1. (0 + 0) \div 2 = 0 /\ (0 + 1) \div 2 = 0
        OBVIOUS
      <4> QED
        BY <3>1, <4>1
    <3>3. Bodies(<<>>, HeaderRead') \in Seq(Frames) /\ Len(Bodies(<<>>, HeaderRead')) = 0
      BY <3>1, <3>2, BodiesAre
    <3> QED
      BY <2>1, <3>3, EmptySeq
  <2>3. HandedIn' = HandedIn
    BY <2>1 DEF HandedIn
  <2> QED
    BY <2>1, <2>2, <2>3 DEF Channel!ChanNext, Channel!Lose
<1>21. CASE LauncherReads
  <2>1. /\ pipe \in Seq(Pieces) /\ pipe # <<>> /\ pipe' = Tail(pipe) /\ HandedIn' = HandedIn
    BY <1>21, ReadEffect DEF HandedIn
  <2>2. CASE rx = NoFrame
    <3>1. got' = got /\ HeaderRead = 0 /\ HeaderRead' = 1
      BY <1>21, <2>2, ReadEffect DEF HeaderRead
    <3>2. Bodies(pipe', HeaderRead') = Bodies(pipe, HeaderRead)
      BY <2>1, <3>1, BodiesWithoutHeader
    <3> QED
      BY <2>1, <3>1, <3>2 DEF Channel!chanVars
  <2>3. CASE rx # NoFrame
    <3>1. got' = Append(got, pipe[1].frame) /\ HeaderRead = 1 /\ HeaderRead' = 0
      BY <1>21, <2>3, ReadEffect DEF HeaderRead
    <3>2. /\ Bodies(pipe, HeaderRead) # <<>> /\ Head(Bodies(pipe, HeaderRead)) = pipe[1].frame
          /\ Bodies(pipe', HeaderRead') = Tail(Bodies(pipe, HeaderRead))
      BY <2>1, <3>1, BodiesWithoutBody
    <3> QED
      BY <2>1, <3>1, <3>2 DEF Channel!ChanNext, Channel!Deliver
  <2> QED
    BY <2>2, <2>3
<1>22. CASE UNCHANGED vars
  <2>1. UNCHANGED <<pipe, rx, got>> /\ \A t \in Threads : HandedIn'[t] = HandedIn[t]
    BY <1>22 DEF vars, HandedIn, IpcInv, TypeOK, Reach, Threads, Idle
  <2> QED
    BY <2>1, ChanUndisturbed
<1> QED
  BY <1>1, <1>2, <1>3, <1>4, <1>5, <1>6, <1>7, <1>8, <1>9, <1>10, <1>11, <1>12, <1>13, <1>14,
     <1>15, <1>16, <1>17, <1>18, <1>19, <1>20, <1>21, <1>22
  DEF Next, MainStep, Ended

\* write_locked implements the channel of whole frames: header and body, the lock,
\* the failures and the launcher's reads together are its steps.
THEOREM ServerIsAChannel == Spec => WritesAreWholeFrames
<1>1. Init => Channel!ChanInit
  <2> SUFFICES ASSUME Init PROVE Channel!ChanInit
    OBVIOUS
  <2>1. HandedIn = [t \in Threads |-> NoFrame]
    BY DEF Init, HandedIn, Idle
  <2>2. Bodies(pipe, HeaderRead) = <<>>
    <3>1. pipe = <<>> /\ HeaderRead = 0 /\ pipe \in Seq(Pieces) /\ Len(pipe) = 0
      BY DEF Init, HeaderRead
    <3>2. (0 + 0) \div 2 = 0
      OBVIOUS
    <3>3. Bodies(pipe, 0) \in Seq(Frames) /\ Len(Bodies(pipe, 0)) = 0
      BY <3>1, <3>2, BodiesAre
    <3> QED
      BY <3>1, <3>3, EmptySeq
  <2> QED
    BY <2>1, <2>2 DEF Init, Channel!ChanInit
<1>2. IpcInv /\ [Next]_vars => [Channel!ChanNext]_(Channel!chanVars)
  BY ChanStep
<1> QED
  BY <1>1, <1>2, IpcInvariant, PTL DEF Spec, WritesAreWholeFrames, Channel!ChanSpec
=============================================================================
