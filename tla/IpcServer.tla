----------------------------- MODULE IpcServer -----------------------------
(***************************************************************************)
(* The control channel between launcher and engine: ipc::Server            *)
(* (src/src/ipc/server.cpp) over framed messages (src/src/ipc/frame.cpp).  *)
(*                                                                         *)
(* The main thread exchanges hello frames and then reads, dispatches and   *)
(* answers requests one at a time.  The threads of a live stream call      *)
(* emit() meanwhile; every frame is written as two pieces, header and      *)
(* body, under write_mu_.  Handlers are reduced to what matters to the     *)
(* channel: "start" brings the emitting threads to life, "stop" joins      *)
(* them, "call" is any other method (registered or not, answered with ok   *)
(* or with an error).                                                      *)
(***************************************************************************)
EXTENDS Naturals, SequencesExt

CONSTANTS
    Emitters,       \* threads of the stream session that call emit()
    MaxIn,          \* bound: frames the launcher sends after its hello
    MaxEvents,      \* bound: events sent in all
    Capacity,       \* pieces the transport buffers before a write blocks
    SerialIo        \* the transport runs one I/O call at a time: Windows does so
                    \* for a pipe opened without FILE_FLAG_OVERLAPPED

ASSUME IpcAssumption ==
    /\ "main" \notin Emitters /\ "none" \notin Emitters
    /\ MaxIn \in Nat /\ MaxEvents \in Nat /\ Capacity \in Nat \ {0}
    /\ SerialIo \in BOOLEAN

VARIABLES
    pc,             \* main thread: where Server::handshake / Server::run is
    current,        \* the request being served
    result,         \* what run() or a failed handshake returned
    inbox,          \* launcher -> engine: whole frames not yet read
    inEnd,          \* how that direction ends: "open", "eof" or "broken"
    sent,           \* frames sent by the launcher after its hello
    asked,          \* requests among them; the launcher numbers them 1, 2, ...
    begun,          \* requests handed to a handler
    wr,             \* wr[t]: the write_locked call of thread t, if any
    lock,           \* who holds write_mu_
    pipe,           \* engine -> launcher: pieces not yet read
    outOpen,        \* the launcher still has its reading end open
    rx,             \* launcher: the header whose body it waits for
    got,            \* launcher: frames it has read
    alive,          \* emitting threads that exist
    stopping,       \* they have been told to stop
    events          \* events[e]: events e has started to send

launcherVars == <<inbox, inEnd, sent, asked>>
readerVars   == <<rx, got>>
streamVars   == <<alive, stopping, events>>
vars == <<pc, current, result, launcherVars, begun, wr, lock, pipe, outOpen,
          readerVars, streamVars>>

Threads == Emitters \cup {"main"}
Methods == {"start", "stop", "call"}

NoFrame      == [kind |-> "none"]
Hello        == [kind |-> "hello"]
Res(n, ok)   == [kind |-> "res", id |-> n, ok |-> ok]
Event(e, n)  == [kind |-> "event", from |-> e, n |-> n]
Garbage      == [kind |-> "garbage"]
NoReq        == [id |-> 0, method |-> "none"]
Idle         == [st |-> "idle", frame |-> NoFrame]

Init ==
    /\ pc = "hello" /\ current = NoReq /\ result = "none"
    /\ inbox = <<>> /\ inEnd = "open" /\ sent = 0 /\ asked = 0 /\ begun = 0
    /\ wr = [t \in Threads |-> Idle] /\ lock = "none"
    /\ pipe = <<>> /\ outOpen = TRUE
    /\ rx = NoFrame /\ got = <<>>
    /\ alive = {} /\ stopping = FALSE /\ events = [e \in Emitters |-> 0]

-----------------------------------------------------------------------------
(* write_locked(payload): lock, header, body, unlock.                      *)

\* A thread calls write_locked(f); this is a part of the caller's step.
Submit(t, f) == wr' = [wr EXCEPT ![t] = [st |-> "want", frame |-> f]]

\* The call goes on to state s.
Reach(t, s) == wr' = [wr EXCEPT ![t] = [st |-> s, frame |-> @.frame]]

\* Mutated form of Lock: nobody waits for write_mu_.
LockWithoutWaiting(t) ==
    /\ wr[t].st = "want"
    /\ lock' = t /\ Reach(t, "header")
    /\ UNCHANGED <<pc, current, result, launcherVars, begun, pipe, outOpen,
                   readerVars, streamVars>>

\* std::lock_guard on write_mu_.
Lock(t) ==
    /\ wr[t].st = "want" /\ lock = "none"
    /\ lock' = t /\ Reach(t, "header")
    /\ UNCHANGED <<pc, current, result, launcherVars, begun, pipe, outOpen,
                   readerVars, streamVars>>

\* The main thread sits in read_exact with nothing to read.
BlockedInRead == pc \in {"await", "read"} /\ inbox = <<>> /\ inEnd = "open"

\* Mutated form of WritePiece: the lock covers the header alone.
WritePieceUnlocksEarly(t) ==
    /\ wr[t].st \in {"header", "body"} /\ outOpen /\ Len(pipe) < Capacity
    /\ SerialIo => ~BlockedInRead
    /\ pipe' = Append(pipe, [part |-> wr[t].st, frame |-> wr[t].frame])
    /\ Reach(t, IF wr[t].st = "header" THEN "body" ELSE "ok")
    /\ lock' = "none"
    /\ UNCHANGED <<pc, current, result, launcherVars, begun, outOpen,
                   readerVars, streamVars>>

\* One piece goes out: the 4-byte header first, then the body.
WritePiece(t) ==
    /\ wr[t].st \in {"header", "body"} /\ outOpen /\ Len(pipe) < Capacity
    /\ SerialIo => ~BlockedInRead
    /\ pipe' = Append(pipe, [part |-> wr[t].st, frame |-> wr[t].frame])
    /\ Reach(t, IF wr[t].st = "header" THEN "body" ELSE "ok")
    /\ UNCHANGED <<pc, current, result, launcherVars, begun, lock, outOpen,
                   readerVars, streamVars>>

\* The launcher closed its end, or a result is over the 8 MiB cap, which is
\* found out before anything is written.
WriteFails(t) ==
    /\ \/ wr[t].st \in {"header", "body"} /\ ~outOpen
       \/ wr[t].st = "header" /\ wr[t].frame.kind = "res"
    /\ Reach(t, "failed")
    /\ UNCHANGED <<pc, current, result, launcherVars, begun, lock, pipe, outOpen,
                   readerVars, streamVars>>

\* The guard unlocks; emit() ignores how the write went ...
EmitReturns(e) ==
    /\ wr[e].st \in {"ok", "failed"}
    /\ lock' = "none" /\ wr' = [wr EXCEPT ![e] = Idle]
    /\ UNCHANGED <<pc, current, result, launcherVars, begun, pipe, outOpen,
                   readerVars, streamVars>>

\* ... while handshake() and run() give up after a failed write.
MainWritten ==
    /\ wr["main"].st \in {"ok", "failed"}
    /\ lock' = "none" /\ wr' = [wr EXCEPT !["main"] = Idle]
    /\ IF wr["main"].st = "ok"
       THEN /\ pc' = IF pc = "helloing" THEN "await" ELSE "read"
            /\ UNCHANGED result
       ELSE pc' = "ended" /\ result' = "error"
    /\ UNCHANGED <<current, launcherVars, begun, pipe, outOpen, readerVars, streamVars>>

-----------------------------------------------------------------------------
(* Main thread: handshake() and run().                                     *)

SendHello ==
    /\ pc = "hello"
    /\ pc' = "helloing" /\ Submit("main", Hello)
    /\ UNCHANGED <<current, result, launcherVars, begun, lock, pipe, outOpen,
                   readerVars, streamVars>>

\* read_frame succeeded; only a hello of our version lets the handshake pass.
ReadHello ==
    /\ pc = "await" /\ inbox # <<>>
    /\ inbox' = Tail(inbox)
    /\ IF Head(inbox).kind = "hello"
       THEN pc' = "read" /\ UNCHANGED result
       ELSE pc' = "ended" /\ result' = "error"
    /\ UNCHANGED <<current, inEnd, sent, asked, begun, wr, lock, pipe, outOpen,
                   readerVars, streamVars>>

\* Mutated form of ReadFrame: whatever arrives is dispatched, id 0 by default.
ReadFrameAnyKind ==
    /\ pc = "read" /\ inbox # <<>>
    /\ inbox' = Tail(inbox)
    /\ current' = IF Head(inbox).kind = "req"
                  THEN [id |-> Head(inbox).id, method |-> Head(inbox).method]
                  ELSE [id |-> 0, method |-> "call"]
    /\ pc' = "dispatch" /\ begun' = begun + 1
    /\ UNCHANGED <<result, inEnd, sent, asked, wr, lock, pipe, outOpen, readerVars,
                   streamVars>>

\* read_frame succeeded in run(): a request is dispatched, anything else is
\* ignored and the connection stays up.
ReadFrame ==
    /\ pc = "read" /\ inbox # <<>>
    /\ inbox' = Tail(inbox)
    /\ IF Head(inbox).kind = "req"
       THEN /\ current' = [id |-> Head(inbox).id, method |-> Head(inbox).method]
            /\ pc' = "dispatch" /\ begun' = begun + 1
       ELSE UNCHANGED <<pc, current, begun>>
    /\ UNCHANGED <<result, inEnd, sent, asked, wr, lock, pipe, outOpen, readerVars,
                   streamVars>>

\* read_frame failed: end of input counts as clean in run() alone; a body cut
\* short or a length over the cap is an error everywhere.
ReadFails ==
    /\ pc \in {"await", "read"} /\ inbox = <<>> /\ inEnd # "open"
    /\ pc' = "ended"
    /\ result' = IF pc = "read" /\ inEnd = "eof" THEN "ok" ELSE "error"
    /\ UNCHANGED <<current, launcherVars, begun, wr, lock, pipe, outOpen, readerVars,
                   streamVars>>

Answer(ok) == pc' = "answering" /\ Submit("main", Res(current.id, ok))

\* A start is answered at once, and refused while a stream exists.
HandleStart ==
    /\ pc = "dispatch" /\ current.method = "start"
    /\ Answer(alive = {})
    /\ alive' = IF alive = {} THEN Emitters ELSE alive
    /\ stopping' = IF alive = {} THEN FALSE ELSE stopping
    /\ UNCHANGED <<current, result, launcherVars, begun, lock, pipe, outOpen,
                   readerVars, events>>

\* A stop tells the threads and then waits in join().
HandleStop ==
    /\ pc = "dispatch" /\ current.method = "stop"
    /\ pc' = "joining" /\ stopping' = TRUE
    /\ UNCHANGED <<current, result, launcherVars, begun, wr, lock, pipe, outOpen,
                   readerVars, alive, events>>

StopJoined ==
    /\ pc = "joining" /\ alive = {}
    /\ Answer(TRUE)
    /\ UNCHANGED <<current, result, launcherVars, begun, lock, pipe, outOpen,
                   readerVars, streamVars>>

\* Mutated form of HandleCall: an unknown method is skipped, not refused.
HandleCallSkipsUnknown ==
    /\ pc = "dispatch" /\ current.method = "call"
    /\ Answer(TRUE) \/ (pc' = "read" /\ UNCHANGED wr)
    /\ UNCHANGED <<current, result, launcherVars, begun, lock, pipe, outOpen,
                   readerVars, streamVars>>

\* Any other method: its handler's result, its error, or unsupported_method.
HandleCall ==
    /\ pc = "dispatch" /\ current.method = "call"
    /\ \E ok \in BOOLEAN : Answer(ok)
    /\ UNCHANGED <<current, result, launcherVars, begun, lock, pipe, outOpen,
                   readerVars, streamVars>>

-----------------------------------------------------------------------------
(* The threads of a live stream.                                           *)

\* Mutated form of EmitBegins: an event is dropped while another write is on.
EmitBeginsTryLock(e) ==
    /\ e \in alive /\ wr[e].st = "idle"
    /\ SumFunction(events) < MaxEvents
    /\ events' = [events EXCEPT ![e] = @ + 1]
    /\ IF lock = "none" THEN Submit(e, Event(e, events[e] + 1)) ELSE UNCHANGED wr
    /\ UNCHANGED <<pc, current, result, launcherVars, begun, lock, pipe, outOpen,
                   readerVars, alive, stopping>>

\* emit(): best effort, from any thread of the stream.
EmitBegins(e) ==
    /\ e \in alive /\ wr[e].st = "idle"
    /\ SumFunction(events) < MaxEvents
    /\ events' = [events EXCEPT ![e] = @ + 1]
    /\ Submit(e, Event(e, events[e] + 1))
    /\ UNCHANGED <<pc, current, result, launcherVars, begun, lock, pipe, outOpen,
                   readerVars, alive, stopping>>

\* Mutated form of EmitterEnds: a thread still waiting for the lock is dropped.
EmitterEndsAbruptly(e) ==
    /\ e \in alive /\ stopping /\ wr[e].st \in {"idle", "want"}
    /\ alive' = alive \ {e} /\ wr' = [wr EXCEPT ![e] = Idle]
    /\ UNCHANGED <<pc, current, result, launcherVars, begun, lock, pipe, outOpen,
                   readerVars, stopping, events>>

\* A thread that was told to stop ends once its emit() has returned.
EmitterEnds(e) ==
    /\ e \in alive /\ stopping /\ wr[e].st = "idle"
    /\ alive' = alive \ {e}
    /\ UNCHANGED <<pc, current, result, launcherVars, begun, wr, lock, pipe, outOpen,
                   readerVars, stopping, events>>

-----------------------------------------------------------------------------
(* The launcher (external), as docs/IPC.md and the tests drive the engine. *)

\* The first frame: a hello of the right version or something else.
LauncherGreets ==
    /\ inEnd = "open" /\ sent = 0
    /\ \E k \in {"hello", "noise"} : inbox' = Append(inbox, [kind |-> k])
    /\ sent' = 1
    /\ UNCHANGED <<pc, current, result, inEnd, asked, begun, wr, lock, pipe, outOpen,
                   readerVars, streamVars>>

LauncherAsks ==
    /\ inEnd = "open" /\ sent \in 1 .. MaxIn
    /\ sent' = sent + 1 /\ asked' = asked + 1
    /\ \E m \in Methods :
          inbox' = Append(inbox, [kind |-> "req", id |-> asked + 1, method |-> m])
    /\ UNCHANGED <<pc, current, result, inEnd, begun, wr, lock, pipe, outOpen,
                   readerVars, streamVars>>

\* A frame that does not parse, a second hello, a stray event.
LauncherNoise ==
    /\ inEnd = "open" /\ sent \in 1 .. MaxIn
    /\ sent' = sent + 1
    /\ inbox' = Append(inbox, [kind |-> "noise"])
    /\ UNCHANGED <<pc, current, result, inEnd, asked, begun, wr, lock, pipe, outOpen,
                   readerVars, streamVars>>

\* It closes its writing end between two frames, or dies in the middle of one.
LauncherCloses ==
    /\ inEnd = "open"
    /\ inEnd' \in {"eof", "broken"}
    /\ UNCHANGED <<pc, current, result, inbox, sent, asked, begun, wr, lock, pipe,
                   outOpen, readerVars, streamVars>>

\* It stops reading; what is in the pipe is lost.
LauncherDeaf ==
    /\ outOpen
    /\ outOpen' = FALSE /\ pipe' = <<>>
    /\ UNCHANGED <<pc, current, result, launcherVars, begun, wr, lock, readerVars,
                   streamVars>>

\* The launcher's own framed reader: four bytes of header, then as many bytes as
\* they announce, whatever those are.  A piece that arrives where another kind
\* of piece was due is read as something it is not.
LauncherReads ==
    /\ pipe # <<>>
    /\ pipe' = Tail(pipe)
    /\ LET p == Head(pipe) IN
       IF rx = NoFrame
       THEN /\ rx' = IF p.part = "header" THEN p.frame ELSE Garbage
            /\ UNCHANGED got
       ELSE /\ rx' = NoFrame
            /\ got' = Append(got, IF p.part = "body" /\ p.frame = rx
                                  THEN p.frame ELSE Garbage)
    /\ UNCHANGED <<pc, current, result, launcherVars, begun, wr, lock, outOpen,
                   streamVars>>

-----------------------------------------------------------------------------
MainStep ==
    \/ SendHello \/ ReadHello \/ ReadFrame \/ ReadFails
    \/ HandleStart \/ HandleStop \/ StopJoined \/ HandleCall \/ MainWritten

\* The process goes on to tear down; the launcher may still drain the pipe.
Ended == pc = "ended" /\ UNCHANGED vars

Next ==
    \/ MainStep
    \/ \E t \in Threads : Lock(t) \/ WritePiece(t) \/ WriteFails(t)
    \/ \E e \in Emitters : EmitBegins(e) \/ EmitReturns(e) \/ EmitterEnds(e)
    \/ LauncherGreets \/ LauncherAsks \/ LauncherNoise \/ LauncherCloses
    \/ LauncherDeaf \/ LauncherReads
    \/ Ended

\* Threads are scheduled and a launcher that keeps its end open reads it; what
\* it sends, and what the stream has to report, is up to them.
Fairness ==
    /\ WF_vars(MainStep)
    /\ \A t \in Threads : WF_vars(Lock(t)) /\ WF_vars(WritePiece(t) \/ WriteFails(t))
    /\ \A e \in Emitters : WF_vars(EmitReturns(e)) /\ WF_vars(EmitterEnds(e))
    /\ WF_vars(LauncherReads)

Spec     == Init /\ [][Next]_vars
FairSpec == Spec /\ Fairness

-----------------------------------------------------------------------------
(* Properties.                                                             *)

Frames == {NoFrame, Hello} \cup [kind : {"res"}, id : Nat, ok : BOOLEAN]
             \cup [kind : {"event"}, from : Emitters, n : Nat]
InFrames == [kind : {"hello", "noise"}] \cup [kind : {"req"}, id : Nat, method : Methods]
WriteStates == {"idle", "want", "header", "body", "ok", "failed"}
Calls  == [st : WriteStates, frame : Frames]
Pieces == [part : {"header", "body"}, frame : Frames]

\* Every variable holds a value of its kind.
TypeOK ==
    /\ pc \in {"hello", "helloing", "await", "read", "dispatch", "joining",
               "answering", "ended"}
    /\ current \in [id : Nat, method : Methods \cup {"none"}]
    /\ result \in {"none", "ok", "error"}
    /\ inbox \in Seq(InFrames) /\ inEnd \in {"open", "eof", "broken"}
    /\ sent \in Nat /\ asked \in Nat /\ begun \in Nat
    /\ wr \in [Threads -> Calls]
    /\ lock \in Threads \cup {"none"}
    /\ pipe \in Seq(Pieces)
    /\ outOpen \in BOOLEAN /\ rx \in Frames \cup {Garbage}
    /\ got \in Seq(Frames \cup {Garbage})
    /\ alive \subseteq Emitters /\ stopping \in BOOLEAN
    /\ events \in [Emitters -> Nat]

\* "can never interleave a frame": the launcher never meets a header inside a
\* body, or a body without its header, whichever threads write at once and
\* wherever a write fails.
FramesIntact == \A i \in 1 .. Len(got) : got[i] # Garbage

\* The frames that thread t numbers: the answers of the main thread, the events
\* of an emitting one.
Of(f, t) == IF t = "main" THEN f.kind = "res" ELSE f.kind = "event" /\ f.from = t
Num(f)   == IF f.kind = "res" THEN f.id ELSE f.n

\* t's frames among these bear the numbers 1, 2, 3, ... in this order.
InOrder(frames, t) ==
    \A i \in 1 .. Len(frames) : Of(frames[i], t) =>
        /\ Num(frames[i]) > 0
        /\ \A j \in 1 .. i - 1 : Of(frames[j], t) => Num(frames[j]) < Num(frames[i])
        /\ \A n \in 1 .. Num(frames[i]) - 1 :
              \E j \in 1 .. i - 1 : Of(frames[j], t) /\ Num(frames[j]) = n

\* Each request is answered once, with its own id, in the order in which the
\* requests were sent, and never before its handler was called.
AnsweredOnceInOrder ==
    /\ InOrder(got, "main")
    /\ \A i \in 1 .. Len(got) : Of(got[i], "main") => got[i].id <= begun

\* What one thread emits arrives in the order it was emitted, without gaps, and
\* after the hello: no thread of a stream exists before the handshake.
EventsInOrder ==
    /\ got # <<>> => got[1] = Hello
    /\ \A e \in Emitters : InOrder(got, e)

\* What the channel of FrameChannel is here: a frame is being handed in until its
\* body is in the pipe, and on its way from then on.  Bodies are every second piece
\* of the pipe p, counted from a header that the launcher has (h = 1) or not (h = 0).
HeaderRead == IF rx = NoFrame THEN 0 ELSE 1
Bodies(p, h) == [i \in 1 .. (Len(p) + h) \div 2 |-> p[2 * i - h].frame]
HandedIn == [t \in Threads |->
                IF wr[t].st \in {"want", "header", "body"} THEN wr[t].frame ELSE NoFrame]
Channel == INSTANCE FrameChannel WITH
    Writers <- Threads, None <- NoFrame,
    pending <- HandedIn, queue <- Bodies(pipe, HeaderRead), taken <- got

\* write_locked is a channel of whole frames: the pieces on the wire, the lock and
\* the failures together behave like FrameChannel.
WritesAreWholeFrames == Channel!ChanSpec

Answered(n) == \E i \in 1 .. Len(got) : got[i].kind = "res" /\ got[i].id = n

\* No request is left hanging: not a stop that waits for threads which wait for
\* write_mu_ or for room in the pipe.  (The server gives up, or the launcher
\* stops reading: nothing else excuses an answer.)
RequestsAnswered ==
    \A n \in 1 .. MaxIn :
        asked >= n ~> (Answered(n) \/ ~outOpen \/ pc = "ended")

\* "may be called from a worker thread ... concurrently with the run() loop":
\* an event that a thread emits reaches a launcher that reads.
EventsDelivered ==
    \A e \in Emitters : \A n \in 1 .. MaxEvents :
        events[e] >= n ~>
            (Contains(got, Event(e, n)) \/ ~outOpen \/ pc = "ended")
=============================================================================
