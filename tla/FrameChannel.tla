---------------------------- MODULE FrameChannel ----------------------------
(***************************************************************************)
(* What Server::write_locked promises its callers: a channel of whole      *)
(* frames.  A thread hands in a frame; it enters the queue in one piece or *)
(* is dropped; the launcher takes frames out in the order they entered.    *)
(***************************************************************************)
EXTENDS Sequences

CONSTANTS Writers, None

VARIABLES
    pending,    \* pending[t]: the frame thread t is handing in, or None
    queue,      \* frames on their way
    taken       \* frames the launcher has, in order

chanVars == <<pending, queue, taken>>

ChanInit ==
    /\ pending = [t \in Writers |-> None]
    /\ queue = <<>> /\ taken = <<>>

HandIn(t) ==
    /\ pending[t] = None
    /\ pending'[t] # None
    /\ pending' = [pending EXCEPT ![t] = pending'[t]]
    /\ UNCHANGED <<queue, taken>>

Enter(t) ==
    /\ pending[t] # None
    /\ queue' = Append(queue, pending[t])
    /\ pending' = [pending EXCEPT ![t] = None]
    /\ UNCHANGED taken

Drop(t) ==
    /\ pending[t] # None
    /\ pending' = [pending EXCEPT ![t] = None]
    /\ UNCHANGED <<queue, taken>>

Deliver ==
    /\ queue # <<>>
    /\ taken' = Append(taken, Head(queue)) /\ queue' = Tail(queue)
    /\ UNCHANGED pending

\* The reader goes away with whatever was under way.
Lose == queue' = <<>> /\ UNCHANGED <<pending, taken>>

ChanNext ==
    \/ \E t \in Writers : HandIn(t) \/ Enter(t) \/ Drop(t)
    \/ Deliver \/ Lose

ChanSpec == ChanInit /\ [][ChanNext]_chanVars
=============================================================================
