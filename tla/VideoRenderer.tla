--------------------------- MODULE VideoRenderer ---------------------------
(***************************************************************************)
(* The video renderer, src/src/client/video_renderer.cpp: moonlight's      *)
(* submit thread decodes into frames in system memory and hands the newest *)
(* one over in pendingFrame_; the session's worker takes it and shows it   *)
(* through an SDL texture.  The lock frameMu_ covers the hand-over only.   *)
(*                                                                         *)
(* Frames are numbered as they are decoded; the statistics are left out.   *)
(* FFmpeg and SDL are external.                                            *)
(***************************************************************************)
EXTENDS Naturals, FiniteSets

CONSTANTS
    MaxFrames,      \* bound: frames decoded in the life of one renderer
    Kinds           \* the formats and sizes of decoded frames

ASSUME VideoAssumption ==
    /\ MaxFrames \in Nat
    /\ Kinds \subseteq [fmt : {"NV12", "YUV420P", "other"}, size : Nat \ {0}]

VARIABLES
    codec,          \* codecCtx_: "none", "hw", "sw"
    texture,        \* texture_ with texFmt_, texW_, texH_
    decoder,        \* the submit thread: where it is, and its frame 'cpu'
    pending,        \* pendingFrame_
    showing,        \* the local 'frame' of present()
    live,           \* the frames not freed yet, by number
    published       \* ghost: the number of the last frame handed over

videoVars == <<codec, texture, decoder, pending, showing, live, published>>

NoFrame   == [n |-> 0, kind |-> [fmt |-> "other", size |-> 0]]
NoTexture == [fmt |-> "other", size |-> 0]
Numbers(frames) == {f.n : f \in frames} \ {0}

VideoInit ==
    /\ codec = "none" /\ texture = NoTexture
    /\ decoder = [at |-> "idle", cpu |-> NoFrame]
    /\ pending = NoFrame /\ showing = NoFrame
    /\ live = {} /\ published = 0

\* setup: hardware, else software, else failure; a hardware device that was
\* created in vain is given back.
Setup(outcome) ==
    /\ outcome \in {"hw", "sw", "none"}
    /\ codec' = outcome
    /\ UNCHANGED <<texture, decoder, pending, showing, live, published>>

-----------------------------------------------------------------------------
(* submit(), on moonlight's thread                                         *)

Submitting(at, cpu) == decoder' = [at |-> at, cpu |-> cpu]

\* The packet is accepted; one that is not is counted and asks for an IDR.
SubmitBegin ==
    /\ decoder.at = "idle" /\ codec # "none" /\ published < MaxFrames
    /\ Submitting("receive", NoFrame)
    /\ UNCHANGED <<codec, texture, pending, showing, live, published>>

\* avcodec_receive_frame and the copy to system memory: NV12 from hardware, but a
\* codec opened for hardware may fall back (pick_format) and deliver any kind.
Receive ==
    /\ decoder.at = "receive" /\ published < MaxFrames
    /\ \E k \in Kinds : Submitting("publish", [n |-> published + 1, kind |-> k])
    /\ live' = live \cup {published + 1}
    /\ UNCHANGED <<codec, texture, pending, showing, published>>

\* EAGAIN or an error ends submit(); a transfer that fails frees its frame, and
\* the loop is where it was.
SubmitEnd ==
    /\ decoder.at = "receive"
    /\ Submitting("idle", NoFrame)
    /\ UNCHANGED <<codec, texture, pending, showing, live, published>>

\* Mutated form of Publish: a frame that still waits is kept, the new one freed.
PublishKeepsOld ==
    /\ decoder.at = "publish"
    /\ published' = decoder.cpu.n
    /\ IF pending = NoFrame THEN pending' = decoder.cpu /\ UNCHANGED live
       ELSE live' = live \ {decoder.cpu.n} /\ UNCHANGED pending
    /\ Submitting("receive", NoFrame)
    /\ UNCHANGED <<codec, texture, showing>>

\* Mutated form of Publish: the frame that still waits is not freed.
PublishLeaks ==
    /\ decoder.at = "publish"
    /\ pending' = decoder.cpu /\ published' = decoder.cpu.n
    /\ Submitting("receive", NoFrame)
    /\ UNCHANGED <<codec, texture, showing, live>>

\* Under the lock: free the one nobody took, put the new one in its place.
Publish ==
    /\ decoder.at = "publish"
    /\ pending' = decoder.cpu /\ published' = decoder.cpu.n
    /\ live' = live \ {pending.n}
    /\ Submitting("receive", NoFrame)
    /\ UNCHANGED <<codec, texture, showing>>

SubmitStep == SubmitBegin \/ Receive \/ SubmitEnd \/ Publish

-----------------------------------------------------------------------------
(* present() and cleanup(), on the worker                                  *)

\* Under the lock: take the frame, if there is one.
TakeFrame ==
    /\ showing' = pending /\ pending' = NoFrame
    /\ UNCHANGED <<codec, texture, decoder, live, published>>

\* ensure_texture: the texture there is, or a new one, which may not be had.
EnsureTexture(kind) == IF texture = kind THEN {texture} ELSE {kind, NoTexture}

\* The texture, the upload, the presentation, and the frame is freed.
ShowFrame ==
    /\ showing # NoFrame
    /\ IF showing.kind.fmt = "other"
       THEN UNCHANGED texture
       ELSE texture' \in EnsureTexture(showing.kind)
    /\ live' = live \ {showing.n}
    /\ showing' = NoFrame
    /\ UNCHANGED <<codec, decoder, pending, published>>

CleanupVideo ==
    /\ live' = live \ {pending.n}
    /\ pending' = NoFrame /\ texture' = NoTexture /\ codec' = "none"
    /\ UNCHANGED <<decoder, showing, published>>

-----------------------------------------------------------------------------
(* Properties                                                              *)

\* Every frame that is not freed has exactly one owner, and nobody owns a freed
\* one: no frame leaks, is freed twice or is read after it was freed, although
\* the two threads meet only for the length of two assignments.
OneOwner ==
    LET held == [waiting |-> pending, shown |-> showing, decoded |-> decoder.cpu]
    IN  /\ live = Numbers({pending, showing, decoder.cpu})
        /\ Cardinality(live) = Cardinality({p \in DOMAIN held : held[p] # NoFrame})

\* The frame that waits is the newest one handed over, never an older one.
NewestWaits == pending # NoFrame => pending.n = published
=============================================================================
