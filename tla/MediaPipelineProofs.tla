------------------------ MODULE MediaPipelineProofs ------------------------
(***************************************************************************)
(* Proofs about MediaPipeline, for every number of frames, pads and slots: *)
(* MediaInv is inductive, and frame ownership, the order of the teardown   *)
(* and the pad table follow from it.                                       *)
(***************************************************************************)
EXTENDS MediaPipeline, FiniteSetTheorems, SequenceTheorems, TLAPS

AnyFrame == {NoFrame} \cup [n : Nat \ {0}, kind : Kinds]

\* The values of the variables.
MediaType ==
    /\ codec \in {"none", "hw", "sw"}
    /\ decoder \in [at : {"idle", "receive", "publish"}, cpu : AnyFrame]
    /\ pending \in AnyFrame /\ showing \in AnyFrame
    /\ published \in Nat
    /\ opened \subseteq {"opus", "sdl", "device"} /\ playing \in BOOLEAN
    /\ sdl \subseteq {"sdl", "window", "renderer"} /\ quit \in BOOLEAN
    /\ worker \in {"create", "setup", "audio", "connecting", "loop", "pump", "take", "show",
                   "down", "done"}
    /\ connected \in BOOLEAN /\ stopRequested \in BOOLEAN

\* Frame numbers tell the three places a frame can be in apart: the decoder has
\* the one to come, the hand-over the newest, the worker an older one.
FrameInv ==
    /\ IF decoder.at = "publish" THEN decoder.cpu.n = published + 1 ELSE decoder.cpu = NoFrame
    /\ pending # NoFrame => pending.n = published
    /\ showing # NoFrame => showing.n <= published
    /\ showing # NoFrame /\ pending # NoFrame => showing.n # pending.n
    /\ live = Numbers({pending, showing, decoder.cpu})
    /\ showing # NoFrame <=> worker = "show"

\* The callbacks run only while there is a connection, and have what they use.
CallbackInv ==
    /\ ~connected => decoder.at = "idle" /\ ~playing
    /\ playing => AudioReady

VideoGone == codec = "none" /\ texture = NoTexture /\ pending = NoFrame

\* What exists, by where the worker is and what it has still to take down.
StageInv ==
    /\ worker \in {"create", "setup"} => ~connected /\ VideoGone /\ opened = {}
    /\ worker \in {"create", "setup", "audio"} => opened = {}
    /\ worker \in {"audio", "connecting", "loop", "pump", "take", "show"} =>
          connected /\ codec # "none" /\ HaveWindow
    /\ worker = "down" =>
          \/ todo = Teardown /\ connected /\ codec # "none" /\ HaveWindow
          \/ /\ todo \in {Unwind, <<"video", "audio", "window">>, <<"audio", "window">>,
                          <<"video", "window">>, <<"window">>}
             /\ ~connected
             /\ texture # NoTexture => HaveWindow
             /\ todo \in {<<"audio", "window">>, <<"window">>} => VideoGone
             /\ todo \in {<<"video", "window">>, <<"window">>} => opened = {}
    /\ worker = "done" => ~connected /\ VideoGone /\ opened = {} /\ sdl = {}

Has(list, d) == \E k \in 1 .. Len(list) : list[k] = d
RemovalIn(queue, d) ==
    \E k \in 1 .. Len(queue) : queue[k].type = "REMOVED" /\ queue[k].which = d

\* A pad in a slot is plugged in, or the event that will close it is on its way.
PadsCovered ==
    \A i \in 0 .. Slots - 1 : pads[i] # 0 => Has(devices, pads[i]) \/ RemovalIn(events, pads[i])

PadInv ==
    /\ pads \in [0 .. Slots - 1 -> Nat]
    /\ devices \in Seq(Nat) /\ plugged \in Nat
    /\ events \in Seq([type : {"ADDED", "REMOVED", "QUIT"}, which : Nat])
    /\ PadsCovered
    /\ worker = "done" => \A i \in 0 .. Slots - 1 : pads[i] = 0

MediaInv == MediaType /\ FrameInv /\ CallbackInv /\ StageInv /\ PadInv


-----------------------------------------------------------------------------
(* Facts the steps rest on                                                 *)

\* The teardown lists are short: their heads and tails.
LEMMA TeardownSteps ==
    /\ Teardown # <<>> /\ Head(Teardown) = "stop" /\ Len(Teardown) = 4
    /\ Tail(Teardown) = <<"video", "audio", "window">>
    /\ Head(Unwind) = "audio" /\ Len(Unwind) = 3 /\ Tail(Unwind) = <<"video", "window">>
    /\ Len(Teardown) # 1 /\ Len(Unwind) # 1 /\ Len(<<"video", "audio", "window">>) # 1
    /\ Len(<<"audio", "window">>) # 1 /\ Len(<<"video", "window">>) # 1
BY DEF Teardown, Unwind

\* Every step keeps the values in their sets.
LEMMA TypeStep ==
    ASSUME MediaInv, [Next]_mediaVars PROVE MediaType'
<1> USE VideoAssumption DEF MediaInv, MediaType, FrameInv, StageInv, AnyFrame, videoVars,
                            audioVars, windowVars, runVars, Go, Submitting, NoFrame
<1>1. CASE Create
  BY <1>1 DEF Create, CreateWindow
<1>2. CASE ConnectVideo
  BY <1>2 DEF ConnectVideo, Setup
<1>3. CASE ConnectAudio
  BY <1>3 DEF ConnectAudio, OpenAudio
<1>4. CASE Connected
  BY <1>4 DEF Connected, CallbacksDone
<1>5. CASE Loop
  BY <1>5 DEF Loop
<1>6. CASE Pump
  BY <1>6 DEF Pump, PumpEvent
<1>7. CASE PollGamepads
  BY <1>7 DEF PollGamepads
<1>8. CASE PresentTake
  BY <1>8 DEF PresentTake, TakeFrame
<1>9. CASE PresentShow
  BY <1>9 DEF PresentShow, ShowFrame
<1>10. CASE TearDown
  BY <1>10 DEF TearDown, CleanupVideo, CleanupAudio, DestroyWindow, CallbacksDone
<1>11. CASE DecodeThread /\ SubmitBegin
  BY <1>11 DEF SubmitBegin, DecodeThread, Submitting
<1>12. CASE DecodeThread /\ Receive
  BY <1>12 DEF Receive, DecodeThread, Submitting
<1>13. CASE DecodeThread /\ SubmitEnd
  BY <1>13 DEF SubmitEnd, DecodeThread, Submitting
<1>14. CASE DecodeThread /\ Publish
  BY <1>14 DEF Publish, DecodeThread, Submitting
<1>15. CASE AudioThread
  <2>1. playing' \in BOOLEAN /\ UNCHANGED opened
    BY <1>15 DEF AudioThread, PlayBegin, PlayEnd
  <2> QED
    BY <1>15, <2>1 DEF AudioThread
<1>16. CASE StopRequest
  BY <1>16 DEF StopRequest
<1>17. CASE UserActs
  BY <1>17 DEF UserActs, User, PlugIn, Unplug, CloseWindow
<1>18. CASE UNCHANGED mediaVars
  BY <1>18 DEF mediaVars, runVars, videoVars, audioVars, windowVars
<1> QED
  BY <1>1, <1>2, <1>3, <1>4, <1>5, <1>6, <1>7, <1>8, <1>9, <1>10, <1>11, <1>12, <1>13, <1>14,
     <1>15, <1>16, <1>17, <1>18
  DEF Next, Work, DecodeThread, SubmitStep, Done

\* Every step keeps each frame with one owner, and their numbers apart.
LEMMA FrameStep ==
    ASSUME MediaInv, [Next]_mediaVars PROVE FrameInv'
<1> USE VideoAssumption DEF MediaInv, MediaType, FrameInv, AnyFrame, Numbers, videoVars,
                            audioVars, windowVars, runVars, Go, Submitting, NoFrame
<1>1. CASE Create
  BY <1>1 DEF Create, CreateWindow
<1>2. CASE ConnectVideo
  BY <1>2 DEF ConnectVideo, Setup
<1>3. CASE ConnectAudio
  BY <1>3 DEF ConnectAudio, OpenAudio
<1>4. CASE Connected
  BY <1>4 DEF Connected, CallbacksDone
<1>5. CASE Loop
  BY <1>5 DEF Loop
<1>6. CASE Pump
  BY <1>6 DEF Pump, PumpEvent
<1>7. CASE PollGamepads
  BY <1>7 DEF PollGamepads
<1>8. CASE PresentTake
  BY <1>8 DEF PresentTake, TakeFrame
<1>9. CASE PresentShow
  BY <1>9 DEF PresentShow, ShowFrame
<1>10. CASE TearDown
  BY <1>10 DEF TearDown, CleanupVideo, CleanupAudio, DestroyWindow, CallbacksDone
<1>11. CASE DecodeThread /\ SubmitBegin
  BY <1>11 DEF SubmitBegin, DecodeThread, Submitting
<1>12. CASE DecodeThread /\ Receive
  BY <1>12 DEF Receive, DecodeThread, Submitting
<1>13. CASE DecodeThread /\ SubmitEnd
  BY <1>13 DEF SubmitEnd, DecodeThread, Submitting
<1>14. CASE DecodeThread /\ Publish
  BY <1>14 DEF Publish, DecodeThread, Submitting
<1>15. CASE AudioThread
  BY <1>15 DEF AudioThread, PlayBegin, PlayEnd
<1>16. CASE StopRequest
  BY <1>16 DEF StopRequest
<1>17. CASE UserActs
  BY <1>17 DEF UserActs, User, PlugIn, Unplug, CloseWindow
<1>18. CASE UNCHANGED mediaVars
  BY <1>18 DEF mediaVars, runVars, videoVars, audioVars, windowVars
<1> QED
  BY <1>1, <1>2, <1>3, <1>4, <1>5, <1>6, <1>7, <1>8, <1>9, <1>10, <1>11, <1>12, <1>13, <1>14,
     <1>15, <1>16, <1>17, <1>18
  DEF Next, Work, DecodeThread, SubmitStep, Done

\* Every step leaves the callbacks what they use.
LEMMA CallbackStep ==
    ASSUME MediaInv, [Next]_mediaVars PROVE CallbackInv'
<1> USE VideoAssumption DEF MediaInv, MediaType, CallbackInv, StageInv, AudioReady, videoVars,
                            audioVars, windowVars, runVars, Go, Submitting, Calling
<1>1. CASE Create
  BY <1>1 DEF Create, CreateWindow
<1>2. CASE ConnectVideo
  BY <1>2 DEF ConnectVideo, Setup
<1>3. CASE ConnectAudio
  BY <1>3 DEF ConnectAudio, OpenAudio
<1>4. CASE Connected
  BY <1>4 DEF Connected, CallbacksDone
<1>5. CASE Loop
  BY <1>5 DEF Loop
<1>6. CASE Pump
  BY <1>6 DEF Pump, PumpEvent
<1>7. CASE PollGamepads
  BY <1>7 DEF PollGamepads
<1>8. CASE PresentTake
  BY <1>8 DEF PresentTake, TakeFrame
<1>9. CASE PresentShow
  BY <1>9 DEF PresentShow, ShowFrame
<1>10. CASE TearDown
  <2>1. CASE todo = Teardown
    BY <1>10, <2>1, TeardownSteps DEF TearDown, CallbacksDone
  <2>2. CASE todo # Teardown
    <3>1. ~connected
      BY <1>10, <2>2 DEF TearDown
    <3>2. UNCHANGED <<decoder, playing>>
      BY <1>10, <2>2, <3>1 DEF TearDown, CleanupVideo, CleanupAudio, DestroyWindow
    <3>3. ~connected'
      BY <1>10, <2>2, <3>1 DEF TearDown
    <3> QED
      BY <3>1, <3>2, <3>3
  <2> QED
    BY <2>1, <2>2
<1>11. CASE DecodeThread /\ SubmitBegin
  BY <1>11 DEF SubmitBegin, DecodeThread, Submitting
<1>12. CASE DecodeThread /\ Receive
  BY <1>12 DEF Receive, DecodeThread, Submitting
<1>13. CASE DecodeThread /\ SubmitEnd
  BY <1>13 DEF SubmitEnd, DecodeThread, Submitting
<1>14. CASE DecodeThread /\ Publish
  BY <1>14 DEF Publish, DecodeThread, Submitting
<1>15. CASE AudioThread
  BY <1>15 DEF AudioThread, PlayBegin, PlayEnd
<1>16. CASE StopRequest
  BY <1>16 DEF StopRequest
<1>17. CASE UserActs
  BY <1>17 DEF UserActs, User, PlugIn, Unplug, CloseWindow
<1>18. CASE UNCHANGED mediaVars
  BY <1>18 DEF mediaVars, runVars, videoVars, audioVars, windowVars
<1> QED
  BY <1>1, <1>2, <1>3, <1>4, <1>5, <1>6, <1>7, <1>8, <1>9, <1>10, <1>11, <1>12, <1>13, <1>14,
     <1>15, <1>16, <1>17, <1>18
  DEF Next, Work, DecodeThread, SubmitStep, Done

\* Every step keeps what exists in line with where the worker is.
LEMMA StageStep ==
    ASSUME MediaInv, [Next]_mediaVars PROVE StageInv'
<1> USE VideoAssumption DEF MediaInv, MediaType, FrameInv, CallbackInv, StageInv, VideoGone,
                            HaveWindow, videoVars, audioVars, windowVars, runVars, Go, Submitting
<1>1. CASE Create
  BY <1>1 DEF Create, CreateWindow
<1>2. CASE ConnectVideo
  BY <1>2 DEF ConnectVideo, Setup
<1>3. CASE ConnectAudio
  BY <1>3 DEF ConnectAudio, OpenAudio
<1>4. CASE Connected
  <2>1. CASE Go("loop", <<>>) /\ UNCHANGED connected
    BY <1>4, <2>1 DEF Connected
  <2>2. CASE CallbacksDone /\ connected' = FALSE /\ Go("down", Unwind)
    <3>1. Unwind # <<"audio", "window">> /\ Unwind # <<"window">> /\ Unwind # <<"video", "window">>
      BY DEF Unwind
    <3>2. HaveWindow /\ UNCHANGED sdl
      BY <1>4 DEF Connected
    <3> QED
      BY <2>2, <3>1, <3>2
  <2> QED
    BY <1>4, <2>1, <2>2 DEF Connected
<1>5. CASE Loop
  BY <1>5 DEF Loop
<1>6. CASE Pump
  BY <1>6 DEF Pump, PumpEvent
<1>7. CASE PollGamepads
  BY <1>7 DEF PollGamepads
<1>8. CASE PresentTake
  BY <1>8 DEF PresentTake, TakeFrame
<1>9. CASE PresentShow
  BY <1>9 DEF PresentShow, ShowFrame
<1>10. CASE TearDown
  <2>1. CASE todo = Teardown
    <3>1. todo' = <<"video", "audio", "window">> /\ worker' = "down" /\ ~connected'
      BY <1>10, <2>1, TeardownSteps DEF TearDown
    <3>2. UNCHANGED <<sdl, texture>> /\ HaveWindow
      BY <1>10, <2>1, TeardownSteps DEF TearDown
    <3> QED
      BY <3>1, <3>2
  <2>2. CASE todo = Unwind
    <3>1. Head(todo) = "audio" /\ Len(todo) = 3 /\ Tail(todo) = <<"video", "window">>
      BY <2>2, TeardownSteps
    <3>2. worker' = "down" /\ todo' = <<"video", "window">> /\ CleanupAudio
      BY <1>10, <3>1 DEF TearDown
    <3>3. UNCHANGED <<connected, sdl, texture>>
      BY <1>10, <3>1 DEF TearDown
    <3>4. ~connected /\ (texture # NoTexture => HaveWindow)
      BY <1>10, <2>2, TeardownSteps DEF TearDown
    <3> QED
      BY <3>2, <3>3, <3>4 DEF CleanupAudio
  <2>3. CASE todo = <<"audio", "window">>
    <3>1. Head(todo) = "audio" /\ Len(todo) = 2 /\ Tail(todo) = <<"window">>
      BY <2>3
    <3>2. worker' = "down" /\ todo' = <<"window">> /\ CleanupAudio
      BY <1>10, <3>1 DEF TearDown
    <3>3. UNCHANGED <<connected, codec, texture, pending>>
      BY <1>10, <3>1 DEF TearDown
    <3>4. ~connected /\ VideoGone
      BY <1>10, <2>3, TeardownSteps DEF TearDown
    <3> QED
      BY <3>2, <3>3, <3>4 DEF CleanupAudio
  <2>5. CASE todo = <<"video", "audio", "window">>
    <3>1. Head(todo) = "video" /\ Len(todo) = 3 /\ Tail(todo) = <<"audio", "window">>
      BY <2>5
    <3>2. worker' = "down" /\ todo' = <<"audio", "window">> /\ CleanupVideo
      BY <1>10, <3>1 DEF TearDown
    <3>3. UNCHANGED connected /\ ~connected
      BY <1>10, <2>5, <3>1, TeardownSteps DEF TearDown
    <3> QED
      BY <3>2, <3>3 DEF CleanupVideo
  <2>6. CASE todo = <<"video", "window">>
    <3>1. Head(todo) = "video" /\ Len(todo) = 2 /\ Tail(todo) = <<"window">>
      BY <2>6
    <3>2. worker' = "down" /\ todo' = <<"window">> /\ CleanupVideo
      BY <1>10, <3>1 DEF TearDown
    <3>3. UNCHANGED <<connected, opened>>
      BY <1>10, <3>1 DEF TearDown
    <3>4. ~connected /\ opened = {}
      BY <1>10, <2>6, TeardownSteps DEF TearDown
    <3> QED
      BY <3>2, <3>3, <3>4 DEF CleanupVideo
  <2>4. CASE todo = <<"window">>
    <3>1. /\ worker' = "done" /\ DestroyWindow
          /\ UNCHANGED <<connected, opened, codec, texture, pending>>
      BY <1>10, <2>4 DEF TearDown
    <3>2. ~connected /\ VideoGone /\ opened = {}
      BY <1>10, <2>4, TeardownSteps DEF TearDown
    <3> QED
      BY <3>1, <3>2 DEF DestroyWindow
  <2> QED
    BY <1>10, <2>1, <2>2, <2>3, <2>4, <2>5, <2>6 DEF TearDown
<1>11. CASE DecodeThread /\ SubmitBegin
  BY <1>11 DEF SubmitBegin, DecodeThread, Submitting
<1>12. CASE DecodeThread /\ Receive
  BY <1>12 DEF Receive, DecodeThread, Submitting
<1>13. CASE DecodeThread /\ SubmitEnd
  BY <1>13 DEF SubmitEnd, DecodeThread, Submitting
<1>14. CASE DecodeThread /\ Publish
  BY <1>14 DEF Publish, DecodeThread, Submitting
<1>15. CASE AudioThread
  BY <1>15 DEF AudioThread, PlayBegin, PlayEnd
<1>16. CASE StopRequest
  BY <1>16 DEF StopRequest
<1>17. CASE UserActs
  BY <1>17 DEF UserActs, User, PlugIn, Unplug, CloseWindow
<1>18. CASE UNCHANGED mediaVars
  BY <1>18 DEF mediaVars, runVars, videoVars, audioVars, windowVars
<1> QED
  BY <1>1, <1>2, <1>3, <1>4, <1>5, <1>6, <1>7, <1>8, <1>9, <1>10, <1>11, <1>12, <1>13, <1>14,
     <1>15, <1>16, <1>17, <1>18
  DEF Next, Work, DecodeThread, SubmitStep, Done

\* A sequence from which one place is cut keeps everything else.
LEMMA CutKeepsRest ==
    ASSUME NEW S, NEW s \in Seq(S), NEW i \in 1 .. Len(s),
           NEW k \in 1 .. Len(s), k # i
    PROVE  LET t == SubSeq(s, 1, i - 1) \o SubSeq(s, i + 1, Len(s))
           IN  t \in Seq(S) /\ \E j \in 1 .. Len(t) : t[j] = s[k]
<1> DEFINE a == SubSeq(s, 1, i - 1)
           b == SubSeq(s, i + 1, Len(s))
<1>1. a \in Seq(S) /\ Len(a) = i - 1 /\ \A j \in 1 .. i - 1 : a[j] = s[j]
  OBVIOUS
<1>2. b \in Seq(S) /\ Len(b) = Len(s) - i /\ \A j \in 1 .. Len(s) - i : b[j] = s[i + j]
  OBVIOUS
<1> HIDE DEF a, b
<1>3. /\ a \o b \in Seq(S) /\ Len(a \o b) = Len(s) - 1
      /\ \A j \in 1 .. Len(s) - 1 : (a \o b)[j] = IF j <= i - 1 THEN a[j] ELSE b[j - (i - 1)]
  <2>1. Len(a) + Len(b) = Len(s) - 1
    BY <1>1, <1>2
  <2>2. /\ a \o b \in Seq(S) /\ Len(a \o b) = Len(a) + Len(b)
        /\ \A j \in 1 .. Len(a) + Len(b) : (a \o b)[j] = IF j <= Len(a) THEN a[j] ELSE b[j - Len(a)]
    BY <1>1, <1>2, ConcatProperties
  <2> QED
    BY <2>1, <2>2, <1>1
<1>4. \E j \in 1 .. Len(a \o b) : (a \o b)[j] = s[k]
  <2>1. CASE k < i
    <3>1. k \in 1 .. Len(s) - 1 /\ k <= i - 1 /\ k \in 1 .. i - 1
      BY <2>1
    <3> QED
      BY <1>1, <1>3, <3>1
  <2>2. CASE k > i
    <3>1. k - 1 \in 1 .. Len(s) - 1 /\ ~(k - 1 <= i - 1) /\ k - 1 - (i - 1) = k - i
      BY <2>2
    <3>2. k - i \in 1 .. Len(s) - i /\ i + (k - i) = k
      BY <2>2
    <3>3. (a \o b)[k - 1] = s[k]
      BY <1>2, <1>3, <3>1, <3>2
    <3> QED
      BY <1>3, <3>1, <3>3
  <2> QED
    BY <2>1, <2>2
<1> QED
  BY <1>3, <1>4 DEF a, b

\* A step of pump() drops one event; the others stay queued.
LEMMA PumpKeepsQueue ==
    ASSUME PadInv, events # <<>>, events' = Tail(events), NEW d, RemovalIn(events, d),
           ~(Head(events).type = "REMOVED" /\ Head(events).which = d)
    PROVE  RemovalIn(events', d)
<1>1. PICK k \in 1 .. Len(events) : events[k].type = "REMOVED" /\ events[k].which = d
  BY DEF RemovalIn
<1>2. k # 1
  BY <1>1 DEF PadInv
<1>3. k - 1 \in 1 .. Len(Tail(events)) /\ Tail(events)[k - 1] = events[k]
  BY <1>2, HeadTailProperties DEF PadInv
<1> QED
  BY <1>1, <1>3 DEF RemovalIn

\* What a new event adds to the queue does not hide what was there.
LEMMA AppendKeepsQueue ==
    ASSUME PadInv, NEW e, events' = Append(events, e), NEW d, RemovalIn(events, d)
    PROVE  RemovalIn(events', d)
<1>1. PICK k \in 1 .. Len(events) : events[k].type = "REMOVED" /\ events[k].which = d
  BY DEF RemovalIn
<1>2. k \in 1 .. Len(events') /\ events'[k] = events[k]
  BY DEF PadInv
<1> QED
  BY <1>1, <1>2 DEF RemovalIn

\* Handling an event, whatever it is, leaves no slot without its pad or event.
LEMMA PumpPads ==
    ASSUME PadInv, PumpEvent
    PROVE  /\ pads' \in [0 .. Slots - 1 -> Nat]
           /\ events' \in Seq([type : {"ADDED", "REMOVED", "QUIT"}, which : Nat])
           /\ UNCHANGED <<devices, plugged>>
           /\ PadsCovered'
<1> DEFINE ev == Head(events)
<1>0. events # <<>> /\ events' = Tail(events) /\ UNCHANGED <<devices, plugged>>
  BY Zenon DEF PumpEvent
<1>1. ev \in [type : {"ADDED", "REMOVED", "QUIT"}, which : Nat]
      /\ events' \in Seq([type : {"ADDED", "REMOVED", "QUIT"}, which : Nat])
  BY <1>0, HeadTailProperties DEF PadInv
<1>2. \A d : Has(devices, d) => Has(devices', d)
  BY <1>0 DEF Has
<1>3. CASE ev.type = "ADDED"
  <2>1. pads' = Added(ev.which)
    BY <1>3, Zenon DEF PumpEvent
  <2> HIDE DEF ev
  <2>2. /\ pads' \in [0 .. Slots - 1 -> Nat]
        /\ \A i \in 0 .. Slots - 1 : pads'[i] = pads[i] \/ pads'[i] = 0 \/ Has(devices, pads'[i])
    <3>1. CASE ~(ev.which < Slots /\ pads[ev.which] = 0)
      BY <2>1, <3>1 DEF Added, PadInv
    <3>2. CASE ev.which < Slots /\ pads[ev.which] = 0
      <4> DEFINE new == IF ev.which < Len(devices) THEN devices[ev.which + 1] ELSE 0
      <4>1. pads' = [pads EXCEPT ![ev.which] = new]
        BY <2>1, <3>2 DEF Added
      <4>2. new \in Nat /\ (new = 0 \/ Has(devices, new))
        BY <1>1 DEF PadInv, Has
      <4> HIDE DEF new
      <4> QED
        BY <1>1, <3>2, <4>1, <4>2, WindowAssumption DEF PadInv
    <3> QED
      BY <3>1, <3>2
  <2>3. \A d : RemovalIn(events, d) => RemovalIn(events', d)
    BY <1>0, <1>3, PumpKeepsQueue DEF ev
  <2> QED
    BY <1>0, <1>1, <1>2, <2>2, <2>3 DEF PadInv, PadsCovered
<1>4. CASE ev.type = "REMOVED"
  <2>1. pads' = Removed(ev.which)
    BY <1>4, Zenon DEF PumpEvent
  <2>2. \A d : RemovalIn(events, d) /\ d # ev.which => RemovalIn(events', d)
    BY <1>0, <1>4, PumpKeepsQueue
  <2>3. \A i \in 0 .. Slots - 1 : pads'[i] # 0 => pads'[i] = pads[i] /\ pads[i] # ev.which
    BY <2>1 DEF Removed, PadInv
  <2>4. pads' \in [0 .. Slots - 1 -> Nat]
    BY <2>1 DEF Removed, PadInv
  <2> HIDE DEF ev
  <2> QED
    BY <1>0, <1>1, <1>2, <2>2, <2>3, <2>4 DEF PadInv, PadsCovered
<1>5. CASE ev.type = "QUIT"
  <2>1. pads' = pads
    BY <1>5, Zenon DEF PumpEvent
  <2>2. \A d : RemovalIn(events, d) => RemovalIn(events', d)
    BY <1>0, <1>5, PumpKeepsQueue
  <2> HIDE DEF ev
  <2> QED
    BY <1>0, <1>1, <1>2, <2>1, <2>2 DEF PadInv, PadsCovered
<1> QED
  BY <1>1, <1>3, <1>4, <1>5

\* What the user does to the pads is announced.
LEMMA UserPads ==
    ASSUME PadInv, User PROVE
    /\ devices' \in Seq(Nat) /\ plugged' \in Nat
    /\ events' \in Seq([type : {"ADDED", "REMOVED", "QUIT"}, which : Nat])
    /\ \A d : Has(devices, d) \/ RemovalIn(events, d) => Has(devices', d) \/ RemovalIn(events', d)
<1>1. CASE PlugIn
  <2>1. \A d : Has(devices, d) => Has(devices', d)
    BY <1>1 DEF PlugIn, PadInv, Has
  <2>2. events' = Append(events, Event("ADDED", Len(devices)))
    BY <1>1 DEF PlugIn
  <2>3. Event("ADDED", Len(devices)) \in [type : {"ADDED", "REMOVED", "QUIT"}, which : Nat]
    BY DEF Event, PadInv
  <2> QED
    BY <1>1, <2>1, <2>2, <2>3, AppendKeepsQueue DEF PlugIn, PadInv
<1>2. ASSUME NEW i \in 1 .. Len(devices), Unplug(i)
      PROVE  /\ devices' \in Seq(Nat) /\ plugged' \in Nat
             /\ events' \in Seq([type : {"ADDED", "REMOVED", "QUIT"}, which : Nat])
             /\ \A d : Has(devices, d) \/ RemovalIn(events, d) =>
                    Has(devices', d) \/ RemovalIn(events', d)
  <2> DEFINE ev == Event("REMOVED", devices[i])
  <2>1. events' = Append(events, ev) /\ plugged' = plugged
    BY <1>2 DEF Unplug
  <2>2. ev \in [type : {"ADDED", "REMOVED", "QUIT"}, which : Nat]
        /\ ev.type = "REMOVED" /\ ev.which = devices[i]
    BY DEF Event, PadInv
  <2> HIDE DEF ev
  <2>3. devices' \in Seq(Nat)
    BY <1>2 DEF Unplug, PadInv
  <2>4. \A k \in 1 .. Len(devices) : k # i => \E j \in 1 .. Len(devices') : devices'[j] = devices[k]
    BY <1>2, CutKeepsRest DEF Unplug, PadInv
  <2>5. \E j \in 1 .. Len(events') : events'[j].type = "REMOVED" /\ events'[j].which = devices[i]
    <3>1. Len(events') = Len(events) + 1 /\ events'[Len(events) + 1] = ev
      BY <2>1 DEF PadInv
    <3> QED
      BY <2>2, <3>1, Len(events) + 1 \in 1 .. Len(events') DEF PadInv
  <2>6. \A d : Has(devices, d) => Has(devices', d) \/ RemovalIn(events', d)
    BY <2>4, <2>5 DEF Has, RemovalIn
  <2> QED
    BY <2>1, <2>2, <2>3, <2>6, AppendKeepsQueue DEF PadInv
<1>3. CASE CloseWindow
  <2>1. events' = Append(events, Event("QUIT", 0)) /\ UNCHANGED <<devices, plugged>>
    BY <1>3 DEF CloseWindow
  <2>2. Event("QUIT", 0) \in [type : {"ADDED", "REMOVED", "QUIT"}, which : Nat]
    BY DEF Event
  <2>3. \A d : Has(devices, d) => Has(devices', d)
    BY <2>1 DEF Has
  <2> QED
    BY <2>1, <2>2, <2>3, AppendKeepsQueue DEF PadInv
<1> QED
  BY <1>1, <1>2, <1>3 DEF User

\* Every step keeps the pad table in line with what is plugged in.
LEMMA PadStep ==
    ASSUME MediaInv, [Next]_mediaVars PROVE PadInv'
<1> USE WindowAssumption DEF MediaInv, MediaType, PadInv, PadsCovered, videoVars, audioVars,
                             windowVars, runVars, Go
<1>1. CASE Create
  BY <1>1 DEF Create, CreateWindow
<1>2. CASE ConnectVideo
  BY <1>2 DEF ConnectVideo, Setup
<1>3. CASE ConnectAudio
  BY <1>3 DEF ConnectAudio, OpenAudio
<1>4. CASE Connected
  BY <1>4 DEF Connected, CallbacksDone
<1>5. CASE Loop
  BY <1>5 DEF Loop
<1>6. CASE Pump
  <2>1. worker' # "done" /\ PumpEvent /\ PadInv
    BY <1>6 DEF Pump
  <2> QED
    BY <2>1, PumpPads
<1>7. CASE PollGamepads
  BY <1>7 DEF PollGamepads
<1>8. CASE PresentTake
  BY <1>8 DEF PresentTake, TakeFrame
<1>9. CASE PresentShow
  BY <1>9 DEF PresentShow, ShowFrame
<1>10. CASE TearDown
  <2>1. CASE DestroyWindow
    BY <2>1 DEF DestroyWindow
  <2>2. CASE ~DestroyWindow
    <3>1. worker' # "done"
      <4>1. CASE Head(todo) = "window"
        BY <1>10, <2>2, <4>1 DEF TearDown
      <4>2. CASE Head(todo) # "window"
        <5>1. todo # <<"window">>
          BY <4>2
        <5>2. Len(todo) # 1
          <6>2. \/ todo = Teardown \/ todo = Unwind \/ todo = <<"video", "audio", "window">>
                \/ todo = <<"audio", "window">> \/ todo = <<"video", "window">>
            BY <1>10, <5>1 DEF TearDown, StageInv
          <6> QED
            BY <6>2, TeardownSteps, Zenon
        <5> QED
          BY <1>10, <5>2 DEF TearDown
      <4> QED
        BY <4>1, <4>2
    <3>2. UNCHANGED windowVars
      BY <1>10, <2>2 DEF TearDown, windowVars
    <3> QED
      BY <3>1, <3>2 DEF windowVars
  <2> QED
    BY <2>1, <2>2
<1>11. CASE DecodeThread /\ SubmitBegin
  BY <1>11 DEF SubmitBegin, DecodeThread, Submitting
<1>12. CASE DecodeThread /\ Receive
  BY <1>12 DEF Receive, DecodeThread, Submitting
<1>13. CASE DecodeThread /\ SubmitEnd
  BY <1>13 DEF SubmitEnd, DecodeThread, Submitting
<1>14. CASE DecodeThread /\ Publish
  BY <1>14 DEF Publish, DecodeThread, Submitting
<1>15. CASE AudioThread
  BY <1>15 DEF AudioThread, PlayBegin, PlayEnd
<1>16. CASE StopRequest
  BY <1>16 DEF StopRequest
<1>17. CASE UserActs
  <2>1. worker' # "done" /\ User /\ PadInv /\ UNCHANGED pads
    BY <1>17 DEF UserActs, User, PlugIn, Unplug, CloseWindow
  <2> QED
    BY <2>1, UserPads
<1>18. CASE UNCHANGED mediaVars
  BY <1>18 DEF mediaVars, runVars, videoVars, audioVars, windowVars
<1> QED
  BY <1>1, <1>2, <1>3, <1>4, <1>5, <1>6, <1>7, <1>8, <1>9, <1>10, <1>11, <1>12, <1>13, <1>14,
     <1>15, <1>16, <1>17, <1>18
  DEF Next, Work, DecodeThread, SubmitStep, Done

-----------------------------------------------------------------------------
(* The invariant and what follows from it                                  *)

\* Before run() has done anything.
LEMMA MediaInvInit == Init => MediaInv
<1> SUFFICES ASSUME Init PROVE MediaInv
  OBVIOUS
<1> USE VideoAssumption, WindowAssumption DEF Init, VideoInit, AudioInit, WindowInit
<1>1. MediaType /\ CallbackInv /\ StageInv
  BY DEF MediaType, CallbackInv, StageInv, VideoGone, AnyFrame
<1>2. FrameInv
  BY DEF FrameInv, Numbers, NoFrame
<1>3. PadInv
  BY DEF PadInv, PadsCovered
<1> QED
  BY <1>1, <1>2, <1>3 DEF MediaInv

\* The inductive invariant of the pipeline: where frames, devices, callbacks and
\* pads are in every state of run(), for any number of frames, pads and slots.
THEOREM MediaInvariant == Spec => []MediaInv
<1>1. MediaInv /\ [Next]_mediaVars => MediaInv'
  BY TypeStep, FrameStep, CallbackStep, StageStep, PadStep DEF MediaInv
<1> QED
  BY MediaInvInit, <1>1, PTL DEF Spec

\* Three sets that have nothing in common are together as large as they are.
LEMMA ThreeParts ==
    ASSUME NEW A, NEW B, NEW C, IsFiniteSet(A), IsFiniteSet(B), IsFiniteSet(C),
           A \cap B = {}, A \cap C = {}, B \cap C = {}
    PROVE  Cardinality(A \cup B \cup C) = Cardinality(A) + Cardinality(B) + Cardinality(C)
<1>1. /\ Cardinality(A) \in Nat /\ Cardinality(B) \in Nat /\ Cardinality(C) \in Nat
      /\ Cardinality({}) = 0
  BY FS_CardinalityType, FS_EmptySet
<1>2. IsFiniteSet(A \cup B) /\ Cardinality(A \cup B) = Cardinality(A) + Cardinality(B)
  <2>1. Cardinality(A \cup B) = Cardinality(A) + Cardinality(B) - Cardinality(A \cap B)
    BY FS_Union
  <2>2. Cardinality(A \cap B) = 0
    BY <1>1
  <2> QED
    BY <1>1, <2>1, <2>2, FS_Union
<1>3. (A \cup B) \cap C = {}
  OBVIOUS
<1>4. Cardinality((A \cup B) \cup C) =
          Cardinality(A \cup B) + Cardinality(C) - Cardinality((A \cup B) \cap C)
  BY <1>2, FS_Union
<1>5. Cardinality((A \cup B) \cap C) = 0
  BY <1>1, <1>3
<1> QED
  BY <1>1, <1>2, <1>4, <1>5

\* The frames not freed are those that one of the three places holds, one each.
LEMMA FramesOwned == MediaInv => OneOwner
<1> SUFFICES ASSUME MediaInv PROVE OneOwner
  OBVIOUS
<1> DEFINE p == pending # NoFrame
           q == showing # NoFrame
           r == decoder.cpu # NoFrame
           held == [waiting |-> pending, shown |-> showing, decoded |-> decoder.cpu]
<1>1. /\ p => pending.n # 0 /\ pending.n = published
      /\ q => showing.n # 0 /\ showing.n <= published
      /\ r => decoder.cpu.n = published + 1
      /\ p /\ q => pending.n # showing.n
      /\ live = Numbers({pending, showing, decoder.cpu}) /\ published \in Nat
      /\ pending.n \in Nat /\ showing.n \in Nat /\ decoder.cpu.n \in Nat
  BY DEF MediaInv, MediaType, FrameInv, AnyFrame, NoFrame
<1> DEFINE One(b, x) == IF b THEN {x} ELSE {}
<1>2. live = One(p, pending.n) \cup One(q, showing.n) \cup One(r, decoder.cpu.n)
  BY <1>1 DEF Numbers, NoFrame
<1>3. {l \in DOMAIN held : held[l] # NoFrame} =
        One(p, "waiting") \cup One(q, "shown") \cup One(r, "decoded")
  <2>1. DOMAIN held = {"waiting", "shown", "decoded"}
    OBVIOUS
  <2>2. held["waiting"] = pending /\ held["shown"] = showing /\ held["decoded"] = decoder.cpu
    OBVIOUS
  <2> HIDE DEF held
  <2> QED
    BY <2>1, <2>2
<1>4. \A x : /\ IsFiniteSet(One(p, x)) /\ Cardinality(One(p, x)) = IF p THEN 1 ELSE 0
             /\ IsFiniteSet(One(q, x)) /\ Cardinality(One(q, x)) = IF q THEN 1 ELSE 0
             /\ IsFiniteSet(One(r, x)) /\ Cardinality(One(r, x)) = IF r THEN 1 ELSE 0
  BY FS_EmptySet, FS_Singleton
<1>5. /\ One(p, pending.n) \cap One(q, showing.n) = {}
      /\ One(p, pending.n) \cap One(r, decoder.cpu.n) = {}
      /\ One(q, showing.n) \cap One(r, decoder.cpu.n) = {}
  BY <1>1
<1>6. /\ One(p, "waiting") \cap One(q, "shown") = {}
      /\ One(p, "waiting") \cap One(r, "decoded") = {}
      /\ One(q, "shown") \cap One(r, "decoded") = {}
  OBVIOUS
<1> HIDE DEF One, p, q, r, held
<1>7. Cardinality(live) = Cardinality(One(p, pending.n)) + Cardinality(One(q, showing.n))
                            + Cardinality(One(r, decoder.cpu.n))
  BY <1>2, <1>4, <1>5, ThreeParts
<1>8. Cardinality({l \in DOMAIN held : held[l] # NoFrame}) =
        Cardinality(One(p, "waiting")) + Cardinality(One(q, "shown"))
            + Cardinality(One(r, "decoded"))
  BY <1>3, <1>4, <1>6, ThreeParts
<1>9. Cardinality(live) = Cardinality({l \in DOMAIN held : held[l] # NoFrame})
  BY <1>4, <1>7, <1>8
<1> QED
  BY <1>1, <1>9 DEF OneOwner, held

\* No frame leaks, is freed twice or is used after it was freed, for streams of
\* any length: submit(), present() and cleanup() of video_renderer.cpp.
THEOREM FramesHaveOneOwner == Spec => []OneOwner
BY MediaInvariant, FramesOwned, PTL

\* The frame that waits in pendingFrame_ is the last one submit() handed over.
THEOREM NewestFrameWaits == Spec => []NewestWaits
<1>1. MediaInv => NewestWaits
  BY DEF MediaInv, FrameInv, NewestWaits
<1> QED
  BY MediaInvariant, <1>1, PTL

\* After pump() no slot of pads_ holds a pad that was unplugged, for any number of
\* slots and any sequence of pads.
THEOREM SlotsHoldRealPads == Spec => []NoGhostPads
<1>1. MediaInv => NoGhostPads
  BY DEF MediaInv, PadInv, PadsCovered, Has, RemovalIn, NoGhostPads, InDevices
<1> QED
  BY MediaInvariant, <1>1, PTL

\* Codec, Opus decoder and device outlive the callbacks, the texture is destroyed
\* before its renderer: the order of run()'s cleanup, on every path.
THEOREM NothingFreedInUse == Spec => []UsersGoFirst
<1>1. MediaInv => UsersGoFirst
  <2> SUFFICES ASSUME MediaInv PROVE UsersGoFirst
    OBVIOUS
  <2>1. decoder.at # "idle" => codec # "none"
    BY DEF MediaInv, MediaType, CallbackInv, StageInv
  <2>2. texture # NoTexture => HaveWindow
    BY DEF MediaInv, MediaType, StageInv, VideoGone
  <2> QED
    BY <2>1, <2>2 DEF MediaInv, CallbackInv, UsersGoFirst
<1> QED
  BY MediaInvariant, <1>1, PTL

\* Whichever step of the set-up failed and however the stream ended, run() returns
\* with nothing left open, allocated or connected.
THEOREM RunCleansUp == Spec => []NothingLeftBehind
<1>1. MediaInv => NothingLeftBehind
  BY DEF MediaInv, MediaType, FrameInv, CallbackInv, StageInv, PadInv, VideoGone,
         NothingLeftBehind, Numbers, NoFrame
<1> QED
  BY MediaInvariant, <1>1, PTL
=============================================================================
