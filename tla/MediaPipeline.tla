--------------------------- MODULE MediaPipeline ---------------------------
(***************************************************************************)
(* The renderer build's part of StreamSession::run                         *)
(* (src/src/client/stream_session.cpp:196-262): the worker creates window, *)
(* video and audio renderer, connects, runs the event and present loop and *)
(* takes everything down again, while moonlight's threads decode.  What    *)
(* start(), stop() and the callbacks do to the session is in StreamSession.*)
(***************************************************************************)
EXTENDS VideoRenderer, AudioRenderer, StreamWindow

VARIABLES
    worker,         \* where the worker is in run()
    todo,           \* the teardown steps still to come
    connected,      \* moonlight's threads may call back
    stopRequested   \* stopRequested_

runVars   == <<worker, todo, connected, stopRequested>>
mediaVars == <<videoVars, audioVars, windowVars, runVars>>

Init ==
    /\ VideoInit /\ AudioInit /\ WindowInit
    /\ worker = "create" /\ todo = <<>> /\ connected = FALSE /\ stopRequested = FALSE

HaveWindow == "renderer" \in sdl

\* Mutated form of Teardown: the window goes before the texture.
TeardownWindowFirst == <<"stop", "audio", "window", "video">>

\* After the loop: LiStopConnection, renderer.cleanup, audio.cleanup, destroy.
Teardown == <<"stop", "video", "audio", "window">>

\* After a failed connection: the destructors, the last object first.
Unwind == <<"audio", "video", "window">>

Go(where, steps) == worker' = where /\ todo' = steps

Create ==
    /\ worker = "create"
    /\ \E reached \in SUBSET {"sdl", "window", "renderer"} : CreateWindow(reached)
    /\ Go("setup", <<>>)
    /\ UNCHANGED <<videoVars, audioVars, connected, stopRequested>>

\* LiStartConnection: vr_setup, which needs the window's g_video
ConnectVideo ==
    /\ worker = "setup"
    /\ \E outcome \in IF HaveWindow THEN {"hw", "sw", "none"} ELSE {"none"} :
          /\ Setup(outcome)
          /\ IF outcome = "none" THEN Go("down", Unwind) /\ UNCHANGED connected
             ELSE Go("audio", <<>>) /\ connected' = TRUE
    /\ UNCHANGED <<audioVars, windowVars, stopRequested>>

\* ar_init, whose failure may or may not end the connection
ConnectAudio ==
    /\ worker = "audio"
    /\ \E reached \in SUBSET {"opus", "sdl", "device"} : OpenAudio(reached)
    /\ Go("connecting", <<>>)
    /\ UNCHANGED <<videoVars, windowVars, connected, stopRequested>>

CallbacksDone == decoder.at = "idle" /\ ~playing

\* LiStartConnection returns; on failure when its threads are gone
Connected ==
    /\ worker = "connecting"
    /\ \/ Go("loop", <<>>) /\ UNCHANGED connected
       \/ CallbacksDone /\ connected' = FALSE /\ Go("down", Unwind)
    /\ UNCHANGED <<videoVars, audioVars, windowVars, stopRequested>>

\* Mutated form of Loop: the flag is not looked at again.
LoopForever ==
    /\ worker = "loop"
    /\ Go("pump", <<>>)
    /\ UNCHANGED <<videoVars, audioVars, windowVars, connected, stopRequested>>

Loop ==
    /\ worker = "loop"
    /\ IF stopRequested THEN Go("down", Teardown) ELSE Go("pump", <<>>)
    /\ UNCHANGED <<videoVars, audioVars, windowVars, connected, stopRequested>>

Pump ==
    /\ worker = "pump"
    /\ PumpEvent
    /\ UNCHANGED <<videoVars, audioVars, runVars>>

\* poll_and_send_gamepads, whose messages change nothing here, and the end of
\* pump().
PollGamepads ==
    /\ worker = "pump" /\ events = <<>>
    /\ IF quit THEN Go("down", Teardown) ELSE Go("take", <<>>)
    /\ UNCHANGED <<videoVars, audioVars, windowVars, connected, stopRequested>>

PresentTake ==
    /\ worker = "take"
    /\ TakeFrame
    /\ Go(IF pending = NoFrame THEN "loop" ELSE "show", <<>>)
    /\ UNCHANGED <<audioVars, windowVars, connected, stopRequested>>

PresentShow ==
    /\ worker = "show"
    /\ ShowFrame
    /\ Go("loop", <<>>)
    /\ UNCHANGED <<audioVars, windowVars, connected, stopRequested>>

\* LiStopConnection returns when the callbacks have.
TearDown ==
    /\ worker = "down"
    /\ Go(IF Len(todo) = 1 THEN "done" ELSE "down", Tail(todo))
    /\ \/ /\ Head(todo) = "stop" /\ CallbacksDone
          /\ connected' = FALSE
          /\ UNCHANGED <<videoVars, audioVars, windowVars>>
       \/ Head(todo) = "video" /\ CleanupVideo /\ UNCHANGED <<audioVars, windowVars, connected>>
       \/ Head(todo) = "audio" /\ CleanupAudio /\ UNCHANGED <<videoVars, windowVars, connected>>
       \/ Head(todo) = "window" /\ DestroyWindow /\ UNCHANGED <<videoVars, audioVars, connected>>
    /\ UNCHANGED stopRequested

Work ==
    Create \/ ConnectVideo \/ ConnectAudio \/ Connected \/ Loop \/ Pump \/ PollGamepads
        \/ PresentTake \/ PresentShow \/ TearDown

\* moonlight's threads; no callback begins once LiStopConnection was called.
Calling == connected /\ ~(worker = "down" /\ Head(todo) = "stop")

DecodeThread ==
    /\ decoder.at = "idle" => Calling
    /\ SubmitStep
    /\ UNCHANGED <<audioVars, windowVars, runVars>>

AudioThread ==
    /\ (Calling /\ PlayBegin) \/ PlayEnd
    /\ UNCHANGED <<videoVars, windowVars, runVars>>

\* stop() and the user act at any time; what they do is seen when the worker next
\* looks, at the head of the loop and in pump(), and is modelled there.
StopRequest ==
    /\ worker = "loop"
    /\ ~stopRequested /\ stopRequested' = TRUE
    /\ UNCHANGED <<videoVars, audioVars, windowVars, worker, todo, connected>>

UserActs == worker = "pump" /\ User /\ UNCHANGED <<videoVars, audioVars, runVars>>

Done == worker = "done" /\ UNCHANGED mediaVars

Next == Work \/ DecodeThread \/ AudioThread \/ StopRequest \/ UserActs \/ Done

Spec == Init /\ [][Next]_mediaVars

\* Threads run: the worker, and a callback that has begun returns.
FairSpec ==
    /\ Spec
    /\ WF_mediaVars(Work)
    /\ WF_mediaVars(DecodeThread /\ decoder.at # "idle")
    /\ WF_mediaVars(AudioThread /\ playing)

-----------------------------------------------------------------------------
(* Properties                                                              *)

\* Nothing is freed under what still uses it: a submit has its codec, a sample its
\* Opus decoder and device, until LiStopConnection has waited for them, and the
\* texture is gone before the SDL renderer it belongs to.
UsersGoFirst ==
    /\ decoder.at # "idle" => codec # "none"
    /\ playing => AudioReady
    /\ texture # NoTexture => HaveWindow

\* When run() returns, on every path, nothing is left: frames, codec, texture,
\* decoder, audio device, SDL subsystems, window, pads.
NothingLeftBehind ==
    worker = "done" =>
        /\ live = {} /\ codec = "none" /\ texture = NoTexture
        /\ opened = {} /\ sdl = {} /\ ~connected
        /\ \A i \in DOMAIN pads : pads[i] = 0

\* A requested stop or a closed window brings run() to its end, whatever the
\* callbacks are doing.
RunEnds == (stopRequested \/ quit) ~> worker = "done"
=============================================================================
