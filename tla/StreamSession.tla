--------------------------- MODULE StreamSession ---------------------------
(***************************************************************************)
(* The live stream of the engine's client mode: client::StreamSession      *)
(* (src/src/client/stream_session.cpp) as stream_main.cpp drives it.       *)
(*                                                                         *)
(* Three kinds of thread meet here:                                        *)
(*   - the main thread, which serves IPC requests: client.start calls      *)
(*     start(), client.stop calls stop(); when the launcher closes the     *)
(*     connection it destroys the ipc::Server, leaves stream_main and then *)
(*     runs the static session's destructor, which is stop() once more;    *)
(*   - the worker thread start() spawns, which executes run();             *)
(*   - moonlight-common-c's own threads, which call back into the module   *)
(*     through the globals g_sink, g_video and g_audio.                    *)
(*                                                                         *)
(* A step is one access to state another thread can see, or a block of     *)
(* accesses nobody else can tell apart.  Nothing is counted, so the state  *)
(* space is finite and TLC follows sessions of every length.               *)
(***************************************************************************)

CONSTANT Sinks      \* the media sinks linked into this build

\* ASE_HAVE_RENDERER is {"video"} \subseteq Sinks, ASE_HAVE_AUDIO adds "audio".
ASSUME SinksAssumption ==
    /\ Sinks \subseteq {"video", "audio"}
    /\ "audio" \in Sinks => "video" \in Sinks

VARIABLES
    main,           \* program counter of the main thread
    reply,          \* what the last client.start / client.stop answered
    running,        \* running_
    stopRequested,  \* stopRequested_
    joinable,       \* worker_.joinable()
    sink,           \* g_sink is set
    worker,         \* program counter of the worker thread
    gptr,           \* which of g_video, g_audio are set
    live,           \* the renderers on run()'s stack that are usable
    window,         \* haveWindow: the SDL window exists
    userClosed,     \* the local of the same name, FALSE outside run()
    conn,           \* the connection inside moonlight-common-c
    interrupted,    \* LiInterruptConnection reached the pending setup
    cbs,            \* callbacks in flight on moonlight's threads
    phase,          \* the last stream.state phase the launcher was sent
    serverAlive,    \* the ipc::Server the sinks point at still exists
    lateEmit        \* a sink called emit() on the destroyed server

mainVars   == <<main, reply>>
flagVars   == <<running, stopRequested, joinable, sink>>
workerVars == <<worker, gptr, live, window, userClosed>>
libVars    == <<conn, interrupted, cbs>>
outVars    == <<phase, serverAlive, lateEmit>>
vars       == <<mainVars, flagVars, workerVars, libVars, outVars>>

HaveRenderer == "video" \in Sinks

MainPc   == {"serve", "spawn", "interrupt", "join", "tail", "liStop", "unrun",
             "clear", "leaving", "exited", "aborted"}
WorkerPc == {"off", "begin", "connect", "wait", "connectFailed", "reportError",
             "loop", "stopConn", "stopWait", "cleanup", "report", "done"}
Conn     == {"off", "setup", "refused", "negotiated", "failed", "up",
             "terminated", "stopping", "draining"}
Terminal == {"ended", "error"}
Phases   == {"none", "connecting", "window", "streaming"} \cup Terminal

Init ==
    /\ main = "serve" /\ reply = "none"
    /\ running = FALSE /\ stopRequested = FALSE /\ joinable = FALSE
    /\ sink = FALSE
    /\ worker = "off" /\ gptr = {} /\ live = {} /\ window = FALSE
    /\ userClosed = FALSE
    /\ conn = "off" /\ interrupted = FALSE /\ cbs = {}
    /\ phase = "none" /\ serverAlive = TRUE /\ lateEmit = FALSE

-----------------------------------------------------------------------------
(* Telling the launcher.  onState_ and onStats_ capture a raw Server*.     *)

\* onState_(e): the Server forwards the phase while it exists.
Say(p) ==
    /\ phase' = IF serverAlive THEN p ELSE phase
    /\ lateEmit' = (lateEmit \/ ~serverAlive)
    /\ UNCHANGED serverAlive

\* emit(): the same through g_sink, nothing when it is null.
Emit(p) == IF sink THEN Say(p) ELSE UNCHANGED outVars

-----------------------------------------------------------------------------
(* Main thread: start().                                                   *)

\* running_: "a stream is already running", which becomes engine_busy.
StartRefused ==
    /\ main = "serve" /\ running
    /\ reply' = "busy"
    /\ UNCHANGED <<main, flagVars, workerVars, libVars, outVars>>

\* A key that is not 16 bytes, or no RTSP session URL.
StartRejected ==
    /\ main = "serve" /\ ~running
    /\ reply' = "rejected"
    /\ UNCHANGED <<main, flagVars, workerVars, libVars, outVars>>

\* The assignments of start() up to the thread's construction.
StartPublish ==
    /\ main = "serve" /\ ~running
    /\ main' = "spawn"
    /\ sink' = TRUE /\ running' = TRUE /\ stopRequested' = FALSE
    /\ phase' = "none"
    /\ UNCHANGED <<reply, joinable, workerVars, libVars, serverAlive, lateEmit>>

\* worker_ = std::thread(...): assigning over a thread that was never joined
\* calls std::terminate.  (A worker that is still reporting may get a last word
\* in before the process is gone.)
StartSpawn ==
    /\ main = "spawn"
    /\ IF joinable
       THEN /\ main' = "aborted"
            /\ UNCHANGED <<reply, joinable, worker>>
       ELSE /\ main' = "serve" /\ reply' = "started"
            /\ joinable' = TRUE /\ worker' = "begin"
    /\ UNCHANGED <<running, stopRequested, sink, gptr, live, window, userClosed,
                   libVars, outVars>>

-----------------------------------------------------------------------------
(* Main thread: stop(), from client.stop or from the static destructor.    *)

StopRequest ==
    /\ main \in {"serve", "leaving"}
    /\ stopRequested' = TRUE
    /\ main' = IF joinable THEN "interrupt" ELSE "tail"
    /\ UNCHANGED <<reply, running, joinable, sink, workerVars, libVars, outVars>>

StopInterrupt ==
    /\ main = "interrupt"
    /\ main' = "join"
    /\ interrupted' = (conn \in {"setup", "negotiated", "refused"})
    /\ UNCHANGED <<reply, flagVars, workerVars, conn, cbs, outVars>>

\* Mutated form of StopJoin: the worker is detached instead of joined.
StopJoinDetaches ==
    /\ main = "join"
    /\ main' = "tail"
    /\ joinable' = FALSE
    /\ UNCHANGED <<reply, running, stopRequested, sink, workerVars, libVars, outVars>>

\* worker_.join() returns once run() has.
StopJoin ==
    /\ main = "join" /\ worker = "done"
    /\ main' = "tail"
    /\ joinable' = FALSE /\ worker' = "off"
    /\ UNCHANGED <<reply, running, stopRequested, sink, gptr, live, window,
                   userClosed, libVars, outVars>>

\* Mutated form of StopTail: the headless build forgets LiStopConnection.
StopTailLeavesConnection ==
    /\ main = "tail"
    /\ main' = IF running THEN "unrun" ELSE "clear"
    /\ UNCHANGED <<reply, flagVars, workerVars, libVars, outVars>>

\* if (running_): the headless build stops the connection here.
StopTail ==
    /\ main = "tail"
    /\ IF running
       THEN IF HaveRenderer
            THEN main' = "unrun" /\ UNCHANGED conn
            ELSE main' = "liStop" /\ conn' = "stopping"
       ELSE main' = "clear" /\ UNCHANGED conn
    /\ UNCHANGED <<reply, flagVars, workerVars, interrupted, cbs, outVars>>

\* LiStopConnection returns on the main thread.
StopLibStopped ==
    /\ main = "liStop" /\ conn = "draining" /\ cbs = {}
    /\ main' = "unrun" /\ conn' = "off"
    /\ UNCHANGED <<reply, flagVars, workerVars, interrupted, cbs, outVars>>

StopUnrun ==
    /\ main = "unrun"
    /\ main' = "clear" /\ running' = FALSE
    /\ UNCHANGED <<reply, stopRequested, joinable, sink, workerVars, libVars, outVars>>

\* Mutated form of StopClear: g_sink keeps the old session's sink.
StopClearKeepsSink ==
    /\ main = "clear"
    /\ main' = IF serverAlive THEN "serve" ELSE "exited"
    /\ reply' = IF serverAlive THEN "stopped" ELSE reply
    /\ UNCHANGED <<flagVars, workerVars, libVars, outVars>>

\* g_sink = nullptr, and stop() returns to its caller.
StopClear ==
    /\ main = "clear"
    /\ sink' = FALSE
    /\ main' = IF serverAlive THEN "serve" ELSE "exited"
    /\ reply' = IF serverAlive THEN "stopped" ELSE reply
    /\ UNCHANGED <<running, stopRequested, joinable, workerVars, libVars, outVars>>

\* Server::run returns (EOF or error): stream_main's locals, the Server among
\* them, are destroyed before the function-local static session.
ServerGone ==
    /\ main = "serve"
    /\ main' = "leaving" /\ serverAlive' = FALSE
    /\ UNCHANGED <<reply, flagVars, workerVars, libVars, phase, lateEmit>>

-----------------------------------------------------------------------------
(* Worker thread: run().                                                   *)

\* The renderer build stands up the window first: when that succeeds g_video
\* is published and the window event sent; g_audio is published regardless.
RunSetup ==
    /\ worker = "begin"
    /\ worker' = "connect" /\ live' = Sinks
    /\ \/ /\ HaveRenderer
          /\ window' = TRUE /\ gptr' = Sinks
          /\ Say("window")
       \/ /\ window' = FALSE /\ gptr' = Sinks \ {"video"}
          /\ UNCHANGED outVars
    /\ UNCHANGED <<mainVars, flagVars, userClosed, libVars>>

\* Calling LiStartConnection, which forgets any earlier interrupt.
RunConnect ==
    /\ worker = "connect"
    /\ worker' = "wait" /\ conn' = "setup" /\ interrupted' = FALSE
    /\ UNCHANGED <<mainVars, flagVars, gptr, live, window, userClosed, cbs, outVars>>

\* LiStartConnection returned 0; the headless run() is over.
RunConnected ==
    /\ worker = "wait" /\ conn \in {"up", "terminated"}
    /\ worker' = IF HaveRenderer THEN "loop" ELSE "done"
    /\ UNCHANGED <<mainVars, flagVars, gptr, live, window, userClosed, libVars, outVars>>

\* LiStartConnection returned an error, its threads already stopped.
RunConnectFailed ==
    /\ worker = "wait" /\ conn = "failed" /\ cbs = {}
    /\ worker' = "connectFailed" /\ conn' = "off"
    /\ UNCHANGED <<mainVars, flagVars, gptr, live, window, userClosed, interrupted,
                   cbs, outVars>>

RunGiveUp ==
    /\ worker = "connectFailed"
    /\ worker' = "reportError" /\ running' = FALSE
    /\ UNCHANGED <<mainVars, stopRequested, joinable, sink, gptr, live, window,
                   userClosed, libVars, outVars>>

\* The globals are cleared, then emit("error", ...) and return, which destroys
\* the locals.
RunReportError ==
    /\ worker = "reportError"
    /\ worker' = "done" /\ gptr' = {} /\ live' = {} /\ window' = FALSE
    /\ Emit("error")
    /\ UNCHANGED <<mainVars, flagVars, userClosed, libVars>>

\* One turn of the loop: pump, present, and now and then a stream.stats event.
RunIterate ==
    /\ worker = "loop" /\ ~stopRequested
    /\ lateEmit' = (lateEmit \/ ~serverAlive)
    /\ UNCHANGED <<mainVars, flagVars, workerVars, libVars, phase, serverAlive>>

\* pump() saw SDL_QUIT.
RunUserClose ==
    /\ worker = "loop" /\ ~stopRequested /\ window
    /\ worker' = "stopConn" /\ userClosed' = TRUE
    /\ UNCHANGED <<mainVars, flagVars, gptr, live, window, libVars, outVars>>

\* Mutated form of RunStopSeen: the flag is polled only where there is no window.
RunStopSeenHeadlessOnly ==
    /\ worker = "loop" /\ stopRequested /\ ~window
    /\ worker' = "stopConn"
    /\ UNCHANGED <<mainVars, flagVars, gptr, live, window, userClosed, libVars, outVars>>

\* while (!stopRequested_) ends.
RunStopSeen ==
    /\ worker = "loop" /\ stopRequested
    /\ worker' = "stopConn"
    /\ UNCHANGED <<mainVars, flagVars, gptr, live, window, userClosed, libVars, outVars>>

\* Mutated form of RunStopConn: the renderers go before the connection does.
RunCleansBeforeStop ==
    /\ worker = "stopConn"
    /\ worker' = "stopWait" /\ conn' = "stopping"
    /\ gptr' = {} /\ live' = {}
    /\ UNCHANGED <<mainVars, flagVars, window, userClosed, interrupted, cbs, outVars>>

\* Mutated form of RunStopConn: running_ is cleared before LiStopConnection.
RunUnrunsBeforeStop ==
    /\ worker = "stopConn"
    /\ worker' = "stopWait" /\ conn' = "stopping" /\ running' = FALSE
    /\ UNCHANGED <<mainVars, stopRequested, joinable, sink, gptr, live, window,
                   userClosed, interrupted, cbs, outVars>>

RunStopConn ==
    /\ worker = "stopConn"
    /\ worker' = "stopWait" /\ conn' = "stopping"
    /\ UNCHANGED <<mainVars, flagVars, gptr, live, window, userClosed, interrupted,
                   cbs, outVars>>

\* LiStopConnection returns on the worker.
RunLibStopped ==
    /\ worker = "stopWait" /\ conn = "draining" /\ cbs = {}
    /\ worker' = "cleanup" /\ conn' = "off"
    /\ UNCHANGED <<mainVars, flagVars, gptr, live, window, userClosed, interrupted,
                   cbs, outVars>>

\* Mutated form of RunCleanup: the sink is dropped with the other globals.
RunCleanupDropsSink ==
    /\ worker = "cleanup"
    /\ worker' = "report"
    /\ gptr' = {} /\ live' = {} /\ window' = FALSE /\ running' = FALSE /\ sink' = FALSE
    /\ UNCHANGED <<mainVars, stopRequested, joinable, userClosed, libVars, outVars>>

\* Globals cleared, renderers cleaned up, window destroyed, running_ = false.
RunCleanup ==
    /\ worker = "cleanup"
    /\ worker' = "report"
    /\ gptr' = {} /\ live' = {} /\ window' = FALSE /\ running' = FALSE
    /\ UNCHANGED <<mainVars, stopRequested, joinable, sink, userClosed, libVars, outVars>>

\* Mutated form of RunReport: a closed window goes unreported.
RunReportsNothing ==
    /\ worker = "report"
    /\ worker' = "done" /\ userClosed' = FALSE
    /\ UNCHANGED <<mainVars, flagVars, gptr, live, window, libVars, outVars>>

\* if (userClosed) emit("ended", ...)
RunReport ==
    /\ worker = "report"
    /\ worker' = "done" /\ userClosed' = FALSE
    /\ IF userClosed THEN Emit("ended") ELSE UNCHANGED outVars
    /\ UNCHANGED <<mainVars, flagVars, gptr, live, window, libVars>>

-----------------------------------------------------------------------------
(* moonlight-common-c, as this code uses it (external).                    *)

\* cl_stage_starting
LibStage ==
    /\ conn \in {"setup", "negotiated"}
    /\ Emit("connecting")
    /\ UNCHANGED <<mainVars, flagVars, workerVars, libVars>>

\* The video stage calls vr_setup: -1 without a g_video, or when the decoder
\* cannot be opened; the null sinks of the headless build always accept.
LibVideoSetup ==
    /\ conn = "setup"
    /\ \/ conn' = "negotiated" /\ (HaveRenderer => "video" \in gptr)
       \/ conn' = "refused" /\ HaveRenderer
    /\ UNCHANGED <<mainVars, flagVars, workerVars, interrupted, cbs, outVars>>

\* A stage fails: cl_stage_failed.
LibSetupFails ==
    /\ conn \in {"setup", "negotiated", "refused"}
    /\ conn' = "failed"
    /\ Emit("error")
    /\ UNCHANGED <<mainVars, flagVars, workerVars, interrupted, cbs>>

\* cl_connection_started
LibConnected ==
    /\ conn = "negotiated" /\ ~interrupted
    /\ conn' = "up"
    /\ Emit("streaming")
    /\ UNCHANGED <<mainVars, flagVars, workerVars, interrupted, cbs>>

\* vr_submit / ar_play found its global set and is inside the renderer.
LibSubmit(s) ==
    /\ conn \in {"negotiated", "up", "terminated", "stopping"}
    /\ s \in gptr \ cbs
    /\ cbs' = cbs \cup {s}
    /\ UNCHANGED <<mainVars, flagVars, workerVars, conn, interrupted, outVars>>

LibSubmitDone(s) ==
    /\ s \in cbs
    /\ cbs' = cbs \ {s}
    /\ UNCHANGED <<mainVars, flagVars, workerVars, conn, interrupted, outVars>>

\* The host ends the session or is lost; cl_connection_terminated begins ...
LibTerminate ==
    /\ conn = "up"
    /\ conn' = "terminated" /\ cbs' = cbs \cup {"term"}
    /\ UNCHANGED <<mainVars, flagVars, workerVars, interrupted, outVars>>

\* ... and reports "ended" (graceful) or "error".
LibTerminated ==
    /\ "term" \in cbs
    /\ cbs' = cbs \ {"term"}
    /\ \E p \in Terminal : Emit(p)
    /\ UNCHANGED <<mainVars, flagVars, workerVars, conn, interrupted>>

\* LiStopConnection has told its threads to quit: no new callbacks.
LibQuits ==
    /\ conn = "stopping"
    /\ conn' = "draining"
    /\ UNCHANGED <<mainVars, flagVars, workerVars, interrupted, cbs, outVars>>

-----------------------------------------------------------------------------
Request ==
    StartRefused \/ StartRejected \/ StartPublish \/ StopRequest \/ ServerGone

MainStep ==
    \/ StartSpawn \/ StopInterrupt \/ StopJoin \/ StopTail \/ StopLibStopped
    \/ StopUnrun \/ StopClear

Run ==
    \/ RunSetup \/ RunConnect \/ RunConnected \/ RunConnectFailed \/ RunGiveUp
    \/ RunReportError \/ RunStopSeen \/ RunStopConn \/ RunLibStopped
    \/ RunCleanup \/ RunReport

\* What moonlight-common-c must do sooner or later: finish a setup one way or
\* the other, return from a callback, obey LiStopConnection.
LibProgress ==
    \/ LibVideoSetup \/ LibSetupFails \/ LibConnected \/ LibTerminated \/ LibQuits
    \/ \E s \in Sinks : LibSubmitDone(s)

LibMay == LibStage \/ LibTerminate \/ \E s \in Sinks : LibSubmit(s)

Gone == main \in {"exited", "aborted"} /\ UNCHANGED vars

Next ==
    Request \/ MainStep \/ Run \/ RunIterate \/ RunUserClose \/ LibProgress \/ LibMay \/ Gone

\* The operating system schedules every thread; requests, window events and
\* frames come when they come.
Fairness ==
    /\ WF_vars(MainStep)
    /\ WF_vars(main = "leaving" /\ StopRequest)
    /\ WF_vars(Run)
    /\ WF_vars(LibVideoSetup)
    /\ WF_vars(LibSetupFails \/ LibConnected)
    /\ WF_vars(LibTerminated)
    /\ WF_vars(LibQuits)
    /\ \A s \in Sinks : WF_vars(LibSubmitDone(s))

Spec     == Init /\ [][Next]_vars
FairSpec == Spec /\ Fairness

-----------------------------------------------------------------------------
(* Properties.                                                             *)

\* Every variable holds a value of its kind; in particular the globals only
\* ever point at renderers this build has.
TypeOK ==
    /\ main \in MainPc
    /\ reply \in {"none", "busy", "rejected", "started", "stopped"}
    /\ running \in BOOLEAN /\ stopRequested \in BOOLEAN
    /\ joinable \in BOOLEAN /\ sink \in BOOLEAN
    /\ worker \in WorkerPc
    /\ gptr \subseteq Sinks /\ live \subseteq Sinks
    /\ window \in BOOLEAN /\ userClosed \in BOOLEAN
    /\ conn \in Conn /\ interrupted \in BOOLEAN
    /\ cbs \subseteq (Sinks \cup {"term"})
    /\ phase \in Phases /\ serverAlive \in BOOLEAN /\ lateEmit \in BOOLEAN

\* A moonlight thread inside vr_submit or ar_play is always inside a renderer
\* that exists and was not cleaned up: run() stops the connection before it
\* tears the renderers down.
CallbacksHitLiveRenderers == cbs \cap Sinks \subseteq live

\* running_ is a lease on moonlight-common-c: taken while the library is at
\* rest, held for as long as a connection or a callback exists, and given back
\* only afterwards, on the failure, window-closed and stop() paths alike.
Lease == INSTANCE MoonlightLease WITH
    held <- running,
    lib  <- IF conn = "off" /\ cbs = {} THEN "rest" ELSE "inUse"
RunningIsALease == Lease!LeaseSpec

\* LiStartConnection is never called while an earlier connection exists: the
\* library holds one connection.
OneConnection == worker = "connect" => conn = "off" /\ cbs = {}

\* stop() leaves nothing behind: once it has returned, no worker, connection,
\* callback, renderer, window or sink of the old session is left.
StopLeavesNothing ==
    main = "serve" /\ ~joinable =>
        /\ worker = "off" /\ ~running /\ ~sink
        /\ conn = "off" /\ cbs = {} /\ gptr = {} /\ live = {} /\ ~window

\* g_sink is a plain std::function: when stop() resets it no other thread may
\* be about to call it.
SinkClearedAlone ==
    main = "clear" => cbs = {} /\ conn = "off" /\ worker \in {"off", "done"}

\* A worker that ends a session nobody asked it to stop has told the launcher:
\* the last phase it sent is "ended" or "error".
NoSilentDeath ==
    worker = "done" /\ ~running /\ ~stopRequested /\ serverAlive
        => phase \in Terminal

\* stop() returns, whatever the session was doing when it was called.
StopReturns == stopRequested ~> (main \in {"serve", "exited"} \/ ~stopRequested)

\* Closing the stream window ends with the launcher told so, unless it went
\* away itself or start() aborted the process first.
CloseReported ==
    userClosed ~> (phase = "ended" \/ ~serverAlive \/ main = "aborted")

(* What the repository says of the code and the code does not do.          *)

\* "Returns false + err if a stream is already running or the inputs are
\* unusable; otherwise true": start() never brings the process down.
StartReturns == main # "aborted"

\* The sinks forward "over the shared IPC server", which still exists then.
EmitsReachAServer == ~lateEmit

-----------------------------------------------------------------------------
(* The inductive invariant behind the safety properties.                   *)

\* start() is between its assignments and the thread, or died there; only then
\* may running_ be set while an older worker is still on its way out.
Restarting == main \in {"spawn", "aborted"}

\* Which program counters go together on the two threads.
ThreadsInv ==
    /\ joinable <=> worker # "off"
    /\ main \in {"interrupt", "join"} => joinable /\ stopRequested
    /\ main \in {"tail", "liStop", "unrun", "clear", "exited"} => worker = "off"
    /\ main = "spawn" => sink
    /\ Restarting => running /\ worker \in {"off", "reportError", "report", "done"}
    /\ main = "liStop" => ~HaveRenderer
    /\ worker \in {"loop", "stopConn", "stopWait", "cleanup", "report"} => HaveRenderer

\* Where the connection can be, given where its owner is.
ConnInv ==
    /\ worker \in {"begin", "connect", "connectFailed", "reportError", "cleanup",
                   "report"} => conn = "off"
    /\ worker = "wait" => conn \notin {"off", "stopping", "draining"}
    /\ worker \in {"loop", "stopConn"} => conn \in {"up", "terminated"}
    /\ worker = "stopWait" => conn \in {"stopping", "draining"}
    /\ worker = "done" => conn \in {"off", "up", "terminated"}
    /\ worker = "done" /\ HaveRenderer => conn = "off"
    /\ worker = "off" =>
        /\ main \in {"serve", "leaving", "spawn", "unrun", "clear", "exited", "aborted"}
              => conn = "off"
        /\ main = "tail" => conn \in {"off", "up", "terminated"}
        /\ main = "tail" /\ HaveRenderer => conn = "off"
        /\ main = "liStop" => conn \in {"stopping", "draining"}
    /\ conn = "off" => cbs = {}

\* running_ is true from start() until the library is at rest again.
RunningInv ==
    /\ conn # "off" => running
    /\ worker \in {"begin", "connect", "wait", "connectFailed", "loop", "stopConn",
                   "stopWait", "cleanup"} => running
    /\ worker \in {"reportError", "report"} /\ ~Restarting => ~running
    /\ worker = "done" /\ ~Restarting => (running <=> conn # "off")
    /\ worker = "off" =>
        /\ main \in {"serve", "leaving", "clear", "exited"} => ~running
        /\ main = "tail" => (running <=> conn # "off")

\* What run() has published and built.
ObjectsInv ==
    /\ gptr \subseteq live
    /\ cbs \cap Sinks \subseteq live
    /\ worker \in {"off", "begin", "report", "done"} => gptr = {} /\ live = {} /\ ~window
    /\ window => HaveRenderer

\* The sink stays for as long as a worker can use it, and an unasked-for end
\* has a reason the launcher is told.
ReportInv ==
    /\ worker # "off" => sink
    /\ worker = "off" /\ main \in {"serve", "leaving", "exited"} => ~sink
    /\ worker \in {"stopConn", "stopWait", "cleanup"} => userClosed \/ stopRequested
    /\ worker = "report" /\ ~Restarting => userClosed \/ stopRequested
    /\ NoSilentDeath

\* The conjunction is inductive; each safety property above follows from it.
SessionInv == TypeOK /\ ThreadsInv /\ ConnInv /\ RunningInv /\ ObjectsInv /\ ReportInv
=============================================================================
