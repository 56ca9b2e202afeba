--------------------------- MODULE ClientControl ---------------------------
(***************************************************************************)
(* The client-mode handlers of src/src/client/stream_main.cpp that need a  *)
(* paired host: client.start with its chain of requests (serverinfo, the   *)
(* app list of nv_applist.cpp, launch or resume of nv_launch.cpp),         *)
(* client.apps and client.stop, together with the pairing of NvPairing.    *)
(* Handlers run one after the other on the engine's main thread.           *)
(*                                                                         *)
(* The stream itself is only there or not (StreamSession has its life); a  *)
(* remote-input key is a number.  Setting values are doubles as JSON has   *)
(* them, in halves, so that the cast to int has something to cut off.      *)
(***************************************************************************)
EXTENDS NvPairing, Integers

CONSTANTS
    Apps,           \* Apps[m]: the app list of machine m
    Refs,           \* the values of 'app' in client.start
    Settings,       \* the values of 'settings' in client.start
    MaxInt,         \* the largest int, scaled down
    Methods         \* bound: the methods the launcher calls

Fields == {"width", "height", "fps", "bitrateKbps"}

ASSUME AppsAssumption == \A m \in Machines : Apps[m] \in Seq([id : Nat, title : Titles])

ASSUME ClientAssumption ==
    /\ Refs \subseteq Titles
    /\ Settings \subseteq [kind : {"null", "object", "other"}, num : [Fields -> Int],
                           displayMode : {"windowed", "fullscreen", "borderless", "other"}]
    /\ MaxInt \in Nat /\ MaxInt > 500000
    /\ Methods \subseteq {"client.pair", "client.trustHost", "client.apps", "client.start"}

VARIABLES
    job,            \* the local variables of client.start and client.apps
    stream          \* the stream session: host, remote-input key, settings

clientVars == <<pairVars, job, stream>>

Modes    == {"windowed", "fullscreen", "borderless"}
Defaults == [num |-> [width |-> 1920, height |-> 1080, fps |-> 60, bitrateKbps |-> 20000],
             displayMode |-> "fullscreen"]
NoStream == [on |-> None, key |-> 0, settings |-> Defaults]
NewJob(name, ref, settings) ==
    [name |-> name, ref |-> ref, settings |-> settings, id |-> 0, game |-> 0]
NoJob    == NewJob("", NoTitle, Defaults)

-----------------------------------------------------------------------------
(* stream_config.cpp                                                       *)

\* static_cast<int>(double): towards zero; what no int can hold is undefined,
\* and the builds give the least int or the nearest one.
CastToInt(halves) ==
    LET whole == IF halves >= 0 THEN halves \div 2 ELSE -((-halves) \div 2)
    IN  IF whole \in -MaxInt - 1 .. MaxInt THEN {whole}
        ELSE {-MaxInt - 1, IF whole > 0 THEN MaxInt ELSE -MaxInt - 1}

\* Mutated form of InRange: the cap of the frame rate is off by one.
InRangeOffByOne(n) ==
    /\ n.width >= 256 /\ n.width <= 7680
    /\ n.height >= 144 /\ n.height <= 4320
    /\ n.fps >= 10 /\ n.fps <= 241
    /\ n.bitrateKbps >= 500 /\ n.bitrateKbps <= 500000

InRange(n) ==
    /\ n.width >= 256 /\ n.width <= 7680
    /\ n.height >= 144 /\ n.height <= 4320
    /\ n.fps >= 10 /\ n.fps <= 240
    /\ n.bitrateKbps >= 500 /\ n.bitrateKbps <= 500000

\* validate_stream_settings: the settings it may let pass, none if it refuses.
ValidateStreamSettings(s) ==
    CASE s.kind = "null"   -> {Defaults}
      [] s.kind = "other"  -> {}
      [] s.kind = "object" ->
            {[num |-> n, displayMode |-> s.displayMode] :
                n \in {n \in [Fields -> UNION {CastToInt(s.num[f]) : f \in Fields}] :
                          /\ \A f \in Fields : n[f] \in CastToInt(s.num[f])
                          /\ InRange(n) /\ s.displayMode \in Modes}}

-----------------------------------------------------------------------------
(* The host's side of streaming, external                                  *)

SessionUrl == Answer("200", <<Element("sessionUrl0", "rtsp")>>)

OnApplist(m) == Reply(hosts[m], Answer("200", AppElements(Apps[m])))

\* launch needs a host without an app, resume one with it; both set the key.
OnLaunchOrResume(m, req) ==
    LET h == hosts[m]
    IN  IF req.verb = "launch" /\ h.app = 0 /\ \E i \in 1 .. Len(Apps[m]) : Apps[m][i].id = req.id
        THEN Reply([h EXCEPT !.app = req.id, !.key = req.key], SessionUrl)
        ELSE IF req.verb = "resume" /\ h.app # 0
        THEN Reply([h EXCEPT !.key = req.key], SessionUrl)
        ELSE Refusal(h)

Secured(does) == Request(TRUE, pin, does)

\* A random 16-byte key: one that neither a machine nor the stream has.
Keys     == 1 .. Cardinality(Machines) + 2
FreshKey == CHOOSE k \in Keys \ ({hosts[m].key : m \in Machines} \cup {stream.key}) : TRUE

-----------------------------------------------------------------------------
(* client.start and client.apps                                            *)

Finish(result) == Return(result) /\ job' = NoJob
Step(where, j) == Goto(where, att) /\ job' = j

\* connect_paired_host up to its request
ConnectPairedHost(j) ==
    \/ pin = None /\ Finish("not_paired")
    \/ pin # None /\ Finish("internal")         \* the identity is not to be had
    \/ pin # None /\ pc' = "info" /\ att' = NoAttempt /\ answer' = "none" /\ job' = j

ClientApps ==
    /\ pc = "idle"
    /\ Finish("bad_params") \/ ConnectPairedHost(NewJob("apps", NoTitle, Defaults))
    /\ UNCHANGED <<hosts, calm, pin, stream>>

ClientStart ==
    /\ pc = "idle"
    /\ \E s \in Settings :
          \/ ValidateStreamSettings(s) = {} /\ Finish("bad_params")
          \/ \E v \in ValidateStreamSettings(s) :
                \/ Finish("bad_params")         \* no host or no app given
                \/ \E r \in Refs : ConnectPairedHost(NewJob("start", r, v))
    /\ UNCHANGED <<hosts, calm, pin, stream>>

\* serverinfo over HTTP, for the HTTPS port
InfoHttp ==
    /\ pc = "info"
    /\ \E w \in Plain([m \in Machines |-> OnServerInfo(m)]) :
          IF ~StatusOk(w.xml) THEN Finish("host_unreachable")
          ELSE Step(IF job.name = "start" THEN "authinfo" ELSE "apps", job)
    /\ UNCHANGED <<hosts, calm, pin, stream>>

\* std::atoi(appRef) decides whether the app list is needed.
InfoHttps ==
    /\ pc = "authinfo"
    /\ \E w \in Secured([m \in Machines |-> OnServerInfo(m)]) :
          IF ~StatusOk(w.xml) THEN Finish("host_unreachable")
          ELSE LET id == Leading[job.ref.word]
                   j  == [job EXCEPT !.id = id, !.game = XmlText(w.xml, "currentgame", 0)]
               IN  Step(IF id > 0 THEN "launch" ELSE "apps", j)
    /\ UNCHANGED <<hosts, calm, pin, stream>>

\* fetch_app_list, and resolve_app_id for client.start
FetchAppList ==
    /\ pc = "apps"
    /\ \E w \in Secured([m \in Machines |-> OnApplist(m)]) :
          LET id == ResolveAppId(ParseAppList(w.xml), job.ref)
          IN  IF ~StatusOk(w.xml) THEN Finish("host_unreachable")
              ELSE IF job.name = "apps" THEN Finish("apps")
              ELSE IF id <= 0 THEN Finish("app_not_found")
              ELSE Step("launch", [job EXCEPT !.id = id])
    /\ UNCHANGED <<hosts, calm, pin, stream>>

\* build_launch_args, build_resume_args: to resume, the host gets no app.
LaunchArgs(verb, j) ==
    IF verb = "resume" THEN [verb |-> verb, key |-> FreshKey]
    ELSE [verb |-> verb, key |-> FreshKey, id |-> j.id]

\* launch_or_resume: an app that runs, whichever it is, is resumed.
LaunchVerb(game) == IF game # 0 THEN "resume" ELSE "launch"

\* run_launch: what counts as success
Launched(xml) == StatusOk(xml) /\ XmlText(xml, "sessionUrl0", "") # ""

\* launch_or_resume with a new key, and StreamSession::start with the same one.
LaunchOrResume ==
    /\ pc = "launch"
    /\ \/ Finish("internal") /\ UNCHANGED <<hosts, stream>>     \* no random bytes
       \/ \E w \in Secured([m \in Machines |->
                           OnLaunchOrResume(m, LaunchArgs(LaunchVerb(job.game), job))]) :
             /\ hosts' = w.hosts
             /\ IF ~Launched(w.xml)
                THEN Finish("internal") /\ UNCHANGED stream
                ELSE IF stream # NoStream THEN Finish("engine_busy") /\ UNCHANGED stream
                ELSE /\ stream' = [on |-> pin, key |-> FreshKey, settings |-> job.settings]
                     /\ Finish("started")
    /\ UNCHANGED <<calm, pin>>

StartStep == InfoHttp \/ InfoHttps \/ FetchAppList \/ LaunchOrResume

\* client.stop; the session may also end while another handler runs.
ClientStop ==
    /\ stream' = NoStream
    /\ \/ pc = "idle" /\ Finish("stopped")
       \/ stream # NoStream /\ UNCHANGED <<pc, att, answer, job>>
    /\ UNCHANGED <<hosts, calm, pin>>

-----------------------------------------------------------------------------

\* The app on a host ends, or another client starts one or takes it over.
HostApp(m) ==
    /\ ~calm
    /\ \E id \in {0} \cup {Apps[m][i].id : i \in 1 .. Len(Apps[m])} :
          hosts' = [hosts EXCEPT ![m].app = id, ![m].key = 0]
    /\ UNCHANGED <<calm, pin, pc, att, answer>>

Init == PairInit /\ job = NoJob /\ stream = NoStream

\* Nobody pairs with the host, or uses it, in an instance that is not about it.
Pairing ==
    \/ ClientPair \/ PairStep \/ Calms
    \/ \E m \in Restless : HostForgets(m) \/ OtherPairs(m) \/ OtherEnds(m)

Next ==
    \/ /\ \/ "client.pair" \in Methods /\ Pairing
          \/ "client.trustHost" \in Methods /\ TrustHost
          \/ "client.start" \in Methods /\ \E m \in Restless : HostApp(m)
          \/ \E m \in Restless : HostEdits(m)
       /\ UNCHANGED <<job, stream>>
    \/ "client.apps" \in Methods /\ ClientApps
    \/ "client.start" \in Methods /\ (ClientStart \/ ClientStop)
    \/ StartStep

Spec == Init /\ [][Next]_clientVars

\* The main thread goes on: every request ends, by the system's limit for a
\* connect or the receive timeout.  Another client's pairing ends some time.
FairSpec ==
    /\ Spec
    /\ WF_clientVars(PairStep /\ UNCHANGED <<job, stream>>)
    /\ WF_clientVars(StartStep)
    /\ \A m \in Restless : WF_clientVars(OtherEnds(m) /\ UNCHANGED <<job, stream>>)

-----------------------------------------------------------------------------
(* Properties                                                              *)

\* The remote-input key of a running stream is known to no machine but the one
\* pinned when it was started, whoever answered the address in between.
KeyStaysWithHost ==
    stream # NoStream => \A m \in Machines : hosts[m].key = stream.key => m = stream.on

\* A client.start that names an app starts no other one: the id it launches
\* belongs to that title on the very machine that is told to launch it, however
\* the app list was cut.  Names that begin with a digit are left out: the
\* handler's std::atoi takes them for an id, although the comment above it means
\* only a "positive numeric value".
NamedAppIsStarted ==
    [][\A m \in Machines :
          hosts'[m].app # hosts[m].app /\ hosts'[m].key # 0 /\ Leading[job.ref.word] = 0 =>
              \E i \in 1 .. Len(Apps[m]) :
                  Apps[m][i].id = hosts'[m].app /\ Apps[m][i].title.word = job.ref.word]_clientVars

Within(low, n, high) == n \in Int /\ low <= n /\ n <= high

InBounds(n) ==
    /\ Within(256, n.width, 7680) /\ Within(144, n.height, 4320)
    /\ Within(10, n.fps, 240) /\ Within(500, n.bitrateKbps, 500000)

Documented(s) == InBounds(s.num) /\ s.displayMode \in Modes

\* A stream runs only with settings within the bounds docs/IPC.md:84 gives,
\* whatever numbers the request held and whatever the cast made of them.
StreamedAsDocumented == Documented(stream.settings)

\* The key of the running stream is the one its host has, unless another client
\* took the host over: "rikey/rikeyid here MUST be the same values placed in
\* STREAM_CONFIGURATION" (src/src/net/nv_launch.h:17-18).
LiveKeyIsHosts ==
    stream # NoStream /\ hosts[stream.on].key # 0 => hosts[stream.on].key = stream.key

\* From some time on the owner types every PIN within the 5000 ms that nv_pair's
\* transport waits for the answer to getservercert.
PinInTime == <>[][~GetServerCertTimesOut]_clientVars

\* A launcher that keeps asking for it gets its host paired once the network
\* holds and the PIN is typed right and in time: left-over sessions on the host,
\* another client's or those of its own attempts that failed or timed out before,
\* do not block it for good.  A PIN that comes too late every time never pairs,
\* although it is right: each such attempt leaves a session without an unpair.
PairingConverges ==
    <>calm /\ PinInTime /\ []<>(pc = "pairinfo") => []<>(answer = "paired")
=============================================================================
