---------------------------- MODULE SunshineHost ----------------------------
(***************************************************************************)
(* Host mode: the handlers of src/src/host/host_main.cpp over              *)
(* host::SunshineBackend (src/src/host/sunshine_backend.cpp, POSIX build), *)
(* which runs Sunshine as a child process, and over Sunshine's state file, *)
(* where the certificates of trusted clients live (client_trust.cpp).      *)
(*                                                                         *)
(* The engine serves one request at a time on one thread; beside it run    *)
(* the operating system, which hands freed pids to other programs, and     *)
(* Sunshine, which reads the state file when it starts, writes it when it  *)
(* pairs a client itself, and may die at any moment.  The engine can be    *)
(* killed between any two steps, and the launcher then starts a new one.   *)
(***************************************************************************)
EXTENDS Naturals

CONSTANTS
    Pids,           \* process ids
    Clients,        \* client certificates
    MaxPolls        \* how often stop() looks before it sends SIGKILL (50)

ASSUME HostAssumption == 0 \notin Pids /\ MaxPolls \in Nat

VARIABLES
    main,           \* program counter of the engine
    leaving,        \* stop() runs from the destructor
    pid,            \* pid_
    bundled,        \* binary_ was resolved
    polls,          \* the loop counter of stop()
    call,           \* host.trustClient / host.pairAccept under way
    reply,          \* the last answer to a state-changing request
    file,           \* root.named_devices in the state file
    os,             \* os[p]: what the system knows of process p
    loaded,         \* loaded[p]: the clients that a serving Sunshine trusts
    notices         \* what the launcher was told since the child was spawned

engineVars == <<main, leaving, pid, bundled, polls, call, reply>>
vars == <<engineVars, file, os, loaded, notices>>

\* Sunshine as a child of this engine, from fork until it is waited for;
\* "doomed" has been sent SIGKILL.
Alive == {"starting", "serving", "doomed"}
Child == Alive \cup {"zombie"}

NoCall == [cert |-> "none", already |-> FALSE, alias |-> FALSE, next |-> {}]
Said(w, b) == [what |-> w, flag |-> b]

Init ==
    /\ main = "idle" /\ leaving = FALSE /\ pid = 0 /\ bundled \in BOOLEAN
    /\ polls = 0 /\ call = NoCall /\ reply = Said("none", FALSE)
    /\ file = {}
    /\ os = [p \in Pids |-> "free"] /\ loaded = [p \in Pids |-> {}]
    /\ notices = {}

-----------------------------------------------------------------------------
(* running(): waitpid(pid_, WNOHANG).  Only a child of ours is waited for; *)
(* a pid that is nobody's child any more is an error, and also "gone".     *)

\* Mutated form of IsRunning: kill(pid_, 0), any process of that pid will do.
IsRunningByProbe == pid # 0 /\ os[pid] # "free"

IsRunning == pid # 0 /\ os[pid] \in Alive

\* Mutated form of Reaps: the pid of a child that was waited for is kept.
ReapsKeepsPid ==
    /\ os' = IF pid # 0 /\ os[pid] = "zombie" THEN [os EXCEPT ![pid] = "free"] ELSE os
    /\ UNCHANGED pid

\* What the call does to pid_ and to the process table.
Reaps ==
    /\ os' = IF pid # 0 /\ os[pid] = "zombie" THEN [os EXCEPT ![pid] = "free"] ELSE os
    /\ pid' = IF IsRunning THEN pid ELSE 0

\* host.status
Status ==
    /\ main = "idle"
    /\ Reaps
    /\ UNCHANGED <<main, leaving, bundled, polls, call, reply, file, loaded, notices>>

-----------------------------------------------------------------------------
(* host.enable {on: true}                                                  *)

\* start() has nothing to spawn (not_installed), or fork fails (internal).
EnableFails ==
    /\ main = "idle" /\ ~IsRunning
    /\ Reaps
    /\ reply' = Said("failed", bundled)
    /\ UNCHANGED <<main, leaving, bundled, polls, call, file, loaded, notices>>

\* The child is running already.
EnableAgain ==
    /\ main = "idle" /\ IsRunning
    /\ main' = "enabled"
    /\ UNCHANGED <<leaving, pid, bundled, polls, call, reply, file, os, loaded, notices>>

\* Mutated form of EnableSpawns: start() does not ask whether a child runs.
EnableSpawnsAgain ==
    /\ main = "idle" /\ bundled
    /\ \E p \in Pids :
          /\ os[p] = "free"
          /\ pid' = p
          /\ os' = [os EXCEPT ![p] = "starting"]
    /\ main' = "enabled" /\ notices' = {}
    /\ UNCHANGED <<leaving, bundled, polls, call, reply, file, loaded>>

\* start(): a dead child is reaped, then fork.
EnableSpawns ==
    /\ main = "idle" /\ bundled /\ ~IsRunning
    /\ \E p \in Pids :
          /\ os[p] = "free"
          /\ pid' = p
          /\ os' = [q \in Pids |-> IF q = p THEN "starting"
                                   ELSE IF q = pid /\ os[q] = "zombie" THEN "free"
                                   ELSE os[q]]
         
    /\ main' = "enabled" /\ notices' = {}
    /\ UNCHANGED <<leaving, bundled, polls, call, reply, file, loaded>>

\* The answer says whether the child is running by now.
EnableAnswer ==
    /\ main = "enabled"
    /\ main' = "idle" /\ reply' = Said("enabled", IsRunning)
    /\ Reaps
    /\ UNCHANGED <<leaving, bundled, polls, call, file, loaded, notices>>

-----------------------------------------------------------------------------
(* host.enable {on: false}, and the destructor when the connection ends.   *)

\* stop() returns; host.enable answers, the destructor ends the process.
StopReturns ==
    /\ polls' = 0
    /\ IF leaving THEN main' = "exited" /\ UNCHANGED reply
                  ELSE main' = "idle" /\ reply' = Said("stopped", FALSE)

\* if (!running()) return true
StopIdle ==
    /\ main = "idle" /\ ~IsRunning
    /\ leaving' \in BOOLEAN
    /\ Reaps
    /\ main' = IF leaving' THEN "exited" ELSE "idle"
    /\ reply' = IF leaving' THEN reply ELSE Said("stopped", FALSE)
    /\ UNCHANGED <<bundled, polls, call, file, loaded, notices>>

StopBegins ==
    /\ main = "idle" /\ IsRunning
    /\ leaving' \in BOOLEAN
    /\ main' = "term" /\ polls' = 0
    /\ UNCHANGED <<pid, bundled, call, reply, file, os, loaded, notices>>

\* kill(pid_, SIGTERM): Sunshine exits when it gets to it, or never does
\* (SunshineExits); another program that has the pid by now ends.
StopTerm ==
    /\ main = "term"
    /\ main' = "poll"
    /\ os' = [os EXCEPT ![pid] = IF @ = "foreign" THEN "free" ELSE @]
    /\ UNCHANGED <<leaving, pid, bundled, polls, call, reply, file, loaded, notices>>

\* One more look at the child, 100 ms later.
StopPolls ==
    /\ main = "poll" /\ polls < MaxPolls /\ IsRunning
    /\ polls' = polls + 1
    /\ UNCHANGED <<main, leaving, pid, bundled, call, reply, file, os, loaded, notices>>

\* Mutated form of StopGone: the loop's end goes unexamined.
StopGoneOrGivesUp ==
    /\ main = "poll" /\ (polls = MaxPolls \/ ~IsRunning)
    /\ Reaps
    /\ StopReturns
    /\ UNCHANGED <<leaving, bundled, call, file, loaded, notices>>

\* running() reaped the child; the check that follows the loop asks pid_.
StopGone ==
    /\ main = "poll" /\ polls < MaxPolls /\ ~IsRunning
    /\ Reaps
    /\ IF pid' = 0 THEN StopReturns ELSE main' = "kill" /\ UNCHANGED <<reply, polls>>
    /\ UNCHANGED <<leaving, bundled, call, file, loaded, notices>>

StopGivesUp ==
    /\ main = "poll" /\ polls = MaxPolls
    /\ main' = "kill"
    /\ UNCHANGED <<leaving, pid, bundled, polls, call, reply, file, os, loaded, notices>>

\* Mutated form of StopKill: the signal is SIGTERM again.
StopKillGently ==
    /\ main = "kill"
    /\ main' = "reap"
    /\ UNCHANGED <<leaving, pid, bundled, polls, call, reply, file, os, loaded, notices>>

\* kill(pid_, SIGKILL): whoever has that pid by now is doomed.
StopKill ==
    /\ main = "kill"
    /\ main' = "reap"
    /\ os' = [os EXCEPT ![pid] = IF @ \in Alive THEN "doomed"
                                 ELSE IF @ = "foreign" THEN "free" ELSE @]
    /\ UNCHANGED <<leaving, pid, bundled, polls, call, reply, file, loaded, notices>>

\* waitpid(pid_, 0) returns.
StopReap ==
    /\ main = "reap" /\ os[pid] \notin Alive
    /\ os' = IF os[pid] = "zombie" THEN [os EXCEPT ![pid] = "free"] ELSE os
    /\ pid' = 0
    /\ StopReturns
    /\ UNCHANGED <<leaving, bundled, call, file, loaded, notices>>

-----------------------------------------------------------------------------
(* host.trustClient and its alias host.pairAccept.                         *)

\* The state file is read; add_trusted_client makes the new text.
TrustRead ==
    /\ main = "idle"
    /\ \E c \in Clients, alias \in BOOLEAN :
          /\ call' = [cert |-> c, already |-> c \in file, alias |-> alias,
                      next |-> file \cup {c}]
          /\ main' = IF c \in file THEN "answer" ELSE "open"
    /\ UNCHANGED <<leaving, pid, bundled, polls, reply, file, os, loaded, notices>>

\* write_text_file: std::ios::trunc empties the file ...
StateOpen ==
    /\ main = "open"
    /\ main' = "write" /\ file' = {}
    /\ UNCHANGED <<leaving, pid, bundled, polls, call, reply, os, loaded, notices>>

\* ... and the text follows.
StateWrite ==
    /\ main = "write"
    /\ main' = "answer"
    /\ file' = call.next
    /\ UNCHANGED <<leaving, pid, bundled, polls, call, reply, os, loaded, notices>>

\* The text never leaves the stream's buffer, which the code does not look at.
StateWriteLost ==
    /\ main = "write"
    /\ main' = "answer"
    /\ UNCHANGED <<leaving, pid, bundled, polls, call, reply, file, os, loaded, notices>>

\* The file cannot be opened, or not written: internal.
StateFails ==
    /\ main \in {"open", "write"}
    /\ main' = "idle" /\ reply' = Said("untrusted", FALSE) /\ call' = NoCall
    /\ UNCHANGED <<leaving, pid, bundled, polls, file, os, loaded, notices>>

\* Mutated form of TrustAnswer: restartRequired is computed from a stale look.
TrustAnswerNoRestart ==
    /\ main = "answer" /\ ~call.alias
    /\ reply' = Said("trusted", FALSE)
    /\ main' = "idle" /\ call' = NoCall
    /\ UNCHANGED <<leaving, pid, bundled, polls, file, os, loaded, notices>>

\* host.trustClient: restartRequired = !already && running()
TrustAnswer ==
    /\ main = "answer" /\ ~call.alias
    /\ IF call.already
       THEN /\ reply' = Said("trusted", FALSE)
            /\ UNCHANGED <<pid, os, notices>>
       ELSE /\ Reaps
            /\ reply' = Said("trusted", IsRunning)
            /\ notices' = IF IsRunning THEN notices \cup {"restartRequired"} ELSE notices
    /\ main' = "idle" /\ call' = NoCall
    /\ UNCHANGED <<leaving, bundled, polls, file, loaded>>

\* host.pairAccept says nothing about a restart.
AliasAnswer ==
    /\ main = "answer" /\ call.alias
    /\ reply' = Said("trusted", FALSE)
    /\ notices' = IF call.already THEN notices ELSE notices \cup {"pairAccept"}
    /\ main' = "idle" /\ call' = NoCall
    /\ UNCHANGED <<leaving, pid, bundled, polls, file, os, loaded>>

-----------------------------------------------------------------------------
(* The engine's process.                                                   *)

\* Killed: Sunshine goes on without it (one that was starting finishes that),
\* and init reaps it in the end.
EngineKilled ==
    /\ main # "exited"
    /\ main' = "exited" /\ leaving' = FALSE /\ pid' = 0 /\ polls' = 0
    /\ call' = NoCall /\ reply' = Said("none", FALSE) /\ notices' = {}
    /\ os' = [p \in Pids |-> IF os[p] \in {"starting", "serving"} THEN "orphan"
                             ELSE IF os[p] \in Child THEN "free" ELSE os[p]]
    /\ loaded' = [p \in Pids |-> IF os[p] = "starting" THEN file
                                 ELSE IF os[p] \in {"serving", "orphan"} THEN loaded[p]
                                 ELSE {}]
    /\ UNCHANGED <<bundled, file>>

\* host_main: a new backend, which looks for its binary.
EngineStarts ==
    /\ main = "exited"
    /\ main' = "idle" /\ leaving' = FALSE /\ bundled' \in BOOLEAN
    /\ reply' = Said("none", FALSE)
    /\ UNCHANGED <<pid, polls, call, file, os, loaded, notices>>

-----------------------------------------------------------------------------
(* Sunshine and the operating system (external).                           *)

\* Sunshine finds the GameStream ports free, loads its state and serves.
SunshineServes(p) ==
    /\ os[p] = "starting" /\ \A q \in Pids : os[q] # "orphan"
    /\ os' = [os EXCEPT ![p] = "serving"] /\ loaded' = [loaded EXCEPT ![p] = file]
    /\ UNCHANGED <<engineVars, file, notices>>

\* A client pairs by PIN: Sunshine saves the clients it knows.
SunshinePairs(p) ==
    /\ os[p] \in {"serving", "orphan"}
    /\ \E c \in Clients \ loaded[p] :
          /\ loaded' = [loaded EXCEPT ![p] = @ \cup {c}]
          /\ file' = loaded[p] \cup {c}
    /\ UNCHANGED <<engineVars, os, notices>>

\* exec or bind fails, it crashes, it obeys SIGTERM.
SunshineExits(p) ==
    /\ os[p] \in {"starting", "serving", "orphan"}
    /\ os' = [os EXCEPT ![p] = IF @ = "orphan" THEN "free" ELSE "zombie"]
    /\ loaded' = [loaded EXCEPT ![p] = {}]
    /\ UNCHANGED <<engineVars, file, notices>>

SunshineDies(p) ==
    /\ os[p] = "doomed"
    /\ os' = [os EXCEPT ![p] = "zombie"] /\ loaded' = [loaded EXCEPT ![p] = {}]
    /\ UNCHANGED <<engineVars, file, notices>>

\* Another program gets a free pid.
PidTaken(p) ==
    /\ os[p] = "free"
    /\ os' = [os EXCEPT ![p] = "foreign"]
    /\ UNCHANGED <<engineVars, file, loaded, notices>>

-----------------------------------------------------------------------------
\* What the engine's thread does without being asked again.
Engine ==
    \/ EnableAnswer
    \/ StopTerm \/ StopPolls \/ StopGone \/ StopGivesUp \/ StopKill \/ StopReap
    \/ StateOpen \/ StateWrite \/ StateWriteLost \/ StateFails \/ TrustAnswer \/ AliasAnswer

Request ==
    \/ Status \/ EnableFails \/ EnableAgain \/ EnableSpawns
    \/ StopIdle \/ StopBegins \/ TrustRead

Next ==
    \/ Engine \/ Request \/ EngineKilled \/ EngineStarts
    \/ \E p \in Pids :
          \/ SunshineServes(p) \/ SunshinePairs(p) \/ SunshineExits(p)
          \/ SunshineDies(p) \/ PidTaken(p)

\* The engine is scheduled and SIGKILL works; nothing makes Sunshine obey a
\* SIGTERM, and requests come when they come.
Fairness == WF_vars(Engine) /\ \A p \in Pids : WF_vars(SunshineDies(p))

Spec     == Init /\ [][Next]_vars
FairSpec == Spec /\ Fairness

-----------------------------------------------------------------------------
(* Properties.                                                             *)

Mains == {"idle", "enabled", "term", "poll", "kill", "reap", "open", "write",
          "answer", "exited"}
Calls == [cert : Clients \cup {"none"}, already : BOOLEAN, alias : BOOLEAN,
          next : SUBSET Clients]
Words == {"none", "failed", "enabled", "stopped", "trusted", "untrusted"}
Replies == [what : Words, flag : BOOLEAN]

\* Every variable holds a value of its kind, and pid_ names a process only while
\* there is one to name.
TypeOK ==
    /\ main \in Mains /\ leaving \in BOOLEAN
    /\ pid \in Pids \cup {0} /\ bundled \in BOOLEAN /\ polls \in 0 .. MaxPolls
    /\ call \in Calls /\ reply \in Replies
    /\ file \subseteq Clients
    /\ os \in [Pids -> Child \cup {"free", "foreign", "orphan"}]
    /\ loaded \in [Pids -> SUBSET Clients]
    /\ notices \subseteq {"restartRequired", "pairAccept"}

\* The backend never loses sight of a Sunshine it spawned: every child that was
\* not waited for yet is the one pid_ names.  No second one is started beside a
\* living one and no zombie is left behind.
ChildIsKnown == \A p \in Pids : os[p] \in Child => p = pid

\* "true once it is not running": after host.enable {on: false} was answered,
\* and after an engine has ended of itself, no child of it is left, whether
\* Sunshine obeyed, ignored the SIGTERM or died on its own meanwhile.
StopIsFinal ==
    \/ reply.what = "stopped" /\ main # "enabled"
    \/ main = "exited"
    => \A p \in Pids : os[p] \notin Child

\* No signal, neither stop()'s SIGTERM nor its SIGKILL, ever ends a process that
\* is not Sunshine, though pids are recycled between the last look at the child
\* and the signal: pid_ is forgotten with the waitpid that frees it.
SparesOthers == [][\A p \in Pids : os[p] = "foreign" => os'[p] = "foreign"]_vars

\* "reported via `restartRequired`": while the engine is between requests, a
\* Sunshine that does not know a client on file is one the launcher was told to
\* restart (or has used host.pairAccept on, which never says so).
RestartIsReported ==
    main = "idle" /\ pid # 0 /\ os[pid] = "serving" /\ ~(file \subseteq loaded[pid])
        => notices # {}

\* stop() returns even when Sunshine ignores SIGTERM.
StopEnds == main \in {"term", "poll", "kill", "reap"} ~> main \in {"idle", "exited"}

-----------------------------------------------------------------------------
(* The inductive invariant behind the safety properties.                   *)

\* pid_ and the process table agree: pid_ names the one child there is.
PidInv ==
    /\ \A p \in Pids : os[p] \in Child <=> p = pid
    /\ main \in {"term", "poll", "kill", "reap"} => pid # 0
    /\ reply.what = "stopped" /\ main # "enabled" => pid = 0
    /\ main = "exited" => pid = 0

\* A child serves only where no Sunshine of an earlier engine does.
PortInv ==
    \A p, q \in Pids : os[p] = "serving" => os[q] # "orphan"

\* Until the answer to a new client is given, the child knows all that is on
\* file or the launcher was told otherwise.
TrustInv ==
    /\ main \in {"open", "write"} => ~call.already
    /\ \/ main = "answer" /\ ~call.already
       \/ \A p \in Pids : p = pid /\ os[p] = "serving" =>
                              file \subseteq loaded[p] \/ notices # {}

\* The conjunction is inductive; each safety property above follows from it.
HostInv == TypeOK /\ PidInv /\ PortInv /\ TrustInv
=============================================================================
