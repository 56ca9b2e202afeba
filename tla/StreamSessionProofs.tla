------------------------ MODULE StreamSessionProofs ------------------------
(***************************************************************************)
(* Proofs about StreamSession, for every build (every value of Sinks):     *)
(* SessionInv is inductive, the safety properties follow from it, and      *)
(* running_ implements the lease of MoonlightLease.                        *)
(***************************************************************************)
EXTENDS StreamSession, TLAPS

\* What the launcher is told when a sink is called directly (onState_).
LEMMA SayEffect ==
    ASSUME TypeOK, NEW p \in Phases, Say(p)
    PROVE  /\ phase' \in Phases /\ lateEmit' \in BOOLEAN /\ serverAlive' = serverAlive
           /\ serverAlive => phase' = p
           /\ ~serverAlive => phase' = phase
BY DEF TypeOK, Say

\* What the launcher is told by emit(), which goes through g_sink.
LEMMA EmitEffect ==
    ASSUME TypeOK, NEW p \in Phases, Emit(p)
    PROVE  /\ phase' \in Phases /\ lateEmit' \in BOOLEAN /\ serverAlive' = serverAlive
           /\ sink /\ serverAlive => phase' = p
           /\ ~(sink /\ serverAlive) => phase' = phase
BY SayEffect DEF TypeOK, Emit, outVars

\* The engine starts with no stream: every part of the invariant holds.
LEMMA SessionInvInit == Init => SessionInv
BY DEF Init, SessionInv, TypeOK, ThreadsInv, ConnInv, RunningInv, ObjectsInv,
       ReportInv, NoSilentDeath, Restarting, MainPc, WorkerPc, Conn, Phases

\* Every step of every thread preserves the invariant.
LEMMA SessionInvStep == SessionInv /\ [Next]_vars => SessionInv'
<1>inv. SUFFICES ASSUME SessionInv, [Next]_vars PROVE SessionInv'
  OBVIOUS
<1> USE SinksAssumption
      DEF MainPc, WorkerPc, Conn, Phases, Terminal, HaveRenderer, Restarting,
          mainVars, flagVars, workerVars, libVars, outVars
<1>1. CASE Request
  <2>1. CASE StartRefused
    BY <1>inv, <2>1 DEF StartRefused, SessionInv, TypeOK, ThreadsInv, ConnInv, RunningInv,
                        ObjectsInv, ReportInv, NoSilentDeath
  <2>2. CASE StartRejected
    BY <1>inv, <2>2 DEF StartRejected, SessionInv, TypeOK, ThreadsInv, ConnInv, RunningInv,
                        ObjectsInv, ReportInv, NoSilentDeath
  <2>3. CASE StartPublish
    <3>f. /\ running' /\ running' \in BOOLEAN /\ sink' /\ sink' \in BOOLEAN
          /\ ~stopRequested' /\ stopRequested' \in BOOLEAN
      BY <1>inv, <2>3 DEF StartPublish, SessionInv, TypeOK
    <3>1. TypeOK'
      BY <1>inv, <3>f, <2>3 DEF StartPublish, SessionInv, TypeOK
    <3>2. ThreadsInv'
      BY <1>inv, <3>f, <2>3 DEF StartPublish, SessionInv, TypeOK, ThreadsInv, RunningInv
    <3>3. ConnInv'
      BY <1>inv, <3>f, <2>3 DEF StartPublish, SessionInv, TypeOK, ThreadsInv, ConnInv
    <3>4. RunningInv'
      BY <1>inv, <3>f, <2>3 DEF StartPublish, SessionInv, TypeOK, ThreadsInv, ConnInv, RunningInv
    <3>5. ObjectsInv'
      BY <1>inv, <3>f, <2>3 DEF StartPublish, SessionInv, TypeOK, ThreadsInv, ConnInv, ObjectsInv
    <3>6. ReportInv'
      BY <1>inv, <3>f, <2>3 DEF StartPublish, SessionInv, TypeOK, ThreadsInv, ConnInv, RunningInv,
                                ReportInv, NoSilentDeath
    <3> QED BY <3>1, <3>2, <3>3, <3>4, <3>5, <3>6 DEF SessionInv
  <2>4. CASE StopRequest
    BY <1>inv, <2>4 DEF StopRequest, SessionInv, TypeOK, ThreadsInv, ConnInv, RunningInv,
                        ObjectsInv, ReportInv, NoSilentDeath
  <2>5. CASE ServerGone
    <3>f. ~serverAlive' /\ serverAlive' \in BOOLEAN
      BY <1>inv, <2>5 DEF ServerGone, SessionInv, TypeOK
    <3>1. TypeOK'
      BY <1>inv, <3>f, <2>5 DEF ServerGone, SessionInv, TypeOK
    <3>2. ThreadsInv'
      BY <1>inv, <3>f, <2>5 DEF ServerGone, SessionInv, TypeOK, ThreadsInv, RunningInv
    <3>3. ConnInv'
      BY <1>inv, <3>f, <2>5 DEF ServerGone, SessionInv, TypeOK, ThreadsInv, ConnInv
    <3>4. RunningInv'
      BY <1>inv, <3>f, <2>5 DEF ServerGone, SessionInv, TypeOK, ThreadsInv, ConnInv, RunningInv
    <3>5. ObjectsInv'
      BY <1>inv, <3>f, <2>5 DEF ServerGone, SessionInv, TypeOK, ThreadsInv, ConnInv, ObjectsInv
    <3>6. ReportInv'
      BY <1>inv, <3>f, <2>5 DEF ServerGone, SessionInv, TypeOK, ThreadsInv, ConnInv, RunningInv,
                                ReportInv, NoSilentDeath
    <3> QED BY <3>1, <3>2, <3>3, <3>4, <3>5, <3>6 DEF SessionInv
  <2> QED BY <1>1, <2>1, <2>2, <2>3, <2>4, <2>5 DEF Request
<1>2. CASE MainStep
  <2>1. CASE StartSpawn
    <3>f. joinable' /\ joinable' \in BOOLEAN
      BY <1>inv, <2>1 DEF StartSpawn, SessionInv, TypeOK
    <3>1. TypeOK'
      <4>1. main' \in MainPc /\ worker' \in WorkerPc
              /\ reply' \in {"none", "busy", "rejected", "started", "stopped"}
        BY <1>inv, <2>1 DEF StartSpawn, SessionInv, TypeOK
      <4> QED BY <1>inv, <2>1, <3>f, <4>1 DEF StartSpawn, SessionInv, TypeOK
    <3>2. ThreadsInv'
      BY <1>inv, <3>f, <2>1 DEF StartSpawn, SessionInv, TypeOK, ThreadsInv, RunningInv
    <3>3. ConnInv'
      BY <1>inv, <3>f, <2>1 DEF StartSpawn, SessionInv, TypeOK, ThreadsInv, ConnInv
    <3>4. RunningInv'
      BY <1>inv, <3>f, <2>1 DEF StartSpawn, SessionInv, TypeOK, ThreadsInv, ConnInv, RunningInv
    <3>5. ObjectsInv'
      BY <1>inv, <3>f, <2>1 DEF StartSpawn, SessionInv, TypeOK, ThreadsInv, ConnInv, ObjectsInv
    <3>6. ReportInv'
      BY <1>inv, <3>f, <2>1 DEF StartSpawn, SessionInv, TypeOK, ThreadsInv, ConnInv, RunningInv,
                                ReportInv, NoSilentDeath
    <3> QED BY <3>1, <3>2, <3>3, <3>4, <3>5, <3>6 DEF SessionInv
  <2>2. CASE StopInterrupt
    BY <1>inv, <2>2 DEF StopInterrupt, SessionInv, TypeOK, ThreadsInv, ConnInv, RunningInv,
                        ObjectsInv, ReportInv, NoSilentDeath
  <2>3. CASE StopJoin
    <3>f. ~joinable' /\ joinable' \in BOOLEAN
      BY <1>inv, <2>3 DEF StopJoin, SessionInv, TypeOK
    <3>1. TypeOK'
      BY <1>inv, <3>f, <2>3 DEF StopJoin, SessionInv, TypeOK
    <3>2. ThreadsInv'
      BY <1>inv, <3>f, <2>3 DEF StopJoin, SessionInv, TypeOK, ThreadsInv, RunningInv
    <3>3. ConnInv'
      BY <1>inv, <3>f, <2>3 DEF StopJoin, SessionInv, TypeOK, ThreadsInv, ConnInv
    <3>4. RunningInv'
      BY <1>inv, <3>f, <2>3 DEF StopJoin, SessionInv, TypeOK, ThreadsInv, ConnInv, RunningInv
    <3>5. ObjectsInv'
      BY <1>inv, <3>f, <2>3 DEF StopJoin, SessionInv, TypeOK, ThreadsInv, ConnInv, ObjectsInv
    <3>6. ReportInv'
      BY <1>inv, <3>f, <2>3 DEF StopJoin, SessionInv, TypeOK, ThreadsInv, ConnInv, RunningInv,
                                ReportInv, NoSilentDeath
    <3> QED BY <3>1, <3>2, <3>3, <3>4, <3>5, <3>6 DEF SessionInv
  <2>4. CASE StopTail
    BY <1>inv, <2>4 DEF StopTail, SessionInv, TypeOK, ThreadsInv, ConnInv, RunningInv, ObjectsInv,
          ReportInv, NoSilentDeath
  <2>5. CASE StopLibStopped
    BY <1>inv, <2>5 DEF StopLibStopped, SessionInv, TypeOK, ThreadsInv, ConnInv, RunningInv,
                        ObjectsInv, ReportInv, NoSilentDeath
  <2>6. CASE StopUnrun
    <3>f. ~running' /\ running' \in BOOLEAN
      BY <1>inv, <2>6 DEF StopUnrun, SessionInv, TypeOK
    <3>1. TypeOK'
      BY <1>inv, <3>f, <2>6 DEF StopUnrun, SessionInv, TypeOK
    <3>2. ThreadsInv'
      BY <1>inv, <3>f, <2>6 DEF StopUnrun, SessionInv, TypeOK, ThreadsInv, RunningInv
    <3>3. ConnInv'
      BY <1>inv, <3>f, <2>6 DEF StopUnrun, SessionInv, TypeOK, ThreadsInv, ConnInv
    <3>4. RunningInv'
      BY <1>inv, <3>f, <2>6 DEF StopUnrun, SessionInv, TypeOK, ThreadsInv, ConnInv, RunningInv
    <3>5. ObjectsInv'
      BY <1>inv, <3>f, <2>6 DEF StopUnrun, SessionInv, TypeOK, ThreadsInv, ConnInv, ObjectsInv
    <3>6. ReportInv'
      BY <1>inv, <3>f, <2>6 DEF StopUnrun, SessionInv, TypeOK, ThreadsInv, ConnInv, RunningInv,
                                ReportInv, NoSilentDeath
    <3> QED BY <3>1, <3>2, <3>3, <3>4, <3>5, <3>6 DEF SessionInv
  <2>7. CASE StopClear
    <3>f. ~sink' /\ sink' \in BOOLEAN
      BY <1>inv, <2>7 DEF StopClear, SessionInv, TypeOK
    <3>1. TypeOK'
      BY <1>inv, <3>f, <2>7 DEF StopClear, SessionInv, TypeOK
    <3>2. ThreadsInv'
      BY <1>inv, <3>f, <2>7 DEF StopClear, SessionInv, TypeOK, ThreadsInv, RunningInv
    <3>3. ConnInv'
      BY <1>inv, <3>f, <2>7 DEF StopClear, SessionInv, TypeOK, ThreadsInv, ConnInv
    <3>4. RunningInv'
      BY <1>inv, <3>f, <2>7 DEF StopClear, SessionInv, TypeOK, ThreadsInv, ConnInv, RunningInv
    <3>5. ObjectsInv'
      BY <1>inv, <3>f, <2>7 DEF StopClear, SessionInv, TypeOK, ThreadsInv, ConnInv, ObjectsInv
    <3>6. ReportInv'
      BY <1>inv, <3>f, <2>7 DEF StopClear, SessionInv, TypeOK, ThreadsInv, ConnInv, RunningInv,
                                ReportInv, NoSilentDeath
    <3> QED BY <3>1, <3>2, <3>3, <3>4, <3>5, <3>6 DEF SessionInv
  <2> QED BY <1>2, <2>1, <2>2, <2>3, <2>4, <2>5, <2>6, <2>7 DEF MainStep
<1>3. CASE Run
  <2>1. CASE RunSetup
    <3>f. window' \in BOOLEAN
      BY <1>inv, <2>1 DEF RunSetup, SessionInv, TypeOK
    <3>1. TypeOK'
      BY <1>inv, SayEffect, <3>f, <2>1 DEF RunSetup, SessionInv, TypeOK
    <3>2. ThreadsInv'
      BY <1>inv, SayEffect, <3>f, <2>1 DEF RunSetup, SessionInv, TypeOK, ThreadsInv, RunningInv
    <3>3. ConnInv'
      BY <1>inv, SayEffect, <3>f, <2>1 DEF RunSetup, SessionInv, TypeOK, ThreadsInv, ConnInv
    <3>4. RunningInv'
      BY <1>inv, SayEffect, <3>f, <2>1 DEF RunSetup, SessionInv, TypeOK, ThreadsInv, ConnInv,
                                           RunningInv
    <3>5. ObjectsInv'
      BY <1>inv, SayEffect, <3>f, <2>1 DEF RunSetup, SessionInv, TypeOK, ThreadsInv, ConnInv,
                                           ObjectsInv
    <3>6. ReportInv'
      BY <1>inv, SayEffect, <3>f, <2>1 DEF RunSetup, SessionInv, TypeOK, ThreadsInv, ConnInv,
                                           RunningInv, ReportInv, NoSilentDeath
    <3> QED BY <3>1, <3>2, <3>3, <3>4, <3>5, <3>6 DEF SessionInv
  <2>2. CASE RunConnect
    <3>f. ~interrupted' /\ interrupted' \in BOOLEAN
      BY <1>inv, <2>2 DEF RunConnect, SessionInv, TypeOK
    <3>1. TypeOK'
      BY <1>inv, <3>f, <2>2 DEF RunConnect, SessionInv, TypeOK
    <3>2. ThreadsInv'
      BY <1>inv, <3>f, <2>2 DEF RunConnect, SessionInv, TypeOK, ThreadsInv, RunningInv
    <3>3. ConnInv'
      BY <1>inv, <3>f, <2>2 DEF RunConnect, SessionInv, TypeOK, ThreadsInv, ConnInv
    <3>4. RunningInv'
      BY <1>inv, <3>f, <2>2 DEF RunConnect, SessionInv, TypeOK, ThreadsInv, ConnInv, RunningInv
    <3>5. ObjectsInv'
      BY <1>inv, <3>f, <2>2 DEF RunConnect, SessionInv, TypeOK, ThreadsInv, ConnInv, ObjectsInv
    <3>6. ReportInv'
      BY <1>inv, <3>f, <2>2 DEF RunConnect, SessionInv, TypeOK, ThreadsInv, ConnInv, RunningInv,
                                ReportInv, NoSilentDeath
    <3> QED BY <3>1, <3>2, <3>3, <3>4, <3>5, <3>6 DEF SessionInv
  <2>3. CASE RunConnected
    BY <1>inv, <2>3 DEF RunConnected, SessionInv, TypeOK, ThreadsInv, ConnInv, RunningInv,
                        ObjectsInv, ReportInv, NoSilentDeath
  <2>4. CASE RunConnectFailed
    BY <1>inv, <2>4 DEF RunConnectFailed, SessionInv, TypeOK, ThreadsInv, ConnInv, RunningInv,
                        ObjectsInv, ReportInv, NoSilentDeath
  <2>5. CASE RunGiveUp
    <3>f. ~running' /\ running' \in BOOLEAN
      BY <1>inv, <2>5 DEF RunGiveUp, SessionInv, TypeOK
    <3>1. TypeOK'
      BY <1>inv, <3>f, <2>5 DEF RunGiveUp, SessionInv, TypeOK
    <3>2. ThreadsInv'
      BY <1>inv, <3>f, <2>5 DEF RunGiveUp, SessionInv, TypeOK, ThreadsInv, RunningInv
    <3>3. ConnInv'
      BY <1>inv, <3>f, <2>5 DEF RunGiveUp, SessionInv, TypeOK, ThreadsInv, ConnInv
    <3>4. RunningInv'
      BY <1>inv, <3>f, <2>5 DEF RunGiveUp, SessionInv, TypeOK, ThreadsInv, ConnInv, RunningInv
    <3>5. ObjectsInv'
      BY <1>inv, <3>f, <2>5 DEF RunGiveUp, SessionInv, TypeOK, ThreadsInv, ConnInv, ObjectsInv
    <3>6. ReportInv'
      BY <1>inv, <3>f, <2>5 DEF RunGiveUp, SessionInv, TypeOK, ThreadsInv, ConnInv, RunningInv,
                                ReportInv, NoSilentDeath
    <3> QED BY <3>1, <3>2, <3>3, <3>4, <3>5, <3>6 DEF SessionInv
  <2>6. CASE RunReportError
    <3>f. ~window' /\ window' \in BOOLEAN
      BY <1>inv, <2>6 DEF RunReportError, SessionInv, TypeOK
    <3>1. TypeOK'
      BY <1>inv, EmitEffect, <3>f, <2>6 DEF RunReportError, SessionInv, TypeOK
    <3>2. ThreadsInv'
      BY <1>inv, EmitEffect, <3>f, <2>6 DEF RunReportError, SessionInv, TypeOK, ThreadsInv,
                                            RunningInv
    <3>3. ConnInv'
      BY <1>inv, EmitEffect, <3>f, <2>6 DEF RunReportError, SessionInv, TypeOK, ThreadsInv, ConnInv
    <3>4. RunningInv'
      BY <1>inv, EmitEffect, <3>f, <2>6 DEF RunReportError, SessionInv, TypeOK, ThreadsInv,
                                            ConnInv, RunningInv
    <3>5. ObjectsInv'
      BY <1>inv, EmitEffect, <3>f, <2>6 DEF RunReportError, SessionInv, TypeOK, ThreadsInv,
                                            ConnInv, ObjectsInv
    <3>6. ReportInv'
      BY <1>inv, EmitEffect, <3>f, <2>6 DEF RunReportError, SessionInv, TypeOK, ThreadsInv,
                                            ConnInv, RunningInv, ReportInv, NoSilentDeath
    <3> QED BY <3>1, <3>2, <3>3, <3>4, <3>5, <3>6 DEF SessionInv
  <2>7. CASE RunStopSeen
    BY <1>inv, <2>7 DEF RunStopSeen, SessionInv, TypeOK, ThreadsInv, ConnInv, RunningInv,
                        ObjectsInv, ReportInv, NoSilentDeath
  <2>8. CASE RunStopConn
    BY <1>inv, <2>8 DEF RunStopConn, SessionInv, TypeOK, ThreadsInv, ConnInv, RunningInv,
                        ObjectsInv, ReportInv, NoSilentDeath
  <2>9. CASE RunLibStopped
    BY <1>inv, <2>9 DEF RunLibStopped, SessionInv, TypeOK, ThreadsInv, ConnInv, RunningInv,
                        ObjectsInv, ReportInv, NoSilentDeath
  <2>10. CASE RunCleanup
    <3>f. ~window' /\ window' \in BOOLEAN /\ ~running' /\ running' \in BOOLEAN
      BY <1>inv, <2>10 DEF RunCleanup, SessionInv, TypeOK
    <3>1. TypeOK'
      BY <1>inv, <3>f, <2>10 DEF RunCleanup, SessionInv, TypeOK
    <3>2. ThreadsInv'
      BY <1>inv, <3>f, <2>10 DEF RunCleanup, SessionInv, TypeOK, ThreadsInv, RunningInv
    <3>3. ConnInv'
      BY <1>inv, <3>f, <2>10 DEF RunCleanup, SessionInv, TypeOK, ThreadsInv, ConnInv
    <3>4. RunningInv'
      BY <1>inv, <3>f, <2>10 DEF RunCleanup, SessionInv, TypeOK, ThreadsInv, ConnInv, RunningInv
    <3>5. ObjectsInv'
      BY <1>inv, <3>f, <2>10 DEF RunCleanup, SessionInv, TypeOK, ThreadsInv, ConnInv, ObjectsInv
    <3>6. ReportInv'
      BY <1>inv, <3>f, <2>10 DEF RunCleanup, SessionInv, TypeOK, ThreadsInv, ConnInv, RunningInv,
                                 ReportInv, NoSilentDeath
    <3> QED BY <3>1, <3>2, <3>3, <3>4, <3>5, <3>6 DEF SessionInv
  <2>11. CASE RunReport
    <3>f. ~userClosed' /\ userClosed' \in BOOLEAN
      BY <1>inv, <2>11 DEF RunReport, SessionInv, TypeOK
    <3>1. TypeOK'
      BY <1>inv, EmitEffect, <3>f, <2>11 DEF RunReport, SessionInv, TypeOK
    <3>2. ThreadsInv'
      BY <1>inv, EmitEffect, <3>f, <2>11 DEF RunReport, SessionInv, TypeOK, ThreadsInv, RunningInv
    <3>3. ConnInv'
      BY <1>inv, EmitEffect, <3>f, <2>11 DEF RunReport, SessionInv, TypeOK, ThreadsInv, ConnInv
    <3>4. RunningInv'
      BY <1>inv, EmitEffect, <3>f, <2>11 DEF RunReport, SessionInv, TypeOK, ThreadsInv, ConnInv,
                                             RunningInv
    <3>5. ObjectsInv'
      BY <1>inv, EmitEffect, <3>f, <2>11 DEF RunReport, SessionInv, TypeOK, ThreadsInv, ConnInv,
                                             ObjectsInv
    <3>6. ReportInv'
      <4>1. worker' = "done" /\ sink' = sink /\ sink /\ running' = running
              /\ stopRequested' = stopRequested /\ main' = main
              /\ serverAlive' = serverAlive
        BY <1>inv, EmitEffect, <2>11
           DEF RunReport, SessionInv, TypeOK, ThreadsInv, ReportInv
      <4>2. userClosed /\ serverAlive => phase' = "ended"
        BY <1>inv, EmitEffect, <2>11, <4>1 DEF RunReport, SessionInv
      <4>3. ~Restarting => userClosed \/ stopRequested
        BY <1>inv, <2>11 DEF RunReport, SessionInv, ReportInv
      <4>4. Restarting => running'
        BY <1>inv, <4>1 DEF SessionInv, ThreadsInv
      <4> QED BY <4>1, <4>2, <4>3, <4>4 DEF ReportInv, NoSilentDeath
    <3> QED BY <3>1, <3>2, <3>3, <3>4, <3>5, <3>6 DEF SessionInv
  <2> QED BY <1>3, <2>1, <2>2, <2>3, <2>4, <2>5, <2>6, <2>7, <2>8, <2>9, <2>10, <2>11 DEF Run
<1>4. CASE RunIterate
  BY <1>inv, <1>4 DEF RunIterate, SessionInv, TypeOK, ThreadsInv, ConnInv, RunningInv, ObjectsInv,
          ReportInv, NoSilentDeath
<1>5. CASE RunUserClose
  BY <1>inv, <1>5 DEF RunUserClose, SessionInv, TypeOK, ThreadsInv, ConnInv, RunningInv, ObjectsInv,
          ReportInv, NoSilentDeath
<1>6. CASE LibProgress
  <2>1. CASE LibVideoSetup
    BY <1>inv, <2>1 DEF LibVideoSetup, SessionInv, TypeOK, ThreadsInv, ConnInv, RunningInv,
                        ObjectsInv, ReportInv, NoSilentDeath
  <2>2. CASE LibSetupFails
    BY <1>inv, EmitEffect, <2>2 DEF LibSetupFails, SessionInv, TypeOK, ThreadsInv, ConnInv,
                                    RunningInv, ObjectsInv, ReportInv, NoSilentDeath
  <2>3. CASE LibConnected
    BY <1>inv, EmitEffect, <2>3 DEF LibConnected, SessionInv, TypeOK, ThreadsInv, ConnInv,
                                    RunningInv, ObjectsInv, ReportInv, NoSilentDeath
  <2>4. CASE LibTerminated
    BY <1>inv, EmitEffect, <2>4 DEF LibTerminated, SessionInv, TypeOK, ThreadsInv, ConnInv,
                                    RunningInv, ObjectsInv, ReportInv, NoSilentDeath
  <2>5. CASE LibQuits
    BY <1>inv, <2>5 DEF LibQuits, SessionInv, TypeOK, ThreadsInv, ConnInv, RunningInv, ObjectsInv,
          ReportInv, NoSilentDeath
  <2>6. ASSUME NEW s \in Sinks, LibSubmitDone(s) PROVE SessionInv'
    BY <1>inv, <2>6 DEF LibSubmitDone, SessionInv, TypeOK, ThreadsInv, ConnInv, RunningInv,
                        ObjectsInv, ReportInv, NoSilentDeath
  <2> QED BY <1>6, <2>1, <2>2, <2>3, <2>4, <2>5, <2>6 DEF LibProgress
<1>7. CASE LibMay
  <2>1. CASE LibStage
    BY <1>inv, EmitEffect, <2>1 DEF LibStage, SessionInv, TypeOK, ThreadsInv, ConnInv, RunningInv,
                                    ObjectsInv, ReportInv, NoSilentDeath
  <2>2. CASE LibTerminate
    BY <1>inv, <2>2 DEF LibTerminate, SessionInv, TypeOK, ThreadsInv, ConnInv, RunningInv,
                        ObjectsInv, ReportInv, NoSilentDeath
  <2>3. ASSUME NEW s \in Sinks, LibSubmit(s) PROVE SessionInv'
    BY <1>inv, <2>3 DEF LibSubmit, SessionInv, TypeOK, ThreadsInv, ConnInv, RunningInv, ObjectsInv,
          ReportInv, NoSilentDeath
  <2> QED BY <1>7, <2>1, <2>2, <2>3 DEF LibMay
<1>8. CASE Gone \/ UNCHANGED vars
  <2>1. UNCHANGED vars
    BY <1>8 DEF Gone
  <2>2. TypeOK'
    BY <1>inv, <2>1 DEF vars, SessionInv, TypeOK, NoSilentDeath
  <2>3. ThreadsInv'
    BY <1>inv, <2>1 DEF vars, SessionInv, ThreadsInv, NoSilentDeath
  <2>4. ConnInv'
    BY <1>inv, <2>1 DEF vars, SessionInv, ConnInv, NoSilentDeath
  <2>5. RunningInv'
    BY <1>inv, <2>1 DEF vars, SessionInv, RunningInv, NoSilentDeath
  <2>6. ObjectsInv'
    BY <1>inv, <2>1 DEF vars, SessionInv, ObjectsInv, NoSilentDeath
  <2>7. ReportInv'
    BY <1>inv, <2>1 DEF vars, SessionInv, ReportInv, NoSilentDeath
  <2> QED BY <2>2, <2>3, <2>4, <2>5, <2>6, <2>7 DEF SessionInv
<1> QED BY <1>inv, <1>1, <1>2, <1>3, <1>4, <1>5, <1>6, <1>7, <1>8 DEF Next

\* SessionInv holds in every reachable state of every build.
THEOREM SessionInvariant == Spec => []SessionInv
<1>1. Init => SessionInv
  BY SessionInvInit
<1>2. SessionInv /\ [Next]_vars => SessionInv'
  BY SessionInvStep
<1> QED BY <1>1, <1>2, PTL DEF Spec

\* The globals and flags of stream_session.cpp stay within their types.
THEOREM SessionTypeCorrect == Spec => []TypeOK
<1>1. SessionInv => TypeOK
  BY DEF SessionInv
<1> QED BY <1>1, SessionInvariant, PTL

\* No moonlight thread is ever inside a renderer that run() has torn down.
THEOREM RenderersOutliveCallbacks == Spec => []CallbacksHitLiveRenderers
<1>1. SessionInv => CallbacksHitLiveRenderers
  BY DEF SessionInv, ObjectsInv, CallbacksHitLiveRenderers
<1> QED BY <1>1, SessionInvariant, PTL

\* LiStartConnection is only ever called on a library at rest.
THEOREM SingleConnection == Spec => []OneConnection
<1>1. SessionInv => OneConnection
  BY DEF SessionInv, ConnInv, OneConnection
<1> QED BY <1>1, SessionInvariant, PTL

\* After stop() has returned nothing of the session is left.
THEOREM StopIsComplete == Spec => []StopLeavesNothing
<1>1. SessionInv => StopLeavesNothing
  BY DEF SessionInv, TypeOK, ThreadsInv, ConnInv, RunningInv, ObjectsInv, ReportInv,
         StopLeavesNothing
<1> QED BY <1>1, SessionInvariant, PTL

\* stop() resets g_sink only when no other thread can be calling it.
THEOREM SinkResetIsSafe == Spec => []SinkClearedAlone
<1>1. SessionInv => SinkClearedAlone
  BY DEF SessionInv, ThreadsInv, ConnInv, SinkClearedAlone
<1> QED BY <1>1, SessionInvariant, PTL

\* A session that ends by itself has reported its end.
THEOREM EndIsReported == Spec => []NoSilentDeath
<1>1. SessionInv => NoSilentDeath
  BY DEF SessionInv, ReportInv
<1> QED BY <1>1, SessionInvariant, PTL

-----------------------------------------------------------------------------
(* running_ implements the lease.                                          *)

\* The library as the lease sees it.
Lib == IF conn = "off" /\ cbs = {} THEN "rest" ELSE "inUse"

\* A step that leaves running_ alone and keeps the library at rest, or in use,
\* is a stutter of the lease.
LEMMA LeaseStutter ==
    ASSUME running' = running, Lib' = Lib
    PROVE  UNCHANGED Lease!leaseVars
BY DEF Lease!leaseVars, Lib

\* Every step of the session is a step of the lease or a stutter.
LEMMA LeaseStep ==
    SessionInv /\ SessionInv' /\ [Next]_vars => [Lease!LeaseNext]_(Lease!leaseVars)
<1>inv. SUFFICES ASSUME SessionInv, SessionInv', [Next]_vars
                 PROVE  [Lease!LeaseNext]_(Lease!leaseVars)
  OBVIOUS
<1> USE DEF mainVars, flagVars, workerVars, libVars, outVars
<1>lib. /\ running \in BOOLEAN /\ running' \in BOOLEAN
        /\ conn = "off" => cbs = {}
        /\ conn' = "off" => cbs' = {}
  BY <1>inv DEF SessionInv, TypeOK, ConnInv
<1>1. CASE StartPublish
  <2>1. conn = "off" /\ cbs = {} /\ ~running /\ running' /\ UNCHANGED libVars
    BY <1>inv, <1>1, <1>lib DEF StartPublish, SessionInv, RunningInv
  <2> QED BY <2>1, <1>lib DEF Lease!LeaseNext, Lease!Take
<1>2. CASE RunConnect
  <2>1. conn = "off" /\ cbs = {} /\ running /\ running' = running /\ conn' = "setup"
    BY <1>inv, <1>2, <1>lib DEF RunConnect, SessionInv, ConnInv, RunningInv
  <2> QED BY <2>1, <1>lib DEF Lease!LeaseNext, Lease!Open
<1>3. CASE RunConnectFailed \/ RunLibStopped \/ StopLibStopped
  <2>1. conn # "off" /\ running /\ running' = running /\ conn' = "off" /\ cbs' = {}
    BY <1>inv, <1>3, <1>lib
       DEF RunConnectFailed, RunLibStopped, StopLibStopped, SessionInv, RunningInv
  <2> QED BY <2>1, <1>lib DEF Lease!LeaseNext, Lease!Close
<1>4. CASE RunGiveUp \/ RunCleanup \/ StopUnrun
  <2>1. conn = "off" /\ cbs = {} /\ ~running' /\ UNCHANGED libVars
    BY <1>inv, <1>4, <1>lib
       DEF RunGiveUp, RunCleanup, StopUnrun, SessionInv, ThreadsInv, ConnInv
  <2> QED BY <2>1, <1>lib DEF Lease!LeaseNext, Lease!GiveUp, Lease!leaseVars
<1>5. ASSUME running' = running, UNCHANGED conn, cbs' = cbs
      PROVE  [Lease!LeaseNext]_(Lease!leaseVars)
  BY <1>5, LeaseStutter DEF Lib
<1>6. ASSUME running' = running, conn # "off", conn' # "off"
      PROVE  [Lease!LeaseNext]_(Lease!leaseVars)
  BY <1>6, LeaseStutter DEF Lib
<1>7. CASE StartRefused \/ StartRejected \/ StopRequest \/ ServerGone \/ StartSpawn
           \/ StopInterrupt \/ StopJoin \/ StopClear
  BY <1>5, <1>7
     DEF StartRefused, StartRejected, StopRequest, ServerGone, StartSpawn,
         StopInterrupt, StopJoin, StopClear
<1>8. CASE StopTail
  BY <1>inv, <1>5, <1>6, <1>8
     DEF StopTail, SessionInv, ThreadsInv, ConnInv, RunningInv
<1>9. CASE RunSetup \/ RunConnected \/ RunReportError \/ RunStopSeen \/ RunReport
           \/ RunIterate \/ RunUserClose
  BY <1>5, <1>9
     DEF RunSetup, RunConnected, RunReportError, RunStopSeen, RunReport,
         RunIterate, RunUserClose
<1>10. CASE RunStopConn
  BY <1>inv, <1>6, <1>10 DEF RunStopConn, SessionInv, ConnInv
<1>11. CASE LibVideoSetup \/ LibSetupFails \/ LibConnected \/ LibQuits
            \/ LibStage \/ LibTerminate
  BY <1>6, <1>11
     DEF LibVideoSetup, LibSetupFails, LibConnected, LibQuits, LibStage, LibTerminate
<1>12. CASE LibTerminated
  BY <1>inv, <1>lib, <1>6, <1>12 DEF LibTerminated
<1>13. ASSUME NEW s \in Sinks, LibSubmit(s) \/ LibSubmitDone(s)
       PROVE  [Lease!LeaseNext]_(Lease!leaseVars)
  BY <1>13, <1>lib, <1>6 DEF LibSubmit, LibSubmitDone
<1>14. CASE Gone \/ UNCHANGED vars
  BY <1>5, <1>14 DEF Gone, vars
<1> QED
  BY <1>inv, <1>1, <1>2, <1>3, <1>4, <1>7, <1>8, <1>9, <1>10, <1>11, <1>12, <1>13, <1>14
     DEF Next, Request, MainStep, Run, LibProgress, LibMay

\* In every build running_ is a lease on the library: the session refines
\* MoonlightLease.
THEOREM SessionImplementsLease == Spec => RunningIsALease
<1>1. Init => Lease!LeaseInit
  BY DEF Init, Lease!LeaseInit
<1>2. SessionInv /\ SessionInv' /\ [Next]_vars => [Lease!LeaseNext]_(Lease!leaseVars)
  BY LeaseStep
<1> QED BY <1>1, <1>2, SessionInvariant, PTL DEF Spec, RunningIsALease, Lease!LeaseSpec
=============================================================================
