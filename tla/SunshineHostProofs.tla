------------------------- MODULE SunshineHostProofs -------------------------
(***************************************************************************)
(* Proofs about SunshineHost, for any number of pids, clients and polls:   *)
(* HostInv is inductive and the safety properties follow from it.          *)
(***************************************************************************)
EXTENDS SunshineHost, TLAPS

\* Every answer the handlers give is one of the answers of TypeOK.
LEMMA SaidTyped ==
    /\ \A w \in Words, b \in BOOLEAN : Said(w, b) \in Replies
    /\ \A w \in Words : Said(w, FALSE) \in Replies
<1>1. \A w \in Words, b \in BOOLEAN : Said(w, b) \in Replies
  BY DEF Said, Replies
<1>2. \A w \in Words : Said(w, FALSE) \in Replies
  BY <1>1, Zenon
<1> QED BY <1>1, <1>2

\* "No call under way" is a value call may take.
LEMMA NoCallTyped == NoCall \in Calls
BY DEF NoCall, Calls

\* What running() may do to pid_ and the process table.
LEMMA ReapsTyped ==
    ASSUME TypeOK, Reaps
    PROVE  /\ pid' \in Pids \cup {0}
           /\ os' \in [Pids -> Child \cup {"free", "foreign", "orphan"}]
BY DEF TypeOK, Reaps, Child

\* What the return of stop() leaves in the engine.
LEMMA StopReturnsTyped ==
    ASSUME TypeOK, StopReturns
    PROVE  /\ main' \in Mains /\ polls' \in 0 .. MaxPolls
           /\ reply' \in Replies
<1> USE HostAssumption DEF TypeOK, StopReturns, Mains, Words
<1>1. CASE leaving
  BY <1>1
<1>2. CASE ~leaving
  <2>1. reply' = Said("stopped", FALSE) /\ "stopped" \in Words
    BY <1>2
  <2>2. reply' \in Replies
    BY <2>1, SaidTyped, Zenon
  <2>3. main' = "idle" /\ polls' = 0
    BY <1>2
  <2> QED BY <2>2, <2>3
<1> QED BY <1>1, <1>2

\* Every step keeps the types.
LEMMA TypeStep ==
    ASSUME TypeOK, PidInv, [Next]_vars PROVE TypeOK'
<1> USE HostAssumption, SaidTyped, NoCallTyped
        DEF IsRunning, Reaps, StopReturns, Words, Alive, Child, engineVars
<1>1. CASE EnableAnswer
  BY <1>1 DEF EnableAnswer, TypeOK, PidInv, Mains
<1>2. CASE StopTerm
  BY <1>2 DEF StopTerm, TypeOK, PidInv, Mains
<1>3. CASE StopPolls
  BY <1>3 DEF StopPolls, TypeOK, PidInv, Mains
<1>4. CASE StopGone
  <2>1. main' \in Mains /\ polls' \in 0 .. MaxPolls
    BY <1>4, StopReturnsTyped DEF StopGone, TypeOK, Mains
  <2>2. reply' \in Replies
    BY <1>4, StopReturnsTyped DEF StopGone, TypeOK
  <2> QED
    BY <1>4, <2>1, <2>2, ReapsTyped DEF StopGone, TypeOK
<1>5. CASE StopGivesUp
  BY <1>5 DEF StopGivesUp, TypeOK, PidInv, Mains
<1>6. CASE StopKill
  BY <1>6 DEF StopKill, TypeOK, PidInv, Mains
<1>7. CASE StopReap
  <2>1. os' \in [Pids -> Child \cup {"free", "foreign", "orphan"}] /\ pid' \in Pids \cup {0}
    BY <1>7 DEF StopReap, TypeOK
  <2> QED
    BY <1>7, <2>1, StopReturnsTyped DEF StopReap, TypeOK
<1>8. CASE StateOpen
  BY <1>8 DEF StateOpen, TypeOK, PidInv, Mains
<1>9. CASE StateWrite
  BY <1>9 DEF StateWrite, TypeOK, PidInv, Mains, Calls
<1>10. CASE StateWriteLost
  BY <1>10 DEF StateWriteLost, TypeOK, PidInv, Mains
<1>11. CASE StateFails
  BY <1>11 DEF StateFails, TypeOK, PidInv, Mains
<1>12. CASE TrustAnswer
  <2>1. /\ pid' \in Pids \cup {0}
        /\ os' \in [Pids -> Child \cup {"free", "foreign", "orphan"}]
    BY <1>12, ReapsTyped DEF TrustAnswer, TypeOK
  <2>2. reply' \in Replies
    <3>1. CASE call.already
      BY <1>12, <3>1 DEF TrustAnswer
    <3>2. CASE ~call.already
      BY <1>12, <3>2 DEF TrustAnswer
    <3> QED BY <3>1, <3>2
  <2>3. notices' \subseteq {"restartRequired", "pairAccept"}
    BY <1>12 DEF TrustAnswer, TypeOK
  <2>4. main' \in Mains
    BY <1>12 DEF TrustAnswer, Mains
  <2>5. call' \in Calls
    BY <1>12 DEF TrustAnswer
  <2> QED
    BY <1>12, <2>1, <2>2, <2>3, <2>4, <2>5 DEF TrustAnswer, TypeOK
<1>13. CASE AliasAnswer
  BY <1>13 DEF AliasAnswer, TypeOK, PidInv, Mains
<1>14. CASE Status
  BY <1>14 DEF Status, TypeOK, PidInv, Mains
<1>15. CASE EnableFails
  BY <1>15 DEF EnableFails, TypeOK, PidInv, Mains
<1>16. CASE EnableAgain
  BY <1>16 DEF EnableAgain, TypeOK, PidInv, Mains
<1>17. CASE EnableSpawns
  BY <1>17 DEF EnableSpawns, TypeOK, PidInv, Mains
<1>18. CASE StopIdle
  BY <1>18 DEF StopIdle, TypeOK, PidInv, Mains
<1>19. CASE StopBegins
  BY <1>19 DEF StopBegins, TypeOK, PidInv, Mains
<1>20. CASE TrustRead
  BY <1>20 DEF TrustRead, TypeOK, PidInv, Mains, Calls
<1>21. CASE EngineKilled
  <2>1. /\ os' \in [Pids -> Child \cup {"free", "foreign", "orphan"}]
        /\ loaded' \in [Pids -> SUBSET Clients]
    BY <1>21 DEF EngineKilled, TypeOK
  <2>2. call' \in Calls
    BY <1>21 DEF EngineKilled
  <2>3. /\ reply' \in Replies
        /\ leaving' \in BOOLEAN
    BY <1>21 DEF EngineKilled
  <2>4. /\ main' \in Mains /\ pid' \in Pids \cup {0} /\ bundled' \in BOOLEAN
        /\ polls' \in 0 .. MaxPolls /\ file' \subseteq Clients
        /\ notices' \subseteq {"restartRequired", "pairAccept"}
    BY <1>21 DEF EngineKilled, TypeOK, Mains
  <2> QED
    BY <2>1, <2>2, <2>3, <2>4 DEF TypeOK
<1>22. CASE EngineStarts
  BY <1>22 DEF EngineStarts, TypeOK, PidInv, Mains
<1>23. ASSUME NEW p \in Pids, SunshineServes(p) PROVE TypeOK'
  BY <1>23 DEF SunshineServes, TypeOK, PidInv, Mains
<1>24. ASSUME NEW p \in Pids, SunshinePairs(p) PROVE TypeOK'
  BY <1>24 DEF SunshinePairs, TypeOK, PidInv, Mains
<1>25. ASSUME NEW p \in Pids, SunshineExits(p) PROVE TypeOK'
  BY <1>25 DEF SunshineExits, TypeOK, PidInv, Mains
<1>26. ASSUME NEW p \in Pids, SunshineDies(p) PROVE TypeOK'
  BY <1>26 DEF SunshineDies, TypeOK, PidInv, Mains
<1>27. ASSUME NEW p \in Pids, PidTaken(p) PROVE TypeOK'
  BY <1>27 DEF PidTaken, TypeOK, PidInv, Mains
<1>28. CASE UNCHANGED vars
  BY <1>28 DEF vars, TypeOK, PidInv, Mains
<1> QED
  BY <1>1, <1>2, <1>3, <1>4, <1>5, <1>6, <1>7, <1>8, <1>9, <1>10, <1>11, <1>12, <1>13, <1>14,
     <1>15, <1>16, <1>17, <1>18, <1>19, <1>20, <1>21, <1>22, <1>23, <1>24, <1>25, <1>26, <1>27,
     <1>28
  DEF Next, Engine, Request

\* Every step keeps pid_ and the process table in agreement.
LEMMA PidStep ==
    ASSUME TypeOK, PidInv, [Next]_vars PROVE PidInv'
<1> USE HostAssumption DEF IsRunning, Reaps, StopReturns, Said, NoCall, Alive, Child, engineVars
<1>1. CASE EnableAnswer
  BY <1>1 DEF EnableAnswer, TypeOK, PidInv
<1>2. CASE StopTerm
  BY <1>2 DEF StopTerm, TypeOK, PidInv
<1>3. CASE StopPolls
  BY <1>3 DEF StopPolls, TypeOK, PidInv
<1>4. CASE StopGone
  BY <1>4 DEF StopGone, TypeOK, PidInv
<1>5. CASE StopGivesUp
  BY <1>5 DEF StopGivesUp, TypeOK, PidInv
<1>6. CASE StopKill
  BY <1>6 DEF StopKill, TypeOK, PidInv
<1>7. CASE StopReap
  BY <1>7 DEF StopReap, TypeOK, PidInv
<1>8. CASE StateOpen
  BY <1>8 DEF StateOpen, TypeOK, PidInv
<1>9. CASE StateWrite
  BY <1>9 DEF StateWrite, TypeOK, PidInv
<1>10. CASE StateWriteLost
  BY <1>10 DEF StateWriteLost, TypeOK, PidInv
<1>11. CASE StateFails
  BY <1>11 DEF StateFails, TypeOK, PidInv
<1>12. CASE TrustAnswer
  BY <1>12 DEF TrustAnswer, TypeOK, PidInv
<1>13. CASE AliasAnswer
  BY <1>13 DEF AliasAnswer, TypeOK, PidInv
<1>14. CASE Status
  BY <1>14 DEF Status, TypeOK, PidInv
<1>15. CASE EnableFails
  BY <1>15 DEF EnableFails, TypeOK, PidInv
<1>16. CASE EnableAgain
  BY <1>16 DEF EnableAgain, TypeOK, PidInv
<1>17. CASE EnableSpawns
  BY <1>17 DEF EnableSpawns, TypeOK, PidInv
<1>18. CASE StopIdle
  BY <1>18 DEF StopIdle, TypeOK, PidInv
<1>19. CASE StopBegins
  BY <1>19 DEF StopBegins, TypeOK, PidInv
<1>20. CASE TrustRead
  BY <1>20 DEF TrustRead, TypeOK, PidInv
<1>21. CASE EngineKilled
  BY <1>21 DEF EngineKilled, TypeOK, PidInv
<1>22. CASE EngineStarts
  BY <1>22 DEF EngineStarts, TypeOK, PidInv
<1>23. ASSUME NEW p \in Pids, SunshineServes(p) PROVE PidInv'
  BY <1>23 DEF SunshineServes, TypeOK, PidInv
<1>24. ASSUME NEW p \in Pids, SunshinePairs(p) PROVE PidInv'
  BY <1>24 DEF SunshinePairs, TypeOK, PidInv
<1>25. ASSUME NEW p \in Pids, SunshineExits(p) PROVE PidInv'
  BY <1>25 DEF SunshineExits, TypeOK, PidInv
<1>26. ASSUME NEW p \in Pids, SunshineDies(p) PROVE PidInv'
  BY <1>26 DEF SunshineDies, TypeOK, PidInv
<1>27. ASSUME NEW p \in Pids, PidTaken(p) PROVE PidInv'
  BY <1>27 DEF PidTaken, TypeOK, PidInv
<1>28. CASE UNCHANGED vars
  BY <1>28 DEF vars, TypeOK, PidInv
<1> QED
  BY <1>1, <1>2, <1>3, <1>4, <1>5, <1>6, <1>7, <1>8, <1>9, <1>10, <1>11, <1>12, <1>13, <1>14,
     <1>15, <1>16, <1>17, <1>18, <1>19, <1>20, <1>21, <1>22, <1>23, <1>24, <1>25, <1>26, <1>27,
     <1>28
  DEF Next, Engine, Request

\* Every step keeps the ports with one Sunshine.
LEMMA PortStep ==
    ASSUME TypeOK, PidInv, PortInv, [Next]_vars PROVE PortInv'
<1> USE HostAssumption DEF IsRunning, Reaps, StopReturns, Said, NoCall, Alive, Child, engineVars
<1>1. CASE EnableAnswer
  BY <1>1 DEF EnableAnswer, TypeOK, PidInv, PortInv
<1>2. CASE StopTerm
  BY <1>2 DEF StopTerm, TypeOK, PidInv, PortInv
<1>3. CASE StopPolls
  BY <1>3 DEF StopPolls, TypeOK, PidInv, PortInv
<1>4. CASE StopGone
  BY <1>4 DEF StopGone, TypeOK, PidInv, PortInv
<1>5. CASE StopGivesUp
  BY <1>5 DEF StopGivesUp, TypeOK, PidInv, PortInv
<1>6. CASE StopKill
  BY <1>6 DEF StopKill, TypeOK, PidInv, PortInv
<1>7. CASE StopReap
  BY <1>7 DEF StopReap, TypeOK, PidInv, PortInv
<1>8. CASE StateOpen
  BY <1>8 DEF StateOpen, TypeOK, PidInv, PortInv
<1>9. CASE StateWrite
  BY <1>9 DEF StateWrite, TypeOK, PidInv, PortInv
<1>10. CASE StateWriteLost
  BY <1>10 DEF StateWriteLost, TypeOK, PidInv, PortInv
<1>11. CASE StateFails
  BY <1>11 DEF StateFails, TypeOK, PidInv, PortInv
<1>12. CASE TrustAnswer
  BY <1>12 DEF TrustAnswer, TypeOK, PidInv, PortInv
<1>13. CASE AliasAnswer
  BY <1>13 DEF AliasAnswer, TypeOK, PidInv, PortInv
<1>14. CASE Status
  BY <1>14 DEF Status, TypeOK, PidInv, PortInv
<1>15. CASE EnableFails
  BY <1>15 DEF EnableFails, TypeOK, PidInv, PortInv
<1>16. CASE EnableAgain
  BY <1>16 DEF EnableAgain, TypeOK, PidInv, PortInv
<1>17. CASE EnableSpawns
  BY <1>17 DEF EnableSpawns, TypeOK, PidInv, PortInv
<1>18. CASE StopIdle
  BY <1>18 DEF StopIdle, TypeOK, PidInv, PortInv
<1>19. CASE StopBegins
  BY <1>19 DEF StopBegins, TypeOK, PidInv, PortInv
<1>20. CASE TrustRead
  BY <1>20 DEF TrustRead, TypeOK, PidInv, PortInv
<1>21. CASE EngineKilled
  BY <1>21 DEF EngineKilled, TypeOK, PidInv, PortInv
<1>22. CASE EngineStarts
  BY <1>22 DEF EngineStarts, TypeOK, PidInv, PortInv
<1>23. ASSUME NEW p \in Pids, SunshineServes(p) PROVE PortInv'
  BY <1>23 DEF SunshineServes, TypeOK, PidInv, PortInv
<1>24. ASSUME NEW p \in Pids, SunshinePairs(p) PROVE PortInv'
  BY <1>24 DEF SunshinePairs, TypeOK, PidInv, PortInv
<1>25. ASSUME NEW p \in Pids, SunshineExits(p) PROVE PortInv'
  BY <1>25 DEF SunshineExits, TypeOK, PidInv, PortInv
<1>26. ASSUME NEW p \in Pids, SunshineDies(p) PROVE PortInv'
  BY <1>26 DEF SunshineDies, TypeOK, PidInv, PortInv
<1>27. ASSUME NEW p \in Pids, PidTaken(p) PROVE PortInv'
  BY <1>27 DEF PidTaken, TypeOK, PidInv, PortInv
<1>28. CASE UNCHANGED vars
  BY <1>28 DEF vars, TypeOK, PidInv, PortInv
<1> QED
  BY <1>1, <1>2, <1>3, <1>4, <1>5, <1>6, <1>7, <1>8, <1>9, <1>10, <1>11, <1>12, <1>13, <1>14,
     <1>15, <1>16, <1>17, <1>18, <1>19, <1>20, <1>21, <1>22, <1>23, <1>24, <1>25, <1>26, <1>27,
     <1>28
  DEF Next, Engine, Request

\* Every step keeps the launcher informed.
LEMMA TrustStep ==
    ASSUME TypeOK, PidInv, PortInv, TrustInv, [Next]_vars PROVE TrustInv'
<1> USE HostAssumption DEF IsRunning, Reaps, StopReturns, Said, NoCall, Alive, Child, engineVars
<1>1. CASE EnableAnswer
  BY <1>1 DEF EnableAnswer, TypeOK, PidInv, PortInv, TrustInv
<1>2. CASE StopTerm
  BY <1>2 DEF StopTerm, TypeOK, PidInv, PortInv, TrustInv
<1>3. CASE StopPolls
  BY <1>3 DEF StopPolls, TypeOK, PidInv, PortInv, TrustInv
<1>4. CASE StopGone
  BY <1>4 DEF StopGone, TypeOK, PidInv, PortInv, TrustInv
<1>5. CASE StopGivesUp
  BY <1>5 DEF StopGivesUp, TypeOK, PidInv, PortInv, TrustInv
<1>6. CASE StopKill
  BY <1>6 DEF StopKill, TypeOK, PidInv, PortInv, TrustInv
<1>7. CASE StopReap
  BY <1>7 DEF StopReap, TypeOK, PidInv, PortInv, TrustInv
<1>8. CASE StateOpen
  BY <1>8 DEF StateOpen, TypeOK, PidInv, PortInv, TrustInv
<1>9. CASE StateWrite
  BY <1>9 DEF StateWrite, TypeOK, PidInv, PortInv, TrustInv
<1>10. CASE StateWriteLost
  BY <1>10 DEF StateWriteLost, TypeOK, PidInv, PortInv, TrustInv
<1>11. CASE StateFails
  BY <1>11 DEF StateFails, TypeOK, PidInv, PortInv, TrustInv
<1>12. CASE TrustAnswer
  BY <1>12 DEF TrustAnswer, TypeOK, PidInv, PortInv, TrustInv
<1>13. CASE AliasAnswer
  BY <1>13 DEF AliasAnswer, TypeOK, PidInv, PortInv, TrustInv
<1>14. CASE Status
  BY <1>14 DEF Status, TypeOK, PidInv, PortInv, TrustInv
<1>15. CASE EnableFails
  BY <1>15 DEF EnableFails, TypeOK, PidInv, PortInv, TrustInv
<1>16. CASE EnableAgain
  BY <1>16 DEF EnableAgain, TypeOK, PidInv, PortInv, TrustInv
<1>17. CASE EnableSpawns
  BY <1>17 DEF EnableSpawns, TypeOK, PidInv, PortInv, TrustInv
<1>18. CASE StopIdle
  BY <1>18 DEF StopIdle, TypeOK, PidInv, PortInv, TrustInv
<1>19. CASE StopBegins
  BY <1>19 DEF StopBegins, TypeOK, PidInv, PortInv, TrustInv
<1>20. CASE TrustRead
  <2>1. PICK c \in Clients, alias \in BOOLEAN :
          /\ call' = [cert |-> c, already |-> c \in file, alias |-> alias,
                      next |-> file \cup {c}]
          /\ main' = IF c \in file THEN "answer" ELSE "open"
    BY <1>20 DEF TrustRead
  <2>2. call'.already <=> c \in file
    BY <2>1
  <2>3. main' = "open" => ~call'.already
    BY <2>1, <2>2
  <2>4. main' # "write"
    BY <2>1
  <2>5. \A p \in Pids : p = pid /\ os[p] = "serving" =>
                            file \subseteq loaded[p] \/ notices # {}
    BY <1>20 DEF TrustRead, TrustInv
  <2> QED
    BY <1>20, <2>3, <2>4, <2>5 DEF TrustRead, TrustInv
<1>21. CASE EngineKilled
  BY <1>21 DEF EngineKilled, TypeOK, PidInv, PortInv, TrustInv
<1>22. CASE EngineStarts
  BY <1>22 DEF EngineStarts, TypeOK, PidInv, PortInv, TrustInv
<1>23. ASSUME NEW p \in Pids, SunshineServes(p) PROVE TrustInv'
  BY <1>23 DEF SunshineServes, TypeOK, PidInv, PortInv, TrustInv
<1>24. ASSUME NEW p \in Pids, SunshinePairs(p) PROVE TrustInv'
  BY <1>24 DEF SunshinePairs, TypeOK, PidInv, PortInv, TrustInv
<1>25. ASSUME NEW p \in Pids, SunshineExits(p) PROVE TrustInv'
  BY <1>25 DEF SunshineExits, TypeOK, PidInv, PortInv, TrustInv
<1>26. ASSUME NEW p \in Pids, SunshineDies(p) PROVE TrustInv'
  BY <1>26 DEF SunshineDies, TypeOK, PidInv, PortInv, TrustInv
<1>27. ASSUME NEW p \in Pids, PidTaken(p) PROVE TrustInv'
  BY <1>27 DEF PidTaken, TypeOK, PidInv, PortInv, TrustInv
<1>28. CASE UNCHANGED vars
  BY <1>28 DEF vars, TypeOK, PidInv, PortInv, TrustInv
<1> QED
  BY <1>1, <1>2, <1>3, <1>4, <1>5, <1>6, <1>7, <1>8, <1>9, <1>10, <1>11, <1>12, <1>13, <1>14,
     <1>15, <1>16, <1>17, <1>18, <1>19, <1>20, <1>21, <1>22, <1>23, <1>24, <1>25, <1>26, <1>27,
     <1>28
  DEF Next, Engine, Request

\* A new engine has no child and nothing on file.
LEMMA HostInvInit == Init => HostInv
<1> SUFFICES ASSUME Init PROVE HostInv
  OBVIOUS
<1> USE HostAssumption DEF Init, Child, Alive
<1>1. TypeOK
  <2>1. reply \in Replies /\ call \in Calls
    <3>1. "none" \in Words
      BY DEF Words
    <3> QED BY <3>1, SaidTyped, NoCallTyped, Zenon
  <2>2. /\ os \in [Pids -> Child \cup {"free", "foreign", "orphan"}]
        /\ loaded \in [Pids -> SUBSET Clients]
    OBVIOUS
  <2>3. leaving \in BOOLEAN /\ bundled \in BOOLEAN /\ main \in Mains
    BY DEF Mains
  <2>4. pid \in Pids \cup {0} /\ polls \in 0 .. MaxPolls /\ file \subseteq Clients
        /\ notices \subseteq {"restartRequired", "pairAccept"}
    OBVIOUS
  <2> QED BY <2>1, <2>2, <2>3, <2>4, Zenon DEF TypeOK
<1>2. PidInv /\ PortInv /\ TrustInv
  BY DEF Said, PidInv, PortInv, TrustInv
<1> QED BY <1>1, <1>2 DEF HostInv

\* Every step of the engine, of Sunshine and of the system keeps the invariant.
LEMMA HostInvStep == HostInv /\ [Next]_vars => HostInv'
BY TypeStep, PidStep, PortStep, TrustStep DEF HostInv

\* The inductive invariant holds in every behaviour of the host engine.
THEOREM HostInvariant == Spec => []HostInv
<1>1. Init => HostInv
  BY HostInvInit
<1>2. HostInv /\ [Next]_vars => HostInv'
  BY HostInvStep
<1> QED
  BY <1>1, <1>2, PTL DEF Spec

\* Every child of the engine is the one pid_ names.
THEOREM ChildNeverLost == Spec => []ChildIsKnown
<1>1. HostInv => ChildIsKnown
  BY DEF HostInv, PidInv, ChildIsKnown
<1> QED
  BY <1>1, HostInvariant, PTL

\* A stop that was answered, or an engine that ended, has left no child.
THEOREM StoppedMeansStopped == Spec => []StopIsFinal
<1>1. HostInv => StopIsFinal
  BY HostAssumption DEF HostInv, PidInv, StopIsFinal
<1> QED
  BY <1>1, HostInvariant, PTL

\* A Sunshine that lacks a client on file is one the launcher was warned of.
THEOREM StaleHostIsReported == Spec => []RestartIsReported
<1>1. HostInv => RestartIsReported
  BY DEF HostInv, TypeOK, TrustInv, RestartIsReported
<1> QED
  BY <1>1, HostInvariant, PTL

\* Signals reach Sunshine or nobody, however pids are recycled.
THEOREM SignalsSpareOthers == Spec => SparesOthers
<1>1. HostInv /\ [Next]_vars => [\A p \in Pids : os[p] = "foreign" => os'[p] = "foreign"]_vars
  <2> SUFFICES ASSUME HostInv, Next, NEW p \in Pids, os[p] = "foreign"
               PROVE  os'[p] = "foreign"
    OBVIOUS
  <2> USE HostAssumption DEF HostInv, TypeOK, PidInv, Child, Alive
  <2>1. CASE Engine
    BY <2>1 DEF Engine, EnableAnswer, StopTerm, StopPolls, StopGone, StopGivesUp, StopKill,
                StopReap, StateOpen, StateWrite, StateWriteLost, StateFails, TrustAnswer,
                AliasAnswer, Reaps
  <2>2. CASE Request
    BY <2>2 DEF Request, Status, EnableFails, EnableAgain, EnableSpawns, StopIdle,
                StopBegins, TrustRead, Reaps
  <2>3. CASE EngineKilled \/ EngineStarts
    BY <2>3 DEF EngineKilled, EngineStarts
  <2>4. ASSUME NEW q \in Pids,
               \/ SunshineServes(q) \/ SunshinePairs(q) \/ SunshineExits(q)
               \/ SunshineDies(q) \/ PidTaken(q)
        PROVE  os'[p] = "foreign"
    BY <2>4 DEF SunshineServes, SunshinePairs, SunshineExits, SunshineDies, PidTaken
  <2> QED
    BY <2>1, <2>2, <2>3, <2>4 DEF Next
<1> QED
  BY <1>1, HostInvariant, PTL DEF Spec, SparesOthers
=============================================================================
