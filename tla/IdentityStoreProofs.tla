------------------------ MODULE IdentityStoreProofs ------------------------
(***************************************************************************)
(* Proofs about IdentityStore, for one engine at a time, any hosts and     *)
(* certificates and any number of crashes: StoreInv is inductive, and the  *)
(* promises of identity_store.h follow from it.                            *)
(***************************************************************************)
EXTENDS IdentityStore, TLAPS

\* The program counters are told apart.
LEMMA PcsDiffer ==
    /\ \A f, g \in Files : /\ Reading(f) # Writing(g)
                           /\ Reading(f) = Reading(g) => f = g
                           /\ Writing(f) = Writing(g) => f = g
    /\ \A f \in Files : /\ IdlePc # Reading(f) /\ IdlePc # Writing(f)
                        /\ HostsPc # Reading(f) /\ HostsPc # Writing(f)
    /\ IdlePc # HostsPc
BY DEF Reading, Writing, IdlePc, HostsPc, Files

\* An empty store satisfies the invariant.
LEMMA StoreInvInit == Init => StoreInv
<1> SUFFICES ASSUME Init PROVE StoreInv
  OBVIOUS
<1> USE PcsDiffer DEF Init, Nothing, NoPins, Files
<1>1. TypeOK
  BY DEF TypeOK, Pins, Pcs
<1>2. DiskInv /\ LoadInv /\ ReturnInv
  BY DEF DiskInv, LoadInv, ReturnInv
<1>3. RegistryInv
  BY DEF RegistryInv
<1> QED BY <1>1, <1>2, <1>3 DEF StoreInv

\* Every step of the one engine keeps the invariant.
LEMMA StoreInvStep ==
    ASSUME Undisturbed, StoreInv, [Next]_vars PROVE StoreInv'
<1> USE StoreAssumption, PcsDiffer
      DEF Undisturbed, StoreInv, idVars, regVars, Files, Pins, Pcs, Return, Written, Change
<1>1. ASSUME NEW p \in Engines, Load(p) PROVE StoreInv'
  <2> USE <1>1 DEF Load
  <2>1. TypeOK'
    BY DEF TypeOK
  <2>2. DiskInv'
    BY DEF TypeOK, DiskInv, LoadInv
  <2>3. LoadInv'
    BY DEF TypeOK, DiskInv, LoadInv
  <2>4. ReturnInv'
    BY DEF TypeOK, DiskInv, LoadInv, ReturnInv
  <2>5. RegistryInv'
    BY DEF TypeOK, RegistryInv
  <2> QED BY <2>1, <2>2, <2>3, <2>4, <2>5
<1>2. ASSUME NEW p \in Engines, NEW f \in Files, ReadFile(p, f) PROVE StoreInv'
  <2> USE <1>2 DEF ReadFile, After
  <2>1. TypeOK'
    BY DEF TypeOK
  <2>2. DiskInv'
    BY DEF TypeOK, DiskInv, LoadInv
  <2>3. LoadInv'
    BY DEF TypeOK, DiskInv, LoadInv
  <2>4. ReturnInv'
    BY DEF TypeOK, DiskInv, LoadInv, ReturnInv
  <2>5. RegistryInv'
    BY DEF TypeOK, RegistryInv
  <2> QED BY <2>1, <2>2, <2>3, <2>4, <2>5
<1>3. ASSUME NEW p \in Engines, Reuse(p) PROVE StoreInv'
  <2> USE <1>3 DEF Reuse
  <2>1. TypeOK'
    BY DEF TypeOK
  <2>2. DiskInv'
    BY DEF TypeOK, DiskInv, LoadInv
  <2>3. LoadInv'
    BY DEF TypeOK, DiskInv, LoadInv
  <2>4. ReturnInv'
    BY DEF TypeOK, DiskInv, LoadInv, ReturnInv
  <2>5. RegistryInv'
    BY DEF TypeOK, RegistryInv
  <2> QED BY <2>1, <2>2, <2>3, <2>4, <2>5
<1>4. ASSUME NEW p \in Engines, Generate(p) PROVE StoreInv'
  <2> USE <1>4 DEF Generate
  <2>1. TypeOK'
    BY DEF TypeOK
  <2>2. DiskInv'
    BY DEF TypeOK, DiskInv, LoadInv
  <2>3. LoadInv'
    BY DEF TypeOK, DiskInv, LoadInv
  <2>4. ReturnInv'
    BY DEF TypeOK, DiskInv, LoadInv, ReturnInv
  <2>5. RegistryInv'
    BY DEF TypeOK, RegistryInv
  <2> QED BY <2>1, <2>2, <2>3, <2>4, <2>5
<1>5. ASSUME NEW p \in Engines, GenerateFails(p) PROVE StoreInv'
  <2> USE <1>5 DEF GenerateFails
  <2>1. TypeOK'
    BY DEF TypeOK
  <2>2. DiskInv'
    BY DEF TypeOK, DiskInv, LoadInv
  <2>3. LoadInv'
    BY DEF TypeOK, DiskInv, LoadInv
  <2>4. ReturnInv'
    BY DEF TypeOK, DiskInv, LoadInv, ReturnInv
  <2>5. RegistryInv'
    BY DEF TypeOK, RegistryInv
  <2> QED BY <2>1, <2>2, <2>3, <2>4, <2>5
<1>6. ASSUME NEW p \in Engines, NEW f \in Files, WriteFile(p, f) PROVE StoreInv'
  <2> USE <1>6 DEF WriteFile, After
  <2>1. TypeOK'
    BY DEF TypeOK
  <2>2. DiskInv'
    BY DEF TypeOK, DiskInv, LoadInv
  <2>3. LoadInv'
    BY DEF TypeOK, DiskInv, LoadInv
  <2>4. ReturnInv'
    BY DEF TypeOK, DiskInv, LoadInv, ReturnInv
  <2>5. RegistryInv'
    BY DEF TypeOK, RegistryInv
  <2> QED BY <2>1, <2>2, <2>3, <2>4, <2>5
<1>7. ASSUME NEW p \in Engines, NEW f \in Files, WriteFileFails(p, f) PROVE StoreInv'
  <2> USE <1>7 DEF WriteFileFails
  <2>1. TypeOK'
    BY DEF TypeOK
  <2>2. DiskInv'
    BY DEF TypeOK, DiskInv, LoadInv
  <2>3. LoadInv'
    BY DEF TypeOK, DiskInv, LoadInv
  <2>4. ReturnInv'
    BY DEF TypeOK, DiskInv, LoadInv, ReturnInv
  <2>5. RegistryInv'
    BY DEF TypeOK, RegistryInv
  <2> QED BY <2>1, <2>2, <2>3, <2>4, <2>5
<1>8. ASSUME NEW p \in Engines, NEW h \in Hosts, Upsert(p, h) PROVE StoreInv'
  <2> USE <1>8 DEF Upsert
  <2>1. TypeOK'
    BY DEF TypeOK
  <2>2. DiskInv'
    BY DEF TypeOK, DiskInv, LoadInv
  <2>3. LoadInv'
    BY DEF TypeOK, DiskInv, LoadInv
  <2>4. ReturnInv'
    BY DEF TypeOK, DiskInv, LoadInv, ReturnInv
  <2>5. RegistryInv'
    BY DEF TypeOK, RegistryInv
  <2> QED BY <2>1, <2>2, <2>3, <2>4, <2>5
<1>9. ASSUME NEW p \in Engines, NEW h \in Hosts, Remove(p, h) PROVE StoreInv'
  <2> USE <1>9 DEF Remove
  <2>1. TypeOK'
    BY DEF TypeOK
  <2>2. DiskInv'
    BY DEF TypeOK, DiskInv, LoadInv
  <2>3. LoadInv'
    BY DEF TypeOK, DiskInv, LoadInv
  <2>4. ReturnInv'
    BY DEF TypeOK, DiskInv, LoadInv, ReturnInv
  <2>5. RegistryInv'
    BY DEF TypeOK, RegistryInv
  <2> QED BY <2>1, <2>2, <2>3, <2>4, <2>5
<1>10. ASSUME NEW p \in Engines, WriteHosts(p) PROVE StoreInv'
  <2> USE <1>10 DEF WriteHosts
  <2>1. TypeOK'
    BY DEF TypeOK
  <2>2. DiskInv'
    BY DEF TypeOK, DiskInv, LoadInv
  <2>3. LoadInv'
    BY DEF TypeOK, DiskInv, LoadInv
  <2>4. ReturnInv'
    BY DEF TypeOK, DiskInv, LoadInv, ReturnInv
  <2>5. RegistryInv'
    BY DEF TypeOK, RegistryInv
  <2> QED BY <2>1, <2>2, <2>3, <2>4, <2>5
<1>11. ASSUME NEW p \in Engines, WriteHostsFails(p) PROVE StoreInv'
  <2> USE <1>11 DEF WriteHostsFails
  <2>1. TypeOK'
    BY DEF TypeOK
  <2>2. DiskInv'
    BY DEF TypeOK, DiskInv, LoadInv
  <2>3. LoadInv'
    BY DEF TypeOK, DiskInv, LoadInv
  <2>4. ReturnInv'
    BY DEF TypeOK, DiskInv, LoadInv, ReturnInv
  <2>5. RegistryInv'
    BY DEF TypeOK, RegistryInv
  <2> QED BY <2>1, <2>2, <2>3, <2>4, <2>5
<1>12. ASSUME NEW p \in Engines, Crash(p) PROVE StoreInv'
  <2> USE <1>12 DEF Crash, Nothing, NoPins
  <2>1. TypeOK'
    BY DEF TypeOK
  <2>2. DiskInv'
    BY DEF TypeOK, DiskInv, LoadInv
  <2>3. LoadInv'
    BY DEF TypeOK, DiskInv, LoadInv
  <2>4. ReturnInv'
    BY DEF TypeOK, DiskInv, LoadInv, ReturnInv
  <2>5. RegistryInv'
    BY DEF TypeOK, RegistryInv
  <2> QED BY <2>1, <2>2, <2>3, <2>4, <2>5
<1>13. CASE UNCHANGED vars
  BY <1>13 DEF vars, TypeOK, DiskInv, LoadInv, ReturnInv, RegistryInv
<1> QED
  BY <1>1, <1>2, <1>3, <1>4, <1>5, <1>6, <1>7, <1>8, <1>9, <1>10, <1>11, <1>12, <1>13 DEF Next

\* With one engine at a time and an honest file system the invariant holds
\* however often the engine is killed.
THEOREM StoreInvariant == Undisturbed /\ Spec => []StoreInv
<1>1. Init => StoreInv
  BY StoreInvInit
<1>2. Undisturbed /\ StoreInv /\ [Next]_vars => StoreInv'
  BY StoreInvStep
<1>3. SUFFICES ASSUME Undisturbed PROVE Spec => []StoreInv
  OBVIOUS
<1> QED
  BY <1>1, <1>2, <1>3, PTL DEF Spec

\* No engine ever presents parts of two identities.
THEOREM IdentityNeverHalf == Undisturbed /\ Spec => []IdentityWhole
<1>1. StoreInv => IdentityWhole
  BY DEF StoreInv, TypeOK, DiskInv, ReturnInv, IdentityWhole, Nothing
<1> QED
  BY <1>1, StoreInvariant, PTL

\* Every engine presents the identity that was handed out first.
THEOREM IdentitySurvives == Undisturbed /\ Spec => []IdentityStable
<1>1. StoreInv => IdentityStable
  BY DEF StoreInv, TypeOK, DiskInv, ReturnInv, IdentityStable, Files
<1> QED
  BY <1>1, StoreInvariant, PTL

\* The registry holds exactly what the calls reported as stored.
THEOREM PinsSurvive == Undisturbed /\ Spec => []PinsPersist
<1>1. StoreInv => PinsPersist
  BY DEF StoreInv, RegistryInv, PinsPersist
<1> QED
  BY <1>1, StoreInvariant, PTL
=============================================================================
