--------------------------- MODULE MoonlightLease ---------------------------
(***************************************************************************)
(* What StreamSession promises the rest of the engine about                *)
(* moonlight-common-c, which holds one connection per process: running_ is *)
(* a lease on the library.  The lease is taken only while the library is   *)
(* at rest, the library is used only under the lease, and the lease is     *)
(* given back only after the library has come to rest again.               *)
(***************************************************************************)
VARIABLES
    held,   \* the lease: StreamSession::running()
    lib     \* "rest" or "inUse"

leaseVars == <<held, lib>>

LeaseInit == held = FALSE /\ lib = "rest"

Take    == ~held /\ lib = "rest" /\ held' = TRUE /\ UNCHANGED lib
Open    == held /\ lib = "rest" /\ lib' = "inUse" /\ UNCHANGED held
Close   == held /\ lib = "inUse" /\ lib' = "rest" /\ UNCHANGED held
GiveUp  == held /\ lib = "rest" /\ held' = FALSE /\ UNCHANGED lib

LeaseNext == Take \/ Open \/ Close \/ GiveUp

LeaseSpec == LeaseInit /\ [][LeaseNext]_leaseVars
=============================================================================
