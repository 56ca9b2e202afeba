--------------------------- MODULE IdentityStore ---------------------------
(***************************************************************************)
(* The client engine's persistent store, net::IdentityStore                *)
(* (src/src/net/identity_store.cpp): the identity the hosts know this      *)
(* client by, kept in three files (client.crt, client.key, uniqueid), and  *)
(* the registry of paired hosts with their pinned certificates             *)
(* (hosts.json).  Every file is replaced as a whole (write a .tmp, rename),*)
(* and the engine can be killed between any two such steps.                *)
(*                                                                         *)
(* An identity is known by the number of the generate_identity call it     *)
(* came from; a file holds that number, or 0 when it is missing or empty,  *)
(* which load_or_create_identity treats alike.                             *)
(***************************************************************************)
EXTENDS Naturals

CONSTANTS
    Engines,        \* engine processes that share the store directory
    Hosts,          \* host addresses
    Certs,          \* server certificates
    NoCert,
    MaxGen,         \* bound: identities generated
    Faults          \* file-system faults that write_file does not handle

\* "flush":  the data is lost when the stream is closed, which nobody checks;
\* "rename": the rename fails, the old file is removed, the second rename
\*           fails too.
ASSUME StoreAssumption ==
    /\ NoCert \notin Certs
    /\ MaxGen \in Nat
    /\ Faults \subseteq {"flush", "rename"}

VARIABLES
    disk,           \* disk[f]: the identity file f belongs to, 0 for none
    registry,       \* hosts.json: the pin of each address
    pc,             \* pc[p]: what engine p is doing
    seen,           \* seen[p][f]: what load_or_create_identity read
    fresh,          \* fresh[p]: the identity p just generated
    snapshot,       \* snapshot[p]: the registry p is about to write
    about,          \* about[p]: the address that registry change is about
    returned,       \* returned[p]: the identity p presents to hosts, by file
    gens,           \* identities generated so far
    first,          \* the first identity ever handed to a caller, 0 for none
    acked           \* acked[h]: the pin the last completed write about h left

idVars  == <<disk, seen, fresh, returned, gens, first>>
regVars == <<registry, snapshot, about, acked>>
vars    == <<idVars, regVars, pc>>

Files   == {"crt", "key", "uid"}
Pins    == Certs \cup {NoCert}
Nothing == [f \in Files |-> 0]
NoPins  == [h \in Hosts |-> NoCert]

\* The three files are read, and written, in this order.
After(f) == CASE f = "crt" -> "key" [] f = "key" -> "uid"

Reading(f) == <<"read", f>>
Writing(f) == <<"write", f>>
IdlePc     == <<"idle">>
HostsPc    == <<"hosts">>

Init ==
    /\ disk = Nothing /\ registry = NoPins
    /\ pc = [p \in Engines |-> IdlePc]
    /\ seen = [p \in Engines |-> Nothing] /\ fresh = [p \in Engines |-> 0]
    /\ snapshot = [p \in Engines |-> NoPins]
    /\ about \in [Engines -> Hosts]
    /\ returned = [p \in Engines |-> Nothing]
    /\ gens = 0 /\ first = 0
    /\ acked = NoPins

-----------------------------------------------------------------------------
(* load_or_create_identity                                                 *)

Load(p) ==
    /\ pc[p] = IdlePc
    /\ pc' = [pc EXCEPT ![p] = Reading("crt")]
    /\ UNCHANGED <<idVars, regVars>>

\* read_file of client.crt and client.key
ReadFile(p, f) ==
    /\ f # "uid" /\ pc[p] = Reading(f)
    /\ seen' = [seen EXCEPT ![p][f] = disk[f]]
    /\ pc' = [pc EXCEPT ![p] = Reading(After(f))]
    /\ UNCHANGED <<disk, fresh, returned, gens, first, regVars>>

\* What the caller gets: the identity the engine presents from now on.
Return(p, id) ==
    /\ returned' = [returned EXCEPT ![p] = id]
    /\ first' = IF first = 0 THEN id["uid"] ELSE first

\* Mutated form of Reuse: the unique id is not checked.
ReuseWithoutUid(p) ==
    LET all == [seen[p] EXCEPT !["uid"] = disk["uid"]] IN
    /\ pc[p] = Reading("uid")
    /\ \A f \in Files \ {"uid"} : all[f] # 0
    /\ Return(p, all)
    /\ pc' = [pc EXCEPT ![p] = IdlePc]
    /\ UNCHANGED <<disk, seen, fresh, gens, regVars>>

\* read_file of uniqueid, and all three pieces are there and not empty: reuse.
Reuse(p) ==
    LET all == [seen[p] EXCEPT !["uid"] = disk["uid"]] IN
    /\ pc[p] = Reading("uid")
    /\ \A f \in Files : all[f] # 0
    /\ Return(p, all)
    /\ pc' = [pc EXCEPT ![p] = IdlePc]
    /\ UNCHANGED <<disk, seen, fresh, gens, regVars>>

\* Mutated form of Generate: nothing asks what is on disk.
GenerateAlways(p) ==
    /\ pc[p] = Reading("uid") /\ gens < MaxGen
    /\ gens' = gens + 1
    /\ fresh' = [fresh EXCEPT ![p] = gens + 1]
    /\ pc' = [pc EXCEPT ![p] = Writing("crt")]
    /\ UNCHANGED <<disk, seen, returned, first, regVars>>

\* Otherwise the whole set is generated anew.
Generate(p) ==
    LET all == [seen[p] EXCEPT !["uid"] = disk["uid"]] IN
    /\ pc[p] = Reading("uid") /\ gens < MaxGen
    /\ \E f \in Files : all[f] = 0
    /\ gens' = gens + 1
    /\ fresh' = [fresh EXCEPT ![p] = gens + 1]
    /\ pc' = [pc EXCEPT ![p] = Writing("crt")]
    /\ UNCHANGED <<disk, seen, returned, first, regVars>>

\* generate_identity or generate_unique_id failed, and so does the call.
GenerateFails(p) ==
    LET all == [seen[p] EXCEPT !["uid"] = disk["uid"]] IN
    /\ pc[p] = Reading("uid")
    /\ \E f \in Files : all[f] = 0
    /\ pc' = [pc EXCEPT ![p] = IdlePc]
    /\ UNCHANGED <<idVars, regVars>>

\* write_file returned true; after the third file the fresh identity is the
\* caller's.
Written(p, f, content) ==
    /\ disk' = [disk EXCEPT ![f] = content]
    /\ IF f = "uid"
       THEN /\ pc' = [pc EXCEPT ![p] = IdlePc]
            /\ Return(p, [g \in Files |-> fresh[p]])
       ELSE /\ pc' = [pc EXCEPT ![p] = Writing(After(f))]
            /\ UNCHANGED <<returned, first>>

\* One write_file of the three, by what becomes of the target.
WriteFile(p, f) ==
    /\ pc[p] = Writing(f)
    /\ \/ Written(p, f, fresh[p])
       \/ "flush" \in Faults /\ Written(p, f, 0)
    /\ UNCHANGED <<seen, fresh, gens, regVars>>

\* write_file returned false, and so does load_or_create_identity.
WriteFileFails(p, f) ==
    /\ pc[p] = Writing(f)
    /\ \/ UNCHANGED disk
       \/ "rename" \in Faults /\ disk' = [disk EXCEPT ![f] = 0]
    /\ pc' = [pc EXCEPT ![p] = IdlePc]
    /\ UNCHANGED <<seen, fresh, returned, gens, first, regVars>>

-----------------------------------------------------------------------------
(* The registry: read hosts.json, change one record, write it all back.    *)

\* Mutated form of Change: the records of the other hosts are not read back.
ChangeForgetsOthers(p, h, pin) ==
    /\ snapshot' = [snapshot EXCEPT ![p] = [NoPins EXCEPT ![h] = pin]]
    /\ about' = [about EXCEPT ![p] = h]
    /\ pc' = [pc EXCEPT ![p] = HostsPc]
    /\ UNCHANGED <<idVars, registry, acked>>

Change(p, h, pin) ==
    /\ snapshot' = [snapshot EXCEPT ![p] = [registry EXCEPT ![h] = pin]]
    /\ about' = [about EXCEPT ![p] = h]
    /\ pc' = [pc EXCEPT ![p] = HostsPc]
    /\ UNCHANGED <<idVars, registry, acked>>

\* upsert_host, after client.pair or from client.trustHost
Upsert(p, h) == pc[p] = IdlePc /\ \E c \in Certs : Change(p, h, c)

\* remove_host, of an address that is there
Remove(p, h) == pc[p] = IdlePc /\ registry[h] # NoCert /\ Change(p, h, NoCert)

\* write_hosts; a file that does not parse counts as an empty registry.
WriteHosts(p) ==
    /\ pc[p] = HostsPc
    /\ \/ registry' = snapshot[p]
       \/ "flush" \in Faults /\ registry' = NoPins
    /\ acked' = [acked EXCEPT ![about[p]] = snapshot[p][about[p]]]
    /\ pc' = [pc EXCEPT ![p] = IdlePc]
    /\ UNCHANGED <<idVars, snapshot, about>>

WriteHostsFails(p) ==
    /\ pc[p] = HostsPc
    /\ \/ UNCHANGED registry
       \/ "rename" \in Faults /\ registry' = NoPins
    /\ pc' = [pc EXCEPT ![p] = IdlePc]
    /\ UNCHANGED <<idVars, snapshot, about, acked>>

-----------------------------------------------------------------------------
\* The engine is killed, between two steps of anything, and started again.
Crash(p) ==
    /\ pc' = [pc EXCEPT ![p] = IdlePc]
    /\ seen' = [seen EXCEPT ![p] = Nothing] /\ fresh' = [fresh EXCEPT ![p] = 0]
    /\ snapshot' = [snapshot EXCEPT ![p] = NoPins]
    /\ returned' = [returned EXCEPT ![p] = Nothing]
    /\ UNCHANGED <<disk, gens, first, registry, about, acked>>

Next ==
    \E p \in Engines :
        \/ Load(p) \/ Reuse(p) \/ Generate(p) \/ GenerateFails(p)
        \/ \E f \in Files : ReadFile(p, f) \/ WriteFile(p, f) \/ WriteFileFails(p, f)
        \/ \E h \in Hosts : Upsert(p, h) \/ Remove(p, h)
        \/ WriteHosts(p) \/ WriteHostsFails(p)
        \/ Crash(p)

Spec == Init /\ [][Next]_vars

-----------------------------------------------------------------------------
(* Properties.                                                             *)

Pcs == {IdlePc, HostsPc} \cup {Reading(f) : f \in Files} \cup {Writing(f) : f \in Files}

\* Every variable holds a value of its kind.
TypeOK ==
    /\ disk \in [Files -> Nat] /\ registry \in [Hosts -> Pins]
    /\ pc \in [Engines -> Pcs]
    /\ seen \in [Engines -> [Files -> Nat]] /\ fresh \in [Engines -> Nat]
    /\ snapshot \in [Engines -> [Hosts -> Pins]] /\ about \in [Engines -> Hosts]
    /\ returned \in [Engines -> [Files -> Nat]]
    /\ gens \in Nat /\ first \in Nat
    /\ acked \in [Hosts -> Pins]

\* "so we never present a half-written identity": certificate, key and unique
\* id an engine presents come from one generate_identity, wherever earlier
\* engines were killed.
IdentityWhole ==
    \A p \in Engines : \A f, g \in Files : returned[p][f] = returned[p][g]

\* "must be STABLE across runs": every engine that gets an identity gets the one
\* that was handed out first, the one the paired hosts remember.
IdentityStable ==
    \A p \in Engines : returned[p] # Nothing => returned[p]["crt"] = first

\* A pin that a call reported as stored stays until a call about the same host
\* replaces or removes it: changing one record never costs another one.
PinsPersist == registry = acked

-----------------------------------------------------------------------------
(* The inductive invariant behind the properties, for one engine at a time *)
(* and a file system that keeps what it was given.                         *)

Undisturbed == Faults = {} /\ \A p, q \in Engines : p = q

\* uniqueid is written last: once it exists the three files are one identity,
\* the first one, and nobody writes them again.
DiskInv ==
    /\ disk["uid"] = first
    /\ first # 0 => \A f \in Files : disk[f] = first

\* What an engine has read is what is there; one that writes found no uniqueid
\* and has written the files before this one.
LoadInv ==
    \A p \in Engines :
        /\ pc[p] \in {Reading("key"), Reading("uid")} => seen[p]["crt"] = disk["crt"]
        /\ pc[p] = Reading("uid") => seen[p]["key"] = disk["key"]
        /\ pc[p] \in {Writing("crt"), Writing("key"), Writing("uid")} =>
              first = 0 /\ fresh[p] # 0
        /\ pc[p] \in {Writing("key"), Writing("uid")} => disk["crt"] = fresh[p]
        /\ pc[p] = Writing("uid") => disk["key"] = fresh[p]

\* What an engine presents is what is on disk.
ReturnInv == \A p \in Engines : returned[p] # Nothing => first # 0 /\ returned[p] = disk

\* hosts.json is what the calls reported; a change under way touches one record.
RegistryInv ==
    /\ registry = acked
    /\ \A p \in Engines : pc[p] = HostsPc =>
          \A h \in Hosts : h # about[p] => snapshot[p][h] = registry[h]

\* The conjunction is inductive; each property above follows from it.
StoreInv == TypeOK /\ DiskInv /\ LoadInv /\ ReturnInv /\ RegistryInv
=============================================================================
