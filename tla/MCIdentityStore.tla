-------------------------- MODULE MCIdentityStore --------------------------
(* Model-checking instances of IdentityStore. *)
EXTENDS IdentityStore

NoFaults    == {}
=============================================================================
