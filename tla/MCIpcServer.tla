---------------------------- MODULE MCIpcServer ----------------------------
(* Model-checking instances of IpcServer. *)
EXTENDS IpcServer
=============================================================================
