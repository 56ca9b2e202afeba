--------------------------- MODULE MCSunshineHost ---------------------------
(* Small instances of SunshineHost: two pids, so that one can be recycled. *)
EXTENDS SunshineHost
=============================================================================
