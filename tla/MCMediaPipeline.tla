-------------------------- MODULE MCMediaPipeline --------------------------
(* A small instance of MediaPipeline: two slots and three pads, frames     *)
(* that can be shown and frames that cannot.                               *)
EXTENDS MediaPipeline

Kind(f, s) == [fmt |-> f, size |-> s]
MCKinds    == {Kind("NV12", 1), Kind("other", 1)}
=============================================================================
