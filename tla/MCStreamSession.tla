-------------------------- MODULE MCStreamSession --------------------------
(* Model-checking instances of StreamSession: one build per configuration. *)
EXTENDS StreamSession

FullBuild     == {"video", "audio"}
VideoBuild    == {"video"}
HeadlessBuild == {}
=============================================================================
