SPECIFICATION Spec
CONSTANT Sinks <- FullBuild
INVARIANTS
    EmitsReachAServer
