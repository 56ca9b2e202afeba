SPECIFICATION Spec
CONSTANT Sinks <- FullBuild
INVARIANTS
    StartReturns
