SPECIFICATION FairSpec
CONSTANT Sinks <- FullBuild
INVARIANTS
    SessionInv
    CallbacksHitLiveRenderers
    StopLeavesNothing
    NoSilentDeath
PROPERTIES
    RunningIsALease
    StopReturns
    CloseReported
