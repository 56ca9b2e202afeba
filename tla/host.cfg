SPECIFICATION FairSpec
CONSTANTS
    Pids = {1, 2}
    Clients = {"c1", "c2"}
    MaxPolls = 2
INVARIANTS
    HostInv
    ChildIsKnown
    StopIsFinal
    RestartIsReported
PROPERTIES
    SparesOthers
    StopEnds
