SPECIFICATION FairSpec
CONSTANTS
    MaxFrames = 2
    Kinds <- MCKinds
    Slots = 2
    MaxPads = 3
INVARIANTS
    OneOwner
    NewestWaits
    NoGhostPads
    UsersGoFirst
    NothingLeftBehind
PROPERTIES
    RunEnds
