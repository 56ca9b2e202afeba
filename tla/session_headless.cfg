SPECIFICATION FairSpec
CONSTANT Sinks <- HeadlessBuild
INVARIANTS
    OneConnection
    SinkClearedAlone
