SPECIFICATION FairSpec
CONSTANTS
    Emitters = {"worker", "callback"}
    MaxIn = 2
    MaxEvents = 2
    Capacity = 2
    SerialIo = FALSE
INVARIANTS
    FramesIntact
    AnsweredOnceInOrder
    EventsInOrder
PROPERTIES
    WritesAreWholeFrames
    RequestsAnswered
    EventsDelivered
