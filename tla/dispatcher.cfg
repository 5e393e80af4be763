SPECIFICATION FairSpec
CONSTANTS
    r1 = r1
    r2 = r2
    r3 = r3
    Requests <- ThreeRequests
    MaxQueue = 2
    PipeCap = 1
    MaxEvents = 1
INVARIANTS
    TypeOK
    NoLostWakeup
    PipeIsWatched
    RespondedOnce
    NeverSilentlyDropped
PROPERTIES
    ImplementsService
    EventuallyAnswered
CHECK_DEADLOCK FALSE
