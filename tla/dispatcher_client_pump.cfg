SPECIFICATION Spec
CONSTANTS
    r1 = r1
    r2 = r2
    r3 = r3
    Requests <- TwoRequests
    MaxQueue = 1
    PipeCap = 1
    MaxEvents = 1
INVARIANTS
    ClientEventsHavePump
CHECK_DEADLOCK FALSE
