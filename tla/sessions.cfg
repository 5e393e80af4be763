SPECIFICATION Spec
INVARIANTS
    TypeOK
    StreamServed
    PoolServed
PROPERTIES
    CancelledCallIsLast
    CancelEnds
    WorkEnds
CHECK_DEADLOCK FALSE
