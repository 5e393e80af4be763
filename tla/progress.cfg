SPECIFICATION Spec
CONSTANTS
    p1 = p1
    p2 = p2
INVARIANTS
    TypeOK
    ClientSound
    StopIsClean
    LoopSound
    LogFaithful
    PipelineSound
PROPERTIES
    ClientHeardInOrder
    ClosesEnd
    StopsEnd
    WorkGetsDone
CHECK_DEADLOCK FALSE
