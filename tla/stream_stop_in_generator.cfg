SPECIFICATION Spec
CONSTANTS
    Streams = {s1}
    MaxChunks = 2
    StopInGenerator = TRUE
INVARIANTS
    NoDeadLoopUse
CHECK_DEADLOCK FALSE
