SPECIFICATION FairSpec
CONSTANTS
    Streams = {s1}
    MaxChunks = 2
    StopInGenerator = FALSE
PROPERTIES
    CancelReachesGenerator
CHECK_DEADLOCK FALSE
