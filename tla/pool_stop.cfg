SPECIFICATION FairSpec
CONSTANTS
    Unary = {u}
    Streaming = {}
    Workers = 1
    MaxSends = 1
PROPERTIES
    StopCompletes
CHECK_DEADLOCK FALSE
