SPECIFICATION Spec
CONSTANTS
    Unary = {}
    Streaming = {p}
    Workers = 1
    MaxSends = 1
INVARIANTS
    AutoCloseHasLoop
CHECK_DEADLOCK FALSE
