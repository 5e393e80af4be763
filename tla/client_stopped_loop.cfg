SPECIFICATION Spec
CONSTANTS
    Clients = {c}
    NoClient = none
    MaxEvents = 2
INVARIANT NeverOnStoppedLoop
CHECK_DEADLOCK FALSE
