SPECIFICATION Spec
CONSTANTS
    RConns = {}
    CppConns = {x}
    MaxConns = 1
    Rooms = {room}
    MaxMsgs = 1
    MaxTasks = 1
INVARIANTS
    HandleNeverDangles
CHECK_DEADLOCK FALSE
