SPECIFICATION Spec
CONSTANTS
    Calls = {c1, c2}
    Closers = {k1}
    OutboxCapacity = 1
    None = None
INVARIANTS
    OwnResponse
    WaiterReachable
    ClosedMeansStopped
PROPERTIES
    SessionEnds
CHECK_DEADLOCK FALSE
