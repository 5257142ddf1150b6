SPECIFICATION Spec
CONSTANTS
    Requests = {r1, r2}
    Messages <- MCMessages
    SideTasks = {"refresh"}
    MaxConcurrent = 1
    BusCapacity = 2
    MaxLateEvents = 1
    OwnerToken = "owner"
    None = None
PROPERTIES ServerReturns
INVARIANTS ExitIsWarranted DbClosesAfterWork TerminalEventSent
