SPECIFICATION MCSpec
CONSTANTS
    Renderers = {r1}
    Services = {e0}
    Tokened = {e0}
    LockRetries = 1
    ProbeSamples = 1
    MaxRestarts = 1
    MaxRemovals = 1
    None = None
    MaxCommands = 4
    Builds <- MCBuilds
    MaxCrashes = 2
    MaxEdits = 1
INVARIANTS
    OneSingleton
    OwnedIsMine
    OthersSpared
    DatabaseRecorded
    AllRemoved
    RefusalWarranted
CHECK_DEADLOCK FALSE
