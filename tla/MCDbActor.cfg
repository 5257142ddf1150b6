SPECIFICATION ActorFairSpec
CONSTANTS
    Commands = {c1, c2, c3}
    Bundles = {c1}
    Shutdowns = {s1, s2}
    QueueCap = 1
    MaxHandles = 2
    Unset = Unset
INVARIANTS
    NoCommandForgotten
    ShutdownMeansReleased
PROPERTIES
    ShutdownReturns
