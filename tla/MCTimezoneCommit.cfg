SPECIFICATION FairSpec
CONSTANTS
    Requests = {r1, r2, r3}
    Timezones = {z1, z2}
    Stations = {s1, s2}
    QueueCap = 2
    MaxFaults = 2
    None = None
INVARIANTS
    StartupNeverRefused
    ServingConsistent
PROPERTIES
    RefinesAtomicConfig
    SyncSettles
    LockReleased
