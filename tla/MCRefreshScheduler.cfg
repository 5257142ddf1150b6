SPECIFICATION RefreshSpec
CONSTANTS
    a = a
    b = b
    p = p
    Absent = Absent
    Never = Never
    Stations = {a, b, p}
    Parent <- MCParent
    Configs <- MCConfigs
    MaxConcurrent = 2
    Stagger = 1
    FallbackWake = 2
    AgeCap = 2
    MaxConfigs = 2
    MaxDates = 1
INVARIANTS
    LoopConsistent
