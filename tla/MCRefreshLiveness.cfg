SPECIFICATION RefreshFairSpec
CONSTANTS
    a = a
    b = b
    p = p
    Absent = Absent
    Never = Never
    Stations = {a, b, p}
    Parent <- MCParent
    Configs <- MCLiveConfigs
    MaxConcurrent = 2
    Stagger = 1
    FallbackWake = 1
    AgeCap = 1
    MaxConfigs = 1
    MaxDates = 1
PROPERTIES
    DueIsRefreshed
