SPECIFICATION MCSpec
CONSTANTS
    q1 = q1
    q2 = q2
    q3 = q3
    Queries = {q1, q2, q3}
    StationNames = {"a", "b"}
    EmptyQuery = q1
    InitialLists <- MCLists
    Found <- MCFound
    MaxTokens = 4
    MaxPanics = 1
    Calls = {c1, c2, c3}
    Stations = {"a", "b"}
    MaxSets = 1
    Clis = {k1, k2}
    Commands <- MCCommands
    Catalogs <- MCCatalogs
    StationLists <- MCStationLists
    MaxPage = 2
    MaxOffset = 8
    MaxReloads = 1
    None = None
SYMMETRY CallSymmetry
INVARIANTS LoadTracked SearchComplete CachedAreConfigured PagesCompose
PROPERTY ShownIsSelected
CHECK_DEADLOCK FALSE
