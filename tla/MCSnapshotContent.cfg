SPECIFICATION MCSpec
CONSTANTS
    small = small
    mid = mid
    mid2 = mid2
    huge = huge
    Nothing = Nothing
    Ids = {i1, i2, i3}
    Transfers = {i1, i2}
    Bodies = {small, mid, mid2, huge}
    Size <- MCSize
    MaxRegs = 2
    MaxBytes = 3
    ClientMax = 3
    Reports <- MCReports
    FirstDay = 8
    LastDay = 10
    YearLength = 9
    AlertTexts = {"wind", "heat"}
    Fetches = {f1, f2}
    PageSize = 1
    ParentStates <- MCParents
    MaxFetches = 3
    Values <- MCValues
    Depth <- MCDepth
    MaxDepth = 5
    WeatherBodies <- MCWeatherBodies
    CatalogBodies <- MCCatalogBodies
    MaxAttempts = 2
    DownloadMax = 3
    ChunkSizes = {1, 2}
INVARIANTS
    CacheConsistent
    TransferConsistent
    
    HistoryPaged
    SnapshotFaithful
CHECK_DEADLOCK FALSE
