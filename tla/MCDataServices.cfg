SPECIFICATION MCSpec
CONSTANTS
    MaxRequests = 2
    Kinds = {"cities", "fuzzy", "resolve"}
    Provinces = {p1, p2}
    Cities = {c1}
    Wanted = c1
    Hint = p1
    Permits = 1
    MaxChanges = 1
    MaxWeather = 2
    Offsets = {0, 1}
    DayLength = 2
    Ttl = 2
    MaxNow = 4
    MaxMigrations = 1
INVARIANTS ScopesReadable LatestKept RefreshReported
PROPERTY RequestsEnd
CHECK_DEADLOCK FALSE
