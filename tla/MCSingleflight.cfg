SPECIFICATION FairSpec
CONSTANTS
    Calls = {c1, c2, c3, c4}
    Keys = {k1, k2}
    None = None
INVARIANTS
    NoLeakedFlight
PROPERTIES
    CallsReturn
