SPECIFICATION HSpec
CONSTANTS
    Calls = {c1, c2, c3}
    Keys = {k1}
    None = None
INVARIANT OnlyOverlappingShare
