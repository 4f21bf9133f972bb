SPECIFICATION Spec
CONSTANTS
    Lookups = {l1, l2, l3}
    HashPrefixes = {p1, p2}
    MaxPrefixes = 2
    MaxEntries = 1
    MaxConcurrentRequests = 1
    Durations = {0, 1}
    NoEntry = NoEntry
    MaxTime = 2
SYMMETRY Symmetry
CHECK_DEADLOCK FALSE
INVARIANTS
    VerdictsHonoured
    MapMatchesList
    SlotsMatchFetches
