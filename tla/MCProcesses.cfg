SPECIFICATION MCSpec
CONSTANTS
    Handlers = {h1, h2, h3}
    Worker = worker
    Rows = {a, b, c}
    CleanupBatch = 2
    TotalRange = 4
    Cleaners = {worker}
    Budget = 2
    KillAfter = 3
    MaxSignals = 3
INVARIANTS
    CleanReturn InitialSetGone CountIsExact ZeroMeansAsked
PROPERTIES
    RespectsLifetime ServeReturns LeftoverClosed CommandEnds SharedLifecycle
    ShutdownNotCutShort
\* The processes end.
CHECK_DEADLOCK FALSE
