SPECIFICATION Spec
CONSTANTS
    Rows = {a, b, c}
    Cleaners = {worker}
    Command = command
    Backend = "postgres"
    CleanupBatch = 2
    TotalRange = 4
INVARIANT InitialSetGone
