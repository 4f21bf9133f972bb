SPECIFICATION MCSpec
CONSTANTS
    Servers = {server1, server2, server3}
    OldServers = {server1}
    NoServer = NoServer
    MaxRetries = 2
    MaxFaults = 2
    MaxLexemes = 4
    Backends = {"postgres", "mariadb"}
    Keys = {k1, k2}
    Callers = {c1, c2, c3, c4}
    OneKey = k1
    Writers = {c1, c2}
    Cleaners = {c3}
    Late = 2
    Inputs <- MCInputs
    Expiries = {0, 2}
    Times = {1, 2}
    Batches = {0, 1, 2}
    MaxInt32 = 7
    NonceSize = 2
    NoRow = NoRow
    Nobody = Nobody
INVARIANTS
    LossIsReported NoLockLeftBehind ServedSchemaStays NoHomemadeFailure SplitsAtTerminators
PROPERTIES ImplementsContract Converges
\* The calls end, and so does a migration.
CHECK_DEADLOCK FALSE
