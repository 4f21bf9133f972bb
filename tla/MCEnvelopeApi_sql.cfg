SPECIFICATION Spec
CONSTANTS
    Keys = {k1}
    Bodies <- CreateBodies
    Reqs = {r1, r2, r3}
    NoRecord = NoRecord
    Backend = "sql"
    Tokens = {t1, t2}
    Inputs = {"ok"}
    AllowedTTLs = {0, 1}
    MaxEnvelopeBytes = 1
    MaxPasteEnvelopeBytes = 0
    CaptchaProvider = TRUE
    CreateCaptchaRequired = TRUE
    MaxConcurrentRequests = 1
    CleanupBatch = 1
    MaxTime = 2
SYMMETRY Symmetry
INVARIANTS
    AckedDurable
    OneTokenOneEnvelope
    PermitsMatchCalls
    NeverServedExpired
