SPECIFICATION Spec
CONSTANTS
    Keys = {k1}
    Bodies <- ForeverBodies
    Reqs = {r1, r2, r3, r4}
    NoRecord = NoRecord
    Backend = "memory"
    Tokens = {t1}
    Inputs = {"ok"}
    AllowedTTLs = {0, 1}
    MaxEnvelopeBytes = 1
    MaxPasteEnvelopeBytes = 0
    CaptchaProvider = TRUE
    CreateCaptchaRequired = FALSE
    MaxConcurrentRequests = 1
    CleanupBatch = 1
    MaxTime = 1
SYMMETRY Symmetry
INVARIANTS
    BurnDeliveredOnce
    KeyAfterVerification
    ConflictMeansOther
