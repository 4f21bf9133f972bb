SPECIFICATION FairSpec
CONSTANTS
    Keys = {k1, k2}
    Bodies <- LiveBodies
    Reqs = {r1, r2}
    NoRecord = NoRecord
    Backend = "memory"
    Tokens = {t1}
    Inputs = {"ok", "malformed_key"}
    AllowedTTLs = {0, 1}
    MaxEnvelopeBytes = 1
    MaxPasteEnvelopeBytes = 0
    CaptchaProvider = TRUE
    CreateCaptchaRequired = FALSE
    MaxConcurrentRequests = 1
    CleanupBatch = 1
    MaxTime = 2
PROPERTIES
    EveryRequestAnswered
    ExpiredSwept
    ImplementsLinkService
