SPECIFICATION MCSpec
CONSTANTS
    WordBits = 16
    HalfBits = 8
    Keys = {k1, k2}
    TakenKeys = {k1}
    Tokens = {t1, t2}
    NoToken = NoToken
INVARIANTS
    AcceptsCanonicalForms RoundTrip ReaderGetsWhatWasSent ReplayMeansSameRequest
    TokenOfOneSubmission
\* A request and a submission end.
CHECK_DEADLOCK FALSE
