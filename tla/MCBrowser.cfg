SPECIFICATION MCSpec
CONSTANTS
    Calls = {root, password}
    Gates = {1, 2}
    MaxTries = 3
    Keys = {taken, free, fresh}
    TakenKeys = {taken}
    Tokens = {t1, t2}
    NoToken = NoToken
    CreateCaptchaRequired = FALSE
    MAX_CREATE_ATTEMPTS = 3
    MaxSubmissions = 2
INVARIANTS
    KeysAccounted OpensOnlyWhenCleared OneTimeLinkSurvives OneEnvelopePerSubmission
PROPERTY PagesConclude
\* A page comes to rest.
CHECK_DEADLOCK FALSE
