------------------------------ MODULE MCProtocol ------------------------------
\* The API's protocol for TLC: how a request is read, how messages are written, what
\* becomes of a create request's bytes, and how the browser sends one with a CAPTCHA
\* token over a network that loses messages. The four share no variable: in a
\* behaviour one of them runs, the others rest in an initial state.
EXTENDS ProtobufWire, TLC

CONSTANTS Keys, TakenKeys, Tokens, NoToken

VARIABLES
    kind, body, pieces, status,
    messageKind, message,
    request, edits, record, sent, answer,
    state, submission, attempt, resubmitted, requestStarted, token, artifacts, requests,
    stored, spent, shown,
    part        \* the part that runs

readVars == <<kind, body, pieces, status>>
messageVars == <<messageKind, message>>
encodingVars == <<request, edits, record, sent, answer>>
clientVars == <<state, submission, attempt, resubmitted, requestStarted, token, artifacts,
                requests, stored, spent, shown>>

------------------------------------------------------------------------------
\* readRequest. A create request: tags, lengths and varints at the limits of a group
\* and of the word, with a nested envelope and its metadata. The two requests with a
\* single field: any tag, a group, an unknown field, a field number that is cut to 1,
\* and lengths that end before, at and after the body's end.
SmallPieces == {<<10>>, <<0>>, <<1>>, <<128>>, <<3>>, <<11>>, <<12>>, <<16>>, <<138, 16>>}

Pieces == [
    CreateEnvelopeRequest |->
        {<<10, 1>>, <<18>>, <<10>>, <<0>>, <<2>>, <<4>>, <<56, 1>>, <<255, 255, 3>>,
         <<18, 2>>, <<128, 0>>, <<40>>, <<8>>, <<1>>},
    AccessEnvelopeRequest     |-> SmallPieces,
    SafeBrowsingLookupRequest |-> SmallPieces]

Reading == INSTANCE RequestDecoding WITH
    RequestKinds <- DOMAIN Pieces, MaxPieces <- 5, maxBytes <- 9

------------------------------------------------------------------------------
\* The 14 messages. Numbers of one group and of two, a negative enum and a negative
\* int64, and lengths of one group and of two.
Long == [k \in 1..130 |-> k % 4]

Values == [
    bytes  |-> {<<9>>, Long},
    uint32 |-> {1, 200},
    int64  |-> {300, -1},
    enum   |-> {1, -1},
    bool   |-> {TRUE},
    packed |-> {<<0, 200>>}]
    @@ ("many bytes" :> {<<<<>>, <<9>>>>, <<Long>>})

Kinds == {"PasswordLayer", "CaptchaLayer", "EnvelopeMetadata", "Envelope",
          "CreateEnvelopeRequest", "CreateEnvelopeResponse", "GetEnvelopeMetadataResponse",
          "AccessEnvelopeRequest", "AccessEnvelopeResponse", "RuntimeConfig",
          "SafeBrowsingLookupRequest", "SafeBrowsingFullHash", "SafeBrowsingLookupResponse",
          "ErrorResponse"}

Messages == INSTANCE MessageRoundTrip WITH kind <- messageKind

------------------------------------------------------------------------------
\* Create requests with keys, nonces and salts of one byte: a plain link, a link that
\* burns behind a CAPTCHA, and a protected paste; ciphertexts that end in what could
\* be a CAPTCHA key, or look like a field.
Password == [salt |-> <<7>>, nonce |-> <<8>>, profile |-> 1, unknownFields |-> <<>>]
Captcha  == [nonce |-> <<9>>, unknownFields |-> <<>>]

Request(flags, ttl, password, captcha, payload, key) ==
    [storageKey |-> <<5>>,
     envelope |-> <<[metadata |-> <<[protocolVersion |-> 2, featureFlags |-> flags,
                                     ttlSeconds |-> ttl, payloadNonce |-> <<6>>,
                                     password |-> password, captcha |-> captcha,
                                     payloadKind |-> payload, unknownFields |-> <<>>]>>,
                     ciphertext |-> <<1>>, unknownFields |-> <<>>]>>,
     captchaKey |-> key, captchaToken |-> <<>>, unknownFields |-> <<>>]

Templates == {Request(0, 0, <<>>, <<>>, 0, <<>>),
              Request(5, 200, <<>>, <<Captcha>>, 0, <<1>>),
              Request(3, 200, <<Password>>, <<Captcha>>, 1, <<2>>)}

FieldValues == [
    captchaKey      |-> {<<>>, <<2>>, <<1, 2>>},
    captchaToken    |-> {<<1>>},
    ciphertext      |-> {<<>>, <<1, 2>>, <<18, 1, 1>>, [k \in 1..16 |-> 1]},
    protocolVersion |-> {1},
    featureFlags    |-> {0, 1, 8},
    ttlSeconds      |-> {0, 3},
    password        |-> {<<>>, <<[Password EXCEPT !.profile = 2]>>},
    captcha         |-> {<<>>, <<Captcha>>},
    payloadKind     |-> {1, -1}]

Encoding == INSTANCE EnvelopeEncoding WITH
    KeyBytes <- 1, NonceBytes <- 1, SaltBytes <- 1, CaptchaKeyBytes <- 1,
    AllowedTTLs <- {0, 200}, MaxEnvelopeBytes <- 27, MaxPasteEnvelopeBytes <- 35,
    MaxEdits <- 3

------------------------------------------------------------------------------
\* The browser with create CAPTCHAs.
Client == INSTANCE CreateClient WITH
    CreateCaptchaRequired <- TRUE, MAX_CREATE_ATTEMPTS <- 2, MaxSubmissions <- 2

------------------------------------------------------------------------------
\* The part that runs starts in any of its initial states; the others rest in one.
MCInit ==
    /\ part \in {"read", "write", "store", "create"}
    /\ Reading!Init /\ (part = "read" \/ kind = "AccessEnvelopeRequest")
    /\ Messages!Init /\ (part = "write" \/ messageKind = "AccessEnvelopeRequest")
    /\ Encoding!Init /\ (part = "store" \/ request = Request(0, 0, <<>>, <<>>, 0, <<>>))
    /\ Client!Init

MCNext ==
    /\ \/ /\ part = "read" /\ Reading!Next
          /\ UNCHANGED <<messageVars, encodingVars, clientVars>>
       \/ /\ part = "write" /\ Messages!Next
          /\ UNCHANGED <<readVars, encodingVars, clientVars>>
       \/ /\ part = "store" /\ Encoding!Next
          /\ UNCHANGED <<readVars, messageVars, clientVars>>
       \/ /\ part = "create" /\ Client!Next
          /\ UNCHANGED <<readVars, messageVars, encodingVars>>
    /\ UNCHANGED part

MCSpec == MCInit /\ [][MCNext]_<<readVars, messageVars, encodingVars, clientVars, part>>

------------------------------------------------------------------------------
\* The properties of the parts.

\* readRequest accepts exactly the canonical encodings of the message that the
\* handler expects.
AcceptsCanonicalForms == part = "read" => Reading!AcceptsCanonicalForms

\* SizeVT, MarshalVTStrict and UnmarshalVT of the 14 messages agree.
RoundTrip == part = "write" => Messages!RoundTrip

\* getEnvelopeMetadata, getEnvelope and accessEnvelope answer with what the creator
\* sent, never with an internal error.
ReaderGetsWhatWasSent == part = "store" => Encoding!ReaderGetsWhatWasSent

\* createEnvelope acknowledges a replay of the stored request only, and reports a
\* conflict for another one only.
ReplayMeansSameRequest == part = "store" => Encoding!ReplayMeansSameRequest

\* The page sends a CAPTCHA token in one submission only.
TokenOfOneSubmission == Client!TokenOfOneSubmission
==============================================================================
