-------------------------- MODULE EnvelopeEncoding --------------------------
(***************************************************************************)
(* The bytes of an envelope on their way from its creator to its reader:   *)
(* createEnvelope decodes a request, checks it, and stores two encodings   *)
(* of it (the envelope's and its metadata's) with the hash of a third;     *)
(* getEnvelopeMetadata, getEnvelope and accessEnvelope decode what is      *)
(* stored and encode an answer.  EnvelopeApi has the same handlers with    *)
(* their concurrency and with opaque envelopes; here there is one storage  *)
(* key, one request at a time, and every byte.                             *)
(*                                                                         *)
(* The creator starts from a request of Templates and changes fields of    *)
(* it, so that it sends wrong requests, the same request again and other   *)
(* requests for the same key.  A hash stands for the bytes hashed.         *)
(***************************************************************************)
EXTENDS ProtobufCodec

CONSTANTS KeyBytes,                 \* 16: a storage key
          NonceBytes,               \* 24
          SaltBytes,                \* 16
          CaptchaKeyBytes,          \* 32
          AllowedTTLs,
          MaxEnvelopeBytes,         \* limit on a URL's envelope
          MaxPasteEnvelopeBytes,    \* limit on a Markdown envelope, 0 without pastes
          Templates,                \* requests a creator starts from
          FieldValues,              \* the values it may put into each field
          MaxEdits                  \* bound: changes to the request

CaptchaFlag       == 1
PasswordFlag      == 2
BurnAfterReadFlag == 4

Set(flags, flag) == (flags \div flag) % 2 = 1

VARIABLES request,   \* what the creator sends next
          edits,
          record,    \* <<>>, or <<r>> with what is stored under the key
          sent,      \* history: <<>>, or <<q>> with the request stored
          answer     \* the last response to this request: a code, and its body

vars == <<request, edits, record, sent, answer>>

Init ==
    /\ request \in Templates
    /\ edits = 0
    /\ record = <<>> /\ sent = <<>>
    /\ answer = [code |-> "none", body |-> <<>>]

Respond(code, body) == answer' = [code |-> code, body |-> body]

\* The creator prepares another request: it changes a field of the request, of
\* the envelope or of the metadata.
Change(field, value) ==
    LET envelope == request.envelope[1]
    IN  CASE field \in DOMAIN request  -> [request EXCEPT ![field] = value]
          [] field \in DOMAIN envelope -> [request EXCEPT !.envelope[1][field] = value]
          [] OTHER -> [request EXCEPT !.envelope[1].metadata[1][field] = value]

Edit ==
    /\ edits < MaxEdits
    /\ \E field \in DOMAIN FieldValues : \E value \in FieldValues[field] :
         request' = Change(field, value)
    /\ edits' = edits + 1
    /\ Respond("none", <<>>)
    /\ UNCHANGED <<record, sent>>

-----------------------------------------------------------------------------

validateMetadata(metadata) ==
    /\ metadata.protocolVersion = 2
    /\ metadata.featureFlags < 8
    /\ Len(metadata.payloadNonce) = NonceBytes
    /\ metadata.ttlSeconds \in AllowedTTLs
    /\ Set(metadata.featureFlags, PasswordFlag) <=> metadata.password # <<>>
    /\ metadata.password # <<>> =>
         /\ Len(metadata.password[1].salt) = SaltBytes
         /\ Len(metadata.password[1].nonce) = NonceBytes
         /\ metadata.password[1].profile = 1
    /\ Set(metadata.featureFlags, CaptchaFlag) <=> metadata.captcha # <<>>
    /\ metadata.captcha # <<>> => Len(metadata.captcha[1].nonce) = NonceBytes
    /\ metadata.payloadKind \in {0, 1}

\* The first refusal createEnvelope meets for the decoded request q whose
\* envelope encodes to the given bytes; "" when it meets none.
Refusal(q, bytes) ==
    LET metadata == q.envelope[1].metadata[1]
        captcha  == Set(metadata.featureFlags, CaptchaFlag)
    IN  CASE Len(q.storageKey) # KeyBytes \/ q.envelope = <<>> -> "invalid_request"
          [] q.envelope[1].metadata = <<>> -> "invalid_request"
          [] ~validateMetadata(metadata) -> "invalid_request"
          [] captcha /\ Len(q.captchaKey) # CaptchaKeyBytes -> "feature_unavailable"
          [] ~captcha /\ q.captchaKey # <<>> -> "invalid_request"
          [] ~bytes.ok \/ q.envelope[1].ciphertext = <<>> -> "invalid_request"
          [] metadata.payloadKind = 1 /\ MaxPasteEnvelopeBytes = 0 -> "feature_unavailable"
          [] Len(bytes.value) > (IF metadata.payloadKind = 1 THEN MaxPasteEnvelopeBytes
                                 ELSE MaxEnvelopeBytes) -> "envelope_too_large"
          [] OTHER -> ""

\* Mutated form: the key released after a CAPTCHA is not part of the hash.
requestHashWithoutKey(q, envelopeBytes) == q.storageKey \o envelopeBytes

\* What the request's hash is taken of.  Parts are joined without lengths.
requestHash(q, envelopeBytes) ==
    q.storageKey \o envelopeBytes \o
        (IF Set(q.envelope[1].metadata[1].featureFlags, CaptchaFlag) THEN q.captchaKey
         ELSE <<>>)

expirationUnix(ttl) == IF ttl = 0 THEN 0 ELSE 300

CreateResponse(r, replayed) ==
    MarshalVTStrict("CreateEnvelopeResponse",
        [expiresAtUnix |-> r.expiresAt, replayed |-> replayed, unknownFields |-> <<>>]).value

\* Mutated forms: the metadata is cut from the envelope's bytes with its tag
\* and length, and the record is written without the CAPTCHA key.
StoredSliced(q, bytes) ==
    LET metadata == q.envelope[1].metadata[1]
    IN  [metadata     |-> SubSeq(bytes, 1, SizeVT("EnvelopeMetadata", metadata)),
         envelope     |-> bytes,
         requestHash  |-> requestHash(q, bytes),
         featureFlags |-> metadata.featureFlags,
         expiresAt    |-> expirationUnix(metadata.ttlSeconds),
         captchaKey   |-> q.captchaKey]

StoredWithoutKey(q, bytes) == [StoredSliced(q, bytes) EXCEPT
    !.metadata = MarshalVTStrict("EnvelopeMetadata", q.envelope[1].metadata[1]).value,
    !.captchaKey = <<>>]

\* What createEnvelope hands to the repository.
Stored(q, bytes) ==
    LET metadata == q.envelope[1].metadata[1]
    IN  [metadata     |-> MarshalVTStrict("EnvelopeMetadata", metadata).value,
         envelope     |-> bytes,
         requestHash  |-> requestHash(q, bytes),
         featureFlags |-> metadata.featureFlags,
         expiresAt    |-> expirationUnix(metadata.ttlSeconds),
         captchaKey   |-> q.captchaKey]

\* A decoded request q whose envelope encodes to the given bytes: validate, look
\* the key up, store.  No CAPTCHA is required to create, so a token is refused, but
\* only after the lookup: a replay is answered whatever the token.
CreateFrom(q, bytes) ==
    \/ /\ Refusal(q, bytes) # ""
       /\ Respond(Refusal(q, bytes), <<>>)
       /\ UNCHANGED <<record, sent>>
    \/ /\ Refusal(q, bytes) = "" /\ record # <<>>
       /\ IF record[1].requestHash # requestHash(q, bytes.value)
          THEN Respond("conflict", <<>>)
          ELSE Respond("replayed", CreateResponse(record[1], TRUE))
       /\ UNCHANGED <<record, sent>>
    \/ /\ Refusal(q, bytes) = "" /\ record = <<>>
       /\ IF q.captchaToken # <<>>
          THEN Respond("invalid_request", <<>>) /\ UNCHANGED <<record, sent>>
          ELSE /\ record' = <<Stored(q, bytes.value)>>
               /\ sent' = <<request>>
               /\ Respond("created", CreateResponse(record'[1], FALSE))

Receive(decoded) ==
    IF decoded.ok
    THEN CreateFrom(decoded.m, MarshalVTStrict("Envelope", decoded.m.envelope[1]))
    ELSE Respond("invalid_request", <<>>) /\ UNCHANGED <<record, sent>>

\* POST of the request.
CreateEnvelope ==
    Receive(decodeCanonical(MarshalVTStrict("CreateEnvelopeRequest", request).value,
                            "CreateEnvelopeRequest"))

Create == CreateEnvelope /\ UNCHANGED <<request, edits>>

-----------------------------------------------------------------------------

GetEnvelopeMetadata ==
    /\ record # <<>>
    /\ LET metadata == decodeCanonical(record[1].metadata, "EnvelopeMetadata")
       IN  IF ~metadata.ok THEN Respond("internal", <<>>)
           ELSE Respond("metadata",
                    MarshalVTStrict("GetEnvelopeMetadataResponse",
                        [metadata |-> <<metadata.m>>, expiresAtUnix |-> record[1].expiresAt,
                         unknownFields |-> <<>>]).value)
    /\ UNCHANGED <<request, edits, record, sent>>

\* The stored bytes are checked, and sent as they are.
GetEnvelope ==
    /\ record # <<>>
    /\ IF Set(record[1].featureFlags, CaptchaFlag) \/ Set(record[1].featureFlags, BurnAfterReadFlag)
       THEN Respond("access_required", <<>>)
       ELSE IF ~decodeCanonical(record[1].envelope, "Envelope").ok
       THEN Respond("internal", <<>>)
       ELSE Respond("envelope", record[1].envelope)
    /\ UNCHANGED <<request, edits, record, sent>>

\* An access that the access service grants.  A record that burns after one
\* read is gone before its envelope is decoded.
AccessEnvelope ==
    /\ record # <<>>
    /\ LET r        == record[1]
           envelope == decodeCanonical(r.envelope, "Envelope")
       IN  /\ IF ~envelope.ok THEN Respond("internal", <<>>)
              ELSE Respond("access",
                       MarshalVTStrict("AccessEnvelopeResponse",
                           [envelope |-> <<envelope.m>>, captchaKey |-> r.captchaKey,
                            expiresAtUnix |-> r.expiresAt, unknownFields |-> <<>>]).value)
           /\ record' = IF Set(r.featureFlags, BurnAfterReadFlag) THEN <<>> ELSE record
    /\ UNCHANGED <<request, edits, sent>>

Next == Edit \/ Create \/ GetEnvelopeMetadata \/ GetEnvelope \/ AccessEnvelope

Spec == Init /\ [][Next]_vars

-----------------------------------------------------------------------------
(* Properties *)

\* A reader gets the message the creator sent: what was acknowledged is never an
\* internal error when it is read (accessEnvelope has already deleted a burning
\* record when it decodes it), the metadata it is shown before the envelope is
\* the metadata inside the envelope, and with an access comes the CAPTCHA key of
\* that same request.
ReaderGetsWhatWasSent ==
    LET Read(kind) == UnmarshalVT(kind, answer.body).m
        expires    == expirationUnix(sent[1].envelope[1].metadata[1].ttlSeconds)
    IN  CASE answer.code = "metadata" ->
               /\ Read("GetEnvelopeMetadataResponse").metadata = sent[1].envelope[1].metadata
               /\ Read("GetEnvelopeMetadataResponse").expiresAtUnix = expires
          [] answer.code = "envelope" ->
               <<Read("Envelope")>> = sent[1].envelope
          [] answer.code = "access" ->
               /\ Read("AccessEnvelopeResponse").envelope = sent[1].envelope
               /\ Read("AccessEnvelopeResponse").captchaKey = sent[1].captchaKey
               /\ Read("AccessEnvelopeResponse").expiresAtUnix = expires
          [] OTHER -> answer.code # "internal"

\* A replay is acknowledged for the stored request only, and a conflict is
\* reported for another one only: the parts the hash joins without lengths can
\* be told apart, because the flags that say whether a key follows come first
\* in a canonical envelope.
ReplayMeansSameRequest ==
    LET same == /\ request.envelope = sent[1].envelope
                /\ request.captchaKey = sent[1].captchaKey
    IN  /\ answer.code = "replayed" => same
        /\ answer.code = "conflict" => ~same
=============================================================================
