----------------------------- MODULE EnvelopeApi -----------------------------
(***************************************************************************)
(* The envelope API of the server: createEnvelope, getEnvelope,            *)
(* getEnvelopeMetadata and accessEnvelope of internal/httpapi, the access  *)
(* service, the CAPTCHA verifier with its bounded concurrency, and the     *)
(* cleanup worker, all sharing one repository.                             *)
(*                                                                         *)
(* Each request of Reqs runs once, on its own goroutine; a retransmission  *)
(* is a second request with the same arguments. A request stops between    *)
(* two calls that leave the handler (a repository call, the provider's     *)
(* answer), which is where other requests, the worker and the clock        *)
(* interleave. pc[r] names the next such call.                             *)
(***************************************************************************)
EXTENDS EnvelopeStore

CONSTANTS
    Reqs,                   \* HTTP requests
    Bodies,                 \* contents of create requests
    Backend,                \* "memory" or "sql": PostgreSQL and MariaDB
    Tokens,                 \* CAPTCHA tokens of 1..MaxTokenBytes bytes
    Inputs,                 \* what readRequest and the key check make of a request
    AllowedTTLs,
    MaxEnvelopeBytes,
    MaxPasteEnvelopeBytes,  \* 0: pastes are disabled
    CaptchaProvider,        \* TRUE: a provider is configured
    CreateCaptchaRequired,
    MaxConcurrentRequests,  \* capacity of the verifier's semaphore
    CleanupBatch,
    MaxTime                 \* bound on the clock

\* The token sent by a client without one, and one longer than MaxTokenBytes.
NoToken == "none"
OversizedToken == "oversized"

\* readRequest's refusals, by their error code. An input is "ok", one of these,
\* or readable with a key that is not 16 canonically encoded bytes.
ReadErrors == {"unsupported_media_type", "content_too_large", "invalid_request"}

\* A record keeps what the callers tell apart: the request it was created from (body:
\* equal bodies are equal request hashes), its expiry and, as history, the request
\* that inserted it (by), which tells two records with the same key and content apart.
Body == [content: STRING, captcha: BOOLEAN, burn: BOOLEAN, ttl: Nat,
         captchaKey: BOOLEAN, paste: BOOLEAN, size: Nat]

Record == [body: Bodies, expiresAt: Nat, by: Reqs]

Tables == [Keys -> Record \cup {NoRecord}]

ASSUME ReqsAssumption == IsFiniteSet(Reqs)
ASSUME BodiesAssumption == Bodies \subseteq Body
ASSUME NoRecordAssumption == NoRecord \notin Record
ASSUME BackendAssumption == Backend \in {"memory", "sql"}
ASSUME TokensAssumption == Tokens \cap {NoToken, OversizedToken} = {}
ASSUME InputsAssumption == Inputs \subseteq ReadErrors \cup {"ok", "malformed_key"}
ASSUME ConfigAssumption ==
    /\ AllowedTTLs \subseteq Nat
    /\ MaxEnvelopeBytes \in Nat
    /\ MaxPasteEnvelopeBytes \in Nat
    /\ CaptchaProvider \in BOOLEAN
    /\ CreateCaptchaRequired \in BOOLEAN
    /\ MaxConcurrentRequests \in Nat \ {0}
    /\ CleanupBatch \in Nat \ {0}
    /\ MaxTime \in Nat \ {0}

VARIABLES
    clock,      \* handler.dependencies.Now(), from 1
    records,    \* the repository
    pc,         \* per request: the call it makes next
    call,       \* per request: operation, arguments, and now as the handler read it
    seen,       \* per access request: the record its Get returned
    resp,       \* per request: its response
    cancelled,  \* requests whose context is cancelled (client disconnected)
    permits,    \* semaphore slots taken
    workerNow,  \* the tick the cleanup worker is serving, 0 between ticks
    spent,      \* tokens the provider has accepted (external; a token is single-use)
    accepted,   \* history: requests whose token the provider accepted
    consumed,   \* history: records Consume deleted
    swept       \* history: records DeleteExpired deleted

vars == <<clock, records, pc, call, seen, resp, cancelled, permits, workerNow,
          spent, accepted, consumed, swept>>

Labels == {"idle", "lookup", "verify", "provider", "store", "replay", "read",
           "consume", "done"}
Codes == ReadErrors \cup
         {"none", "created", "replayed", "ok", "empty200", "not_found", "conflict",
          "internal", "feature_unavailable", "envelope_too_large",
          "captcha_required", "captcha_failed", "rate_limited",
          "dependency_unavailable", "access_required"}
AnyToken == Tokens \cup {NoToken, OversizedToken}
CreateCalls == [op: {"create"}, key: Keys, body: Bodies, token: AnyToken, now: 1 .. MaxTime]
ReadCalls == [op: {"get", "metadata", "access"}, key: Keys, token: AnyToken, now: 1 .. MaxTime]
NoCall == [op |-> "none"]
Responses == [code: Codes, rec: Record \cup {NoRecord}, unlocked: BOOLEAN]

TypeOK ==
    /\ clock \in 1 .. MaxTime
    /\ records \in Tables
    /\ pc \in [Reqs -> Labels]
    /\ call \in [Reqs -> CreateCalls \cup ReadCalls \cup {NoCall}]
    /\ seen \in [Reqs -> Record \cup {NoRecord}]
    /\ resp \in [Reqs -> Responses]
    /\ cancelled \subseteq Reqs
    /\ permits \in Nat
    /\ workerNow \in 0 .. MaxTime
    /\ spent \subseteq Tokens
    /\ accepted \subseteq Reqs
    /\ consumed \subseteq Record
    /\ swept \subseteq Record

NoResponse == [code |-> "none", rec |-> NoRecord, unlocked |-> FALSE]

Init ==
    /\ clock = 1
    /\ records = [k \in Keys |-> NoRecord]
    /\ pc = [r \in Reqs |-> "idle"]
    /\ call = [r \in Reqs |-> NoCall]
    /\ seen = [r \in Reqs |-> NoRecord]
    /\ resp = [r \in Reqs |-> NoResponse]
    /\ cancelled = {}
    /\ permits = 0
    /\ workerNow = 0
    /\ spent = {}
    /\ accepted = {}
    /\ consumed = {}
    /\ swept = {}
------------------------------------------------------------------------------
\* Shared steps.

Answer(r, code, rec, unlocked) ==
    /\ pc' = [pc EXCEPT ![r] = "done"]
    /\ resp' = [resp EXCEPT ![r] = [code |-> code, rec |-> rec, unlocked |-> unlocked]]

Refuse(r, code) == Answer(r, code, NoRecord, FALSE)

Goto(r, label) ==
    /\ pc' = [pc EXCEPT ![r] = label]
    /\ UNCHANGED resp

\* The memory repository fails a call exactly when its context is cancelled on
\* entry. A SQL call may fail at any time, cancelled or not.
CallFails(r) == Backend = "sql" \/ r \in cancelled
CallRuns(r) == Backend = "sql" \/ r \notin cancelled

\* Mutated form: a failed call is tried again until it succeeds.
StoreFailure_Retried(r) == Goto(r, pc[r])

\* writeStoreError and writeAccessError of an error that is not one of theirs.
StoreFailure(r) == Refuse(r, "internal")

\* Mutated form: the hash covers the wrapped CAPTCHA key, which has a fresh nonce.
SameRequest_HashesWrappedKey(existing, c) == existing.body = c.body /\ ~c.body.captcha

\* The comparison of the request hashes.
SameRequest(existing, c) == existing.body = c.body

\* expirationTime: a zero TTL is "forever".
ExpirationTime(now, ttl) == IF ttl = 0 THEN NoExpiry ELSE now + ttl

\* The early returns of createEnvelope, in order; "none" when it goes on. What
\* validateMetadata refuses apart from the TTL is an "invalid_request" input.
CreateRefusal(b, input) ==
    IF input \in ReadErrors THEN input
    ELSE IF input = "malformed_key" \/ b.ttl \notin AllowedTTLs THEN "invalid_request"
    ELSE IF b.captcha /\ ~(b.captchaKey /\ CaptchaProvider) THEN "feature_unavailable"
    ELSE IF ~b.captcha /\ b.captchaKey THEN "invalid_request"
    ELSE IF b.paste /\ MaxPasteEnvelopeBytes = 0 THEN "feature_unavailable"
    ELSE IF b.size > (IF b.paste THEN MaxPasteEnvelopeBytes ELSE MaxEnvelopeBytes)
    THEN "envelope_too_large"
    ELSE "none"

\* The handler's local work before its first repository call.
StartCreate(r, k, b, t, input) ==
    /\ pc[r] = "idle"
    /\ call' = [call EXCEPT ![r] =
                   [op |-> "create", key |-> k, body |-> b, token |-> t, now |-> clock]]
    /\ IF CreateRefusal(b, input) = "none"
       THEN Goto(r, "lookup")
       ELSE Refuse(r, CreateRefusal(b, input))
    /\ UNCHANGED <<clock, records, seen, cancelled, permits, workerNow, spent,
                   accepted, consumed, swept>>

StartRead(r, op, k, t, input) ==
    /\ pc[r] = "idle"
    /\ op /= "access" => t = NoToken /\ input \in {"ok", "malformed_key"}
    /\ call' = [call EXCEPT ![r] = [op |-> op, key |-> k, token |-> t, now |-> clock]]
    /\ CASE input = "ok"            -> Goto(r, "read")
         [] input = "malformed_key" -> Refuse(r, "not_found")
         [] OTHER                   -> Refuse(r, input)
    /\ UNCHANGED <<clock, records, seen, cancelled, permits, workerNow, spent,
                   accepted, consumed, swept>>

------------------------------------------------------------------------------
\* createEnvelope.

\* Mutated form: any token will do.
AfterLookup_TokenUnchecked(r) ==
    IF CreateCaptchaRequired /\ call[r].token = NoToken
    THEN Refuse(r, "captcha_required")
    ELSE Goto(r, "store")

\* The CAPTCHA a new envelope needs.
AfterLookup(r) ==
    IF CreateCaptchaRequired
    THEN IF ~CaptchaProvider THEN Refuse(r, "feature_unavailable")
         ELSE IF call[r].token = NoToken THEN Refuse(r, "captcha_required")
         ELSE Goto(r, "verify")
    ELSE IF call[r].token /= NoToken THEN Refuse(r, "invalid_request")
         ELSE Goto(r, "store")

\* The lookup that recognises a replay before any CAPTCHA work is done.
CreateLookup(r) ==
    LET c == call[r]
        existing == Visible(records, c.key, Epoch)
    IN  /\ pc[r] = "lookup"
        /\ \/ CallFails(r) /\ StoreFailure(r)
           \/ /\ CallRuns(r)
              /\ existing /= NoRecord
              /\ IF SameRequest(existing, c)
                 THEN Answer(r, "replayed", existing, FALSE)
                 ELSE Refuse(r, "conflict")
           \/ /\ CallRuns(r)
              /\ existing = NoRecord
              /\ AfterLookup(r)
        /\ UNCHANGED <<clock, records, call, seen, cancelled, permits, workerNow,
                       spent, accepted, consumed, swept>>

\* The key is in the map; the primary key is violated.
KeyTaken(c) == records[c.key] /= NoRecord

\* repository.Create. In memory one critical section decides; a SQL backend
\* inserts, and reads the row back when the key is taken. A SQL insert may also
\* be applied and its acknowledgement lost.
CreateStore(r) ==
    LET c == call[r]
        existing == records[c.key]
        new == [body |-> c.body, expiresAt |-> ExpirationTime(c.now, c.body.ttl), by |-> r]
    IN  /\ pc[r] = "store"
        /\ \/ /\ CallFails(r)
              /\ StoreFailure(r)
              /\ UNCHANGED records
           \/ /\ CallRuns(r)
              /\ ~KeyTaken(c)
              /\ records' = Insert(records, c.key, new)
              /\ \/ Answer(r, "created", new, FALSE)
                 \/ Backend = "sql" /\ StoreFailure(r)
           \/ /\ CallRuns(r)
              /\ KeyTaken(c)
              /\ IF Backend = "sql" THEN Goto(r, "replay")
                 ELSE IF SameRequest(existing, c) THEN Answer(r, "replayed", existing, FALSE)
                 ELSE Refuse(r, "conflict")
              /\ UNCHANGED records
        /\ UNCHANGED <<clock, call, seen, cancelled, permits, workerNow, spent,
                       accepted, consumed, swept>>

\* The SQL repositories' second statement, after a unique-key violation.
CreateReplay(r) ==
    LET c == call[r]
        existing == Visible(records, c.key, Epoch)
    IN  /\ pc[r] = "replay"
        /\ \/ CallFails(r) /\ StoreFailure(r)
           \/ IF existing /= NoRecord /\ SameRequest(existing, c)
              THEN Answer(r, "replayed", existing, FALSE)
              ELSE Refuse(r, "conflict")
        /\ UNCHANGED <<clock, records, call, seen, cancelled, permits, workerNow,
                       spent, accepted, consumed, swept>>

------------------------------------------------------------------------------
\* getEnvelope and getEnvelopeMetadata.

GetEnvelope(r) ==
    LET c == call[r]
        found == Visible(records, c.key, c.now)
    IN  /\ pc[r] = "read" /\ c.op = "get"
        /\ \/ CallFails(r) /\ StoreFailure(r)
           \/ /\ CallRuns(r)
              /\ IF found = NoRecord THEN Refuse(r, "not_found")
                 ELSE IF found.body.captcha \/ found.body.burn THEN Refuse(r, "access_required")
                 ELSE Answer(r, "ok", found, FALSE)
        /\ UNCHANGED <<clock, records, call, seen, cancelled, permits, workerNow,
                       spent, accepted, consumed, swept>>

GetEnvelopeMetadata(r) ==
    LET c == call[r]
        found == Visible(records, c.key, c.now)
    IN  /\ pc[r] = "read" /\ c.op = "metadata"
        /\ \/ CallFails(r) /\ StoreFailure(r)
           \/ /\ CallRuns(r)
              /\ IF found = NoRecord THEN Refuse(r, "not_found")
                 ELSE Answer(r, "ok", found, FALSE)
        /\ UNCHANGED <<clock, records, call, seen, cancelled, permits, workerNow,
                       spent, accepted, consumed, swept>>

------------------------------------------------------------------------------
\* accessEnvelope and the access service.

\* Access up to the verification: the record read here decides every later step.
AccessRead(r) ==
    LET c == call[r]
        found == Visible(records, c.key, c.now)
    IN  /\ pc[r] = "read" /\ c.op = "access"
        /\ \/ /\ CallFails(r)
              /\ StoreFailure(r)
              /\ UNCHANGED seen
           \/ /\ CallRuns(r)
              /\ seen' = [seen EXCEPT ![r] = found]
              /\ IF found = NoRecord THEN Refuse(r, "not_found")
                 ELSE IF found.body.captcha
                      THEN IF CaptchaProvider THEN Goto(r, "verify")
                           ELSE Refuse(r, "invalid_request")
                 ELSE IF found.body.burn /\ c.token = NoToken THEN Goto(r, "consume")
                 ELSE Refuse(r, "invalid_request")
        /\ UNCHANGED <<clock, records, call, cancelled, permits, workerNow, spent,
                       accepted, consumed, swept>>

\* Mutated form: the record already read is the one that is handed out.
Consumable_FromGet(r) == seen[r]

\* The row Consume deletes and returns.
Consumable(r) == Visible(records, call[r].key, call[r].now)

\* Mutated form: the flag of the consumed record decides.
UnlocksKey_ByConsumed(r, rec) == rec.body.captcha

\* Whether Access unwraps a key: the flag of the record it read first decides.
UnlocksKey(r, rec) == seen[r].body.captcha

\* repository.Consume, then Unwrap of the consumed record's key when the record
\* read first was CAPTCHA-protected. A SQL delete may be applied and its answer
\* lost.
AccessConsume(r) ==
    LET found == Consumable(r)
    IN  /\ pc[r] = "consume"
        /\ \/ /\ CallFails(r)
              /\ StoreFailure(r)
              /\ UNCHANGED <<records, consumed>>
           \/ /\ CallRuns(r)
              /\ found = NoRecord
              /\ Refuse(r, "not_found")
              /\ UNCHANGED <<records, consumed>>
           \/ /\ CallRuns(r)
              /\ found /= NoRecord
              /\ records' = Delete(records, {call[r].key})
              /\ consumed' = consumed \cup {found}
              /\ \/ IF UnlocksKey(r, found) /\ ~found.body.captcha
                    THEN Refuse(r, "internal")
                    ELSE Answer(r, "ok", found, UnlocksKey(r, found))
                 \/ Backend = "sql" /\ StoreFailure(r)
        /\ UNCHANGED <<clock, call, seen, cancelled, permits, workerNow, spent,
                       accepted, swept>>

------------------------------------------------------------------------------
\* remoteVerifier.Verify, called by createEnvelope and by Access.

\* The token check and the non-blocking acquisition of a semaphore slot.
Verify(r) ==
    /\ pc[r] = "verify"
    /\ IF call[r].token \notin Tokens
       THEN Refuse(r, "captcha_failed") /\ UNCHANGED permits
       ELSE IF permits < MaxConcurrentRequests
       THEN Goto(r, "provider") /\ permits' = permits + 1
       ELSE Refuse(r, "rate_limited") /\ UNCHANGED permits
    /\ UNCHANGED <<clock, records, call, seen, cancelled, workerNow, spent, accepted,
                   consumed, swept>>

\* Mutated form: the record is handed out as it was read, and stays.
AfterVerify_NotConsumed(r) ==
    IF call[r].op = "create" THEN Goto(r, "store") ELSE Answer(r, "ok", seen[r], TRUE)

\* What the caller does once the token is accepted.
AfterVerify(r) ==
    IF call[r].op = "create" THEN Goto(r, "store")
    ELSE IF seen[r].body.burn THEN Goto(r, "consume")
    ELSE Answer(r, "ok", seen[r], TRUE)

\* Mutated form: the slot is kept.
Released_Never == permits

\* The deferred release of the slot.
Released == permits - 1

\* Mutated form: writeCaptchaError has no case for an unavailable provider.
VerifyErrorCode_Unavailable(op, err) ==
    IF err /= "captcha_failed" /\ op = "create" THEN "empty200" ELSE err

\* writeCaptchaError, and what its callers do with an error it does not know: the
\* context's error. createEnvelope writes nothing then, which the HTTP server
\* turns into an empty 200.
VerifyErrorCode(op, err) ==
    IF err /= "context" THEN err
    ELSE IF op = "create" THEN "empty200"
    ELSE "internal"

\* The provider's answer, its absence, or the cancellation of the request. A
\* token may be spent although the answer is negative or lost.
ProviderAnswer(r) ==
    LET t == call[r].token
        errors == {"captcha_failed", "dependency_unavailable"} \cup
                  (IF r \in cancelled THEN {"context"} ELSE {})
    IN  /\ pc[r] = "provider"
        /\ permits' = Released
        /\ \/ /\ t \notin spent
              /\ spent' = spent \cup {t}
              /\ accepted' = accepted \cup {r}
              /\ AfterVerify(r)
           \/ /\ \E err \in errors : Refuse(r, VerifyErrorCode(call[r].op, err))
              /\ spent' \in {spent, spent \cup {t}}
              /\ UNCHANGED accepted
        /\ UNCHANGED <<clock, records, call, seen, cancelled, workerNow, consumed, swept>>

------------------------------------------------------------------------------
\* The rest of the server: the worker's ticker and one cleanup, the clients
\* that go away, and time.

WorkerTick ==
    /\ workerNow = 0
    /\ workerNow' = clock
    /\ UNCHANGED <<clock, records, pc, call, seen, resp, cancelled, permits, spent,
                   accepted, consumed, swept>>

\* RunOnce; a failed cleanup is logged and left to the next tick.
WorkerRun ==
    /\ workerNow /= 0
    /\ workerNow' = 0
    /\ \/ \E S \in ExpiredBatches(records, workerNow, CleanupBatch) :
            /\ records' = Delete(records, S)
            /\ swept' = swept \cup {records[k] : k \in S}
       \/ Backend = "sql" /\ UNCHANGED <<records, swept>>
    /\ UNCHANGED <<clock, pc, call, seen, resp, cancelled, permits, spent, accepted,
                   consumed>>

Cancel(r) ==
    /\ pc[r] \notin {"idle", "done"}
    /\ r \notin cancelled
    /\ cancelled' = cancelled \cup {r}
    /\ UNCHANGED <<clock, records, pc, call, seen, resp, permits, workerNow, spent,
                   accepted, consumed, swept>>

Tick ==
    /\ clock < MaxTime
    /\ clock' = clock + 1
    /\ UNCHANGED <<records, pc, call, seen, resp, cancelled, permits, workerNow,
                   spent, accepted, consumed, swept>>

Start(r) ==
    \/ \E k \in Keys, b \in Bodies, t \in AnyToken, i \in Inputs : StartCreate(r, k, b, t, i)
    \/ \E op \in {"get", "metadata", "access"}, k \in Keys, t \in AnyToken, i \in Inputs :
            StartRead(r, op, k, t, i)

\* Every step of a request after its start.
Run(r) ==
    \/ CreateLookup(r)
    \/ CreateStore(r)
    \/ CreateReplay(r)
    \/ GetEnvelope(r)
    \/ GetEnvelopeMetadata(r)
    \/ AccessRead(r)
    \/ AccessConsume(r)
    \/ Verify(r)
    \/ ProviderAnswer(r)

Next ==
    \/ \E r \in Reqs : Start(r) \/ Run(r) \/ Cancel(r)
    \/ WorkerTick
    \/ WorkerRun
    \/ Tick

\* Goroutines are scheduled, the provider call has a timeout, the ticker fires;
\* nobody has to send a request or go away, and time may stop.
Fairness ==
    /\ \A r \in Reqs : WF_vars(Run(r))
    /\ WF_vars(WorkerTick)
    /\ WF_vars(WorkerRun)

Spec == Init /\ [][Next]_vars
FairSpec == Spec /\ Fairness
------------------------------------------------------------------------------
\* Properties.

\* Requests whose response carries an envelope.
Delivered(r) == resp[r].code = "ok" /\ call[r].op \in {"get", "access"}

\* Creates the client was told have succeeded, the empty 200 that an unwritten
\* response turns into included.
Acknowledged(r) == resp[r].code \in {"created", "replayed", "empty200"} /\ r \notin cancelled

Live == {records[k] : k \in Keys} \ {NoRecord}
EverStored == Live \cup consumed \cup swept

\* A stored burn-after-read envelope reaches at most one client, whatever the
\* interleaving of Get, Verify and Consume in concurrent accesses (the atomic
\* lookup-and-delete of Consume, and getEnvelope's refusal of protected records).
BurnDeliveredOnce ==
    \A r, q \in Reqs :
        (r /= q /\ Delivered(r) /\ Delivered(q) /\ resp[r].rec.body.burn)
            => resp[r].rec /= resp[q].rec

\* Access hands out an unwrapped CAPTCHA key only to a request whose own token
\* the provider accepted, and only with an envelope that has such a key, although
\* the record may be replaced between Get and Consume.
KeyAfterVerification ==
    \A r \in Reqs : resp[r].unlocked => r \in accepted /\ resp[r].rec.body.captcha

\* A create that was acknowledged to a client that is still there has stored the
\* client's own envelope, and the envelope stays until an access consumes it or it
\* has expired. It covers the replay answers, the lost SQL acknowledgements, and
\* the response that createEnvelope leaves unwritten when Verify returns the
\* context's error.
AckedDurable ==
    \A r \in Reqs : Acknowledged(r) =>
        LET rec == resp[r].rec
        IN  /\ rec /= NoRecord
            /\ rec.body = call[r].body
            /\ \/ records[call[r].key] = rec
               \/ rec \in consumed
               \/ rec \in swept /\ HasExpired(clock, rec.expiresAt)

\* Nothing is served that had expired when the request read the clock; Consume
\* uses the time of the Get before it.
NeverServedExpired ==
    \A r \in Reqs :
        resp[r].code = "ok" => ~HasExpired(call[r].now, resp[r].rec.expiresAt)

\* With create CAPTCHAs required, each stored envelope was paid for by a token of
\* its own, also when creates for one key race or are replayed.
OneTokenOneEnvelope ==
    CreateCaptchaRequired =>
        \A e \in EverStored :
            /\ e.by \in accepted
            /\ \A f \in EverStored : e.by /= f.by => call[e.by].token /= call[f.by].token

\* The verifier's semaphore holds one slot per provider call in flight and never
\* more than its capacity: no path out of Verify leaks a slot.
PermitsMatchCalls ==
    /\ permits = Cardinality({r \in Reqs : pc[r] = "provider"})
    /\ permits <= MaxConcurrentRequests

\* In the memory backend a create is refused as a conflict only if a different
\* envelope was really stored under the same key.
ConflictMeansOther ==
    \A r \in Reqs : resp[r].code = "conflict" =>
        \E e \in EverStored : call[e.by].key = call[r].key /\ e.body /= call[r].body

\* A stored envelope is never overwritten: a replayed or racing create neither
\* replaces it nor extends its life, even once it has expired.
StoredNeverOverwritten ==
    [][\A k \in Keys : records[k] /= NoRecord => records'[k] \in {records[k], NoRecord}]_vars

\* What clients have received, and those whose response is written.
Handed == [r \in Reqs |-> IF Delivered(r) THEN resp[r].rec ELSE NoRecord]
Unlocked == {r \in Reqs : resp[r].unlocked}
Responded == {r \in Reqs : pc[r] = "done"}

\* The API as its users see it.
Links == INSTANCE LinkService WITH
    Users <- Reqs, Calls <- CreateCalls \cup ReadCalls,
    links <- records, verified <- accepted, found <- seen,
    got <- Handed, unlocked <- Unlocked, answered <- Responded

\* The handlers with their separate lookups, verifications, inserts and deletes, and
\* the worker among them, do nothing a service with atomic operations on one table
\* would not: every delivery of a burn-after-reading envelope is the one step that
\* deletes it, and what is stored stays as it is until it is taken or has expired.
ImplementsLinkService == Links!Spec

\* Every request the server accepts is eventually answered.
EveryRequestAnswered ==
    \A r \in Reqs : pc[r] /= "idle" ~> pc[r] = "done"

\* Expired envelopes do not stay: the worker reaches every one of them although
\* each cleanup is limited to a batch.
ExpiredSwept ==
    \A k \in Keys : k \in Expired(records, clock) ~> k \notin Expired(records, clock)

\* What TestBurnAccessConsumesOnlyAfterSuccessfulCaptcha says: a CAPTCHA-protected
\* envelope is handed out only to a request that passed the verification.
ProtectedDeliveryVerified ==
    \A r \in Reqs : Delivered(r) /\ resp[r].rec.body.captcha => r \in accepted

\* What docs/configuration.md says of burn-after-reading links: after its first
\* protected retrieval the link (a key and its envelope) is gone.
BurnedLinkStaysGone ==
    \A r, q \in Reqs :
        (r /= q /\ Delivered(r) /\ Delivered(q) /\ resp[r].rec.body.burn
            /\ call[r].key = call[q].key)
        => resp[r].rec.body /= resp[q].rec.body
==============================================================================
