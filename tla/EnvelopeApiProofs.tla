--------------------------- MODULE EnvelopeApiProofs ---------------------------
(***************************************************************************)
(* Proofs about EnvelopeApi, for any finite set of requests, any keys,     *)
(* envelopes and tokens, either backend, and any bound on the clock.       *)
(***************************************************************************)
EXTENDS EnvelopeApi, FiniteSetTheorems, TLAPS

\* A request that has passed Get in Access holds the record it read, which was
\* visible at the request's time.
HoldsRecord(r) ==
    /\ call[r] \in ReadCalls
    /\ call[r].op = "access"
    /\ seen[r] \in Record
    /\ ~HasExpired(call[r].now, seen[r].expiresAt)

\* What a request's label says of its arguments and locals.
RequestOK(r) ==
    /\ pc[r] = "idle" => call[r] = NoCall
    /\ pc[r] /= "idle" => call[r] \in CreateCalls \cup ReadCalls
    /\ pc[r] \in {"lookup", "store", "replay"} => call[r] \in CreateCalls
    /\ pc[r] = "read" => call[r] \in ReadCalls
    /\ pc[r] \in {"verify", "provider"} =>
           call[r] \in CreateCalls \/ (HoldsRecord(r) /\ seen[r].body.captcha)
    /\ pc[r] = "provider" => call[r].token \in Tokens
    /\ pc[r] = "consume" => HoldsRecord(r) /\ (seen[r].body.captcha => r \in accepted)

\* What a response says of its request.
ResponseOK(r) ==
    /\ pc[r] /= "done" => resp[r] = NoResponse
    /\ resp[r].unlocked => r \in accepted /\ resp[r].rec \in Record /\ resp[r].rec.body.captcha
    /\ resp[r].code = "ok" =>
           /\ resp[r].rec \in Record
           /\ ~HasExpired(call[r].now, resp[r].rec.expiresAt)

RequestsInv == \A r \in Reqs : RequestOK(r) /\ ResponseOK(r)

TypeInv == TypeOK /\ PermitsMatchCalls /\ RequestsInv

------------------------------------------------------------------------------
\* Facts about the operators.

LEMMA BodyTypes ==
  ASSUME NEW b \in Bodies
  PROVE  b.captcha \in BOOLEAN /\ b.burn \in BOOLEAN /\ b.ttl \in Nat
  BY BodiesAssumption DEF Body

LEMMA VisibleFacts ==
  ASSUME NEW table \in Tables, NEW k \in Keys, NEW now \in Nat
  PROVE  /\ Visible(table, k, now) \in Record \cup {NoRecord}
         /\ Visible(table, k, now) /= NoRecord =>
               /\ Visible(table, k, now) = table[k]
               /\ table[k] \in Record
               /\ ~HasExpired(now, table[k].expiresAt)
  BY DEF Visible, Tables

LEMMA NewRecordType ==
  ASSUME NEW c \in CreateCalls, NEW r \in Reqs
  PROVE  [body |-> c.body, expiresAt |-> ExpirationTime(c.now, c.body.ttl), by |-> r] \in Record
<1>1. c.body \in Bodies /\ c.now \in Nat
  BY ConfigAssumption DEF CreateCalls
<1>2. ExpirationTime(c.now, c.body.ttl) \in Nat
  BY <1>1, BodyTypes DEF ExpirationTime, NoExpiry
<1>3. QED
  BY <1>1, <1>2 DEF Record

\* The number of provider calls in flight, when one request moves.
LEMMA Calls ==
  ASSUME NEW p \in [Reqs -> Labels], NEW r \in Reqs, NEW l \in Labels
  PROVE  LET In(q) == {s \in Reqs : q[s] = "provider"}
             p2 == [p EXCEPT ![r] = l]
         IN  /\ Cardinality(In(p)) \in Nat
             /\ (p[r] /= "provider" /\ l /= "provider") => In(p2) = In(p)
             /\ (p[r] /= "provider" /\ l = "provider") =>
                    Cardinality(In(p2)) = Cardinality(In(p)) + 1
             /\ (p[r] = "provider" /\ l /= "provider") =>
                    /\ Cardinality(In(p)) >= 1
                    /\ Cardinality(In(p2)) = Cardinality(In(p)) - 1
<1> DEFINE In(q) == {s \in Reqs : q[s] = "provider"}
           p2 == [p EXCEPT ![r] = l]
<1>1. IsFiniteSet(In(p)) /\ Cardinality(In(p)) \in Nat
  BY ReqsAssumption, FS_Subset, FS_CardinalityType
<1>2. (p[r] /= "provider" /\ l /= "provider") => In(p2) = In(p)
  OBVIOUS
<1>3. ASSUME p[r] /= "provider", l = "provider"
      PROVE  Cardinality(In(p2)) = Cardinality(In(p)) + 1
  <2>1. In(p2) = In(p) \cup {r} /\ r \notin In(p)
    BY <1>3
  <2>2. QED
    BY <1>1, <2>1, FS_AddElement
<1>4. ASSUME p[r] = "provider", l /= "provider"
      PROVE  Cardinality(In(p)) >= 1 /\ Cardinality(In(p2)) = Cardinality(In(p)) - 1
  <2>1. In(p2) = In(p) \ {r} /\ r \in In(p)
    BY <1>4
  <2>2. Cardinality(In(p2)) = Cardinality(In(p)) - 1
    BY <1>1, <2>1, FS_RemoveElement
  <2>3. IsFiniteSet(In(p2)) /\ Cardinality(In(p2)) \in Nat
    BY ReqsAssumption, FS_Subset, FS_CardinalityType
  <2>4. QED
    BY <1>1, <2>2, <2>3
<1>5. QED
  BY <1>1, <1>2, <1>3, <1>4

LEMMA InitTypeInv == Init => TypeInv
<1> SUFFICES ASSUME Init PROVE TypeInv
  OBVIOUS
<1>1. TypeOK
  BY ConfigAssumption DEF Init, TypeOK, Tables, Labels, Responses, NoResponse, Codes
<1>2. RequestsInv
  BY DEF Init, RequestsInv, RequestOK, ResponseOK, NoResponse
<1>3. PermitsMatchCalls
  <2>1. {r \in Reqs : pc[r] = "provider"} = {}
    BY DEF Init
  <2>2. QED
    BY <2>1, FS_EmptySet, ConfigAssumption DEF Init, PermitsMatchCalls
<1>4. QED
  BY <1>1, <1>2, <1>3 DEF TypeInv
------------------------------------------------------------------------------
\* The steps of one request leave the other requests' facts alone.
LEMMA OthersOK ==
  ASSUME RequestsInv, NEW q \in Reqs,
         pc'[q] = pc[q], call'[q] = call[q], seen'[q] = seen[q], resp'[q] = resp[q],
         accepted \subseteq accepted'
  PROVE  RequestOK(q)' /\ ResponseOK(q)'
  BY DEF RequestsInv, RequestOK, ResponseOK, HoldsRecord

\* One slot is taken when r enters the provider call, one given back when it leaves.
PermitsFollow(r, l) ==
    /\ permits' = IF pc[r] /= "provider" /\ l = "provider" THEN permits + 1
                  ELSE IF pc[r] = "provider" /\ l /= "provider" THEN permits - 1
                  ELSE permits
    /\ pc[r] /= "provider" /\ l = "provider" => permits < MaxConcurrentRequests

LEMMA PermitsKept ==
  ASSUME TypeInv, NEW r \in Reqs, NEW l \in Labels, pc' = [pc EXCEPT ![r] = l],
         PermitsFollow(r, l)
  PROVE  PermitsMatchCalls' /\ permits' \in Nat
<1> DEFINE In(q) == {s \in Reqs : q[s] = "provider"}
<1>1. pc \in [Reqs -> Labels]
  BY DEF TypeInv, TypeOK
<1>2. /\ Cardinality(In(pc)) \in Nat
      /\ (pc[r] /= "provider" /\ l /= "provider") => In(pc') = In(pc)
      /\ (pc[r] = "provider" /\ l = "provider") => In(pc') = In(pc)
      /\ (pc[r] /= "provider" /\ l = "provider") => Cardinality(In(pc')) = Cardinality(In(pc)) + 1
      /\ (pc[r] = "provider" /\ l /= "provider") =>
             /\ Cardinality(In(pc)) >= 1
             /\ Cardinality(In(pc')) = Cardinality(In(pc)) - 1
  <2>1. (pc[r] = "provider" /\ l = "provider") => pc' = pc
    BY <1>1
  <2>2. QED
    BY <1>1, <2>1, Calls
<1>3. permits = Cardinality(In(pc)) /\ permits <= MaxConcurrentRequests
  BY DEF TypeInv, PermitsMatchCalls
<1> HIDE DEF In
<1>4. permits' = Cardinality(In(pc')) /\ permits' <= MaxConcurrentRequests /\ permits' \in Nat
  BY <1>2, <1>3, ConfigAssumption DEF PermitsFollow
<1>5. QED
  BY <1>4 DEF PermitsMatchCalls, In

\* The part of TypeOK that is not about labels and responses.
StateOK ==
    /\ clock \in 1 .. MaxTime
    /\ records \in Tables
    /\ call \in [Reqs -> CreateCalls \cup ReadCalls \cup {NoCall}]
    /\ seen \in [Reqs -> Record \cup {NoRecord}]
    /\ cancelled \subseteq Reqs
    /\ permits \in Nat
    /\ workerNow \in 0 .. MaxTime
    /\ spent \subseteq Tokens
    /\ accepted \subseteq Reqs
    /\ consumed \subseteq Record
    /\ swept \subseteq Record

\* What a step of request r does not touch.
OthersUntouched(r) ==
    /\ \A q \in Reqs \ {r} : call'[q] = call[q] /\ seen'[q] = seen[q]
    /\ accepted \subseteq accepted'

\* A step in which the handler of r answers.
LEMMA Answered ==
  ASSUME TypeInv, NEW r \in Reqs, NEW code \in Codes, NEW rec \in Record \cup {NoRecord},
         NEW u \in BOOLEAN, Answer(r, code, rec, u), OthersUntouched(r), StateOK',
         call'[r] \in CreateCalls \cup ReadCalls, PermitsFollow(r, "done"),
         u => r \in accepted' /\ rec \in Record /\ rec.body.captcha,
         code = "ok" => rec \in Record /\ ~HasExpired(call'[r].now, rec.expiresAt)
  PROVE  TypeInv'
<1> USE DEF TypeInv, TypeOK
<1>1. /\ pc' = [pc EXCEPT ![r] = "done"]
      /\ resp' = [resp EXCEPT ![r] = [code |-> code, rec |-> rec, unlocked |-> u]]
  BY DEF Answer
<1>2. /\ "done" \in Labels
      /\ [code |-> code, rec |-> rec, unlocked |-> u] \in Responses
  BY DEF Labels, Responses
<1>3. pc' \in [Reqs -> Labels] /\ resp' \in [Reqs -> Responses]
  BY <1>1, <1>2
<1>4. /\ pc'[r] = "done" /\ resp'[r].code = code /\ resp'[r].rec = rec /\ resp'[r].unlocked = u
      /\ \A q \in Reqs \ {r} : pc'[q] = pc[q] /\ resp'[q] = resp[q]
  BY <1>1
<1>5. RequestOK(r)' /\ ResponseOK(r)'
  BY <1>4 DEF RequestOK, ResponseOK
<1>6. RequestsInv'
  BY <1>4, <1>5, OthersOK DEF RequestsInv, OthersUntouched
<1>7. PermitsMatchCalls'
  BY <1>1, <1>2, PermitsKept
<1>8. QED
  BY <1>3, <1>6, <1>7 DEF StateOK

\* A step in which the handler of r goes on to the call named by l.
LEMMA Moved ==
  ASSUME TypeInv, NEW r \in Reqs, NEW l \in Labels \ {"done", "idle"}, Goto(r, l),
         pc[r] /= "done", OthersUntouched(r), StateOK', PermitsFollow(r, l),
         pc'[r] = l => RequestOK(r)'
  PROVE  TypeInv'
<1> USE DEF TypeInv, TypeOK
<1>1. pc' = [pc EXCEPT ![r] = l] /\ resp' = resp
  BY DEF Goto
<1>2. pc' \in [Reqs -> Labels] /\ resp' \in [Reqs -> Responses]
  BY <1>1
<1>3. pc'[r] = l /\ \A q \in Reqs \ {r} : pc'[q] = pc[q] /\ resp'[q] = resp[q]
  BY <1>1
<1>4. resp'[r] = NoResponse
  BY <1>1 DEF RequestsInv, ResponseOK
<1>5. ResponseOK(r)'
  BY <1>4, <1>3 DEF ResponseOK, NoResponse
<1>6. RequestsInv'
  BY <1>3, <1>5, OthersOK DEF RequestsInv, OthersUntouched
<1>7. PermitsMatchCalls'
  BY <1>1, PermitsKept
<1>8. QED
  BY <1>2, <1>6, <1>7 DEF StateOK

\* A refusal needs no more than a code.
LEMMA Refused ==
  ASSUME TypeInv, NEW r \in Reqs, NEW code \in Codes \ {"ok"}, Refuse(r, code),
         OthersUntouched(r), StateOK', call'[r] \in CreateCalls \cup ReadCalls,
         PermitsFollow(r, "done")
  PROVE  TypeInv'
<1>1. Answer(r, code, NoRecord, FALSE)
  BY DEF Refuse
<1>2. QED
  BY <1>1, Answered
------------------------------------------------------------------------------
\* One lemma per step of a request.

\* Steps that change nothing but a request's label and response.
LEMMA Quiet ==
  ASSUME TypeInv, NEW r \in Reqs, pc[r] /= "provider",
         UNCHANGED <<clock, records, call, seen, cancelled, permits, workerNow, spent,
                     accepted, consumed, swept>>
  PROVE  /\ StateOK'
         /\ OthersUntouched(r)
         /\ \A l \in Labels \ {"provider"} : PermitsFollow(r, l)
  BY DEF TypeInv, TypeOK, StateOK, OthersUntouched, PermitsFollow

LEMMA StartCreateStep ==
  ASSUME TypeInv, NEW r \in Reqs, NEW k \in Keys, NEW b \in Bodies, NEW t \in AnyToken,
         NEW i \in Inputs, StartCreate(r, k, b, t, i)
  PROVE  TypeInv'
<1> DEFINE c == [op |-> "create", key |-> k, body |-> b, token |-> t, now |-> clock]
<1>1. c \in CreateCalls
  BY DEF TypeInv, TypeOK, CreateCalls
<1>2. call' = [call EXCEPT ![r] = c] /\ call'[r] = c
  BY DEF StartCreate, TypeInv, TypeOK
<1>3. StateOK' /\ OthersUntouched(r)
  BY <1>1, <1>2 DEF StartCreate, TypeInv, TypeOK, StateOK, OthersUntouched
<1>4. \A l \in Labels \ {"provider"} : PermitsFollow(r, l)
  BY DEF StartCreate, PermitsFollow
<1>5. CASE CreateRefusal(b, i) = "none"
  <2>1. Goto(r, "lookup")
    BY <1>5 DEF StartCreate
  <2>2. "lookup" \in Labels
    BY DEF Labels
  <2>3. pc'[r] = "lookup" => RequestOK(r)'
    BY <1>1, <1>2 DEF RequestOK
  <2>4. pc[r] = "idle"
    BY DEF StartCreate
  <2>5. QED
    BY <1>3, <1>4, <2>1, <2>2, <2>3, <2>4, Moved
<1>6. CASE CreateRefusal(b, i) /= "none"
  <2>1. Refuse(r, CreateRefusal(b, i))
    BY <1>6 DEF StartCreate
  <2>2. CreateRefusal(b, i) \in Codes \ {"ok"}
    BY <1>6, InputsAssumption DEF CreateRefusal, Codes, ReadErrors
  <2>3. "done" \in Labels \ {"provider"}
    BY DEF Labels
  <2>4. QED
    BY <1>1, <1>2, <1>3, <1>4, <2>1, <2>2, <2>3, Refused
<1>7. QED
  BY <1>5, <1>6

LEMMA StartReadStep ==
  ASSUME TypeInv, NEW r \in Reqs, NEW op \in {"get", "metadata", "access"}, NEW k \in Keys,
         NEW t \in AnyToken, NEW i \in Inputs, StartRead(r, op, k, t, i)
  PROVE  TypeInv'
<1> DEFINE c == [op |-> op, key |-> k, token |-> t, now |-> clock]
<1>1. c \in ReadCalls
  BY DEF TypeInv, TypeOK, ReadCalls
<1>2. call' = [call EXCEPT ![r] = c] /\ call'[r] = c
  BY DEF StartRead, TypeInv, TypeOK
<1>3. StateOK' /\ OthersUntouched(r)
  BY <1>1, <1>2 DEF StartRead, TypeInv, TypeOK, StateOK, OthersUntouched
<1>4. /\ \A l \in Labels \ {"provider"} : PermitsFollow(r, l)
      /\ "done" \in Labels \ {"provider"}
      /\ "read" \in Labels
  BY DEF StartRead, PermitsFollow, Labels
<1>5. CASE i = "ok"
  <2>1. Goto(r, "read") /\ pc[r] = "idle"
    BY <1>5 DEF StartRead
  <2>2. pc'[r] = "read" => RequestOK(r)'
    BY <1>1, <1>2 DEF RequestOK
  <2>3. QED
    BY <1>3, <1>4, <2>1, <2>2, Moved
<1>6. CASE i /= "ok"
  <2>1. \E code \in Codes \ {"ok"} : Refuse(r, code)
    <3>1. CASE i = "malformed_key"
      <4>1. Refuse(r, "not_found")
        BY <3>1, <1>6 DEF StartRead
      <4>2. QED
        BY <4>1 DEF Codes
    <3>2. CASE i /= "malformed_key"
      <4>1. Refuse(r, i)
        BY <3>2, <1>6 DEF StartRead
      <4>2. i \in Codes \ {"ok"}
        BY <3>2, <1>6, InputsAssumption DEF Codes
      <4>3. QED
        BY <4>1, <4>2
    <3>3. QED
      BY <3>1, <3>2
  <2>2. QED
    BY <1>1, <1>2, <1>3, <1>4, <2>1, Refused
<1>7. QED
  BY <1>5, <1>6

LEMMA CreateLookupStep ==
  ASSUME TypeInv, NEW r \in Reqs, CreateLookup(r)
  PROVE  TypeInv'
<1> DEFINE existing == Visible(records, call[r].key, Epoch)
<1>1. pc[r] = "lookup" /\ call[r] \in CreateCalls /\ call' = call
  BY DEF CreateLookup, TypeInv, RequestsInv, RequestOK
<1>2. /\ StateOK' /\ OthersUntouched(r)
      /\ \A l \in Labels \ {"provider"} : PermitsFollow(r, l)
  BY <1>1, Quiet DEF CreateLookup
<1>3. /\ {"done", "verify", "store"} \subseteq Labels \ {"provider"}
      /\ {"internal", "conflict", "captcha_required", "feature_unavailable",
          "invalid_request"} \subseteq Codes \ {"ok"}
      /\ "replayed" \in Codes
  BY DEF Labels, Codes, ReadErrors
<1>4. existing \in Record \cup {NoRecord}
  BY <1>1, VisibleFacts DEF TypeInv, TypeOK, CreateCalls, Epoch
<1> HIDE DEF existing
<1>5. ASSUME NEW code \in Codes \ {"ok"}, Refuse(r, code)
      PROVE  TypeInv'
  BY <1>1, <1>2, <1>3, <1>5, Refused
<1>6. ASSUME NEW l \in {"verify", "store"}, Goto(r, l)
      PROVE  TypeInv'
  <2>1. pc'[r] = l => RequestOK(r)'
    BY <1>1 DEF RequestOK
  <2>2. QED
    BY <1>1, <1>2, <1>3, <1>6, <2>1, Moved
<1>7. CASE Answer(r, "replayed", existing, FALSE)
  BY <1>1, <1>2, <1>3, <1>4, <1>7, Answered
<1>8. \/ Refuse(r, "internal") \/ Refuse(r, "conflict") \/ AfterLookup(r)
      \/ Answer(r, "replayed", existing, FALSE)
  BY DEF CreateLookup, StoreFailure, existing
<1>9. AfterLookup(r) => \/ \E code \in {"feature_unavailable", "captcha_required",
                                        "invalid_request"} : Refuse(r, code)
                        \/ \E l \in {"verify", "store"} : Goto(r, l)
  BY DEF AfterLookup
<1>10. QED
  BY <1>3, <1>5, <1>6, <1>7, <1>8, <1>9

LEMMA CreateStoreStep ==
  ASSUME TypeInv, NEW r \in Reqs, CreateStore(r)
  PROVE  TypeInv'
<1> DEFINE c == call[r]
           existing == records[c.key]
           new == [body |-> c.body, expiresAt |-> ExpirationTime(c.now, c.body.ttl), by |-> r]
<1>1. pc[r] = "store" /\ c \in CreateCalls /\ call' = call
  BY DEF CreateStore, TypeInv, RequestsInv, RequestOK
<1>2. new \in Record
  BY <1>1, NewRecordType
<1>3. c.key \in Keys /\ existing \in Record \cup {NoRecord}
  BY <1>1 DEF TypeInv, TypeOK, Tables, CreateCalls
<1> HIDE DEF existing, new, c
<1>4. records' \in Tables
  <2>1. CASE records' = Insert(records, c.key, new)
    BY <2>1, <1>2, <1>3 DEF Insert, TypeInv, TypeOK, Tables
  <2>2. CASE UNCHANGED records
    BY <2>2 DEF TypeInv, TypeOK
  <2>3. QED
    BY <2>1, <2>2 DEF CreateStore, new, c
<1>5. /\ StateOK' /\ OthersUntouched(r)
      /\ \A l \in Labels \ {"provider"} : PermitsFollow(r, l)
  BY <1>1, <1>4 DEF CreateStore, TypeInv, TypeOK, StateOK, OthersUntouched, PermitsFollow
<1>6. /\ {"done", "replay"} \subseteq Labels \ {"provider"}
      /\ {"internal", "conflict"} \subseteq Codes \ {"ok"}
      /\ {"created", "replayed"} \subseteq Codes
  BY DEF Labels, Codes, ReadErrors
<1>7. call'[r] \in CreateCalls \cup ReadCalls
  BY <1>1 DEF c
<1>8. ASSUME NEW code \in {"internal", "conflict"}, Refuse(r, code)
      PROVE  TypeInv'
  BY <1>7, <1>5, <1>6, <1>8, Refused
<1>9. CASE Goto(r, "replay")
  <2>1. pc'[r] = "replay" => RequestOK(r)'
    BY <1>1 DEF RequestOK, c
  <2>2. QED
    BY <1>1, <1>5, <1>6, <1>9, <2>1, Moved
<1>10. ASSUME NEW code \in {"created", "replayed"}, NEW rec \in {new, existing},
              Answer(r, code, rec, FALSE)
       PROVE  TypeInv'
  BY <1>2, <1>3, <1>5, <1>6, <1>7, <1>10, Answered
<1>11. \/ Refuse(r, "internal") \/ Refuse(r, "conflict") \/ Goto(r, "replay")
       \/ Answer(r, "created", new, FALSE) \/ Answer(r, "replayed", existing, FALSE)
  BY DEF CreateStore, StoreFailure, existing, new, c
<1>12. QED
  BY <1>8, <1>9, <1>10, <1>11

LEMMA CreateReplayStep ==
  ASSUME TypeInv, NEW r \in Reqs, CreateReplay(r)
  PROVE  TypeInv'
<1> DEFINE existing == Visible(records, call[r].key, Epoch)
<1>1. pc[r] = "replay" /\ call[r] \in CreateCalls /\ call' = call
  BY DEF CreateReplay, TypeInv, RequestsInv, RequestOK
<1>2. /\ StateOK' /\ OthersUntouched(r)
      /\ \A l \in Labels \ {"provider"} : PermitsFollow(r, l)
  BY <1>1, Quiet DEF CreateReplay
<1>3. /\ "done" \in Labels \ {"provider"}
      /\ {"internal", "conflict"} \subseteq Codes \ {"ok"}
      /\ "replayed" \in Codes
  BY DEF Labels, Codes, ReadErrors
<1>4. existing \in Record \cup {NoRecord}
  BY <1>1, VisibleFacts DEF TypeInv, TypeOK, CreateCalls, Epoch
<1> HIDE DEF existing
<1>5. ASSUME NEW code \in {"internal", "conflict"}, Refuse(r, code)
      PROVE  TypeInv'
  BY <1>1, <1>2, <1>3, <1>5, Refused
<1>6. CASE Answer(r, "replayed", existing, FALSE)
  BY <1>1, <1>2, <1>3, <1>4, <1>6, Answered
<1>7. Refuse(r, "internal") \/ Refuse(r, "conflict") \/ Answer(r, "replayed", existing, FALSE)
  BY DEF CreateReplay, StoreFailure, existing
<1>8. QED
  BY <1>5, <1>6, <1>7

\* What Get, GetMetadata and Consume find for a request that has read its clock.
LEMMA FoundFacts ==
  ASSUME TypeInv, NEW r \in Reqs, call[r] \in ReadCalls
  PROVE  LET found == Visible(records, call[r].key, call[r].now)
         IN  /\ found \in Record \cup {NoRecord}
             /\ found /= NoRecord => /\ found = records[call[r].key]
                                     /\ found \in Record
                                     /\ ~HasExpired(call[r].now, found.expiresAt)
<1>1. call[r].key \in Keys /\ call[r].now \in Nat
  BY ConfigAssumption DEF ReadCalls
<1>2. records \in Tables
  BY DEF TypeInv, TypeOK
<1>3. QED
  BY <1>1, <1>2, VisibleFacts

LEMMA ReadStep ==
  ASSUME TypeInv, NEW r \in Reqs, GetEnvelope(r) \/ GetEnvelopeMetadata(r)
  PROVE  TypeInv'
<1> DEFINE found == Visible(records, call[r].key, call[r].now)
<1>1. pc[r] = "read" /\ call[r] \in ReadCalls /\ call' = call
  BY DEF GetEnvelope, GetEnvelopeMetadata, TypeInv, RequestsInv, RequestOK
<1>2. /\ StateOK' /\ OthersUntouched(r)
      /\ \A l \in Labels \ {"provider"} : PermitsFollow(r, l)
  BY <1>1, Quiet DEF GetEnvelope, GetEnvelopeMetadata
<1>3. /\ "done" \in Labels \ {"provider"}
      /\ {"internal", "not_found", "access_required"} \subseteq Codes \ {"ok"}
      /\ "ok" \in Codes
  BY DEF Labels, Codes, ReadErrors
<1>4. found /= NoRecord => found \in Record /\ ~HasExpired(call[r].now, found.expiresAt)
  BY <1>1, FoundFacts
<1> HIDE DEF found
<1>5. ASSUME NEW code \in {"internal", "not_found", "access_required"}, Refuse(r, code)
      PROVE  TypeInv'
  BY <1>1, <1>2, <1>3, <1>5, Refused
<1>6. CASE found /= NoRecord /\ Answer(r, "ok", found, FALSE)
  BY <1>1, <1>2, <1>3, <1>4, <1>6, Answered
<1>7. \/ Refuse(r, "internal") \/ Refuse(r, "not_found") \/ Refuse(r, "access_required")
      \/ found /= NoRecord /\ Answer(r, "ok", found, FALSE)
  BY DEF GetEnvelope, GetEnvelopeMetadata, StoreFailure, found
<1>8. QED
  BY <1>5, <1>6, <1>7

LEMMA AccessReadStep ==
  ASSUME TypeInv, NEW r \in Reqs, AccessRead(r)
  PROVE  TypeInv'
<1> DEFINE found == Visible(records, call[r].key, call[r].now)
<1>1. pc[r] = "read" /\ call[r] \in ReadCalls /\ call' = call /\ call[r].op = "access"
  BY DEF AccessRead, TypeInv, RequestsInv, RequestOK
<1>2. /\ found \in Record \cup {NoRecord}
      /\ found /= NoRecord => found \in Record /\ ~HasExpired(call[r].now, found.expiresAt)
  BY <1>1, FoundFacts
<1> HIDE DEF found
<1>3. seen' \in [Reqs -> Record \cup {NoRecord}] /\ \A q \in Reqs \ {r} : seen'[q] = seen[q]
  BY <1>2 DEF AccessRead, TypeInv, TypeOK, found
<1>4. /\ StateOK' /\ OthersUntouched(r)
      /\ \A l \in Labels \ {"provider"} : PermitsFollow(r, l)
  BY <1>1, <1>3 DEF AccessRead, TypeInv, TypeOK, StateOK, OthersUntouched, PermitsFollow
<1>5. /\ {"done", "verify", "consume"} \subseteq Labels \ {"provider"}
      /\ {"internal", "not_found", "invalid_request"} \subseteq Codes \ {"ok"}
  BY DEF Labels, Codes, ReadErrors
<1>6. ASSUME NEW code \in {"internal", "not_found", "invalid_request"}, Refuse(r, code)
      PROVE  TypeInv'
  BY <1>1, <1>4, <1>5, <1>6, Refused
<1>7. ASSUME NEW l \in {"verify", "consume"}, Goto(r, l), found /= NoRecord,
             seen' = [seen EXCEPT ![r] = found], l = "verify" <=> found.body.captcha
      PROVE  TypeInv'
  <2>1. seen'[r] = found
    BY <1>7 DEF TypeInv, TypeOK
  <2>2. HoldsRecord(r)' /\ (l = "verify" <=> seen'[r].body.captcha)
    BY <1>1, <1>2, <1>7, <2>1 DEF HoldsRecord
  <2>3. pc'[r] = l => RequestOK(r)'
    BY <1>1, <1>7, <2>2 DEF RequestOK
  <2>4. QED
    BY <1>1, <1>4, <1>5, <1>7, <2>3, Moved
<1>8. \/ Refuse(r, "internal") \/ Refuse(r, "not_found") \/ Refuse(r, "invalid_request")
      \/ /\ found /= NoRecord
         /\ seen' = [seen EXCEPT ![r] = found]
         /\ \/ Goto(r, "verify") /\ found.body.captcha
            \/ Goto(r, "consume") /\ ~found.body.captcha
  BY DEF AccessRead, StoreFailure, found
<1>9. QED
  BY <1>6, <1>7, <1>8

LEMMA AccessConsumeStep ==
  ASSUME TypeInv, NEW r \in Reqs, AccessConsume(r)
  PROVE  TypeInv'
<1> DEFINE found == Consumable(r)
<1>1. /\ pc[r] = "consume" /\ call[r] \in ReadCalls /\ call' = call
      /\ seen[r] \in Record /\ (seen[r].body.captcha => r \in accepted)
  BY DEF AccessConsume, TypeInv, RequestsInv, RequestOK, HoldsRecord
<1>2. found /= NoRecord => found \in Record /\ ~HasExpired(call[r].now, found.expiresAt)
  BY <1>1, FoundFacts DEF Consumable
<1>3. seen[r].body.captcha \in BOOLEAN
  BY <1>1, BodyTypes DEF Record
<1> HIDE DEF found
<1>4. records' \in Tables /\ consumed' \subseteq Record
  BY <1>2 DEF AccessConsume, Delete, TypeInv, TypeOK, Tables, found
<1>5. /\ StateOK' /\ OthersUntouched(r) /\ accepted' = accepted
      /\ \A l \in Labels \ {"provider"} : PermitsFollow(r, l)
  BY <1>1, <1>4 DEF AccessConsume, TypeInv, TypeOK, StateOK, OthersUntouched, PermitsFollow
<1>6. /\ "done" \in Labels \ {"provider"}
      /\ {"internal", "not_found"} \subseteq Codes \ {"ok"}
      /\ "ok" \in Codes
  BY DEF Labels, Codes, ReadErrors
<1>7. ASSUME NEW code \in {"internal", "not_found"}, Refuse(r, code)
      PROVE  TypeInv'
  BY <1>1, <1>5, <1>6, <1>7, Refused
<1>8. CASE /\ found /= NoRecord
           /\ seen[r].body.captcha => found.body.captcha
           /\ Answer(r, "ok", found, seen[r].body.captcha)
  BY <1>1, <1>2, <1>3, <1>5, <1>6, <1>8, Answered
<1>9. \/ Refuse(r, "internal") \/ Refuse(r, "not_found")
      \/ /\ found /= NoRecord
         /\ seen[r].body.captcha => found.body.captcha
         /\ Answer(r, "ok", found, seen[r].body.captcha)
  BY DEF AccessConsume, StoreFailure, UnlocksKey, found
<1>10. QED
  BY <1>7, <1>8, <1>9

LEMMA VerifyStep ==
  ASSUME TypeInv, NEW r \in Reqs, Verify(r)
  PROVE  TypeInv'
<1>1. /\ pc[r] = "verify" /\ call[r] \in CreateCalls \cup ReadCalls /\ call' = call
      /\ call[r] \in CreateCalls \/ (HoldsRecord(r) /\ seen[r].body.captcha)
  BY DEF Verify, TypeInv, RequestsInv, RequestOK
<1>2. StateOK' /\ OthersUntouched(r)
  BY DEF Verify, TypeInv, TypeOK, StateOK, OthersUntouched
<1>3. /\ "done" \in Labels /\ "provider" \in Labels
      /\ {"captcha_failed", "rate_limited"} \subseteq Codes \ {"ok"}
  BY DEF Labels, Codes, ReadErrors
<1>4. ASSUME NEW code \in {"captcha_failed", "rate_limited"}, Refuse(r, code), UNCHANGED permits
      PROVE  TypeInv'
  <2>1. PermitsFollow(r, "done")
    BY <1>1, <1>4 DEF PermitsFollow
  <2>2. QED
    BY <1>1, <1>2, <1>3, <1>4, <2>1, Refused
<1>5. CASE /\ call[r].token \in Tokens
           /\ permits < MaxConcurrentRequests
           /\ Goto(r, "provider")
           /\ permits' = permits + 1
  <2>1. PermitsFollow(r, "provider")
    BY <1>1, <1>5 DEF PermitsFollow
  <2>2. HoldsRecord(r)' <=> HoldsRecord(r)
    BY DEF Verify, HoldsRecord
  <2>3. pc'[r] = "provider" => RequestOK(r)'
    BY <1>1, <1>5, <2>2 DEF Verify, RequestOK
  <2>4. QED
    BY <1>1, <1>2, <1>3, <1>5, <2>1, <2>3, Moved
<1>6. QED
  BY <1>4, <1>5 DEF Verify

LEMMA ProviderAnswerStep ==
  ASSUME TypeInv, NEW r \in Reqs, ProviderAnswer(r)
  PROVE  TypeInv'
<1>1. /\ pc[r] = "provider" /\ call[r] \in CreateCalls \cup ReadCalls /\ call' = call
      /\ call[r] \in CreateCalls \/ (HoldsRecord(r) /\ seen[r].body.captcha)
      /\ call[r].token \in Tokens
  BY DEF ProviderAnswer, TypeInv, RequestsInv, RequestOK
<1>2. /\ {"done", "store", "consume"} \subseteq Labels \ {"provider"}
      /\ {"captcha_failed", "dependency_unavailable", "empty200", "internal"}
             \subseteq Codes \ {"ok"}
      /\ "ok" \in Codes
  BY DEF Labels, Codes, ReadErrors
<1>3. \A l \in Labels \ {"provider"} : PermitsFollow(r, l)
  BY <1>1 DEF ProviderAnswer, Released, PermitsFollow
<1>4. permits' \in Nat
  <2>1. pc \in [Reqs -> Labels] /\ permits = Cardinality({q \in Reqs : pc[q] = "provider"})
    BY DEF TypeInv, TypeOK, PermitsMatchCalls
  <2>2. permits \in Nat /\ permits >= 1
    BY <1>1, <1>2, <2>1, Calls
  <2>3. QED
    BY <2>2 DEF ProviderAnswer, Released
<1>5. StateOK' /\ OthersUntouched(r)
  BY <1>1, <1>4 DEF ProviderAnswer, TypeInv, TypeOK, StateOK, OthersUntouched
<1>6. ASSUME NEW code \in {"captcha_failed", "dependency_unavailable", "empty200", "internal"},
             Refuse(r, code)
      PROVE  TypeInv'
  BY <1>1, <1>2, <1>3, <1>5, <1>6, Refused
<1>7. CASE r \in accepted' /\ AfterVerify(r)
  <2>1. CASE call[r].op = "create" /\ Goto(r, "store")
    <3>1. call[r] \in CreateCalls
      BY <1>1, <2>1 DEF HoldsRecord
    <3>2. pc'[r] = "store" => RequestOK(r)'
      BY <1>1, <3>1 DEF RequestOK
    <3>3. QED
      BY <1>1, <1>2, <1>3, <1>5, <2>1, <3>2, Moved
  <2>2. ASSUME call[r].op /= "create"
        PROVE  HoldsRecord(r) /\ HoldsRecord(r)' /\ seen[r].body.captcha
    BY <1>1, <2>2 DEF CreateCalls, ProviderAnswer, HoldsRecord
  <2>3. CASE call[r].op /= "create" /\ Goto(r, "consume")
    <3>1. pc'[r] = "consume" => RequestOK(r)'
      BY <1>1, <1>7, <2>2, <2>3 DEF RequestOK, HoldsRecord
    <3>2. QED
      BY <1>1, <1>2, <1>3, <1>5, <2>3, <3>1, Moved
  <2>4. CASE call[r].op /= "create" /\ Answer(r, "ok", seen[r], TRUE)
    BY <1>1, <1>2, <1>3, <1>5, <1>7, <2>2, <2>4, Answered DEF HoldsRecord
  <2>5. QED
    BY <1>7, <2>1, <2>3, <2>4 DEF AfterVerify
<1>8. \/ r \in accepted' /\ AfterVerify(r)
      \/ \E code \in {"captcha_failed", "dependency_unavailable", "empty200", "internal"} :
            Refuse(r, code)
  BY DEF ProviderAnswer, VerifyErrorCode
<1>9. QED
  BY <1>6, <1>7, <1>8

\* The steps that are not a request's own.
LEMMA OtherSteps ==
  ASSUME TypeInv,
         \/ WorkerTick \/ WorkerRun \/ Tick
         \/ \E r \in Reqs : Cancel(r)
         \/ UNCHANGED vars
  PROVE  TypeInv'
<1>1. UNCHANGED <<pc, call, seen, resp, permits, accepted, spent, consumed>>
  BY DEF WorkerTick, WorkerRun, Tick, Cancel, vars
<1>2. RequestsInv'
  BY <1>1, OthersOK DEF TypeInv, RequestsInv
<1>3. PermitsMatchCalls'
  BY <1>1 DEF TypeInv, PermitsMatchCalls
<1>4. records' \in Tables /\ swept' \subseteq Record
  <2>1. CASE UNCHANGED <<records, swept>>
    BY <2>1 DEF TypeInv, TypeOK
  <2>2. ASSUME NEW S \in ExpiredBatches(records, workerNow, CleanupBatch),
               records' = Delete(records, S), swept' = swept \cup {records[k] : k \in S}
        PROVE  records' \in Tables /\ swept' \subseteq Record
    <3>1. S \subseteq Expired(records, workerNow)
      BY <2>2 DEF ExpiredBatches
    <3>2. \A k \in S : k \in Keys /\ records[k] \in Record
      BY <3>1 DEF Expired, TypeInv, TypeOK, Tables
    <3>3. QED
      BY <2>2, <3>2 DEF Delete, TypeInv, TypeOK, Tables
  <2>3. QED
    BY <2>1, <2>2 DEF WorkerTick, WorkerRun, Tick, Cancel, vars
<1>5. clock' \in 1 .. MaxTime /\ workerNow' \in 0 .. MaxTime /\ cancelled' \subseteq Reqs
  BY ConfigAssumption DEF WorkerTick, WorkerRun, Tick, Cancel, vars, TypeInv, TypeOK
<1>6. TypeOK'
  BY <1>1, <1>4, <1>5 DEF TypeInv, TypeOK
<1>7. QED
  BY <1>2, <1>3, <1>6 DEF TypeInv

LEMMA NextTypeInv == TypeInv /\ [Next]_vars => TypeInv'
<1> SUFFICES ASSUME TypeInv, [Next]_vars PROVE TypeInv'
  OBVIOUS
<1>1. ASSUME NEW r \in Reqs, Start(r) PROVE TypeInv'
  BY <1>1, StartCreateStep, StartReadStep DEF Start
<1>2. ASSUME NEW r \in Reqs, Run(r) PROVE TypeInv'
  BY <1>2, CreateLookupStep, CreateStoreStep, CreateReplayStep, ReadStep, AccessReadStep,
     AccessConsumeStep, VerifyStep, ProviderAnswerStep DEF Run
<1>3. QED
  BY <1>1, <1>2, OtherSteps DEF Next

LEMMA TypeInvariance == Spec => []TypeInv
<1>1. QED
  BY InitTypeInv, NextTypeInv, PTL DEF Spec
------------------------------------------------------------------------------
\* Every variable keeps its type: no path out of Verify gives a slot back that was
\* not taken (permits stays a natural number), and every repository call returns a
\* record or nothing.
THEOREM TypeCorrect == Spec => []TypeOK
<1>1. TypeInv => TypeOK
  BY DEF TypeInv
<1>2. QED
  BY <1>1, TypeInvariance, PTL

\* The verifier's slots are the provider calls in flight, never more than its
\* capacity, for any number of requests.
THEOREM PermitsExact == Spec => []PermitsMatchCalls
<1>1. TypeInv => PermitsMatchCalls
  BY DEF TypeInv
<1>2. QED
  BY <1>1, TypeInvariance, PTL

\* No CAPTCHA key is handed out without a verification of the request's own.
THEOREM KeyNeedsVerification == Spec => []KeyAfterVerification
<1>1. TypeInv => KeyAfterVerification
  BY DEF TypeInv, RequestsInv, ResponseOK, KeyAfterVerification
<1>2. QED
  BY <1>1, TypeInvariance, PTL

\* Nothing is served that had expired at the request's time.
THEOREM ServedUnexpired == Spec => []NeverServedExpired
<1>1. TypeInv => NeverServedExpired
  BY DEF TypeInv, RequestsInv, ResponseOK, NeverServedExpired
<1>2. QED
  BY <1>1, TypeInvariance, PTL
==============================================================================
