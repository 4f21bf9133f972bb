----------------------- MODULE EnvelopeDurabilityProofs -----------------------
(***************************************************************************)
(* Proofs about what EnvelopeApi stores, keeps and delivers, on top of the *)
(* type invariant of EnvelopeApiProofs.                                    *)
(***************************************************************************)
EXTENDS EnvelopeApiProofs

\* Request q has stored an envelope, once and for all.
HasStored(q) ==
    /\ pc[q] = "done"
    /\ call[q] \in CreateCalls
    /\ CreateCaptchaRequired => q \in accepted

\* Each stored record is the work of one create for its key, and a record that is
\* gone is never in the table again: HasStored requests store nothing more.
StoreInv ==
    /\ \A k \in Keys : records[k] /= NoRecord =>
           HasStored(records[k].by) /\ call[records[k].by].key = k
    /\ \A e \in consumed \cup swept :
           /\ HasStored(e.by)
           /\ \A k \in Keys : records[k] /= NoRecord => records[k].by /= e.by

\* What was swept had expired.
SweepInv ==
    /\ workerNow <= clock
    /\ \A e \in swept : HasExpired(clock, e.expiresAt)

\* A delivered burn-after-read record is a consumed one, delivered once.
BurnInv ==
    /\ \A r \in Reqs : Delivered(r) /\ resp[r].rec.body.burn => resp[r].rec \in consumed
    /\ BurnDeliveredOnce

\* An accepted token is spent, and on one request only.
TokenInv ==
    /\ \A r \in accepted : pc[r] /= "idle" /\ call[r].token \in spent
    /\ \A r, q \in accepted : r /= q => call[r].token /= call[q].token
    /\ \A r \in Reqs : CreateCaptchaRequired /\ pc[r] \in {"store", "replay"} => r \in accepted

\* An acknowledged record is in the table, consumed, or swept.
AckInv ==
    \A r \in Reqs :
        /\ resp[r].code = "empty200" => r \in cancelled
        /\ resp[r].code \in {"created", "replayed"} =>
               /\ call[r] \in CreateCalls
               /\ resp[r].rec \in Record
               /\ resp[r].rec.body = call[r].body
               /\ \/ records[call[r].key] = resp[r].rec
                  \/ resp[r].rec \in consumed \cup swept

------------------------------------------------------------------------------
\* What the steps of request r do to the table and to its response.

New(r) == [body |-> call[r].body,
           expiresAt |-> ExpirationTime(call[r].now, call[r].body.ttl), by |-> r]

Inserts(r) ==
    /\ pc[r] = "store"
    /\ records[call[r].key] = NoRecord
    /\ records' = Insert(records, call[r].key, New(r))
    /\ pc'[r] = "done"
    /\ UNCHANGED <<consumed, swept>>

Consumes(r) ==
    /\ pc[r] = "consume"
    /\ Consumable(r) /= NoRecord
    /\ records' = Delete(records, {call[r].key})
    /\ consumed' = consumed \cup {Consumable(r)}
    /\ UNCHANGED swept

Sweeps ==
    \E S \in SUBSET Expired(records, workerNow) :
        /\ records' = Delete(records, S)
        /\ swept' = swept \cup {records[k] : k \in S}
        /\ UNCHANGED consumed

StoreUnchanged == UNCHANGED <<records, consumed, swept>>

\* The response r gets, as far as the invariants tell responses apart.
Responds(r) ==
    \/ resp'[r] = resp[r]
    \/ /\ resp'[r].code \notin {"ok", "created", "replayed"}
       /\ resp'[r].code = "empty200" => r \in cancelled
    \/ /\ resp'[r].code = "created"
       /\ resp'[r].rec = New(r)
       /\ call[r] \in CreateCalls
       /\ Inserts(r)
    \/ /\ resp'[r].code = "replayed"
       /\ call[r] \in CreateCalls
       /\ resp'[r].rec = records[call[r].key]
       /\ resp'[r].rec /= NoRecord
       /\ resp'[r].rec.body = call[r].body
       /\ StoreUnchanged
    \/ /\ resp'[r].code = "ok"
       /\ call[r].op = "metadata" \/ ~resp'[r].rec.body.burn
       /\ StoreUnchanged
    \/ /\ resp'[r].code = "ok"
       /\ resp'[r].rec = Consumable(r)
       /\ Consumes(r)

\* A step of request r, after its start.
Moves(r) ==
    /\ pc[r] \notin {"idle", "done"}
    /\ pc'[r] /= "idle"
    /\ \A q \in Reqs \ {r} : pc'[q] = pc[q] /\ resp'[q] = resp[q]
    /\ accepted \subseteq accepted'
    /\ UNCHANGED <<clock, call, cancelled, workerNow>>
    /\ StoreUnchanged \/ Inserts(r) \/ Consumes(r)
    /\ Responds(r)

LEMMA AnswerEffect ==
  ASSUME TypeInv, NEW r \in Reqs, NEW code, NEW rec, NEW u, Answer(r, code, rec, u)
  PROVE  /\ pc'[r] = "done"
         /\ resp'[r].code = code /\ resp'[r].rec = rec
         /\ \A q \in Reqs \ {r} : pc'[q] = pc[q] /\ resp'[q] = resp[q]
<1>1. /\ resp \in [Reqs -> Responses]
      /\ pc \in [Reqs -> Labels]
  BY DEF TypeInv, TypeOK
<1>2. QED
  BY <1>1 DEF Answer

LEMMA GotoEffect ==
  ASSUME TypeInv, NEW r \in Reqs, NEW l, Goto(r, l)
  PROVE  pc'[r] = l /\ resp' = resp /\ \A q \in Reqs \ {r} : pc'[q] = pc[q]
<1>1. pc \in [Reqs -> Labels]
  BY DEF TypeInv, TypeOK
<1>2. QED
  BY <1>1 DEF Goto

LEMMA RefuseEffect ==
  ASSUME TypeInv, NEW r \in Reqs, NEW code, Refuse(r, code),
         code \notin {"ok", "created", "replayed"}, code = "empty200" => r \in cancelled
  PROVE  /\ pc'[r] = "done"
         /\ \A q \in Reqs \ {r} : pc'[q] = pc[q] /\ resp'[q] = resp[q]
         /\ Responds(r)
<1>1. Answer(r, code, NoRecord, FALSE)
  BY DEF Refuse
<1>2. /\ pc'[r] = "done" /\ resp'[r].code = code
      /\ \A q \in Reqs \ {r} : pc'[q] = pc[q] /\ resp'[q] = resp[q]
  BY <1>1, AnswerEffect
<1>3. QED
  BY <1>2 DEF Responds

LEMMA LookupMoves ==
  ASSUME TypeInv, NEW r \in Reqs, CreateLookup(r) \/ CreateReplay(r)
  PROVE  Moves(r)
<1> DEFINE existing == Visible(records, call[r].key, Epoch)
<1>1. /\ pc[r] \in {"lookup", "replay"} /\ call[r] \in CreateCalls
      /\ StoreUnchanged
      /\ accepted' = accepted
      /\ UNCHANGED <<clock, call, cancelled, workerNow>>
  BY DEF CreateLookup, CreateReplay, TypeInv, RequestsInv, RequestOK, StoreUnchanged
<1>2. existing /= NoRecord => existing = records[call[r].key]
  BY DEF Visible
<1> HIDE DEF existing
<1>3. ASSUME NEW code \in {"internal", "conflict", "captcha_required",
                           "feature_unavailable", "invalid_request"}, Refuse(r, code)
      PROVE  Moves(r)
  BY <1>1, <1>3, RefuseEffect DEF Moves
<1>4. ASSUME NEW l \in {"verify", "store"}, Goto(r, l)
      PROVE  Moves(r)
  BY <1>1, <1>4, GotoEffect DEF Moves, Responds
<1>5. CASE /\ existing /= NoRecord /\ existing.body = call[r].body
           /\ Answer(r, "replayed", existing, FALSE)
  <2>1. /\ pc'[r] = "done"
        /\ resp'[r].code = "replayed" /\ resp'[r].rec = existing
        /\ \A q \in Reqs \ {r} : pc'[q] = pc[q] /\ resp'[q] = resp[q]
    BY <1>5, AnswerEffect
  <2>2. QED
    BY <1>1, <1>2, <1>5, <2>1 DEF Moves, Responds
<1>6. \/ \E code \in {"internal", "conflict", "captcha_required", "feature_unavailable",
                      "invalid_request"} : Refuse(r, code)
      \/ \E l \in {"verify", "store"} : Goto(r, l)
      \/ /\ existing /= NoRecord /\ existing.body = call[r].body
         /\ Answer(r, "replayed", existing, FALSE)
  BY DEF CreateLookup, CreateReplay, AfterLookup, StoreFailure, SameRequest, existing
<1>7. QED
  BY <1>3, <1>4, <1>5, <1>6

LEMMA StoreMoves ==
  ASSUME TypeInv, NEW r \in Reqs, CreateStore(r)
  PROVE  Moves(r)
<1> DEFINE existing == records[call[r].key]
<1>1. /\ pc[r] = "store" /\ call[r] \in CreateCalls
      /\ accepted' = accepted
      /\ UNCHANGED <<clock, call, cancelled, workerNow, consumed, swept>>
  BY DEF CreateStore, TypeInv, RequestsInv, RequestOK
<1> HIDE DEF existing
<1>2. ASSUME NEW code \in {"internal", "conflict"}, Refuse(r, code), UNCHANGED records
      PROVE  Moves(r)
  BY <1>1, <1>2, RefuseEffect DEF Moves, StoreUnchanged
<1>3. CASE Goto(r, "replay") /\ UNCHANGED records
  BY <1>1, <1>3, GotoEffect DEF Moves, Responds, StoreUnchanged
<1>4. CASE /\ existing /= NoRecord /\ existing.body = call[r].body
           /\ Answer(r, "replayed", existing, FALSE) /\ UNCHANGED records
  <2>1. /\ pc'[r] = "done"
        /\ resp'[r].code = "replayed" /\ resp'[r].rec = existing
        /\ \A q \in Reqs \ {r} : pc'[q] = pc[q] /\ resp'[q] = resp[q]
    BY <1>4, AnswerEffect
  <2>2. QED
    BY <1>1, <1>4, <2>1 DEF Moves, Responds, StoreUnchanged, existing
<1>5. ASSUME existing = NoRecord, records' = Insert(records, call[r].key, New(r)),
             Answer(r, "created", New(r), FALSE) \/ Refuse(r, "internal")
      PROVE  Moves(r)
  <2>1. CASE Answer(r, "created", New(r), FALSE)
    <3>1. /\ pc'[r] = "done"
          /\ resp'[r].code = "created" /\ resp'[r].rec = New(r)
          /\ \A q \in Reqs \ {r} : pc'[q] = pc[q] /\ resp'[q] = resp[q]
      BY <2>1, AnswerEffect
    <3>2. Inserts(r)
      BY <1>1, <1>5, <3>1 DEF Inserts, existing
    <3>3. QED
      BY <1>1, <3>1, <3>2 DEF Moves, Responds
  <2>2. CASE Refuse(r, "internal")
    <3>1. /\ pc'[r] = "done" /\ Responds(r)
          /\ \A q \in Reqs \ {r} : pc'[q] = pc[q] /\ resp'[q] = resp[q]
      BY <2>2, RefuseEffect
    <3>2. Inserts(r)
      BY <1>1, <1>5, <3>1 DEF Inserts, existing
    <3>3. QED
      BY <1>1, <3>1, <3>2 DEF Moves
  <2>3. QED
    BY <1>5, <2>1, <2>2
<1>6. \/ (Refuse(r, "internal") \/ Refuse(r, "conflict")) /\ UNCHANGED records
      \/ Goto(r, "replay") /\ UNCHANGED records
      \/ /\ existing /= NoRecord /\ existing.body = call[r].body
         /\ Answer(r, "replayed", existing, FALSE) /\ UNCHANGED records
      \/ /\ existing = NoRecord /\ records' = Insert(records, call[r].key, New(r))
         /\ Answer(r, "created", New(r), FALSE) \/ Refuse(r, "internal")
  BY DEF CreateStore, KeyTaken, StoreFailure, SameRequest, New, existing
<1>7. QED
  BY <1>2, <1>3, <1>4, <1>5, <1>6

LEMMA ReadMoves ==
  ASSUME TypeInv, NEW r \in Reqs, GetEnvelope(r) \/ GetEnvelopeMetadata(r) \/ AccessRead(r)
  PROVE  Moves(r)
<1> DEFINE found == Visible(records, call[r].key, call[r].now)
<1>1. /\ pc[r] = "read"
      /\ accepted' = accepted
      /\ StoreUnchanged
      /\ UNCHANGED <<clock, call, cancelled, workerNow>>
  BY DEF GetEnvelope, GetEnvelopeMetadata, AccessRead, StoreUnchanged
<1> HIDE DEF found
<1>2. ASSUME NEW code \in {"internal", "not_found", "access_required", "invalid_request"},
             Refuse(r, code)
      PROVE  Moves(r)
  BY <1>1, <1>2, RefuseEffect DEF Moves
<1>3. ASSUME NEW l \in {"verify", "consume"}, Goto(r, l)
      PROVE  Moves(r)
  BY <1>1, <1>3, GotoEffect DEF Moves, Responds
<1>4. CASE /\ call[r].op = "metadata" \/ ~found.body.burn
           /\ Answer(r, "ok", found, FALSE)
  <2>1. /\ pc'[r] = "done"
        /\ resp'[r].code = "ok" /\ resp'[r].rec = found
        /\ \A q \in Reqs \ {r} : pc'[q] = pc[q] /\ resp'[q] = resp[q]
    BY <1>4, AnswerEffect
  <2>2. QED
    BY <1>1, <1>4, <2>1 DEF Moves, Responds
<1>5. \/ \E code \in {"internal", "not_found", "access_required", "invalid_request"} :
            Refuse(r, code)
      \/ \E l \in {"verify", "consume"} : Goto(r, l)
      \/ /\ call[r].op = "metadata" \/ ~found.body.burn
         /\ Answer(r, "ok", found, FALSE)
  BY DEF GetEnvelope, GetEnvelopeMetadata, AccessRead, StoreFailure, found
<1>6. QED
  BY <1>2, <1>3, <1>4, <1>5

LEMMA ConsumeMoves ==
  ASSUME TypeInv, NEW r \in Reqs, AccessConsume(r)
  PROVE  Moves(r)
<1>1. /\ pc[r] = "consume"
      /\ accepted' = accepted
      /\ UNCHANGED <<clock, call, cancelled, workerNow, swept>>
  BY DEF AccessConsume
<1>2. ASSUME NEW code \in {"internal", "not_found"}, Refuse(r, code),
             StoreUnchanged \/ Consumes(r)
      PROVE  Moves(r)
  BY <1>1, <1>2, RefuseEffect DEF Moves
<1>3. ASSUME NEW u, Answer(r, "ok", Consumable(r), u), Consumes(r)
      PROVE  Moves(r)
  <2>1. /\ pc'[r] = "done"
        /\ resp'[r].code = "ok" /\ resp'[r].rec = Consumable(r)
        /\ \A q \in Reqs \ {r} : pc'[q] = pc[q] /\ resp'[q] = resp[q]
    BY <1>3, AnswerEffect
  <2>2. QED
    BY <1>1, <1>3, <2>1 DEF Moves, Responds
<1>4. \/ /\ Refuse(r, "internal") \/ Refuse(r, "not_found")
         /\ StoreUnchanged \/ Consumes(r)
      \/ Answer(r, "ok", Consumable(r), UnlocksKey(r, Consumable(r))) /\ Consumes(r)
  BY DEF AccessConsume, StoreFailure, StoreUnchanged, Consumes
<1>5. QED
  BY <1>2, <1>3, <1>4

LEMMA VerifierMoves ==
  ASSUME TypeInv, NEW r \in Reqs, Verify(r) \/ ProviderAnswer(r)
  PROVE  Moves(r)
<1>1. /\ pc[r] \in {"verify", "provider"}
      /\ accepted \subseteq accepted'
      /\ StoreUnchanged
      /\ UNCHANGED <<clock, call, cancelled, workerNow>>
  BY DEF Verify, ProviderAnswer, StoreUnchanged
<1>2. ASSUME NEW code \in {"captcha_failed", "rate_limited", "dependency_unavailable",
                           "internal", "empty200"},
             code = "empty200" => r \in cancelled, Refuse(r, code)
      PROVE  Moves(r)
  BY <1>1, <1>2, RefuseEffect DEF Moves
<1>3. ASSUME NEW l \in {"provider", "store", "consume"}, Goto(r, l)
      PROVE  Moves(r)
  BY <1>1, <1>3, GotoEffect DEF Moves, Responds
<1>4. CASE ~seen[r].body.burn /\ Answer(r, "ok", seen[r], TRUE)
  <2>1. /\ pc'[r] = "done"
        /\ resp'[r].code = "ok" /\ resp'[r].rec = seen[r]
        /\ \A q \in Reqs \ {r} : pc'[q] = pc[q] /\ resp'[q] = resp[q]
    BY <1>4, AnswerEffect
  <2>2. QED
    BY <1>1, <1>4, <2>1 DEF Moves, Responds
<1>5. \/ \E code \in {"captcha_failed", "rate_limited", "dependency_unavailable",
                      "internal", "empty200"} :
            (code = "empty200" => r \in cancelled) /\ Refuse(r, code)
      \/ \E l \in {"provider", "store", "consume"} : Goto(r, l)
      \/ ~seen[r].body.burn /\ Answer(r, "ok", seen[r], TRUE)
  BY DEF Verify, ProviderAnswer, AfterVerify, VerifyErrorCode
<1>6. QED
  BY <1>2, <1>3, <1>4, <1>5

LEMMA RunMoves ==
  ASSUME TypeInv, NEW r \in Reqs, Run(r)
  PROVE  Moves(r)
  BY LookupMoves, StoreMoves, ReadMoves, ConsumeMoves, VerifierMoves DEF Run

\* A request that starts is refused at once, or goes on.
LEMMA StartEffect ==
  ASSUME TypeInv, NEW r \in Reqs, Start(r)
  PROVE  /\ pc[r] = "idle" /\ pc'[r] \in {"lookup", "read", "done"}
         /\ resp'[r].code \notin {"ok", "created", "replayed", "empty200", "conflict"}
         /\ \A q \in Reqs \ {r} : pc'[q] = pc[q] /\ call'[q] = call[q] /\ resp'[q] = resp[q]
         /\ StoreUnchanged
         /\ UNCHANGED <<clock, cancelled, workerNow, accepted, spent>>
<1>1. /\ pc[r] = "idle"
      /\ StoreUnchanged
      /\ UNCHANGED <<clock, cancelled, workerNow, accepted, spent>>
      /\ \A q \in Reqs \ {r} : call'[q] = call[q]
  BY DEF Start, StartCreate, StartRead, StoreUnchanged, TypeInv, TypeOK
<1>2. resp[r] = NoResponse
  BY <1>1 DEF TypeInv, RequestsInv, ResponseOK
<1>3. ASSUME NEW l \in {"lookup", "read"}, Goto(r, l)
      PROVE  /\ pc'[r] \in {"lookup", "read", "done"}
             /\ resp'[r].code \notin {"ok", "created", "replayed", "empty200", "conflict"}
             /\ \A q \in Reqs \ {r} : pc'[q] = pc[q] /\ resp'[q] = resp[q]
  BY <1>2, <1>3, GotoEffect DEF NoResponse
<1>4. ASSUME NEW code, code \notin {"ok", "created", "replayed", "empty200", "conflict"}, Refuse(r, code)
      PROVE  /\ pc'[r] \in {"lookup", "read", "done"}
             /\ resp'[r].code \notin {"ok", "created", "replayed", "empty200", "conflict"}
             /\ \A q \in Reqs \ {r} : pc'[q] = pc[q] /\ resp'[q] = resp[q]
  <2>1. Answer(r, code, NoRecord, FALSE)
    BY <1>4 DEF Refuse
  <2>2. QED
    BY <1>4, <2>1, AnswerEffect
<1> DEFINE Begun ==
        \/ \E l \in {"lookup", "read"} : Goto(r, l)
        \/ \E code : code \notin {"ok", "created", "replayed", "empty200", "conflict"} /\ Refuse(r, code)
<1>5. Begun
  <2>1. ASSUME NEW k \in Keys, NEW b \in Bodies, NEW t \in AnyToken, NEW i \in Inputs,
               StartCreate(r, k, b, t, i)
        PROVE  Begun
    <3>1. CreateRefusal(b, i) \notin {"ok", "created", "replayed", "empty200", "conflict"}
      BY InputsAssumption DEF CreateRefusal, ReadErrors
    <3>2. QED
      BY <2>1, <3>1 DEF StartCreate
  <2>2. ASSUME NEW op \in {"get", "metadata", "access"}, NEW k \in Keys, NEW t \in AnyToken,
               NEW i \in Inputs, StartRead(r, op, k, t, i)
        PROVE  Begun
    <3>1. i \in {"ok", "malformed_key"} \cup ReadErrors
      BY InputsAssumption
    <3>2. Goto(r, "read") \/ Refuse(r, "not_found") \/ (i \in ReadErrors /\ Refuse(r, i))
      <4>1. i = "ok" => Goto(r, "read")
        BY <2>2 DEF StartRead
      <4>2. i = "malformed_key" => Refuse(r, "not_found")
        BY <2>2 DEF StartRead
      <4>3. i \notin {"ok", "malformed_key"} => Refuse(r, i)
        BY <2>2 DEF StartRead
      <4>4. QED
        BY <3>1, <4>1, <4>2, <4>3
    <3>3. QED
      BY <3>2 DEF ReadErrors
  <2>3. QED
    BY <2>1, <2>2 DEF Start
<1>6. QED
  BY <1>1, <1>3, <1>4, <1>5

\* The worker, the clock and the clients that go away.
LEMMA OtherEffect ==
  ASSUME TypeInv,
         \/ WorkerTick \/ WorkerRun \/ Tick
         \/ \E r \in Reqs : Cancel(r)
         \/ UNCHANGED vars
  PROVE  /\ UNCHANGED <<pc, call, resp, accepted, spent>>
         /\ StoreUnchanged \/ Sweeps
         /\ cancelled \subseteq cancelled'
         /\ clock <= clock'
         /\ workerNow <= clock => workerNow' <= clock'
<1>1. UNCHANGED <<pc, call, resp, accepted, spent>> /\ cancelled \subseteq cancelled'
  BY DEF WorkerTick, WorkerRun, Tick, Cancel, vars
<1>2. StoreUnchanged \/ Sweeps
  BY DEF WorkerTick, WorkerRun, Tick, Cancel, vars, StoreUnchanged, Sweeps, ExpiredBatches
<1>3. /\ clock \in Nat /\ workerNow \in Nat /\ clock >= 1
      /\ clock' = clock \/ clock' = clock + 1
      /\ workerNow' \in {workerNow, 0} \/ (workerNow' = clock /\ clock' = clock)
  BY ConfigAssumption DEF TypeInv, TypeOK, WorkerTick, WorkerRun, Tick, Cancel, vars
<1>4. QED
  BY <1>1, <1>2, <1>3

\* What no step undoes.
Stays ==
    /\ \A q \in Reqs : pc[q] /= "idle" => pc'[q] /= "idle" /\ call'[q] = call[q]
    /\ \A q \in Reqs : pc[q] = "done" => pc'[q] = "done" /\ resp'[q] = resp[q]
    /\ accepted \subseteq accepted' /\ cancelled \subseteq cancelled'
    /\ consumed \subseteq consumed' /\ swept \subseteq swept'
    /\ clock <= clock'

\* A request that has not started yet gets no success and no conflict.
Unstarted(r) ==
    pc[r] = "idle" => resp'[r].code \notin {"ok", "created", "replayed", "empty200", "conflict"}

\* One request at a time is answered.
OneAnswer == \A r, q \in Reqs : r /= q => resp'[r] = resp[r] \/ resp'[q] = resp[q]

LEMMA StepEffect ==
  ASSUME TypeInv, [Next]_vars
  PROVE  /\ Stays
         /\ OneAnswer
         /\ StoreUnchanged \/ Sweeps \/ \E r \in Reqs : Inserts(r) \/ Consumes(r)
         /\ \A r \in Reqs : Responds(r) /\ Unstarted(r)
         /\ workerNow <= clock => workerNow' <= clock'
<1> DEFINE Goal == /\ Stays
                   /\ OneAnswer
                   /\ StoreUnchanged \/ Sweeps \/ \E r \in Reqs : Inserts(r) \/ Consumes(r)
                   /\ \A r \in Reqs : Responds(r) /\ Unstarted(r)
                   /\ workerNow <= clock => workerNow' <= clock'
<1>1. \A r \in Reqs : pc[r] /= "done" => resp[r].code = "none"
  BY DEF TypeInv, RequestsInv, ResponseOK, NoResponse
<1>2. clock \in Nat
  BY ConfigAssumption DEF TypeInv, TypeOK
<1>3. (StoreUnchanged \/ Sweeps \/ \E r \in Reqs : Inserts(r) \/ Consumes(r))
        => consumed \subseteq consumed' /\ swept \subseteq swept'
  BY DEF StoreUnchanged, Sweeps, Inserts, Consumes
<1>4. ASSUME NEW r \in Reqs, Start(r) PROVE Goal
  <2>1. \A q \in Reqs : Responds(q) /\ Unstarted(q)
    BY <1>1, <1>4, StartEffect DEF Responds, Unstarted
  <2>2. QED
    BY <1>2, <1>3, <1>4, <2>1, StartEffect DEF Stays, OneAnswer
<1>5. ASSUME NEW r \in Reqs, Run(r) PROVE Goal
  <2>1. Moves(r)
    BY <1>5, RunMoves
  <2>2. \A q \in Reqs : Responds(q) /\ Unstarted(q)
    BY <1>1, <2>1 DEF Moves, Responds, Unstarted
  <2>3. QED
    BY <1>2, <1>3, <2>1, <2>2 DEF Moves, Stays, OneAnswer
<1>6. ASSUME \/ WorkerTick \/ WorkerRun \/ Tick
             \/ \E r \in Reqs : Cancel(r)
             \/ UNCHANGED vars
      PROVE  Goal
  <2>1. \A q \in Reqs : Responds(q) /\ Unstarted(q)
    BY <1>1, <1>6, OtherEffect DEF Responds, Unstarted
  <2>2. QED
    BY <1>3, <1>6, <2>1, OtherEffect DEF Stays, OneAnswer
<1>7. QED
  BY <1>4, <1>5, <1>6 DEF Next
------------------------------------------------------------------------------
\* The invariants, one after the other.

DurabilityInv == TypeInv /\ TokenInv /\ StoreInv /\ SweepInv /\ BurnInv /\ AckInv

LEMMA InitDurability == Init => DurabilityInv
<1> SUFFICES ASSUME Init PROVE DurabilityInv
  OBVIOUS
<1>1. StoreInv
  BY DEF Init, StoreInv
<1>2. SweepInv
  BY DEF Init, SweepInv
<1>3. BurnInv
  BY DEF Init, BurnInv, BurnDeliveredOnce, Delivered, NoResponse
<1>4. AckInv
  BY DEF Init, AckInv, NoResponse
<1>5. TokenInv
  BY DEF Init, TokenInv
<1>6. QED
  BY <1>1, <1>2, <1>3, <1>4, <1>5, InitTypeInv DEF DurabilityInv

\* A record that leaves the table is one of the table; one that enters is new.
LEMMA ConsumableFacts ==
  ASSUME TypeInv, NEW r \in Reqs, Consumes(r)
  PROVE  /\ call[r].key \in Keys
         /\ Consumable(r) = records[call[r].key]
         /\ Consumable(r) \in Record
<1>1. call[r] \in ReadCalls
  BY DEF Consumes, TypeInv, RequestsInv, RequestOK, HoldsRecord
<1>2. call[r].key \in Keys
  BY <1>1 DEF ReadCalls
<1>3. QED
  BY <1>1, <1>2, FoundFacts DEF Consumes, Consumable

LEMMA InsertFacts ==
  ASSUME TypeInv, NEW r \in Reqs, Inserts(r)
  PROVE  /\ call[r] \in CreateCalls /\ call[r].key \in Keys
         /\ New(r) \in Record /\ New(r).by = r /\ New(r).body = call[r].body
         /\ records'[call[r].key] = New(r)
         /\ \A k \in Keys \ {call[r].key} : records'[k] = records[k]
<1>1. call[r] \in CreateCalls
  BY DEF Inserts, TypeInv, RequestsInv, RequestOK
<1>2. call[r].key \in Keys
  BY <1>1 DEF CreateCalls
<1>3. New(r) \in Record /\ New(r).by = r /\ New(r).body = call[r].body
  BY <1>1, NewRecordType DEF New
<1> HIDE DEF New
<1>4. /\ records'[call[r].key] = New(r)
      /\ \A k \in Keys \ {call[r].key} : records'[k] = records[k]
  BY <1>2 DEF Inserts, Insert, TypeInv, TypeOK, Tables
<1>5. QED
  BY <1>1, <1>2, <1>3, <1>4

LEMMA StoreStep ==
  ASSUME TypeInv, StoreInv, TokenInv, Stays,
         StoreUnchanged \/ Sweeps \/ \E r \in Reqs : Inserts(r) \/ Consumes(r)
  PROVE  StoreInv'
<1>1. ASSUME NEW q \in Reqs, HasStored(q)
      PROVE  HasStored(q)' /\ call'[q] = call[q]
  BY <1>1 DEF HasStored, Stays
<1>2. \A k \in Keys : records[k] /= NoRecord => records[k] \in Record /\ records[k].by \in Reqs
  BY DEF TypeInv, TypeOK, Tables, Record
<1>3. \A e \in consumed \cup swept : e \in Record /\ e.by \in Reqs
  BY DEF TypeInv, TypeOK, Record
<1>4. CASE StoreUnchanged
  BY <1>1, <1>2, <1>3, <1>4 DEF StoreInv, StoreUnchanged
<1>5. ASSUME NEW r \in Reqs, Inserts(r) PROVE StoreInv'
  <2>1. HasStored(r)' /\ call'[r] = call[r]
    BY <1>5, InsertFacts DEF Inserts, HasStored, Stays, TokenInv
  <2>2. ASSUME NEW k \in Keys, records'[k] /= NoRecord
        PROVE  (HasStored(records[k].by) /\ call[records[k].by].key = k)'
    BY <1>1, <1>2, <1>5, <2>1, <2>2, InsertFacts DEF StoreInv
  <2>3. ASSUME NEW e \in consumed' \cup swept'
        PROVE  /\ HasStored(e.by)'
               /\ \A k \in Keys : records'[k] /= NoRecord => records'[k].by /= e.by
    <3>1. e \in consumed \cup swept
      BY <1>5 DEF Inserts
    <3>2. HasStored(e.by) /\ e.by \in Reqs /\ e.by /= r
      BY <1>3, <1>5, <3>1 DEF StoreInv, HasStored, Inserts
    <3>3. QED
      BY <1>1, <1>5, <3>1, <3>2, InsertFacts DEF StoreInv
  <2>4. QED
    BY <2>2, <2>3 DEF StoreInv
<1>6. ASSUME NEW S \in SUBSET Keys, records' = Delete(records, S),
             \A k \in S : records[k] /= NoRecord,
             \A e \in consumed' \cup swept' :
                 e \in consumed \cup swept \/ \E k \in S : e = records[k]
      PROVE  StoreInv'
  <2>1. \A k \in Keys : records'[k] = IF k \in S THEN NoRecord ELSE records[k]
    BY <1>6 DEF Delete
  <2>2. ASSUME NEW k \in Keys, records'[k] /= NoRecord
        PROVE  (HasStored(records[k].by) /\ call[records[k].by].key = k)'
    BY <1>1, <1>2, <2>1, <2>2 DEF StoreInv
  <2>3. ASSUME NEW e \in consumed' \cup swept'
        PROVE  /\ HasStored(e.by)'
               /\ \A k \in Keys : records'[k] /= NoRecord => records'[k].by /= e.by
    <3>1. CASE e \in consumed \cup swept
      BY <1>1, <1>3, <2>1, <3>1 DEF StoreInv
    <3>2. ASSUME NEW k \in S, e = records[k]
          PROVE  /\ HasStored(e.by)'
                 /\ \A l \in Keys : records'[l] /= NoRecord => records'[l].by /= e.by
      BY <1>1, <1>2, <1>6, <2>1, <3>2 DEF StoreInv
    <3>3. QED
      BY <1>6, <3>1, <3>2
  <2>4. QED
    BY <2>2, <2>3 DEF StoreInv
<1>7. ASSUME NEW r \in Reqs, Consumes(r) PROVE StoreInv'
  BY <1>6, <1>7, ConsumableFacts DEF Consumes
<1>8. CASE Sweeps
  <2>1. \A S \in SUBSET Expired(records, workerNow) :
            S \in SUBSET Keys /\ \A k \in S : records[k] /= NoRecord
    BY DEF Expired
  <2>2. QED
    BY <1>6, <1>8, <2>1 DEF Sweeps
<1>9. QED
  BY <1>4, <1>5, <1>7, <1>8

LEMMA TokenStep ==
  ASSUME TypeInv, TokenInv, [Next]_vars
  PROVE  TokenInv'
<1>1. Stays
  BY StepEffect
<1>2. accepted \subseteq Reqs
  BY DEF TypeInv, TypeOK
<1>3. ASSUME UNCHANGED <<spent, accepted>>,
             \A r \in Reqs : CreateCaptchaRequired /\ pc'[r] \in {"store", "replay"}
                                => pc[r] \in {"store", "replay"}
      PROVE  TokenInv'
  BY <1>1, <1>2, <1>3 DEF TokenInv, Stays
<1>4. ASSUME NEW r \in Reqs, Start(r) PROVE TokenInv'
  BY <1>3, <1>4, StartEffect
<1>5. ASSUME NEW r \in Reqs, Run(r), ~ProviderAnswer(r) PROVE TokenInv'
  <2>1. UNCHANGED <<spent, accepted>>
    BY <1>5 DEF Run, CreateLookup, CreateStore, CreateReplay, GetEnvelope, GetEnvelopeMetadata,
       AccessRead, AccessConsume, Verify
  <2>2. /\ \A q \in Reqs \ {r} : pc'[q] = pc[q]
        /\ pc[r] \notin {"idle", "done"}
    BY <1>5, RunMoves DEF Moves
  <2>3. CreateCaptchaRequired /\ pc'[r] \in {"store", "replay"} => pc[r] \in {"store", "replay"}
    <3>1. SUFFICES ASSUME CreateCaptchaRequired, pc[r] \notin {"store", "replay"}
                   PROVE  pc'[r] \notin {"store", "replay"}
      OBVIOUS
    <3>2. \/ \E l \in {"verify", "provider", "consume"} : Goto(r, l)
          \/ \E code, rec, u : Answer(r, code, rec, u)
      <4>1. CASE CreateLookup(r)
        BY <3>1, <4>1 DEF CreateLookup, AfterLookup, StoreFailure, Refuse
      <4>2. CASE GetEnvelope(r) \/ GetEnvelopeMetadata(r)
        BY <4>2 DEF GetEnvelope, GetEnvelopeMetadata, StoreFailure, Refuse
      <4>3. CASE AccessRead(r)
        BY <4>3 DEF AccessRead, StoreFailure, Refuse
      <4>4. CASE AccessConsume(r)
        BY <4>4 DEF AccessConsume, StoreFailure, Refuse
      <4>5. CASE Verify(r)
        BY <4>5 DEF Verify, Refuse
      <4>6. QED
        BY <1>5, <3>1, <4>1, <4>2, <4>3, <4>4, <4>5 DEF Run, CreateStore, CreateReplay
    <3>3. QED
      BY <3>2, GotoEffect, AnswerEffect
  <2>4. QED
    BY <1>3, <2>1, <2>2, <2>3
<1>6. ASSUME NEW r \in Reqs, ProviderAnswer(r) PROVE TokenInv'
  <2>1. pc[r] = "provider" /\ call' = call /\ \A q \in Reqs \ {r} : pc'[q] = pc[q]
    BY <1>6, RunMoves DEF Run, Moves, ProviderAnswer
  <2>2. CASE /\ call[r].token \notin spent
             /\ spent' = spent \cup {call[r].token}
             /\ accepted' = accepted \cup {r}
    BY <1>1, <1>2, <2>1, <2>2 DEF TokenInv, Stays
  <2>3. ASSUME NEW code, Refuse(r, code), spent \subseteq spent', UNCHANGED accepted
        PROVE  TokenInv'
    <3>1. pc'[r] = "done"
      BY <2>3, AnswerEffect DEF Refuse
    <3>2. QED
      BY <1>1, <1>2, <2>1, <2>3, <3>1 DEF TokenInv, Stays
  <2>4. QED
    BY <1>6, <2>2, <2>3 DEF ProviderAnswer
<1>7. CASE WorkerTick \/ WorkerRun \/ Tick \/ (\E r \in Reqs : Cancel(r)) \/ UNCHANGED vars
  BY <1>3, <1>7, OtherEffect
<1>8. QED
  BY <1>4, <1>5, <1>6, <1>7 DEF Next

LEMMA SweepStep ==
  ASSUME TypeInv, SweepInv, Stays, workerNow <= clock => workerNow' <= clock',
         StoreUnchanged \/ Sweeps \/ \E r \in Reqs : Inserts(r) \/ Consumes(r), TypeInv'
  PROVE  SweepInv'
<1>1. /\ clock \in Nat /\ clock' \in Nat /\ clock <= clock'
      /\ workerNow \in Nat /\ workerNow <= clock
  BY ConfigAssumption DEF TypeInv, TypeOK, Stays, SweepInv
<1>2. ASSUME NEW e \in Record, NEW now \in Nat, now <= clock', HasExpired(now, e.expiresAt)
      PROVE  HasExpired(clock', e.expiresAt)
  BY <1>1, <1>2 DEF HasExpired, Record
<1>3. ASSUME NEW e \in swept'
      PROVE  HasExpired(clock', e.expiresAt)
  <2>1. e \in Record
    BY <1>3 DEF TypeInv, TypeOK
  <2>2. CASE e \in swept
    BY <1>1, <1>2, <2>1, <2>2 DEF SweepInv
  <2>3. CASE e \notin swept
    <3>1. HasExpired(workerNow, e.expiresAt)
      BY <1>3, <2>3 DEF StoreUnchanged, Sweeps, Inserts, Consumes, Expired
    <3>2. QED
      BY <1>1, <1>2, <2>1, <3>1
  <2>4. QED
    BY <2>2, <2>3
<1>4. QED
  BY <1>3 DEF SweepInv

LEMMA BurnStep ==
  ASSUME TypeInv, StoreInv, BurnInv, Stays, OneAnswer,
         \A r \in Reqs : Responds(r) /\ Unstarted(r)
  PROVE  BurnInv'
<1>1. ASSUME NEW r \in Reqs, Delivered(r)', resp'[r] = resp[r]
      PROVE  Delivered(r)
  <2>1. pc[r] /= "idle"
    BY <1>1 DEF Unstarted, Delivered
  <2>2. QED
    BY <1>1, <2>1 DEF Delivered, Stays
<1>2. ASSUME NEW r \in Reqs, Delivered(r)', resp'[r] /= resp[r], resp'[r].rec.body.burn
      PROVE  Consumes(r) /\ resp'[r].rec = Consumable(r)
  <2>1. pc[r] /= "idle"
    BY <1>2 DEF Unstarted, Delivered
  <2>2. resp'[r].code = "ok" /\ call[r].op \in {"get", "access"}
    BY <1>2, <2>1 DEF Delivered, Stays
  <2>3. QED
    BY <1>2, <2>2 DEF Responds
<1>3. ASSUME NEW r \in Reqs, Delivered(r)', resp'[r].rec.body.burn
      PROVE  resp'[r].rec \in consumed'
  <2>1. CASE resp'[r] = resp[r]
    BY <1>1, <1>3, <2>1 DEF BurnInv, Stays
  <2>2. CASE resp'[r] /= resp[r]
    BY <1>2, <1>3, <2>2 DEF Consumes
  <2>3. QED
    BY <2>1, <2>2
<1>4. ASSUME NEW r \in Reqs, Consumes(r), NEW e \in consumed
      PROVE  e /= Consumable(r)
  BY <1>4, ConsumableFacts DEF Consumes, StoreInv
<1>5. ASSUME NEW r \in Reqs, NEW q \in Reqs, r /= q, Delivered(r)', Delivered(q)',
             resp'[r].rec.body.burn
      PROVE  resp'[r].rec /= resp'[q].rec
  <2>1. SUFFICES ASSUME resp'[r].rec = resp'[q].rec
                 PROVE  FALSE
    OBVIOUS
  <2>2. CASE resp'[r] = resp[r] /\ resp'[q] = resp[q]
    BY <1>1, <1>5, <2>1, <2>2 DEF BurnInv, BurnDeliveredOnce
  <2>3. CASE resp'[r] = resp[r] /\ resp'[q] /= resp[q]
    <3>1. resp'[r].rec \in consumed
      BY <1>1, <1>5, <2>3 DEF BurnInv
    <3>2. Consumes(q) /\ resp'[q].rec = Consumable(q)
      BY <1>2, <1>5, <2>1, <2>3
    <3>3. QED
      BY <1>4, <2>1, <3>1, <3>2
  <2>4. CASE resp'[r] /= resp[r] /\ resp'[q] = resp[q]
    <3>1. resp'[q].rec \in consumed
      BY <1>1, <1>5, <2>1, <2>4 DEF BurnInv
    <3>2. Consumes(r) /\ resp'[r].rec = Consumable(r)
      BY <1>2, <1>5, <2>4
    <3>3. QED
      BY <1>4, <2>1, <3>1, <3>2
  <2>5. QED
    BY <1>5, <2>2, <2>3, <2>4 DEF OneAnswer
<1>6. QED
  BY <1>3, <1>5 DEF BurnInv, BurnDeliveredOnce

\* A record that leaves the table is consumed or swept.
LEMMA LeavesOnRecord ==
  ASSUME TypeInv, StoreUnchanged \/ Sweeps \/ \E r \in Reqs : Inserts(r) \/ Consumes(r),
         NEW k \in Keys, NEW e \in Record, records[k] = e
  PROVE  records'[k] = e \/ e \in consumed' \cup swept'
<1>1. e /= NoRecord
  BY NoRecordAssumption
<1>2. CASE StoreUnchanged
  BY <1>2 DEF StoreUnchanged
<1>3. CASE Sweeps
  BY <1>3 DEF Sweeps, Delete
<1>4. ASSUME NEW r \in Reqs, Inserts(r) PROVE records'[k] = e
  BY <1>1, <1>4, InsertFacts DEF Inserts
<1>5. ASSUME NEW r \in Reqs, Consumes(r) PROVE records'[k] = e \/ e \in consumed'
  BY <1>5, ConsumableFacts DEF Consumes, Delete
<1>6. QED
  BY <1>2, <1>3, <1>4, <1>5

LEMMA AckStep ==
  ASSUME TypeInv, AckInv, Stays, \A r \in Reqs : Responds(r) /\ Unstarted(r),
         StoreUnchanged \/ Sweeps \/ \E r \in Reqs : Inserts(r) \/ Consumes(r)
  PROVE  AckInv'
<1>1. ASSUME NEW k \in Keys, NEW e \in Record, records[k] = e
      PROVE  records'[k] = e \/ e \in consumed' \cup swept'
  BY <1>1, LeavesOnRecord
<1>2. ASSUME NEW r \in Reqs, resp'[r].code = "empty200"
      PROVE  r \in cancelled'
  BY <1>2 DEF Responds, AckInv, Stays
<1>3. ASSUME NEW r \in Reqs, resp'[r].code \in {"created", "replayed"}
      PROVE  /\ call'[r] \in CreateCalls
             /\ resp'[r].rec \in Record
             /\ resp'[r].rec.body = call'[r].body
             /\ records'[call'[r].key] = resp'[r].rec \/ resp'[r].rec \in consumed' \cup swept'
  <2>1. call'[r] = call[r]
    BY <1>3 DEF Unstarted, Stays
  <2>2. CASE resp'[r] = resp[r]
    <3>1. /\ call[r] \in CreateCalls /\ call[r].key \in Keys
          /\ resp[r].rec \in Record /\ resp[r].rec.body = call[r].body
          /\ records[call[r].key] = resp[r].rec \/ resp[r].rec \in consumed \cup swept
      BY <1>3, <2>2 DEF AckInv, CreateCalls
    <3>2. QED
      BY <1>1, <2>1, <2>2, <3>1 DEF Stays
  <2>3. CASE resp'[r].code = "created" /\ resp'[r].rec = New(r) /\ Inserts(r)
    BY <2>1, <2>3, InsertFacts
  <2>4. CASE /\ call[r] \in CreateCalls /\ resp'[r].rec = records[call[r].key]
             /\ resp'[r].rec /= NoRecord /\ resp'[r].rec.body = call[r].body
             /\ StoreUnchanged
    <3>1. records[call[r].key] \in Record
      BY <2>4 DEF CreateCalls, TypeInv, TypeOK, Tables
    <3>2. QED
      BY <2>1, <2>4, <3>1 DEF StoreUnchanged
  <2>5. QED
    BY <1>3, <2>2, <2>3, <2>4 DEF Responds
<1>4. QED
  BY <1>2, <1>3 DEF AckInv

LEMMA NextDurability == DurabilityInv /\ [Next]_vars => DurabilityInv'
<1> SUFFICES ASSUME DurabilityInv, [Next]_vars PROVE DurabilityInv'
  OBVIOUS
<1> USE DEF DurabilityInv
<1>1. TypeInv'
  BY NextTypeInv
<1>2. /\ Stays /\ OneAnswer
      /\ StoreUnchanged \/ Sweeps \/ \E r \in Reqs : Inserts(r) \/ Consumes(r)
      /\ \A r \in Reqs : Responds(r) /\ Unstarted(r)
      /\ workerNow <= clock => workerNow' <= clock'
  BY StepEffect
<1>3. TokenInv'
  BY TokenStep
<1>4. StoreInv'
  BY <1>2, StoreStep
<1>5. SweepInv'
  BY <1>1, <1>2, SweepStep
<1>6. BurnInv'
  BY <1>2, BurnStep
<1>7. AckInv'
  BY <1>2, AckStep
<1>8. QED
  BY <1>1, <1>3, <1>4, <1>5, <1>6, <1>7

LEMMA Durability == Spec => []DurabilityInv
<1>1. QED
  BY InitDurability, NextDurability, PTL DEF Spec
------------------------------------------------------------------------------
\* A stored burn-after-read envelope reaches at most one client, for any number of
\* concurrent accesses and creates: a delivered one is consumed, and a consumed
\* record is never in the table again for another Consume to find.
THEOREM BurnedOnce == Spec => []BurnDeliveredOnce
<1>1. DurabilityInv => BurnDeliveredOnce
  BY DEF DurabilityInv, BurnInv
<1>2. QED
  BY <1>1, Durability, PTL

\* An acknowledged envelope is the client's own and stays until it is consumed or
\* has expired, also when SQL calls fail after taking effect: creates never
\* overwrite, Consume and the worker account for what they delete, and the worker
\* deletes by a time that is not ahead of the clock.
THEOREM AcknowledgedKept == Spec => []AckedDurable
<1>1. DurabilityInv => AckedDurable
  BY NoRecordAssumption DEF DurabilityInv, AckInv, SweepInv, AckedDurable, Acknowledged
<1>2. QED
  BY <1>1, Durability, PTL

\* With create CAPTCHAs required, each envelope ever stored was paid for by its own
\* accepted token.
THEOREM TokenPerEnvelope == Spec => []OneTokenOneEnvelope
<1>1. ASSUME DurabilityInv, CreateCaptchaRequired, NEW e \in EverStored
      PROVE  e.by \in accepted
  <2>1. CASE e \in Live
    BY <1>1, <2>1 DEF Live, DurabilityInv, StoreInv, HasStored
  <2>2. CASE e \in consumed \cup swept
    BY <1>1, <2>2 DEF DurabilityInv, StoreInv, HasStored
  <2>3. QED
    BY <2>1, <2>2 DEF EverStored
<1>2. DurabilityInv => OneTokenOneEnvelope
  BY <1>1 DEF OneTokenOneEnvelope, DurabilityInv, TokenInv
<1>3. QED
  BY <1>2, Durability, PTL

\* No step overwrites a stored envelope: what leaves a key leaves it empty.
THEOREM NeverOverwritten == Spec => StoredNeverOverwritten
<1> DEFINE Kept == \A k \in Keys : records[k] /= NoRecord => records'[k] \in {records[k], NoRecord}
<1>1. TypeInv /\ [Next]_vars => [Kept]_vars
  <2>1. SUFFICES ASSUME TypeInv, [Next]_vars, NEW k \in Keys, records[k] /= NoRecord
                 PROVE  records'[k] \in {records[k], NoRecord}
    OBVIOUS
  <2>2. StoreUnchanged \/ Sweeps \/ \E r \in Reqs : Inserts(r) \/ Consumes(r)
    BY <2>1, StepEffect
  <2>3. CASE StoreUnchanged
    BY <2>3 DEF StoreUnchanged
  <2>4. CASE Sweeps
    BY <2>4 DEF Sweeps, Delete
  <2>5. ASSUME NEW r \in Reqs, Inserts(r) PROVE records'[k] = records[k]
    BY <2>1, <2>5, InsertFacts DEF Inserts
  <2>6. ASSUME NEW r \in Reqs, Consumes(r) PROVE records'[k] \in {records[k], NoRecord}
    BY <2>6 DEF Consumes, Delete
  <2>7. QED
    BY <2>2, <2>3, <2>4, <2>5, <2>6
<1>2. QED
  BY <1>1, TypeInvariance, PTL DEF Spec, StoredNeverOverwritten

\* In memory one critical section decides: no request is between two statements, and
\* a conflict is answered while the other envelope is in the table.
ConflictInv == (\A r \in Reqs : pc[r] /= "replay") /\ ConflictMeansOther

ConflictsNow(r) ==
    /\ call[r] \in CreateCalls
    /\ records[call[r].key] /= NoRecord
    /\ records[call[r].key].body /= call[r].body
    /\ StoreUnchanged

LEMMA ConflictFacts ==
  ASSUME TypeInv, Backend = "memory", NEW r \in Reqs, Run(r), pc[r] /= "replay"
  PROVE  pc'[r] /= "replay" /\ (resp'[r].code = "conflict" => ConflictsNow(r))
<1> DEFINE Harmless ==
        \/ \E l \in {"verify", "provider", "store", "consume"} : Goto(r, l)
        \/ \E code, rec, u : code /= "conflict" /\ Answer(r, code, rec, u)
<1>1. Harmless \/ (Answer(r, "conflict", NoRecord, FALSE) /\ ConflictsNow(r))
  <2>1. CASE CreateLookup(r)
    <3>1. call[r] \in CreateCalls /\ StoreUnchanged
      BY <2>1 DEF CreateLookup, TypeInv, RequestsInv, RequestOK, StoreUnchanged
    <3>2. QED
      BY <2>1, <3>1 DEF CreateLookup, AfterLookup, StoreFailure, Refuse, SameRequest,
         ConflictsNow, Visible
  <2>2. CASE CreateStore(r)
    <3>1. call[r] \in CreateCalls /\ UNCHANGED <<consumed, swept>>
      BY <2>2 DEF CreateStore, TypeInv, RequestsInv, RequestOK
    <3>2. QED
      BY <2>2, <3>1 DEF CreateStore, KeyTaken, StoreFailure, Refuse, SameRequest,
         ConflictsNow, StoreUnchanged
  <2>3. CASE GetEnvelope(r) \/ GetEnvelopeMetadata(r)
    BY <2>3 DEF GetEnvelope, GetEnvelopeMetadata, StoreFailure, Refuse
  <2>4. CASE AccessRead(r)
    BY <2>4 DEF AccessRead, StoreFailure, Refuse
  <2>5. CASE AccessConsume(r)
    BY <2>5 DEF AccessConsume, StoreFailure, Refuse
  <2>6. CASE Verify(r)
    BY <2>6 DEF Verify, Refuse
  <2>7. CASE ProviderAnswer(r)
    BY <2>7 DEF ProviderAnswer, AfterVerify, VerifyErrorCode, Refuse
  <2>8. QED
    BY <2>1, <2>2, <2>3, <2>4, <2>5, <2>6, <2>7 DEF Run, CreateReplay
<1>2. pc[r] /= "done"
  BY RunMoves DEF Moves
<1>3. resp[r].code = "none"
  BY <1>2 DEF TypeInv, RequestsInv, ResponseOK, NoResponse
<1>4. QED
  BY <1>1, <1>3, GotoEffect, AnswerEffect

\* What is stored stays on record, and so does the key it was stored under.
LEMMA EverStoredGrows ==
  ASSUME DurabilityInv, [Next]_vars, NEW e \in EverStored
  PROVE  e \in EverStored' /\ call'[e.by] = call[e.by]
<1>1. TypeInv /\ StoreInv /\ Stays
  BY StepEffect DEF DurabilityInv
<1>2. HasStored(e.by) /\ e.by \in Reqs /\ e \in Record
  BY <1>1 DEF EverStored, Live, StoreInv, TypeInv, TypeOK, Tables, Record
<1>3. call'[e.by] = call[e.by]
  BY <1>1, <1>2 DEF HasStored, Stays
<1>4. CASE e \in consumed \cup swept
  BY <1>1, <1>3, <1>4 DEF Stays, EverStored
<1>5. CASE e \in Live
  <2>1. PICK k \in Keys : e = records[k] /\ e /= NoRecord
    BY <1>5 DEF Live
  <2>2. records'[k] = e \/ e \in consumed' \cup swept'
    BY <1>1, <1>2, <2>1, LeavesOnRecord, StepEffect
  <2>3. QED
    BY <1>3, <2>1, <2>2 DEF EverStored, Live
<1>6. QED
  BY <1>4, <1>5 DEF EverStored

\* In the memory backend a create is refused as a conflict only if a different
\* envelope was really stored under its key, by whatever interleaving of creates,
\* accesses and cleanups.
THEOREM ConflictIsReal == ASSUME Backend = "memory" PROVE Spec => []ConflictMeansOther
<1>1. Init => ConflictInv
  BY DEF Init, ConflictInv, ConflictMeansOther, NoResponse
<1>2. ASSUME DurabilityInv, ConflictInv, [Next]_vars PROVE ConflictInv'
  <2>1. TypeInv /\ Stays /\ OneAnswer /\ \A q \in Reqs : Unstarted(q)
    BY <1>2, StepEffect DEF DurabilityInv
  <2>2. ASSUME NEW q \in Reqs
        PROVE  /\ pc'[q] /= "replay"
               /\ resp'[q].code = "conflict" =>
                     resp[q].code = "conflict" \/ (pc[q] /= "idle" /\ ConflictsNow(q))
    <3>1. pc[q] /= "replay"
      BY <1>2 DEF ConflictInv
    <3>2. ASSUME NEW r \in Reqs, Start(r)
          PROVE  pc'[q] /= "replay" /\ (resp'[q].code = "conflict" => resp[q].code = "conflict")
      BY <2>1, <3>1, <3>2, StartEffect
    <3>3. ASSUME NEW r \in Reqs, Run(r)
          PROVE  /\ pc'[q] /= "replay"
                 /\ resp'[q].code = "conflict" =>
                       resp[q].code = "conflict" \/ (pc[q] /= "idle" /\ ConflictsNow(q))
      BY <2>1, <3>1, <3>3, RunMoves, ConflictFacts DEF Moves
    <3>4. CASE WorkerTick \/ WorkerRun \/ Tick \/ (\E r \in Reqs : Cancel(r)) \/ UNCHANGED vars
      BY <2>1, <3>1, <3>4, OtherEffect
    <3>5. QED
      BY <1>2, <3>2, <3>3, <3>4 DEF Next
  <2>3. ASSUME NEW q \in Reqs, resp'[q].code = "conflict"
        PROVE  \E e \in EverStored' : call'[e.by].key = call'[q].key /\ e.body /= call'[q].body
    <3>1. pc[q] /= "idle" /\ call'[q] = call[q]
      BY <2>1, <2>2, <2>3 DEF TypeInv, RequestsInv, ResponseOK, NoResponse, Stays
    <3>2. PICK e \in EverStored : call[e.by].key = call[q].key /\ e.body /= call[q].body
      <4>1. CASE resp[q].code = "conflict"
        BY <1>2, <4>1 DEF ConflictInv, ConflictMeansOther
      <4>2. CASE ConflictsNow(q)
        <5>1. call[q].key \in Keys
          BY <4>2 DEF ConflictsNow, CreateCalls
        <5>2. QED
          BY <1>2, <4>2, <5>1 DEF ConflictsNow, EverStored, Live, DurabilityInv, StoreInv
      <4>3. QED
        BY <2>2, <2>3, <4>1, <4>2
    <3>3. e \in EverStored' /\ call'[e.by] = call[e.by]
      BY <1>2, EverStoredGrows
    <3>4. QED
      BY <3>1, <3>2, <3>3
  <2>4. QED
    BY <2>2, <2>3 DEF ConflictInv, ConflictMeansOther
<1>3. ConflictInv => ConflictMeansOther
  BY DEF ConflictInv
<1>4. QED
  BY <1>1, <1>2, <1>3, Durability, PTL DEF Spec
------------------------------------------------------------------------------
\* The refinement of LinkService.

\* What a request has found and proved, by its label: nothing before it reads, a
\* burn-after-reading record when it consumes, and no accepted token before the
\* provider's answer.
FoundInv ==
    \A r \in Reqs :
        /\ pc[r] \in {"idle", "read"} => seen[r] = NoRecord
        /\ pc[r] = "consume" => seen[r].body.burn
        /\ pc[r] \in {"idle", "lookup", "read", "verify", "provider"} => r \notin accepted

LEMMA FoundStep ==
  ASSUME TypeInv, FoundInv, [Next]_vars
  PROVE  FoundInv'
<1>1. /\ pc \in [Reqs -> Labels] /\ seen \in [Reqs -> Record \cup {NoRecord}]
  BY DEF TypeInv, TypeOK
<1>2. ASSUME NEW r \in Reqs, Start(r) PROVE FoundInv'
  <2>1. UNCHANGED <<seen, accepted>>
    BY <1>2 DEF Start, StartCreate, StartRead
  <2>2. QED
    BY <1>2, <2>1, StartEffect DEF FoundInv
<1>3. ASSUME NEW r \in Reqs, Run(r) PROVE FoundInv'
  <2> DEFINE Own == /\ pc'[r] \in {"idle", "read"} => seen'[r] = NoRecord
                    /\ pc'[r] = "consume" => seen'[r].body.burn
                    /\ pc'[r] \in {"idle", "lookup", "read", "verify", "provider"} => r \notin accepted'
             Else == \A q \in Reqs \ {r} : seen'[q] = seen[q] /\ (q \in accepted' <=> q \in accepted)
  <2>0. SUFFICES Own /\ Else
    <3>1. \A q \in Reqs \ {r} : pc'[q] = pc[q]
      BY <1>3, RunMoves DEF Moves
    <3>2. QED
      BY <3>1 DEF FoundInv
  <2>1. CASE CreateLookup(r) \/ CreateStore(r) \/ CreateReplay(r)
    <3>1. /\ pc[r] \in {"lookup", "store", "replay"}
          /\ pc'[r] \in {"verify", "store", "replay", "done"}
          /\ pc[r] = "store" => pc'[r] \in {"replay", "done"}
          /\ pc[r] = "replay" => pc'[r] = "done"
          /\ UNCHANGED <<seen, accepted>>
      BY <1>1, <2>1 DEF CreateLookup, CreateStore, CreateReplay, AfterLookup, StoreFailure, Refuse,
         Answer, Goto
    <3>2. QED
      BY <3>1 DEF FoundInv
  <2>2. CASE GetEnvelope(r) \/ GetEnvelopeMetadata(r) \/ AccessConsume(r)
    <3>1. pc'[r] = "done" /\ UNCHANGED <<seen, accepted>>
      BY <1>1, <2>2 DEF GetEnvelope, GetEnvelopeMetadata, AccessConsume, StoreFailure, Refuse, Answer
    <3>2. QED
      BY <3>1
  <2>3. CASE AccessRead(r)
    <3>1. /\ pc[r] = "read" /\ UNCHANGED accepted
          /\ \A q \in Reqs \ {r} : seen'[q] = seen[q]
          /\ \/ pc'[r] \in {"verify", "done"}
             \/ pc'[r] = "consume" /\ seen'[r].body.burn
      BY <1>1, <2>3 DEF AccessRead, StoreFailure, Refuse, Answer, Goto
    <3>2. QED
      BY <3>1 DEF FoundInv
  <2>4. CASE Verify(r)
    <3>1. pc[r] = "verify" /\ pc'[r] \in {"provider", "done"} /\ UNCHANGED <<seen, accepted>>
      BY <1>1, <2>4 DEF Verify, Refuse, Answer, Goto
    <3>2. QED
      BY <3>1 DEF FoundInv
  <2>5. CASE ProviderAnswer(r)
    <3>1. /\ UNCHANGED seen
          /\ accepted' \in {accepted, accepted \cup {r}}
          /\ pc'[r] \in {"store", "done"} \/ (pc'[r] = "consume" /\ seen[r].body.burn)
      BY <1>1, <2>5 DEF ProviderAnswer, AfterVerify, Refuse, Answer, Goto
    <3>2. QED
      BY <3>1
  <2>6. QED
    BY <1>3, <2>1, <2>2, <2>3, <2>4, <2>5 DEF Run
<1>4. CASE WorkerTick \/ WorkerRun \/ Tick \/ (\E r \in Reqs : Cancel(r)) \/ UNCHANGED vars
  <2>1. UNCHANGED <<pc, seen, accepted>>
    BY <1>4 DEF WorkerTick, WorkerRun, Tick, Cancel, vars
  <2>2. QED
    BY <2>1 DEF FoundInv
<1>5. QED
  BY <1>2, <1>3, <1>4 DEF Next

LinkInv == DurabilityInv /\ FoundInv

LEMMA LinkInvariance == Spec => []LinkInv
<1>1. Init => LinkInv
  BY InitDurability DEF Init, LinkInv, FoundInv
<1>2. LinkInv /\ [Next]_vars => LinkInv'
  BY NextDurability, FoundStep DEF LinkInv, DurabilityInv
<1>3. QED
  BY <1>1, <1>2, PTL DEF Spec

\* How a request's step looks to LinkService.
LEMMA AnswerMaps ==
  ASSUME TypeInv, NEW r \in Reqs, pc[r] \notin {"idle", "done"}, UNCHANGED call,
         NEW code, NEW rec, NEW u \in BOOLEAN, Answer(r, code, rec, u)
  PROVE  /\ r \notin Responded /\ Responded' = Responded \cup {r}
         /\ Unlocked' = IF u THEN Unlocked \cup {r} ELSE Unlocked
         /\ Handed' = IF code = "ok" /\ call[r].op \in {"get", "access"}
                      THEN [Handed EXCEPT ![r] = rec] ELSE Handed
<1>1. /\ pc \in [Reqs -> Labels] /\ resp \in [Reqs -> Responses]
      /\ resp[r] = NoResponse
  BY DEF TypeInv, TypeOK, RequestsInv, ResponseOK
<1>2. /\ pc'[r] = "done" /\ resp'[r] = [code |-> code, rec |-> rec, unlocked |-> u]
      /\ \A q \in Reqs \ {r} : pc'[q] = pc[q] /\ resp'[q] = resp[q]
  BY <1>1 DEF Answer
<1>3. r \notin Responded /\ Responded' = Responded \cup {r}
  BY <1>2 DEF Responded
<1>4. Unlocked' = IF u THEN Unlocked \cup {r} ELSE Unlocked
  BY <1>1, <1>2 DEF Unlocked, NoResponse
<1>5. Handed' = IF code = "ok" /\ call[r].op \in {"get", "access"}
                THEN [Handed EXCEPT ![r] = rec] ELSE Handed
  BY <1>1, <1>2 DEF Handed, Delivered, NoResponse
<1>6. QED
  BY <1>3, <1>4, <1>5

LEMMA GotoMaps ==
  ASSUME TypeInv, NEW r \in Reqs, pc[r] \notin {"idle", "done"}, UNCHANGED call,
         NEW l, l /= "done", Goto(r, l)
  PROVE  r \notin Responded /\ UNCHANGED <<Responded, Unlocked, Handed>>
<1>1. pc'[r] = l /\ resp' = resp /\ \A q \in Reqs \ {r} : pc'[q] = pc[q]
  BY GotoEffect
<1>2. QED
  BY <1>1 DEF Responded, Unlocked, Handed, Delivered

\* An answer that hands out no envelope.
LEMMA QuietMaps ==
  ASSUME TypeInv, NEW r \in Reqs, pc[r] \notin {"idle", "done"},
         UNCHANGED <<clock, records, call, accepted, seen>>,
         NEW code, NEW rec, Answer(r, code, rec, FALSE),
         code /= "ok" \/ call[r].op = "metadata"
  PROVE  Links!GiveUp(r)
<1>1. call[r].op /= "none"
  BY DEF TypeInv, RequestsInv, RequestOK, CreateCalls, ReadCalls
<1>2. r \notin Responded /\ Responded' = Responded \cup {r} /\ UNCHANGED <<Unlocked, Handed>>
  BY AnswerMaps
<1>3. QED
  BY <1>1, <1>2 DEF Links!GiveUp, Links!Answers

LEMMA StutterMaps ==
  ASSUME TypeInv, NEW r \in Reqs, pc[r] \notin {"idle", "done"},
         UNCHANGED <<clock, records, call, accepted, seen>>,
         NEW l, l /= "done", Goto(r, l)
  PROVE  UNCHANGED Links!vars
<1>1. UNCHANGED <<Responded, Unlocked, Handed>>
  BY GotoMaps
<1>2. QED
  BY <1>1 DEF Links!vars

LEMMA StartMaps ==
  ASSUME LinkInv, NEW r \in Reqs, Start(r)
  PROVE  Links!Ask(r)
<1>1. TypeInv /\ clock \in 1 .. MaxTime /\ pc[r] = "idle" /\ resp[r] = NoResponse /\ call[r].op = "none"
  <2>1. TypeInv /\ pc[r] = "idle"
    BY StartEffect DEF LinkInv, DurabilityInv
  <2>2. QED
    BY <2>1 DEF TypeInv, TypeOK, RequestsInv, RequestOK, ResponseOK, NoCall
<1> DEFINE Begun == (\E l \in {"lookup", "read"} : Goto(r, l)) \/ (\E code : Refuse(r, code))
           Asked == \E c \in CreateCalls \cup ReadCalls :
                        c.now = clock /\ call' = [call EXCEPT ![r] = c]
<1>2. Begun /\ Asked /\ UNCHANGED <<clock, records, accepted, seen>>
  <2>1. ASSUME NEW k \in Keys, NEW b \in Bodies, NEW t \in AnyToken, NEW i \in Inputs,
               StartCreate(r, k, b, t, i)
        PROVE  Begun /\ Asked /\ UNCHANGED <<clock, records, accepted, seen>>
    <3>1. [op |-> "create", key |-> k, body |-> b, token |-> t, now |-> clock] \in CreateCalls
      BY <1>1 DEF CreateCalls
    <3>2. QED
      BY <2>1, <3>1 DEF StartCreate
  <2>2. ASSUME NEW op \in {"get", "metadata", "access"}, NEW k \in Keys, NEW t \in AnyToken,
               NEW i \in Inputs, StartRead(r, op, k, t, i)
        PROVE  Begun /\ Asked /\ UNCHANGED <<clock, records, accepted, seen>>
    <3>1. [op |-> op, key |-> k, token |-> t, now |-> clock] \in ReadCalls
      BY <1>1 DEF ReadCalls
    <3>2. Begun
      BY <2>2 DEF StartRead
    <3>3. QED
      BY <2>2, <3>1, <3>2 DEF StartRead
  <2>3. QED
    BY <2>1, <2>2 DEF Start
<1>3. resp'[r].unlocked = FALSE
  BY <1>1, <1>2 DEF Refuse, Answer, Goto, NoResponse, TypeInv, TypeOK
<1>4. /\ resp'[r].code /= "ok" /\ pc'[r] \in {"lookup", "read", "done"}
      /\ \A q \in Reqs \ {r} : pc'[q] = pc[q] /\ call'[q] = call[q] /\ resp'[q] = resp[q]
  BY <1>1, StartEffect
<1>5. /\ Responded' \in {Responded, Responded \cup {r}}
      /\ Unlocked' = Unlocked
  BY <1>1, <1>3, <1>4 DEF Responded, Unlocked, NoResponse
<1>6. Handed' = Handed
  BY <1>1, <1>4 DEF Handed, Delivered, NoResponse
<1>7. QED
  BY <1>1, <1>2, <1>5, <1>6 DEF Links!Ask, Links!Answers

\* The lookups of a create leave nothing behind.
LEMMA LookupMaps ==
  ASSUME LinkInv, NEW r \in Reqs, CreateLookup(r) \/ CreateReplay(r)
  PROVE  Links!GiveUp(r) \/ UNCHANGED Links!vars
<1>1. TypeInv /\ pc[r] \notin {"idle", "done"} /\ UNCHANGED <<clock, records, call, accepted, seen>>
  BY DEF CreateLookup, CreateReplay, LinkInv, DurabilityInv
<1>2. \/ \E l \in {"verify", "store"} : Goto(r, l)
      \/ \E rec : \E code \in {"internal", "replayed", "conflict", "feature_unavailable",
                               "captcha_required", "invalid_request"} :
             Answer(r, code, rec, FALSE)
  BY DEF CreateLookup, CreateReplay, AfterLookup, StoreFailure, Refuse
<1>3. QED
  BY <1>1, <1>2, QuietMaps, StutterMaps

\* The insert publishes, also when its acknowledgement is lost.
LEMMA StoreMaps ==
  ASSUME LinkInv, NEW r \in Reqs, CreateStore(r)
  PROVE  Links!Publish(r) \/ Links!GiveUp(r) \/ UNCHANGED Links!vars
<1>1. /\ TypeInv /\ pc[r] = "store" /\ call[r] \in CreateCalls
      /\ UNCHANGED <<clock, call, accepted, seen>>
      /\ CreateCaptchaRequired => r \in accepted
  BY DEF CreateStore, LinkInv, DurabilityInv, TokenInv, TypeInv, RequestsInv, RequestOK
<1>2. CASE /\ UNCHANGED records
           /\ \/ Goto(r, "replay")
              \/ \E rec : \E code \in {"internal", "replayed", "conflict"} : Answer(r, code, rec, FALSE)
  BY <1>1, <1>2, QuietMaps, StutterMaps
<1>3. CASE /\ records[call[r].key] = NoRecord /\ records' = Insert(records, call[r].key, New(r))
           /\ \E rec : \E code \in {"created", "internal"} : Answer(r, code, rec, FALSE)
  <2>1. r \notin Responded /\ Responded' = Responded \cup {r} /\ UNCHANGED <<Unlocked, Handed>>
    BY <1>1, <1>3, AnswerMaps
  <2>2. call[r].op = "create" /\ New(r) = Links!Link(r)
    BY <1>1 DEF CreateCalls, New, ExpirationTime, NoExpiry, Links!Link, Links!NoExpiry
  <2>3. QED
    BY <1>1, <1>3, <2>1, <2>2 DEF Insert, Links!Insert, Links!Publish, Links!Waiting,
       Links!Answers
<1>4. QED
  <2>1. \/ /\ UNCHANGED records
           /\ \/ Goto(r, "replay")
              \/ \E rec : \E code \in {"internal", "replayed", "conflict"} : Answer(r, code, rec, FALSE)
        \/ /\ records[call[r].key] = NoRecord /\ records' = Insert(records, call[r].key, New(r))
           /\ \E rec : \E code \in {"created", "internal"} : Answer(r, code, rec, FALSE)
    BY DEF CreateStore, KeyTaken, StoreFailure, Refuse, New
  <2>2. QED
    BY <1>2, <1>3, <2>1

\* What the handlers' lookups and Consume find is what LinkService has there.
LEMMA ThereFacts ==
  ASSUME NEW r
  PROVE  /\ Links!There(r) = Visible(records, call[r].key, call[r].now)
         /\ Links!There(r) = Consumable(r)
  BY DEF Links!There, Links!Visible, Links!HasExpired, Links!NoExpiry, Visible, HasExpired, NoExpiry,
     Consumable

LEMMA ReadMaps ==
  ASSUME LinkInv, NEW r \in Reqs, GetEnvelope(r) \/ GetEnvelopeMetadata(r)
  PROVE  Links!Read(r) \/ Links!GiveUp(r)
<1> DEFINE there == Visible(records, call[r].key, call[r].now)
<1>1. TypeInv /\ pc[r] \notin {"idle", "done"} /\ UNCHANGED <<clock, records, call, accepted, seen>>
  BY DEF GetEnvelope, GetEnvelopeMetadata, LinkInv, DurabilityInv
<1>2. \/ \E code \in {"internal", "not_found", "access_required"} : Answer(r, code, NoRecord, FALSE)
      \/ call[r].op = "metadata" /\ Answer(r, "ok", there, FALSE)
      \/ /\ call[r].op = "get" /\ there /= NoRecord /\ ~there.body.captcha /\ ~there.body.burn
         /\ Answer(r, "ok", there, FALSE)
  BY DEF GetEnvelope, GetEnvelopeMetadata, StoreFailure, Refuse
<1> HIDE DEF there
<1>3. CASE /\ call[r].op = "get" /\ there /= NoRecord /\ ~there.body.captcha /\ ~there.body.burn
           /\ Answer(r, "ok", there, FALSE)
  <2>1. /\ r \notin Responded /\ Responded' = Responded \cup {r} /\ Unlocked' = Unlocked
        /\ Handed' = [Handed EXCEPT ![r] = there]
    BY <1>1, <1>3, AnswerMaps
  <2>2. Links!There(r) = there
    BY ThereFacts DEF there
  <2>3. QED
    BY <1>1, <1>3, <2>1, <2>2 DEF Links!Read, Links!Waiting, Links!Hand, Links!Answers
<1>4. QED
  BY <1>1, <1>2, <1>3, QuietMaps

\* The Get of an access decides which record the access is about.
LEMMA AccessReadMaps ==
  ASSUME LinkInv, NEW r \in Reqs, AccessRead(r)
  PROVE  Links!Find(r) \/ Links!GiveUp(r)
<1> DEFINE there == Visible(records, call[r].key, call[r].now)
<1>1. /\ TypeInv /\ pc[r] = "read" /\ call[r].op = "access" /\ seen[r] = NoRecord
      /\ UNCHANGED <<clock, records, call, accepted>>
  BY DEF AccessRead, LinkInv, DurabilityInv, FoundInv
<1>2. \/ UNCHANGED seen /\ Answer(r, "internal", NoRecord, FALSE)
      \/ /\ seen' = [seen EXCEPT ![r] = there]
         /\ there = NoRecord => Answer(r, "not_found", NoRecord, FALSE)
         /\ \/ \E code \in {"not_found", "invalid_request"} : Answer(r, code, NoRecord, FALSE)
            \/ \E l \in {"verify", "consume"} : Goto(r, l)
  BY DEF AccessRead, StoreFailure, Refuse
<1> HIDE DEF there
<1>3. CASE UNCHANGED seen /\ Answer(r, "internal", NoRecord, FALSE)
  BY <1>1, <1>3, QuietMaps
<1>4. CASE /\ there = NoRecord /\ seen' = [seen EXCEPT ![r] = there]
           /\ Answer(r, "not_found", NoRecord, FALSE)
  <2>1. UNCHANGED seen
    BY <1>1, <1>4 DEF TypeInv, TypeOK
  <2>2. QED
    BY <1>1, <1>4, <2>1, QuietMaps
<1>5. CASE /\ there /= NoRecord /\ seen' = [seen EXCEPT ![r] = there]
           /\ \/ \E code \in {"not_found", "invalid_request"} : Answer(r, code, NoRecord, FALSE)
              \/ \E l \in {"verify", "consume"} : Goto(r, l)
  <2>1. ASSUME NEW code \in {"not_found", "invalid_request"}, Answer(r, code, NoRecord, FALSE)
        PROVE  r \notin Responded /\ Responded' = Responded \cup {r} /\ UNCHANGED <<Unlocked, Handed>>
    BY <1>1, <2>1, AnswerMaps
  <2>2. ASSUME NEW l \in {"verify", "consume"}, Goto(r, l)
        PROVE  r \notin Responded /\ UNCHANGED <<Responded, Unlocked, Handed>>
    BY <1>1, <2>2, GotoMaps
  <2>3. Links!There(r) = there
    BY ThereFacts DEF there
  <2>4. QED
    BY <1>1, <1>5, <2>1, <2>2, <2>3 DEF Links!Find, Links!Waiting, Links!Answers
<1>6. QED
  BY <1>2, <1>3, <1>4, <1>5

\* Consume takes the record for this access alone, whether or not it arrives.
LEMMA ConsumeMaps ==
  ASSUME LinkInv, NEW r \in Reqs, AccessConsume(r)
  PROVE  Links!Take(r) \/ Links!GiveUp(r)
<1>1. /\ TypeInv /\ pc[r] = "consume" /\ call[r].op = "access"
      /\ seen[r] \in Record /\ seen[r].body.burn
      /\ seen[r].body.captcha => r \in accepted
      /\ UNCHANGED <<clock, call, accepted, seen>>
  BY DEF AccessConsume, LinkInv, DurabilityInv, FoundInv, TypeInv, RequestsInv, RequestOK, HoldsRecord
<1>2. seen[r] /= NoRecord /\ seen[r].body.captcha \in BOOLEAN
  BY <1>1, NoRecordAssumption, BodyTypes DEF Record
<1>3. CASE UNCHANGED records /\ \E code \in {"internal", "not_found"} : Answer(r, code, NoRecord, FALSE)
  BY <1>1, <1>3, QuietMaps
<1>4. CASE /\ Consumable(r) /= NoRecord /\ records' = Delete(records, {call[r].key})
           /\ \/ Answer(r, "internal", NoRecord, FALSE)
              \/ /\ seen[r].body.captcha => Consumable(r).body.captcha
                 /\ Answer(r, "ok", Consumable(r), seen[r].body.captcha)
  <2>1. /\ Links!There(r) /= NoRecord /\ Links!There(r) = Consumable(r)
        /\ records' = Links!Delete(records, {call[r].key})
    BY <1>4, ThereFacts DEF Delete, Links!Delete
  <2>2. ASSUME NEW code, code /= "ok", Answer(r, code, NoRecord, FALSE)
        PROVE  Links!Take(r)
    <3>1. r \notin Responded /\ Responded' = Responded \cup {r} /\ UNCHANGED <<Handed, Unlocked>>
      BY <1>1, <2>2, AnswerMaps
    <3>2. QED
      BY <1>1, <1>2, <2>1, <3>1 DEF Links!Take, Links!Waiting, Links!Answers
  <2>3. ASSUME NEW u \in BOOLEAN, u = seen[r].body.captcha, u => Consumable(r).body.captcha,
               Answer(r, "ok", Consumable(r), u)
        PROVE  Links!Take(r)
    <3>1. /\ r \notin Responded /\ Responded' = Responded \cup {r}
          /\ Handed' = [Handed EXCEPT ![r] = Consumable(r)]
          /\ Unlocked' = IF u THEN Unlocked \cup {r} ELSE Unlocked
      BY <1>1, <2>3, AnswerMaps
    <3>2. Links!Hand(r, Links!There(r), seen[r].body.captcha)
      BY <2>1, <2>3, <3>1 DEF Links!Hand, Links!Answers
    <3>3. QED
      BY <1>1, <1>2, <2>1, <3>1, <3>2 DEF Links!Take, Links!Waiting
  <2>4. QED
    BY <1>2, <1>4, <2>2, <2>3
<1>5. QED
  <2>1. \/ UNCHANGED records /\ \E code \in {"internal", "not_found"} : Answer(r, code, NoRecord, FALSE)
        \/ /\ Consumable(r) /= NoRecord /\ records' = Delete(records, {call[r].key})
           /\ \/ Answer(r, "internal", NoRecord, FALSE)
              \/ /\ seen[r].body.captcha => Consumable(r).body.captcha
                 /\ Answer(r, "ok", Consumable(r), seen[r].body.captcha)
    BY DEF AccessConsume, UnlocksKey, StoreFailure, Refuse
  <2>2. QED
    BY <1>3, <1>4, <2>1

\* An accepted token is a solved CAPTCHA; every other answer of the verifier is a
\* refusal.
LEMMA VerifierMaps ==
  ASSUME LinkInv, NEW r \in Reqs, Verify(r) \/ ProviderAnswer(r)
  PROVE  Links!Verify(r) \/ Links!GiveUp(r) \/ UNCHANGED Links!vars
<1>1. /\ TypeInv /\ pc[r] \in {"verify", "provider"} /\ r \notin accepted
      /\ \/ call[r] \in CreateCalls
         \/ call[r].op = "access" /\ seen[r] \in Record /\ seen[r].body.captcha
      /\ UNCHANGED <<clock, records, call, seen>>
  BY DEF Verify, ProviderAnswer, LinkInv, DurabilityInv, FoundInv, TypeInv, RequestsInv, RequestOK,
     HoldsRecord
<1>2. CASE UNCHANGED accepted
  <2>1. \/ Goto(r, "provider")
        \/ \E code \in {"captcha_failed", "rate_limited", "dependency_unavailable", "internal",
                        "empty200"} : Answer(r, code, NoRecord, FALSE)
    BY <1>1, <1>2 DEF Verify, ProviderAnswer, VerifyErrorCode, Refuse
  <2>2. QED
    BY <1>1, <1>2, <2>1, QuietMaps, StutterMaps
<1>3. CASE accepted' = accepted \cup {r} /\ AfterVerify(r)
  <2>1. CASE call[r] \in CreateCalls
    <3>1. call[r].op = "create" /\ Goto(r, "store")
      BY <1>3, <2>1 DEF AfterVerify, CreateCalls
    <3>2. r \notin Responded /\ UNCHANGED <<Responded, Unlocked, Handed>>
      BY <1>1, <3>1, GotoMaps
    <3>3. QED
      BY <1>1, <1>3, <3>1, <3>2 DEF Links!Verify, Links!Waiting
  <2>2. CASE call[r].op = "access" /\ seen[r] \in Record /\ seen[r].body.captcha
    <3>1. seen[r] /= NoRecord
      BY <2>2, NoRecordAssumption
    <3>2. CASE seen[r].body.burn
      <4>1. Goto(r, "consume")
        BY <1>3, <2>2, <3>2 DEF AfterVerify
      <4>2. r \notin Responded /\ UNCHANGED <<Responded, Unlocked, Handed>>
        BY <1>1, <4>1, GotoMaps
      <4>3. QED
        BY <1>1, <1>3, <2>2, <3>1, <3>2, <4>2 DEF Links!Verify, Links!Waiting
    <3>3. CASE ~seen[r].body.burn
      <4>1. Answer(r, "ok", seen[r], TRUE)
        BY <1>3, <2>2, <3>3 DEF AfterVerify
      <4>2. /\ r \notin Responded /\ Responded' = Responded \cup {r}
            /\ Unlocked' = Unlocked \cup {r}
            /\ Handed' = [Handed EXCEPT ![r] = seen[r]]
        BY <1>1, <2>2, <4>1, AnswerMaps
      <4>3. QED
        BY <1>1, <1>3, <2>2, <3>1, <3>3, <4>2 DEF Links!Verify, Links!Waiting, Links!Hand,
           Links!Answers
    <3>4. QED
      BY <3>2, <3>3
  <2>3. QED
    BY <1>1, <2>1, <2>2
<1>4. QED
  BY <1>2, <1>3 DEF Verify, ProviderAnswer

\* A cleanup deletes by a time that is not ahead of the clock.
LEMMA WorkerMaps ==
  ASSUME LinkInv, WorkerRun
  PROVE  Links!Expire \/ UNCHANGED Links!vars
<1>1. /\ workerNow \in Nat /\ clock \in Nat /\ workerNow <= clock
      /\ records \in Tables
      /\ UNCHANGED <<clock, pc, call, seen, resp, accepted>>
  BY ConfigAssumption DEF WorkerRun, LinkInv, DurabilityInv, SweepInv, TypeInv, TypeOK
<1>2. UNCHANGED <<Handed, Unlocked, Responded>>
  BY <1>1 DEF Handed, Delivered, Unlocked, Responded
<1>3. CASE UNCHANGED records
  BY <1>1, <1>2, <1>3 DEF Links!vars
<1>4. ASSUME NEW S \in SUBSET Expired(records, workerNow), records' = Delete(records, S)
      PROVE  Links!Expire
  <2>1. ASSUME NEW k \in S PROVE k \in Links!Expired(records, clock)
    <3>1. k \in Keys /\ records[k] \in Record /\ HasExpired(workerNow, records[k].expiresAt)
      BY <1>1, <1>4, <2>1 DEF Expired, Tables
    <3>2. records[k] /= NoRecord /\ records[k].expiresAt \in Nat
      BY <3>1, NoRecordAssumption DEF Record
    <3>3. Links!HasExpired(clock, records[k].expiresAt)
      BY <1>1, <3>1, <3>2 DEF HasExpired, NoExpiry, Links!HasExpired, Links!NoExpiry
    <3>4. QED
      BY <3>1, <3>2, <3>3 DEF Links!Expired
  <2>2. records' = Links!Delete(records, S)
    BY <1>4 DEF Delete, Links!Delete
  <2>3. QED
    BY <1>1, <1>2, <2>1, <2>2 DEF Links!Expire
<1>5. QED
  BY <1>3, <1>4 DEF WorkerRun, ExpiredBatches

LEMMA OtherMaps ==
  ASSUME WorkerTick \/ Tick \/ (\E r \in Reqs : Cancel(r)) \/ UNCHANGED vars
  PROVE  Links!Tick \/ UNCHANGED Links!vars
<1>1. /\ UNCHANGED <<records, pc, call, seen, resp, accepted>>
      /\ clock' = clock \/ clock' = clock + 1
  BY DEF WorkerTick, Tick, Cancel, vars
<1>2. UNCHANGED <<Handed, Unlocked, Responded>>
  BY <1>1 DEF Handed, Delivered, Unlocked, Responded
<1>3. QED
  BY <1>1, <1>2 DEF Links!Tick, Links!vars

LEMMA InitLinks == Init => Links!Init
<1> SUFFICES ASSUME Init PROVE Links!Init
  OBVIOUS
<1>1. Handed = [r \in Reqs |-> NoRecord] /\ Unlocked = {} /\ Responded = {}
  BY DEF Init, Handed, Delivered, Unlocked, Responded, NoResponse
<1>2. QED
  BY <1>1 DEF Init, NoCall, Links!Init

LEMMA NextLinks == LinkInv /\ [Next]_vars => [Links!Next]_(Links!vars)
<1> SUFFICES ASSUME LinkInv, [Next]_vars PROVE Links!Next \/ UNCHANGED Links!vars
  OBVIOUS
<1>1. ASSUME NEW r \in Reqs, Start(r) PROVE Links!Next
  BY <1>1, StartMaps DEF Links!Next
<1>2. ASSUME NEW r \in Reqs, Run(r) PROVE Links!Next \/ UNCHANGED Links!vars
  BY <1>2, LookupMaps, StoreMaps, ReadMaps, AccessReadMaps, ConsumeMaps, VerifierMaps
     DEF Run, Links!Next
<1>3. CASE WorkerRun
  BY <1>3, WorkerMaps DEF Links!Next
<1>4. CASE WorkerTick \/ Tick \/ (\E r \in Reqs : Cancel(r)) \/ UNCHANGED vars
  BY <1>4, OtherMaps DEF Links!Next
<1>5. QED
  BY <1>1, <1>2, <1>3, <1>4 DEF Next

\* The handlers, the access service, the verifier and the worker, step by step and in
\* any interleaving, implement the service with one atomic table: for any number of
\* requests, keys and tokens, either backend, also when calls fail after taking effect.
THEOREM LinkServiceRefinement == Spec => ImplementsLinkService
<1>1. QED
  BY InitLinks, NextLinks, LinkInvariance, PTL DEF Spec, ImplementsLinkService, Links!Spec
==============================================================================
