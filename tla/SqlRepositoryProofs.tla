-------------------------- MODULE SqlRepositoryProofs --------------------------
(***************************************************************************)
(* Proofs about SqlRepository, for any keys, callers and inputs and for    *)
(* either database: no lock outlives its transaction, no row is lost       *)
(* silently, and the statements implement RepositoryContract.              *)
(***************************************************************************)
EXTENDS SqlRepository, TLAPS

Labels == {"idle", "insert", "replay", "select", "consume", "lock", "delete", "commit",
           "rollback", "sweep", "remove", "done"}

CreateCalls == [op : {"create"}, key : Keys, expiresAt : Expiries, input : Inputs]
ReadCalls == [op : {"get", "consume"}, key : Keys, now : Times]
SweepCalls == [op : {"sweep"}, now : Times, batch : Batches]

\* A function on the callers; what the proofs need of its values is said below.
OnCallers(f) == f = [r \in Callers |-> f[r]]

TypeOK ==
    /\ backend \in {"postgres", "mariadb"}
    /\ rows \in [Keys -> Rows \cup {NoRow}]
    /\ owner \in [Keys -> Callers \cup {Nobody}]
    /\ pc \in [Callers -> Labels]
    /\ OnCallers(call) /\ OnCallers(held) /\ OnCallers(answer)
    /\ broken \subseteq Callers

\* The row that the transaction of caller r has locked.
Locked(r) ==
    /\ backend = "mariadb"
    /\ owner[call[r].key] = r
    /\ Selected(call[r].key, call[r].now) /= NoRow
    /\ held[r] = recordFromDatabase(rows[call[r].key])

\* Whatever PostgreSQL's sweep found in its snapshot had expired.
PickedExpired(r) ==
    \A k \in Keys, rec \in Records \cup {NoRow} : <<k, rec>> \in held[r] =>
        rec /= NoRow /\ rec.expiresAt /= 0 /\ rec.expiresAt <= call[r].now

\* What the next statement of a call says of its arguments.
CallOK(r) ==
    /\ pc[r] = "idle" => call[r] = [op |-> "none"] /\ answer[r].code = "none"
    /\ pc[r] \in {"insert", "replay"} => call[r] \in CreateCalls /\ validateCreateInput(call[r].input)
    /\ pc[r] = "select" => call[r] \in ReadCalls /\ call[r].op = "get"
    /\ pc[r] = "consume" => backend = "postgres"
    /\ pc[r] = "lock" => backend = "mariadb"
    /\ pc[r] \in {"consume", "lock", "delete", "commit"} =>
           call[r] \in ReadCalls /\ call[r].op = "consume"
    /\ pc[r] = "sweep" => call[r] \in SweepCalls /\ call[r].batch > 0
    /\ pc[r] = "remove" => backend = "postgres" /\ call[r] \in SweepCalls /\ PickedExpired(r)
    /\ pc[r] \in {"delete", "commit"} => Locked(r)
    /\ pc[r] \notin {"done", "rollback"} => answer[r].code = "none"

\* A lock is on the key of its owner's call, whose transaction is open or broken.
LockOK(k) ==
    owner[k] /= Nobody =>
        /\ pc[owner[k]] \in {"delete", "commit", "rollback"} \/ owner[k] \in broken
        /\ call[owner[k]].key = k
        /\ backend = "mariadb"

Inv ==
    /\ TypeOK
    /\ \A r \in Callers : CallOK(r)
    /\ \A k \in Keys : LockOK(k)
    /\ \A r \in broken : pc[r] = "done"

StoredInv ==
    /\ stored \subseteq Keys \X Rows
    /\ LossIsReported

------------------------------------------------------------------------------
\* Conversions and the calls' bookkeeping.

\* A validated input becomes a row of the table whatever the database.
LEMMA RowType ==
  ASSUME TypeOK, NEW r \in Callers, NEW input \in Inputs, NEW e \in Expiries,
         validateCreateInput(input)
  PROVE  /\ Row(r, input, e) \in Rows
         /\ recordFromDatabase(Row(r, input, e)) =
                [content |-> Content(input), expiresAt |-> e, by |-> r]
<1>1. /\ input.flags \in Nat /\ input.nonce \in Lengths /\ input.ciphertext \in Lengths
      /\ e \in Nat /\ MaxInt32 \in Nat
      /\ input.hash \in Hashes
  BY InputsAssumption, TimesAssumption, LimitsAssumption DEF Hashes
<1>2. FlagsColumn(input.flags) = input.flags
  BY <1>1 DEF FlagsColumn, validateCreateInput
<1>3. /\ nullTime(e) \in Lengths \ {0}
      /\ timestamp(nullTime(e)) = e
  BY <1>1 DEF nullTime, timestamp, Nil, Lengths
<1>4. ASSUME NEW n \in Lengths
      PROVE  BytesColumn(n) \in Lengths /\ cloneBytes(BytesColumn(n)) = cloneBytes(n)
  BY DEF BytesColumn, cloneBytes, Length, Nil, Lengths
<1>5. Row(r, input, e) \in Rows
  BY <1>1, <1>2, <1>3, <1>4 DEF Row, Rows
<1>6. Row(r, input, e) /= NoRow
  BY <1>5, NoRowAssumption
<1>7. QED
  BY <1>1, <1>2, <1>3, <1>4, <1>5, <1>6 DEF Row, recordFromDatabase, Content

LEMMA RecordType ==
  ASSUME NEW row \in Rows
  PROVE  /\ recordFromDatabase(row) \in Records
         /\ recordFromDatabase(row) /= NoRow
         /\ recordFromDatabase(row).content.hash = row.hash
         /\ recordFromDatabase(row).expiresAt = timestamp(row.expires)
<1>1. /\ row.hash \in Hashes /\ row.flags \in Nat /\ row.by \in Callers
      /\ row.nonce \in Lengths /\ row.ciphertext \in Lengths /\ row.expires \in Lengths \ {0}
      /\ row /= NoRow
  BY NoRowAssumption DEF Rows
<1>2. timestamp(row.expires) \in Nat
  BY <1>1 DEF timestamp, Lengths, Nil
<1>3. ASSUME NEW n \in Lengths PROVE cloneBytes(n) \in Lengths
  BY DEF cloneBytes, Nil, Lengths
<1>4. recordFromDatabase(row) \in Records
  BY <1>1, <1>2, <1>3 DEF recordFromDatabase, Records
<1>5. recordFromDatabase(row) /= NoRow
  BY <1>4, NoRowAssumption
<1>6. QED
  BY <1>1, <1>4, <1>5 DEF recordFromDatabase

LEMMA SelectedType ==
  ASSUME TypeOK, NEW k \in Keys, NEW now
  PROVE  Selected(k, now) \in Rows \cup {NoRow} /\ Selected(k, now) \in {rows[k], NoRow}
BY DEF TypeOK, Selected

\* Only caller r moves, to the statement where.
Moves(r, where) ==
    /\ pc' \in [Callers -> Labels]
    /\ pc'[r] = where
    /\ \A q \in Callers \ {r} : pc'[q] = pc[q]

Answers(r, code, rec) ==
    /\ OnCallers(answer)'
    /\ answer'[r].code = code /\ answer'[r].rec = rec
    /\ \A q \in Callers \ {r} : answer'[q] = answer[q]

LEMMA GotoEffect ==
  ASSUME TypeOK, NEW r \in Callers, NEW where \in Labels, Goto(r, where)
  PROVE  Moves(r, where)
BY DEF TypeOK, Goto, Moves

LEMMA LeaveEffect ==
  ASSUME TypeOK, NEW r \in Callers, NEW where \in Labels, NEW code, NEW rec, NEW count,
         Leave(r, where, code, rec, count)
  PROVE  Moves(r, where) /\ Answers(r, code, rec)
<1>1. Moves(r, where)
  BY GotoEffect DEF Leave
<1>2. /\ answer = [q \in Callers |-> answer[q]]
      /\ answer' = [answer EXCEPT ![r] = [code |-> code, rec |-> rec, count |-> count]]
  BY DEF TypeOK, Leave, OnCallers
<1>3. Answers(r, code, rec)
  BY <1>2 DEF Answers, OnCallers
<1>4. QED
  BY <1>1, <1>3

\* ReturnRow never finds a row with negative flags.
LEMMA ReturnRowEffect ==
  ASSUME TypeOK, NEW r \in Callers, NEW row \in Rows \cup {NoRow}, ReturnRow(r, row)
  PROVE  Return(r, IF row = NoRow THEN "not_found" ELSE "record", recordFromDatabase(row), 0)
<1>1. CASE row = NoRow
  BY <1>1 DEF ReturnRow, recordFromDatabase
<1>2. CASE row \in Rows
  <2>1. row /= NoRow /\ row.flags >= 0
    BY <1>2, NoRowAssumption DEF Rows
  <2>2. QED
    BY <2>1 DEF ReturnRow, Readable
<1>3. QED
  BY <1>1, <1>2

------------------------------------------------------------------------------
\* The locks and the statements.

LEMMA InitInv == Init => Inv
<1> SUFFICES ASSUME Init PROVE Inv
  OBVIOUS
<1>1. TypeOK
  BY BackendsAssumption DEF Init, TypeOK, OnCallers, Labels
<1>2. \A r \in Callers : CallOK(r)
  BY DEF Init, CallOK, NoAnswer
<1>3. \A k \in Keys : LockOK(k)
  BY DEF Init, LockOK
<1>4. QED
  BY <1>1, <1>2, <1>3 DEF Init, Inv

\* A caller at rest keeps its lock: nobody else changes the row it has locked.
LEMMA OtherCaller ==
  ASSUME Inv, NEW q \in Callers, UNCHANGED backend,
         pc'[q] = pc[q], call'[q] = call[q], held'[q] = held[q], answer'[q] = answer[q],
         pc[q] \in {"delete", "commit"} /\ Locked(q) =>
             /\ rows'[call[q].key] = rows[call[q].key]
             /\ owner'[call[q].key] = owner[call[q].key]
  PROVE  CallOK(q)'
<1>1. CallOK(q)
  BY DEF Inv
<1>2. pc[q] \in {"delete", "commit"} => Locked(q)'
  BY <1>1 DEF CallOK, Locked, Selected
<1>3. validateCreateInput(call[q].input) => validateCreateInput(call[q].input)'
  BY DEF validateCreateInput
<1>4. PickedExpired(q) => PickedExpired(q)'
  BY DEF PickedExpired
<1>5. QED
  BY <1>1, <1>2, <1>3, <1>4 DEF CallOK

\* The callers other than r, and the database, are left alone.
Alone(r) ==
    /\ backend' = backend
    /\ \A q \in Callers \ {r} :
           pc'[q] = pc[q] /\ call'[q] = call[q] /\ held'[q] = held[q] /\ answer'[q] = answer[q]

Transaction == {"delete", "commit", "rollback"}

\* A step that takes no lock from anybody else, and no row from under a lock.
LEMMA StepInv ==
  ASSUME Inv, TypeOK', NEW r \in Callers, Alone(r), CallOK(r)',
         pc[r] /= "idle" => call'[r] = call[r],
         \A k \in Keys :
             \/ owner'[k] \in {owner[k], Nobody}
             \/ /\ owner'[k] = r /\ call'[r].key = k
                /\ owner[k] = Nobody /\ backend = "mariadb",
         \A k \in Keys : owner'[k] = r => pc'[r] \in Transaction \/ r \in broken',
         \A k \in Keys : owner[k] \in Callers \ {r} =>
             rows'[k] = rows[k] /\ owner'[k] = owner[k],
         \A q \in Callers \ {r} : q \in broken' <=> q \in broken,
         r \in broken' => pc'[r] = "done"
  PROVE  Inv'
<1>1. ASSUME NEW q \in Callers, q /= r PROVE CallOK(q)'
  <2>1. /\ UNCHANGED backend
        /\ pc'[q] = pc[q] /\ call'[q] = call[q] /\ held'[q] = held[q] /\ answer'[q] = answer[q]
    BY <1>1 DEF Alone
  <2>2. ASSUME pc[q] \in {"delete", "commit"}, Locked(q)
        PROVE  /\ rows'[call[q].key] = rows[call[q].key]
               /\ owner'[call[q].key] = owner[call[q].key]
    <3>1. call[q].key \in Keys
      BY <2>2 DEF Inv, CallOK, ReadCalls
    <3>2. QED
      BY <1>1, <2>2, <3>1 DEF Locked
  <2>3. QED
    BY <2>1, <2>2, OtherCaller
<1>2. ASSUME NEW k \in Keys PROVE LockOK(k)'
  <2>1. LockOK(k) /\ owner[k] \in Callers \cup {Nobody} /\ owner'[k] \in Callers \cup {Nobody}
    BY DEF Inv, TypeOK
  <2>2. CASE owner'[k] = r /\ owner[k] = r
    <3>1. pc[r] /= "idle" /\ call[r].key = k
      BY <2>1, <2>2, NobodyAssumption DEF LockOK, Inv
    <3>2. QED
      BY <2>1, <2>2, <3>1, NobodyAssumption DEF LockOK, Transaction, Alone
  <2>3. CASE owner'[k] = r /\ owner[k] /= r
    BY <2>3, NobodyAssumption DEF LockOK, Transaction, Alone
  <2>4. CASE owner'[k] \notin {r, Nobody}
    <3>1. owner'[k] = owner[k] /\ owner[k] \in Callers \ {r}
      BY <2>1, <2>4
    <3>2. QED
      BY <2>1, <2>4, <3>1 DEF LockOK, Alone
  <2>5. CASE owner'[k] = Nobody
    BY <2>5 DEF LockOK
  <2>6. QED
    BY <2>2, <2>3, <2>4, <2>5
<1>3. \A q \in broken' : pc'[q] = "done"
  BY DEF Alone, Inv, TypeOK
<1>4. QED
  BY <1>1, <1>2, <1>3 DEF Inv

\* A step that leaves the rows and the locks alone.
LEMMA QuietStepInv ==
  ASSUME Inv, TypeOK', NEW r \in Callers, Alone(r), CallOK(r)', UNCHANGED <<rows, owner>>,
         pc[r] /= "idle" => call'[r] = call[r],
         pc[r] \in Transaction => pc'[r] \in Transaction \/ r \in broken',
         \A q \in Callers \ {r} : q \in broken' <=> q \in broken,
         r \in broken => r \in broken',
         r \in broken' => pc'[r] = "done"
  PROVE  Inv'
<1>1. ASSUME NEW k \in Keys, owner'[k] = r PROVE pc'[r] \in Transaction \/ r \in broken'
  <2>1. owner[k] = r /\ LockOK(k)
    BY <1>1 DEF Inv
  <2>2. pc[r] \in Transaction \/ r \in broken
    BY <2>1, NobodyAssumption DEF LockOK, Transaction
  <2>3. QED
    BY <2>2
<1>2. QED
  BY <1>1, StepInv

LEMMA AloneIf ==
  ASSUME TypeOK, UNCHANGED <<backend, held>>, NEW r \in Callers, NEW where, Moves(r, where),
         \A q \in Callers \ {r} : call'[q] = call[q] /\ answer'[q] = answer[q]
  PROVE  Alone(r)
BY DEF Alone, Moves

LEMMA CallCreateInv ==
  ASSUME Inv, UNCHANGED backend, NEW r \in Callers, NEW k \in Keys, NEW input \in Inputs,
         NEW e \in Expiries, CallCreate(r, k, input, e)
  PROVE  Inv'
<1>1. TypeOK /\ pc[r] = "idle" /\ r \notin broken
  BY DEF Inv, CallCreate
<1>2. /\ OnCallers(call)'
      /\ call'[r] = [op |-> "create", key |-> k, expiresAt |-> e, input |-> input]
      /\ call'[r] \in CreateCalls
      /\ \A q \in Callers \ {r} : call'[q] = call[q]
  BY <1>1 DEF TypeOK, OnCallers, CallCreate, CreateCalls
<1>3. UNCHANGED <<rows, owner, held, broken>>
  BY DEF CallCreate
<1>4. CASE validateCreateInput(input)
  <2>1. Moves(r, "insert") /\ answer' = answer
    BY <1>1, <1>4, GotoEffect DEF CallCreate, Labels
  <2>2. Alone(r)
    BY <1>1, <1>2, <1>3, <2>1, AloneIf
  <2>3. validateCreateInput(call[r].input)'
    BY <1>2, <1>4 DEF validateCreateInput
  <2>4. CallOK(r)'
    BY <1>1, <1>2, <2>1, <2>3 DEF CallOK, Moves, Inv
  <2>5. TypeOK'
    BY <1>1, <1>2, <1>3, <2>1 DEF TypeOK, Moves, OnCallers
  <2>6. QED
    BY <1>1, <1>3, <2>2, <2>4, <2>5, QuietStepInv DEF Transaction
<1>5. CASE ~validateCreateInput(input)
  <2>1. Moves(r, "done") /\ Answers(r, "invalid", NoRow)
    BY <1>1, <1>5, LeaveEffect DEF CallCreate, Return, Labels
  <2>2. Alone(r)
    BY <1>1, <1>2, <1>3, <2>1, AloneIf DEF Answers
  <2>3. CallOK(r)'
    BY <2>1 DEF CallOK, Moves
  <2>4. TypeOK'
    BY <1>1, <1>2, <1>3, <2>1 DEF TypeOK, Moves, Answers, OnCallers
  <2>5. QED
    BY <1>1, <1>3, <2>2, <2>3, <2>4, QuietStepInv DEF Transaction
<1>6. QED
  BY <1>4, <1>5

LEMMA CallReadInv ==
  ASSUME Inv, UNCHANGED backend, NEW r \in Callers, NEW op \in {"get", "consume"},
         NEW k \in Keys, NEW now \in Times, CallRead(r, op, k, now)
  PROVE  Inv'
<1>1. /\ TypeOK /\ CallOK(r) /\ pc[r] = "idle" /\ r \notin broken
      /\ UNCHANGED <<rows, owner, held, answer, broken>>
  BY DEF Inv, CallRead
<1>2. /\ OnCallers(call)'
      /\ call'[r] \in ReadCalls /\ call'[r].op = op
      /\ \A q \in Callers \ {r} : call'[q] = call[q]
  BY <1>1 DEF TypeOK, OnCallers, CallRead, ReadCalls
<1>3. PICK where \in {"select", "lock", "consume"} :
          /\ Goto(r, where)
          /\ where = "select" <=> op = "get"
          /\ where = "consume" => backend = "postgres"
          /\ where = "lock" => backend = "mariadb"
  BY <1>1 DEF CallRead, TypeOK
<1>4. Moves(r, where)
  BY <1>1, <1>3, GotoEffect DEF Labels
<1>5. Alone(r)
  BY <1>1, <1>2, <1>4, AloneIf
<1>6. CallOK(r)'
  BY <1>1, <1>2, <1>3, <1>4 DEF CallOK, Moves
<1>7. TypeOK'
  BY <1>1, <1>2, <1>4 DEF TypeOK, Moves, OnCallers
<1>8. QED
  BY <1>1, <1>5, <1>6, <1>7, QuietStepInv DEF Transaction

LEMMA CallDeleteExpiredInv ==
  ASSUME Inv, UNCHANGED backend, NEW r \in Callers, NEW now \in Times, NEW batch \in Batches,
         CallDeleteExpired(r, now, batch)
  PROVE  Inv'
<1>1. /\ TypeOK /\ CallOK(r) /\ pc[r] = "idle" /\ r \notin broken
      /\ UNCHANGED <<rows, owner, held, broken>>
  BY DEF Inv, CallDeleteExpired
<1>2. /\ OnCallers(call)'
      /\ call'[r] \in SweepCalls /\ call'[r].batch = batch
      /\ \A q \in Callers \ {r} : call'[q] = call[q]
  BY <1>1 DEF TypeOK, OnCallers, CallDeleteExpired, SweepCalls
<1>3. CASE batch > 0
  <2>1. Moves(r, "sweep") /\ answer' = answer
    BY <1>1, <1>3, GotoEffect DEF CallDeleteExpired, Labels
  <2>2. Alone(r)
    BY <1>1, <1>2, <2>1, AloneIf
  <2>3. CallOK(r)'
    BY <1>1, <1>2, <1>3, <2>1 DEF CallOK, Moves
  <2>4. TypeOK'
    BY <1>1, <1>2, <2>1 DEF TypeOK, Moves, OnCallers
  <2>5. QED
    BY <1>1, <2>2, <2>3, <2>4, QuietStepInv DEF Transaction
<1>4. CASE ~(batch > 0)
  <2>1. Moves(r, "done") /\ Answers(r, "invalid", NoRow)
    BY <1>1, <1>4, LeaveEffect DEF CallDeleteExpired, Return, Labels
  <2>2. Alone(r)
    BY <1>1, <1>2, <2>1, AloneIf DEF Answers
  <2>3. CallOK(r)'
    BY <2>1 DEF CallOK, Moves
  <2>4. TypeOK'
    BY <1>1, <1>2, <2>1 DEF TypeOK, Moves, Answers, OnCallers
  <2>5. QED
    BY <1>1, <2>2, <2>3, <2>4, QuietStepInv DEF Transaction
<1>5. QED
  BY <1>3, <1>4

\* A call returns, at most the rows have changed, and none that is locked.
LEMMA ReturnInv ==
  ASSUME Inv, UNCHANGED <<backend, owner, call, held>>, NEW r \in Callers,
         pc[r] \notin {"idle", "done", "rollback"},
         NEW code, NEW rec, Moves(r, "done"), Answers(r, code, rec),
         rows' \in [Keys -> Rows \cup {NoRow}],
         \A k \in Keys : owner[k] \in Callers \ {r} => rows'[k] = rows[k],
         broken' \in {broken, broken \cup {r}},
         pc[r] \in Transaction => r \in broken'
  PROVE  Inv'
<1>1. TypeOK'
  BY DEF Inv, TypeOK, Moves, Answers, OnCallers
<1>2. Alone(r)
  BY AloneIf DEF Inv, Answers
<1>3. CallOK(r)'
  BY DEF CallOK, Moves
<1>4. ASSUME NEW k \in Keys, owner'[k] = r PROVE r \in broken'
  <2>1. pc[r] \in Transaction
    BY <1>4, NobodyAssumption DEF Inv, LockOK, Transaction
  <2>2. QED
    BY <2>1
<1>5. /\ \A q \in Callers \ {r} : q \in broken' <=> q \in broken
      /\ pc'[r] = "done"
  BY DEF Moves
<1>6. QED
  BY <1>1, <1>2, <1>3, <1>4, <1>5, StepInv

LEMMA CreateEnvelopeInv ==
  ASSUME Inv, UNCHANGED backend, NEW r \in Callers, CreateEnvelope(r)
  PROVE  Inv'
<1> DEFINE c == call[r]
           new == Row(r, c.input, c.expiresAt)
<1>1. /\ TypeOK /\ CallOK(r) /\ pc[r] = "insert"
      /\ UNCHANGED <<owner, call, held, broken>>
  BY DEF Inv, CreateEnvelope
<1>2. c.key \in Keys /\ c.input \in Inputs /\ c.expiresAt \in Expiries
      /\ validateCreateInput(c.input)
  BY <1>1 DEF CallOK, CreateCalls
<1>3. new \in Rows
  BY <1>1, <1>2, RowType
<1>4. CASE rows[c.key] = NoRow
  <2>1. /\ rows' = [rows EXCEPT ![c.key] = new]
        /\ Unlocked(r, {c.key})
        /\ Return(r, "created", recordFromDatabase(new), 0) \/ Error(r)
    BY <1>4 DEF CreateEnvelope
  <2>2. PICK code, rec : Moves(r, "done") /\ Answers(r, code, rec)
    BY <1>1, <2>1, LeaveEffect DEF Return, Error, Labels
  <2>3. rows' \in [Keys -> Rows \cup {NoRow}]
    BY <1>1, <1>2, <1>3, <2>1 DEF TypeOK
  <2>4. \A k \in Keys : owner[k] \in Callers \ {r} => rows'[k] = rows[k]
    BY <1>1, <1>2, <2>1, NobodyAssumption DEF TypeOK, Unlocked
  <2>5. QED
    BY <1>1, <2>2, <2>3, <2>4, ReturnInv DEF Transaction
<1>5. CASE rows[c.key] /= NoRow
  <2>1. Goto(r, "replay") /\ UNCHANGED <<rows, answer>>
    BY <1>5 DEF CreateEnvelope
  <2>2. Moves(r, "replay")
    BY <1>1, <2>1, GotoEffect DEF Labels
  <2>3. Alone(r)
    BY <1>1, <2>1, <2>2, AloneIf
  <2>4. validateCreateInput(call[r].input)'
    BY <1>1, <1>2 DEF validateCreateInput
  <2>5. CallOK(r)'
    BY <1>1, <2>1, <2>2, <2>4 DEF CallOK, Moves
  <2>6. TypeOK'
    BY <1>1, <2>1, <2>2 DEF TypeOK, Moves, OnCallers
  <2>7. r \notin broken
    BY <1>1 DEF Inv
  <2>8. QED
    BY <1>1, <2>1, <2>3, <2>5, <2>6, <2>7, QuietStepInv DEF Transaction
<1>6. QED
  BY <1>4, <1>5

LEMMA GetEnvelopeForReplayInv ==
  ASSUME Inv, UNCHANGED backend, NEW r \in Callers, GetEnvelopeForReplay(r)
  PROVE  Inv'
<1>1. TypeOK /\ pc[r] = "replay" /\ UNCHANGED <<rows, owner, call, held, broken>>
  BY DEF Inv, GetEnvelopeForReplay
<1>2. PICK code, rec : Moves(r, "done") /\ Answers(r, code, rec)
  BY <1>1, LeaveEffect DEF GetEnvelopeForReplay, Return, Labels
<1>3. QED
  BY <1>1, <1>2, ReturnInv DEF TypeOK, Transaction

LEMMA GetEnvelopeByKeyInv ==
  ASSUME Inv, UNCHANGED backend, NEW r \in Callers, GetEnvelopeByKey(r)
  PROVE  Inv'
<1>1. /\ TypeOK /\ CallOK(r) /\ pc[r] = "select"
      /\ UNCHANGED <<rows, owner, call, held, broken>>
      /\ ReturnRow(r, Selected(call[r].key, call[r].now))
  BY DEF Inv, GetEnvelopeByKey
<1>2. call[r].key \in Keys
  BY <1>1 DEF CallOK, ReadCalls
<1>3. PICK code, rec : Moves(r, "done") /\ Answers(r, code, rec)
  BY <1>1, <1>2, LeaveEffect, ReturnRowEffect, SelectedType DEF Return, Labels
<1>4. QED
  BY <1>1, <1>3, ReturnInv DEF TypeOK, Transaction

LEMMA ConsumeEnvelopeInv ==
  ASSUME Inv, UNCHANGED backend, NEW r \in Callers, ConsumeEnvelope(r)
  PROVE  Inv'
<1> DEFINE row == Selected(call[r].key, call[r].now)
<1>1. /\ TypeOK /\ CallOK(r) /\ pc[r] = "consume"
      /\ UNCHANGED <<owner, call, held, broken>>
  BY DEF Inv, ConsumeEnvelope
<1>2. call[r].key \in Keys /\ backend = "postgres"
  BY <1>1 DEF CallOK, ReadCalls
<1>3. row \in Rows \cup {NoRow}
  BY <1>1, <1>2, SelectedType
<1>4. /\ ReturnRow(r, row) \/ Error(r)
      /\ rows' = rows \/ rows' = [rows EXCEPT ![call[r].key] = NoRow]
  BY DEF ConsumeEnvelope
<1>5. PICK code, rec : Moves(r, "done") /\ Answers(r, code, rec)
  BY <1>1, <1>3, <1>4, LeaveEffect, ReturnRowEffect DEF Return, Error, Labels
<1>6. rows' \in [Keys -> Rows \cup {NoRow}]
  BY <1>1, <1>4 DEF TypeOK
<1>7. \A k \in Keys : owner[k] = Nobody
  BY <1>2 DEF Inv, LockOK
<1>8. QED
  BY <1>1, <1>5, <1>6, <1>7, ReturnInv, NobodyAssumption DEF Transaction

LEMMA LockEnvelopeByKeyInv ==
  ASSUME Inv, UNCHANGED backend, NEW r \in Callers, LockEnvelopeByKey(r)
  PROVE  Inv'
<1> DEFINE key == call[r].key
           row == Selected(key, call[r].now)
<1>1. /\ TypeOK /\ CallOK(r) /\ pc[r] = "lock" /\ backend = "mariadb" /\ r \notin broken
      /\ UNCHANGED <<rows, call, broken>>
  BY DEF Inv, LockEnvelopeByKey, CallOK
<1>2. /\ key \in Keys /\ call[r] \in ReadCalls /\ call[r].op = "consume"
      /\ owner[key] \in {Nobody, r}
  BY <1>1 DEF CallOK, ReadCalls, LockEnvelopeByKey, Unlocked
<1>3. owner' = IF rows[key] = NoRow THEN owner ELSE [owner EXCEPT ![key] = r]
  BY DEF LockEnvelopeByKey, LockedBy
<1>4. /\ owner' \in [Keys -> Callers \cup {Nobody}]
      /\ \A k \in Keys :
             \/ owner'[k] \in {owner[k], Nobody}
             \/ owner'[k] = r /\ key = k /\ owner[k] = Nobody
      /\ \A k \in Keys : owner[k] \in Callers \ {r} => owner'[k] = owner[k]
  BY <1>1, <1>2, <1>3, NobodyAssumption DEF TypeOK
<1>5. CASE row = NoRow
  <2>1. Leave(r, "rollback", "not_found", NoRow, 0) /\ held' = held
    BY <1>5 DEF LockEnvelopeByKey
  <2>2. Moves(r, "rollback") /\ Answers(r, "not_found", NoRow)
    BY <1>1, <2>1, LeaveEffect DEF Labels
  <2>3. Alone(r)
    BY <1>1, <2>1, <2>2 DEF Alone, Moves, Answers
  <2>4. TypeOK'
    BY <1>1, <1>4, <2>1, <2>2 DEF TypeOK, Moves, Answers, OnCallers
  <2>5. CallOK(r)'
    BY <2>2 DEF CallOK, Moves
  <2>6. pc'[r] \in Transaction
    BY <2>2 DEF Moves, Transaction
  <2>7. QED
    BY <1>1, <1>4, <2>3, <2>4, <2>5, <2>6, StepInv
<1>6. CASE row /= NoRow
  <2>1. /\ held' = [held EXCEPT ![r] = recordFromDatabase(row)]
        /\ Goto(r, "delete") /\ answer' = answer
    BY <1>6 DEF LockEnvelopeByKey
  <2>2. Moves(r, "delete")
    BY <1>1, <2>1, GotoEffect DEF Labels
  <2>3. /\ OnCallers(held)' /\ held'[r] = recordFromDatabase(row)
        /\ \A q \in Callers \ {r} : held'[q] = held[q]
    BY <1>1, <2>1 DEF TypeOK, OnCallers
  <2>4. Alone(r)
    BY <1>1, <2>1, <2>2, <2>3 DEF Alone, Moves
  <2>5. TypeOK'
    BY <1>1, <1>4, <2>1, <2>2, <2>3 DEF TypeOK, Moves, OnCallers
  <2>6. row = rows[key] /\ owner'[key] = r
    BY <1>1, <1>2, <1>3, <1>6 DEF TypeOK, Selected
  <2>7. Locked(r)'
    BY <1>1, <1>6, <2>3, <2>6 DEF Locked, Selected
  <2>8. CallOK(r)'
    BY <1>1, <1>2, <2>1, <2>2, <2>7 DEF CallOK, Moves
  <2>9. pc'[r] \in Transaction
    BY <2>2 DEF Moves, Transaction
  <2>10. QED
    BY <1>1, <1>4, <2>4, <2>5, <2>8, <2>9, StepInv
<1>7. QED
  BY <1>5, <1>6

\* The DELETE finds the row it has locked.
LEMMA DeleteFindsRow ==
  ASSUME Inv, NEW r \in Callers, DeleteEnvelopeByKey(r)
  PROVE  Goto(r, "commit") /\ UNCHANGED <<rows, owner, call, held, answer, broken, stored>>
<1>1. TypeOK /\ CallOK(r) /\ pc[r] = "delete"
  BY DEF Inv, DeleteEnvelopeByKey
<1>2. call[r].key \in Keys /\ owner[call[r].key] = r /\ rows[call[r].key] /= NoRow
  BY <1>1 DEF CallOK, Locked, ReadCalls, Selected
<1>3. [owner EXCEPT ![call[r].key] = r] = owner
  BY <1>1, <1>2 DEF TypeOK
<1>4. QED
  BY <1>2, <1>3 DEF DeleteEnvelopeByKey

LEMMA DeleteEnvelopeByKeyInv ==
  ASSUME Inv, UNCHANGED backend, NEW r \in Callers, DeleteEnvelopeByKey(r)
  PROVE  Inv'
<1>1. /\ TypeOK /\ CallOK(r) /\ pc[r] = "delete" /\ r \notin broken
      /\ Goto(r, "commit") /\ UNCHANGED <<rows, owner, call, held, answer, broken>>
  BY DeleteFindsRow DEF Inv, DeleteEnvelopeByKey
<1>2. Moves(r, "commit")
  BY <1>1, GotoEffect DEF Labels
<1>3. Alone(r)
  BY <1>1, <1>2 DEF Alone, Moves
<1>4. TypeOK'
  BY <1>1, <1>2 DEF TypeOK, Moves, OnCallers
<1>5. Locked(r)'
  BY <1>1 DEF CallOK, Locked, Selected
<1>6. CallOK(r)'
  BY <1>1, <1>2, <1>5 DEF CallOK, Moves
<1>7. pc'[r] \in Transaction
  BY <1>2 DEF Moves, Transaction
<1>8. QED
  BY <1>1, <1>3, <1>4, <1>6, <1>7, QuietStepInv

LEMMA CommitInv ==
  ASSUME Inv, UNCHANGED backend, NEW r \in Callers, Commit(r)
  PROVE  Inv'
<1> DEFINE key == call[r].key
<1>1. /\ TypeOK /\ CallOK(r) /\ pc[r] = "commit" /\ r \notin broken
      /\ UNCHANGED <<call, held, broken>>
      /\ rows' = [rows EXCEPT ![key] = NoRow]
      /\ owner' = [owner EXCEPT ![key] = Nobody]
      /\ Return(r, "record", held[r], 0) \/ Error(r)
  BY DEF Inv, Commit
<1>2. key \in Keys /\ owner[key] = r
  BY <1>1 DEF CallOK, Locked, ReadCalls
<1>3. PICK code, rec : Moves(r, "done") /\ Answers(r, code, rec)
  BY <1>1, LeaveEffect DEF Return, Error, Labels
<1>4. Alone(r)
  BY <1>1, <1>3 DEF Alone, Moves, Answers
<1>5. TypeOK'
  BY <1>1, <1>2, <1>3 DEF TypeOK, Moves, Answers, OnCallers
<1>6. CallOK(r)'
  BY <1>3 DEF CallOK, Moves
<1>7. /\ \A k \in Keys : owner'[k] \in {owner[k], Nobody}
      /\ \A k \in Keys : owner[k] \in Callers \ {r} => rows'[k] = rows[k] /\ owner'[k] = owner[k]
  BY <1>1, <1>2 DEF TypeOK
<1>8. ASSUME NEW k \in Keys PROVE owner'[k] /= r
  <2>1. CASE k = key
    BY <1>1, <2>1, NobodyAssumption DEF TypeOK
  <2>2. CASE k /= key
    <3>1. owner'[k] = owner[k]
      BY <1>1, <2>2 DEF TypeOK
    <3>2. QED
      BY <2>2, <3>1, NobodyAssumption DEF Inv, LockOK
  <2>3. QED
    BY <2>1, <2>2
<1>9. QED
  BY <1>1, <1>4, <1>5, <1>6, <1>7, <1>8, StepInv

\* Every lock of r is released.
Released(r) ==
    /\ owner' \in [Keys -> Callers \cup {Nobody}]
    /\ \A k \in Keys : owner'[k] = IF owner[k] = r THEN Nobody ELSE owner[k]

LEMMA RollbackInv ==
  ASSUME Inv, UNCHANGED backend, NEW r \in Callers, Rollback(r)
  PROVE  Inv'
<1>1. /\ TypeOK /\ CallOK(r) /\ pc[r] = "rollback" /\ r \notin broken
      /\ UNCHANGED <<rows, call, held, answer, broken>>
  BY DEF Inv, Rollback
<1>2. Moves(r, "done") /\ Released(r)
  BY <1>1, GotoEffect DEF Rollback, Labels, Released, TypeOK
<1>3. Alone(r)
  BY <1>1, <1>2 DEF Alone, Moves
<1>4. TypeOK'
  BY <1>1, <1>2 DEF TypeOK, Moves, OnCallers, Released
<1>5. CallOK(r)'
  BY <1>2 DEF CallOK, Moves
<1>6. /\ \A k \in Keys : owner'[k] \in {owner[k], Nobody} /\ owner'[k] /= r
      /\ \A k \in Keys : owner[k] \in Callers \ {r} => owner'[k] = owner[k]
  BY <1>2, NobodyAssumption DEF Released
<1>7. QED
  BY <1>1, <1>3, <1>4, <1>5, <1>6, StepInv

LEMMA ServerRollsBackInv ==
  ASSUME Inv, UNCHANGED backend, NEW r \in Callers, ServerRollsBack(r)
  PROVE  Inv'
<1>1. /\ TypeOK /\ CallOK(r) /\ pc[r] = "done"
      /\ UNCHANGED <<rows, pc, call, held, answer>> /\ broken' = broken \ {r}
  BY DEF Inv, ServerRollsBack
<1>2. Released(r)
  BY <1>1 DEF ServerRollsBack, Released, TypeOK
<1>3. Alone(r)
  BY <1>1 DEF Alone
<1>4. TypeOK'
  BY <1>1, <1>2 DEF TypeOK, OnCallers, Released
<1>5. CallOK(r)'
  BY <1>1 DEF CallOK
<1>6. /\ \A k \in Keys : owner'[k] \in {owner[k], Nobody} /\ owner'[k] /= r
      /\ \A k \in Keys : owner[k] \in Callers \ {r} => owner'[k] = owner[k]
  BY <1>2, NobodyAssumption DEF Released
<1>7. QED
  BY <1>1, <1>3, <1>4, <1>5, <1>6, StepInv

\* A DeleteExpired deletes rows that nobody else has locked.
LEMMA ReturnDeletedInv ==
  ASSUME Inv, UNCHANGED backend, NEW r \in Callers, pc[r] \in {"sweep", "remove"},
         NEW S \in SUBSET Keys, Unlocked(r, S), ReturnDeleted(r, S)
  PROVE  Inv'
<1>1. /\ TypeOK /\ UNCHANGED <<owner, call, held, broken>>
      /\ rows' = [k \in Keys |-> IF k \in S THEN NoRow ELSE rows[k]]
      /\ Return(r, "deleted", NoRow, Cardinality(S)) \/ Error(r)
  BY DEF Inv, ReturnDeleted
<1>2. PICK code, rec : Moves(r, "done") /\ Answers(r, code, rec)
  BY <1>1, LeaveEffect DEF Return, Error, Labels
<1>3. /\ rows' \in [Keys -> Rows \cup {NoRow}]
      /\ \A k \in Keys : owner[k] \in Callers \ {r} => rows'[k] = rows[k]
  BY <1>1, NobodyAssumption DEF TypeOK, Unlocked
<1>4. QED
  BY <1>1, <1>2, <1>3, ReturnInv DEF Transaction

LEMMA OldestAreExpired ==
  ASSUME NEW now, NEW batch, NEW S \in OldestExpired(now, batch)
  PROVE  S \subseteq ExpiredRows(now) /\ S \subseteq Keys
BY DEF OldestExpired, ExpiredRows

LEMMA DeleteExpiredEnvelopesInv ==
  ASSUME Inv, UNCHANGED backend, NEW r \in Callers, DeleteExpiredEnvelopes(r)
  PROVE  Inv'
<1>1. PICK S \in OldestExpired(call[r].now, call[r].batch) : Unlocked(r, S) /\ ReturnDeleted(r, S)
  BY DEF DeleteExpiredEnvelopes
<1>2. QED
  BY <1>1, OldestAreExpired, ReturnDeletedInv DEF DeleteExpiredEnvelopes

\* What the snapshot of the sweep says of a row it contains.
LEMMA ExpiredRecord ==
  ASSUME TypeOK, NEW now \in Nat, NEW k \in ExpiredRows(now)
  PROVE  /\ recordFromDatabase(rows[k]) /= NoRow
         /\ recordFromDatabase(rows[k]).expiresAt /= 0
         /\ recordFromDatabase(rows[k]).expiresAt <= now
<1>1. rows[k] \in Rows /\ rows[k].expires /= Nil /\ rows[k].expires <= now
  BY DEF TypeOK, ExpiredRows
<1>2. rows[k].expires \in Lengths \ {0}
  BY <1>1 DEF Rows
<1>3. timestamp(rows[k].expires) = rows[k].expires
  BY <1>1 DEF timestamp
<1>4. QED
  BY <1>1, <1>2, <1>3, RecordType

LEMMA SelectExpiredInv ==
  ASSUME Inv, UNCHANGED backend, NEW r \in Callers, SelectExpired(r)
  PROVE  Inv'
<1>1. /\ TypeOK /\ CallOK(r) /\ pc[r] = "sweep" /\ backend = "postgres" /\ r \notin broken
      /\ Goto(r, "remove") /\ UNCHANGED <<rows, owner, call, answer, broken>>
      /\ call[r] \in SweepCalls /\ call[r].now \in Nat
  BY TimesAssumption DEF Inv, SelectExpired, CallOK, SweepCalls
<1>2. PICK S \in OldestExpired(call[r].now, call[r].batch) :
          held' = [held EXCEPT ![r] = {<<k, recordFromDatabase(rows[k])>> : k \in S}]
  BY DEF SelectExpired
<1>3. Moves(r, "remove")
  BY <1>1, GotoEffect DEF Labels
<1>4. /\ OnCallers(held)' /\ held'[r] = {<<k, recordFromDatabase(rows[k])>> : k \in S}
      /\ \A q \in Callers \ {r} : held'[q] = held[q]
  BY <1>1, <1>2 DEF TypeOK, OnCallers
<1>5. Alone(r)
  BY <1>1, <1>3, <1>4 DEF Alone, Moves
<1>6. TypeOK'
  BY <1>1, <1>3, <1>4 DEF TypeOK, Moves, OnCallers
<1>7. ASSUME NEW k \in Keys, NEW rec, <<k, rec>> \in held'[r]
      PROVE  k \in ExpiredRows(call[r].now) /\ rec = recordFromDatabase(rows[k])
  BY <1>4, <1>7, OldestAreExpired
<1>8. PickedExpired(r)'
  <2>1. ASSUME NEW k \in Keys, NEW rec, <<k, rec>> \in held'[r]
        PROVE  rec /= NoRow /\ rec.expiresAt /= 0 /\ rec.expiresAt <= call'[r].now
    BY <1>1, <1>7, <2>1, ExpiredRecord
  <2>2. QED
    BY <2>1 DEF PickedExpired
<1>9. CallOK(r)'
  BY <1>1, <1>3, <1>8 DEF CallOK, Moves
<1>10. QED
  BY <1>1, <1>5, <1>6, <1>9, QuietStepInv DEF Transaction

\* PostgreSQL's repository takes no locks that outlive a statement.
LEMMA NoLocks ==
  ASSUME Inv, backend = "postgres"
  PROVE  \A k \in Keys : owner[k] = Nobody
BY DEF Inv, LockOK

LEMMA DeleteSelectedInv ==
  ASSUME Inv, UNCHANGED backend, NEW r \in Callers, DeleteSelected(r)
  PROVE  Inv'
<1>1. pc[r] = "remove" /\ backend = "postgres" /\ ReturnDeleted(r, StillThere(r))
  BY DEF Inv, CallOK, DeleteSelected
<1>2. StillThere(r) \in SUBSET Keys
  BY DEF StillThere
<1>3. Unlocked(r, StillThere(r))
  BY <1>1, <1>2, NoLocks DEF Unlocked
<1>4. QED
  BY <1>1, <1>2, <1>3, ReturnDeletedInv

LEMMA BreakInv ==
  ASSUME Inv, UNCHANGED backend, NEW r \in Callers, Break(r)
  PROVE  Inv'
<1>1. /\ TypeOK /\ pc[r] \notin {"idle", "done", "rollback"}
      /\ UNCHANGED <<rows, owner, call, held>> /\ broken' = broken \cup {r}
  BY DEF Inv, Break
<1>2. Moves(r, "done") /\ Answers(r, "error", NoRow)
  BY <1>1, LeaveEffect DEF Break, Error, Return, Labels
<1>3. QED
  BY <1>1, <1>2, ReturnInv DEF TypeOK

LEMMA NextInv == Inv /\ [Next]_<<vars, backend>> => Inv'
<1> SUFFICES ASSUME Inv, [Next]_<<vars, backend>> PROVE Inv'
  OBVIOUS
<1>1. CASE UNCHANGED <<vars, backend>>
  <2>1. TypeOK'
    BY <1>1 DEF vars, Inv, TypeOK, OnCallers
  <2>2. ASSUME NEW r \in Callers PROVE CallOK(r)'
    <3>1. CallOK(r) /\ (Locked(r) => Locked(r)')
      BY <1>1 DEF vars, Inv, Locked, Selected, recordFromDatabase
    <3>2. validateCreateInput(call[r].input)' <=> validateCreateInput(call[r].input)
      BY <1>1 DEF vars, validateCreateInput
    <3>3. PickedExpired(r)' <=> PickedExpired(r)
      BY <1>1 DEF vars, PickedExpired
    <3>4. QED
      BY <1>1, <3>1, <3>2, <3>3 DEF vars, CallOK
  <2>3. ASSUME NEW k \in Keys PROVE LockOK(k)'
    BY <1>1 DEF vars, Inv, LockOK
  <2>4. QED
    BY <1>1, <2>1, <2>2, <2>3 DEF vars, Inv
<1>2. CASE Next
  <2> PICK r \in Callers : Call(r) \/ Step(r) \/ Break(r) \/ ServerRollsBack(r)
    BY <1>2 DEF Next
  <2> UNCHANGED backend
    BY <1>2 DEF Next
  <2>1. CASE Call(r)
    BY <2>1, CallCreateInv, CallReadInv, CallDeleteExpiredInv DEF Call
  <2>2. CASE Step(r)
    BY <2>2, CreateEnvelopeInv, GetEnvelopeForReplayInv, GetEnvelopeByKeyInv, ConsumeEnvelopeInv,
       LockEnvelopeByKeyInv, DeleteEnvelopeByKeyInv, CommitInv, RollbackInv,
       DeleteExpiredEnvelopesInv, SelectExpiredInv, DeleteSelectedInv DEF Step
  <2>3. QED
    BY <2>1, <2>2, BreakInv, ServerRollsBackInv
<1>3. QED
  BY <1>1, <1>2

\* The invariant holds in every state of every execution.
THEOREM Invariance == Spec => []Inv
<1>1. QED
  BY InitInv, NextInv, PTL DEF Spec

\* No way out of Consume, not-found, a broken connection or a lost COMMIT included,
\* leaves a row locked after its transaction.
THEOREM NoLockLeftBehindAlways == Spec => []NoLockLeftBehind
<1>1. Inv => NoLockLeftBehind
  BY DEF Inv, LockOK, NoLockLeftBehind
<1>2. QED
  BY Invariance, <1>1, PTL

------------------------------------------------------------------------------
\* What happens to stored rows.

\* A call is never forgotten and an answer never taken back.
Remembers(r) ==
    /\ Alone(r)
    /\ pc[r] /= "idle" => call'[r] = call[r]
    /\ pc[r] \in {"done", "rollback"} => answer'[r] = answer[r]

Inserts(r) ==
    \E k \in Keys, new \in Rows :
        /\ rows[k] = NoRow
        /\ rows' = [rows EXCEPT ![k] = new]
        /\ stored' = stored \cup {<<k, new>>}

Consumes(r) ==
    /\ call[r].op = "consume" /\ pc[r] /= "idle" /\ call[r].key \in Keys
    /\ rows' = [rows EXCEPT ![call[r].key] = NoRow]
    /\ \/ answer'[r].code = "error"
       \/ answer'[r].code = "record" /\ answer'[r].rec = recordFromDatabase(rows[call[r].key])
    /\ stored' = stored

Sweeps(r) ==
    /\ call[r].op = "sweep" /\ pc[r] /= "idle"
    /\ \E S \in SUBSET ExpiredRows(call[r].now) :
           rows' = [k \in Keys |-> IF k \in S THEN NoRow ELSE rows[k]]
    /\ call[r].now \in Nat
    /\ stored' = stored

Effect(r) == Remembers(r) /\ (UNCHANGED <<rows, stored>> \/ Inserts(r) \/ Consumes(r) \/ Sweeps(r))

LEMMA CallEffect ==
  ASSUME Inv, UNCHANGED backend, NEW r \in Callers, Call(r)
  PROVE  Effect(r)
<1>1. /\ pc[r] = "idle" /\ UNCHANGED <<rows, stored, held>>
      /\ \E c : call' = [call EXCEPT ![r] = c]
      /\ \E where : pc' = [pc EXCEPT ![r] = where]
      /\ answer' = answer \/ \E a : answer' = [answer EXCEPT ![r] = a]
  BY DEF Call, CallCreate, CallRead, CallDeleteExpired, Goto, Return, Leave
<1>2. Alone(r)
  BY <1>1 DEF Inv, TypeOK, OnCallers, Alone
<1>3. QED
  BY <1>1, <1>2 DEF Effect, Remembers

\* The steps after the call leave its arguments alone.
LEMMA StepRemembers ==
  ASSUME Inv, UNCHANGED <<backend, call>>, NEW r \in Callers,
         \/ Rollback(r)
         \/ ServerRollsBack(r)
         \/ /\ pc[r] \notin {"idle", "done", "rollback"}
            /\ \E where : pc' = [pc EXCEPT ![r] = where]
            /\ answer' = answer \/ \E a : answer' = [answer EXCEPT ![r] = a]
            /\ held' = held \/ \E h : held' = [held EXCEPT ![r] = h]
  PROVE  Remembers(r)
<1>1. CASE Rollback(r)
  BY <1>1 DEF Rollback, Goto, Inv, TypeOK, Alone, Remembers
<1>2. CASE ServerRollsBack(r)
  BY <1>2 DEF ServerRollsBack, Alone, Remembers
<1>3. CASE /\ pc[r] \notin {"idle", "done", "rollback"}
           /\ \E where : pc' = [pc EXCEPT ![r] = where]
           /\ answer' = answer \/ \E a : answer' = [answer EXCEPT ![r] = a]
           /\ held' = held \/ \E h : held' = [held EXCEPT ![r] = h]
  <2>1. Alone(r)
    BY <1>3 DEF Inv, TypeOK, OnCallers, Alone
  <2>2. QED
    BY <1>3, <2>1 DEF Remembers
<1>4. QED
  BY <1>1, <1>2, <1>3

\* The rows of the snapshot that are still there have still expired.
LEMMA StillThereExpired ==
  ASSUME Inv, NEW r \in Callers, pc[r] = "remove"
  PROVE  StillThere(r) \subseteq ExpiredRows(call[r].now)
<1>1. TypeOK /\ PickedExpired(r) /\ call[r].now \in Nat
  BY TimesAssumption DEF Inv, CallOK, SweepCalls
<1>2. ASSUME NEW k \in StillThere(r) PROVE k \in ExpiredRows(call[r].now)
  <2> DEFINE rec == recordFromDatabase(rows[k])
  <2>1. k \in Keys /\ <<k, rec>> \in held[r]
    BY DEF StillThere
  <2>2. rows[k] \in Rows \cup {NoRow} /\ rec \in Records \cup {NoRow}
    BY <1>1, <2>1, RecordType DEF TypeOK, recordFromDatabase
  <2>3. rec /= NoRow /\ rec.expiresAt /= 0 /\ rec.expiresAt <= call[r].now
    BY <1>1, <2>1, <2>2 DEF PickedExpired
  <2>4. rows[k] \in Rows /\ rows[k] /= NoRow
    BY <2>2, <2>3 DEF recordFromDatabase
  <2>5. rec.expiresAt = timestamp(rows[k].expires)
    BY <2>4, RecordType
  <2>6. rows[k].expires /= Nil /\ rows[k].expires <= call[r].now
    BY <2>3, <2>5 DEF timestamp
  <2>7. QED
    BY <2>1, <2>4, <2>6 DEF ExpiredRows
<1>3. QED
  BY <1>2

LEMMA StepEffect ==
  ASSUME Inv, UNCHANGED backend, NEW r \in Callers, Step(r) \/ Break(r) \/ ServerRollsBack(r)
  PROVE  Effect(r)
<1> USE DEF Effect
<1>1. CASE CreateEnvelope(r)
  <2>1. Remembers(r)
    BY <1>1, StepRemembers DEF CreateEnvelope, Return, Error, Leave, Goto
  <2>2. UNCHANGED <<rows, stored>> \/ Inserts(r)
    <3>1. /\ call[r].key \in Keys /\ call[r].input \in Inputs /\ call[r].expiresAt \in Expiries
          /\ validateCreateInput(call[r].input)
      BY <1>1 DEF CreateEnvelope, Inv, CallOK, CreateCalls
    <3>2. Row(r, call[r].input, call[r].expiresAt) \in Rows
      BY <3>1, RowType DEF Inv
    <3>3. QED
      BY <1>1, <3>1, <3>2 DEF CreateEnvelope, Inserts
  <2>3. QED
    BY <2>1, <2>2
<1>2. CASE GetEnvelopeForReplay(r)
  BY <1>2, StepRemembers DEF GetEnvelopeForReplay, Return, Leave, Goto
<1>3. CASE GetEnvelopeByKey(r)
  BY <1>3, StepRemembers DEF GetEnvelopeByKey, ReturnRow, Return, Leave, Goto
<1>4. CASE ConsumeEnvelope(r)
  <2>1. Remembers(r)
    BY <1>4, StepRemembers DEF ConsumeEnvelope, ReturnRow, Return, Error, Leave, Goto
  <2> DEFINE key == call[r].key
             row == Selected(key, call[r].now)
  <2>2. pc[r] = "consume" /\ key \in Keys /\ call[r].op = "consume"
    BY <1>4 DEF ConsumeEnvelope, Inv, CallOK, ReadCalls
  <2>3. row \in Rows \cup {NoRow} /\ row \in {rows[key], NoRow}
    BY <2>2, SelectedType DEF Inv
  <2>4. CASE row = NoRow
    BY <1>4, <2>1, <2>4 DEF ConsumeEnvelope
  <2>5. CASE row /= NoRow
    <3>1. /\ rows' = [rows EXCEPT ![key] = NoRow] /\ stored' = stored
          /\ ReturnRow(r, row) \/ Error(r)
      BY <1>4, <2>5 DEF ConsumeEnvelope
    <3>2. Return(r, "record", recordFromDatabase(row), 0) \/ Error(r)
      BY <2>3, <2>5, <3>1, ReturnRowEffect DEF Inv
    <3>3. \/ answer'[r].code = "error"
          \/ answer'[r].code = "record" /\ answer'[r].rec = recordFromDatabase(row)
      BY <3>2, LeaveEffect DEF Inv, Return, Error, Labels, Answers
    <3>4. Consumes(r)
      BY <2>2, <2>3, <2>5, <3>1, <3>3 DEF Consumes
    <3>5. QED
      BY <2>1, <3>4
  <2>6. QED
    BY <2>4, <2>5
<1>5. CASE LockEnvelopeByKey(r)
  BY <1>5, StepRemembers DEF LockEnvelopeByKey, Leave, Goto
<1>6. CASE DeleteEnvelopeByKey(r)
  BY <1>6, StepRemembers DEF DeleteEnvelopeByKey, Leave, Goto
<1>7. CASE Commit(r)
  <2>1. Remembers(r)
    BY <1>7, StepRemembers DEF Commit, Return, Error, Leave, Goto
  <2>2. /\ pc[r] = "commit" /\ call[r].key \in Keys /\ call[r].op = "consume"
        /\ held[r] = recordFromDatabase(rows[call[r].key])
    BY <1>7 DEF Commit, Inv, CallOK, ReadCalls, Locked
  <2>3. \/ answer'[r].code = "error"
        \/ answer'[r].code = "record" /\ answer'[r].rec = held[r]
    BY <1>7, LeaveEffect DEF Inv, Commit, Return, Error, Labels, Answers
  <2>4. Consumes(r)
    BY <1>7, <2>2, <2>3 DEF Commit, Consumes
  <2>5. QED
    BY <2>1, <2>4
<1>8. CASE Rollback(r)
  BY <1>8, StepRemembers DEF Rollback
<1>9. CASE DeleteExpiredEnvelopes(r)
  <2>1. Remembers(r)
    BY <1>9, StepRemembers DEF DeleteExpiredEnvelopes, ReturnDeleted, Return, Error, Leave, Goto
  <2>2. pc[r] = "sweep" /\ call[r].op = "sweep" /\ call[r].now \in Nat
    BY <1>9, TimesAssumption DEF DeleteExpiredEnvelopes, Inv, CallOK, SweepCalls
  <2>3. Sweeps(r)
    BY <1>9, <2>2, OldestAreExpired DEF DeleteExpiredEnvelopes, ReturnDeleted, Sweeps
  <2>4. QED
    BY <2>1, <2>3
<1>10. CASE SelectExpired(r)
  BY <1>10, StepRemembers DEF SelectExpired, Goto
<1>11. CASE DeleteSelected(r)
  <2>1. Remembers(r)
    BY <1>11, StepRemembers DEF DeleteSelected, ReturnDeleted, Return, Error, Leave, Goto
  <2>2. pc[r] = "remove" /\ call[r].op = "sweep" /\ call[r].now \in Nat
    BY <1>11, TimesAssumption DEF DeleteSelected, Inv, CallOK, SweepCalls
  <2>3. StillThere(r) \in SUBSET ExpiredRows(call[r].now)
    BY <2>2, StillThereExpired
  <2>4. Sweeps(r)
    BY <1>11, <2>2, <2>3 DEF DeleteSelected, ReturnDeleted, Sweeps
  <2>5. QED
    BY <2>1, <2>4
<1>12. CASE Break(r)
  BY <1>12, StepRemembers DEF Break, Error, Return, Leave, Goto
<1>13. CASE ServerRollsBack(r)
  BY <1>13, StepRemembers DEF ServerRollsBack
<1>14. QED
  BY <1>1, <1>2, <1>3, <1>4, <1>5, <1>6, <1>7, <1>8, <1>9, <1>12, <1>13, <1>10, <1>11
  DEF Step

\* What LossIsReported says of a row that is gone.
Reported(k, row) ==
    \E q \in Callers :
        \/ /\ call[q].op = "consume"
           /\ \/ answer[q].code = "record" /\ answer[q].rec = recordFromDatabase(row)
              \/ answer[q].code = "error" /\ call[q].key = k
        \/ call[q].op = "sweep" /\ row.expires /= Nil /\ call[q].now >= row.expires

LEMMA ReportedStays ==
  ASSUME Inv, NEW r \in Callers, Remembers(r), NEW k, NEW row, Reported(k, row)
  PROVE  Reported(k, row)'
<1>1. PICK q \in Callers :
        \/ /\ call[q].op = "consume"
           /\ \/ answer[q].code = "record" /\ answer[q].rec = recordFromDatabase(row)
              \/ answer[q].code = "error" /\ call[q].key = k
        \/ call[q].op = "sweep" /\ row.expires /= Nil /\ call[q].now >= row.expires
  BY DEF Reported
<1>2. pc[q] /= "idle" /\ call'[q] = call[q]
  BY <1>1 DEF Inv, CallOK, Remembers, Alone
<1>3. call[q].op = "consume" => answer'[q] = answer[q]
  BY <1>1 DEF Inv, CallOK, Remembers, Alone
<1>4. QED
  BY <1>1, <1>2, <1>3 DEF Reported

LEMMA StoredStep ==
  ASSUME Inv, StoredInv, NEW r \in Callers, Effect(r)
  PROVE  StoredInv'
<1>1. Remembers(r) /\ TypeOK /\ stored \subseteq Keys \X Rows
  BY DEF Effect, Inv, StoredInv
<1>2. ASSUME NEW k \in Keys, NEW row \in Rows, <<k, row>> \in stored
      PROVE  rows'[k] = row \/ Reported(k, row)'
  <2>1. rows[k] = row \/ Reported(k, row)
    BY <1>2 DEF StoredInv, LossIsReported, Reported
  <2>2. CASE Reported(k, row)
    BY <1>1, <2>2, ReportedStays
  <2>3. CASE rows[k] = row /\ rows'[k] /= rows[k]
    <3>1. row /= NoRow
      BY NoRowAssumption
    <3>2. CASE Consumes(r)
      <4>1. k = call[r].key
        BY <1>1, <2>3, <3>2 DEF Consumes, TypeOK
      <4>2. call'[r] = call[r] /\ call[r].op = "consume"
        BY <1>1, <3>2 DEF Consumes, Remembers
      <4>3. \/ answer'[r].code = "error"
            \/ answer'[r].code = "record" /\ answer'[r].rec = recordFromDatabase(row)
        BY <2>3, <3>2, <4>1 DEF Consumes
      <4>4. QED
        BY <4>1, <4>2, <4>3 DEF Reported
    <3>3. CASE Sweeps(r)
      <4>1. k \in ExpiredRows(call[r].now)
        BY <1>1, <2>3, <3>3 DEF Sweeps, TypeOK
      <4>2. row.expires /= Nil /\ row.expires <= call[r].now
        BY <2>3, <4>1 DEF ExpiredRows
      <4>3. row.expires \in Int /\ call[r].now \in Int
        BY <3>3 DEF Rows, Lengths, Sweeps
      <4>4. call[r].now >= row.expires
        BY <4>2, <4>3
      <4>5. call'[r] = call[r] /\ call[r].op = "sweep"
        BY <1>1, <3>3 DEF Sweeps, Remembers
      <4>6. QED
        BY <4>2, <4>4, <4>5 DEF Reported
    <3>4. CASE Inserts(r)
      BY <1>1, <2>3, <3>1, <3>4 DEF Inserts, TypeOK
    <3>5. QED
      BY <2>3, <3>2, <3>3, <3>4 DEF Effect
  <2>4. QED
    BY <2>1, <2>2, <2>3
<1>3. ASSUME NEW entry \in stored', entry \notin stored
      PROVE  entry \in Keys \X Rows /\ rows'[entry[1]] = entry[2]
  <2>1. Inserts(r)
    BY <1>3 DEF Effect, Consumes, Sweeps
  <2>2. PICK k \in Keys, new \in Rows :
            rows' = [rows EXCEPT ![k] = new] /\ stored' = stored \cup {<<k, new>>}
    BY <2>1, Zenon DEF Inserts
  <2>3. entry = <<k, new>>
    BY <1>3, <2>2
  <2>4. QED
    BY <1>1, <2>2, <2>3 DEF TypeOK
<1>4. stored' \subseteq Keys \X Rows
  BY <1>1, <1>3
<1>5. LossIsReported'
  <2>1. ASSUME NEW entry \in stored'
        PROVE  rows'[entry[1]] = entry[2] \/ Reported(entry[1], entry[2])'
    <3>1. CASE entry \in stored
      <4>1. PICK k \in Keys, row \in Rows : entry = <<k, row>>
        BY <1>1, <3>1
      <4>2. QED
        BY <1>2, <3>1, <4>1
    <3>2. CASE entry \notin stored
      BY <1>3, <3>2
    <3>3. QED
      BY <3>1, <3>2
  <2>2. QED
    BY <2>1 DEF LossIsReported, Reported
<1>6. QED
  BY <1>4, <1>5 DEF StoredInv

LEMMA StoredStutter ==
  ASSUME StoredInv, UNCHANGED <<vars, backend>>
  PROVE  StoredInv'
BY DEF StoredInv, LossIsReported, vars

\* A row that was stored and is gone was handed out, had expired for a cleanup, or was
\* lost by a Consume that reported an error.
THEOREM LossIsReportedAlways == Spec => []LossIsReported
<1>1. Init => StoredInv
  BY DEF Init, StoredInv, LossIsReported
<1>2. Inv /\ StoredInv /\ [Next]_<<vars, backend>> => StoredInv'
  <2> SUFFICES ASSUME Inv, StoredInv, [Next]_<<vars, backend>> PROVE StoredInv'
    OBVIOUS
  <2>1. CASE UNCHANGED <<vars, backend>>
    BY <2>1, StoredStutter
  <2>2. CASE Next
    <3>1. PICK r \in Callers : Call(r) \/ Step(r) \/ Break(r) \/ ServerRollsBack(r)
      BY <2>2 DEF Next
    <3>2. Effect(r)
      BY <2>2, <3>1, CallEffect, StepEffect DEF Next
    <3>3. QED
      BY <3>2, StoredStep
  <2>3. QED
    BY <2>1, <2>2
<1>3. StoredInv => LossIsReported
  BY DEF StoredInv
<1>4. QED
  BY <1>1, <1>2, <1>3, Invariance, PTL DEF Spec

------------------------------------------------------------------------------
\* The refinement of RepositoryContract.

Table == [k \in Keys |-> recordFromDatabase(rows[k])]
State == [r \in Callers |-> ContractState(r)]
Calls == [r \in Callers |-> ContractCall(r)]
Picked == [r \in Callers |-> ContractPicked(r)]

\* The contract's state of a call that is about to run the statement where.
StateAt(where) ==
    IF where = "idle" THEN "idle"
    ELSE IF where = "replay" THEN "taken"
    ELSE IF where = "remove" THEN "picked"
    ELSE IF where \in {"done", "rollback"} THEN "done" ELSE "pending"

LEMMA StateOfPc ==
  ASSUME TypeOK, NEW r \in Callers
  PROVE  State[r] = StateAt(pc[r])
BY DEF TypeOK, State, ContractState, StateAt

LEMMA StateStep ==
  ASSUME TypeOK, NEW r \in Callers, NEW where \in Labels, Goto(r, where)
  PROVE  State' = [State EXCEPT ![r] = StateAt(where)]
<1>1. pc'[r] = where /\ \A q \in Callers \ {r} : pc'[q] = pc[q]
  BY GotoEffect DEF Moves
<1>2. ASSUME NEW q \in Callers
      PROVE  ContractState(q)' = IF q = r THEN StateAt(where) ELSE ContractState(q)
  BY <1>1 DEF ContractState, StateAt, Labels
<1>3. QED
  BY <1>2 DEF State

\* Only a sweep between its two halves has picked anything.
LEMMA PickedAt ==
  ASSUME NEW r \in Callers
  PROVE  Picked[r] = IF pc[r] = "remove" THEN held[r] ELSE {}
BY DEF Picked, ContractPicked

LEMMA PickedStep ==
  ASSUME TypeOK, NEW r \in Callers, NEW where \in Labels, Goto(r, where),
         \A q \in Callers \ {r} : held'[q] = held[q]
  PROVE  Picked' = [Picked EXCEPT ![r] = IF where = "remove" THEN held'[r] ELSE {}]
<1>1. pc'[r] = where /\ \A q \in Callers \ {r} : pc'[q] = pc[q]
  BY GotoEffect DEF Moves
<1>2. ASSUME NEW q \in Callers
      PROVE  ContractPicked(q)' = IF q = r THEN IF where = "remove" THEN held'[r] ELSE {}
                                  ELSE ContractPicked(q)
  BY <1>1 DEF ContractPicked
<1>3. QED
  BY <1>2 DEF Picked

LEMMA PickedStays ==
  ASSUME TypeOK, NEW r \in Callers, NEW where \in Labels, Goto(r, where),
         \A q \in Callers \ {r} : held'[q] = held[q],
         pc[r] /= "remove", where /= "remove"
  PROVE  Picked' = Picked
<1>1. Picked' = [Picked EXCEPT ![r] = {}]
  BY PickedStep
<1>2. Picked[r] = {} /\ Picked = [q \in Callers |-> Picked[q]]
  BY PickedAt DEF Picked
<1>3. QED
  BY <1>1, <1>2

LEMMA CallsStay ==
  ASSUME call' = call
  PROVE  Calls' = Calls
BY DEF Calls, ContractCall, Content, cloneBytes, Length

LEMMA TableStays ==
  ASSUME rows' = rows
  PROVE  Table' = Table
BY DEF Table, recordFromDatabase, cloneBytes, Length, timestamp

LEMMA TableWrite ==
  ASSUME TypeOK, NEW k \in Keys, NEW row \in Rows \cup {NoRow}, rows' = [rows EXCEPT ![k] = row]
  PROVE  Table' = [Table EXCEPT ![k] = recordFromDatabase(row)]
<1>1. ASSUME NEW l \in Keys
      PROVE  rows'[l] = IF l = k THEN row ELSE rows[l]
  BY DEF TypeOK
<1>2. ASSUME NEW l \in Keys
      PROVE  recordFromDatabase(rows[l])' =
                 IF l = k THEN recordFromDatabase(row) ELSE recordFromDatabase(rows[l])
  BY <1>1 DEF recordFromDatabase, cloneBytes, Length, timestamp
<1>3. QED
  BY <1>2 DEF Table

LEMMA TableAt ==
  ASSUME TypeOK, NEW k \in Keys
  PROVE  /\ Table[k] = recordFromDatabase(rows[k])
         /\ Table[k] = NoRow <=> rows[k] = NoRow
BY RecordType DEF Table, TypeOK, recordFromDatabase

\* The WHERE clause of the lookups finds the records that have not expired.
LEMMA SelectedIsVisible ==
  ASSUME TypeOK, NEW k \in Keys, NEW now \in Nat
  PROVE  Contract!Visible(Table, k, now) = recordFromDatabase(Selected(k, now))
<1>1. CASE rows[k] = NoRow
  BY <1>1, TableAt DEF Contract!Visible, Selected, recordFromDatabase
<1>2. CASE rows[k] \in Rows
  <2>1. /\ rows[k] /= NoRow /\ Table[k] /= NoRow /\ Table[k] = recordFromDatabase(rows[k])
        /\ Table[k].expiresAt = timestamp(rows[k].expires)
        /\ rows[k].expires \in Lengths \ {0}
    BY <1>2, NoRowAssumption, TableAt, RecordType DEF Rows
  <2>2. Contract!HasExpired(now, Table[k].expiresAt) <=>
            ~(rows[k].expires = Nil \/ rows[k].expires > now)
    BY <2>1 DEF Contract!HasExpired, Contract!NoExpiry, timestamp, Nil, Lengths
  <2>3. CASE rows[k].expires = Nil \/ rows[k].expires > now
    BY <2>1, <2>2, <2>3 DEF Contract!Visible, Selected
  <2>4. CASE ~(rows[k].expires = Nil \/ rows[k].expires > now)
    BY <2>1, <2>2, <2>4 DEF Contract!Visible, Selected, recordFromDatabase
  <2>5. QED
    BY <2>3, <2>4
<1>3. QED
  BY <1>1, <1>2 DEF TypeOK

LEMMA ExpiredRowsAreExpired ==
  ASSUME TypeOK, NEW now \in Nat
  PROVE  /\ Contract!Expired(Table, now) = ExpiredRows(now)
         /\ \A k \in ExpiredRows(now) : Table[k].expiresAt = rows[k].expires
<1>1. ASSUME NEW k \in Keys, rows[k] /= NoRow
      PROVE  /\ Table[k] /= NoRow
             /\ Table[k].expiresAt = timestamp(rows[k].expires)
             /\ rows[k].expires \in Lengths \ {0}
  <2>1. rows[k] \in Rows
    BY <1>1 DEF TypeOK
  <2>2. QED
    BY <2>1, TableAt, RecordType DEF Rows
<1>2. ASSUME NEW k \in Keys, rows[k] /= NoRow
      PROVE  /\ Contract!HasExpired(now, Table[k].expiresAt) <=>
                    (rows[k].expires /= Nil /\ rows[k].expires <= now)
             /\ rows[k].expires /= Nil => Table[k].expiresAt = rows[k].expires
  <2>1. rows[k].expires \in Lengths \ {0} /\ Table[k].expiresAt = timestamp(rows[k].expires)
    BY <1>1, <1>2
  <2>2. QED
    BY <2>1 DEF Contract!HasExpired, Contract!NoExpiry, timestamp, Nil, Lengths
<1>3. \A k \in Keys : Table[k] /= NoRow <=> rows[k] /= NoRow
  BY TableAt
<1>4. QED
  BY <1>1, <1>2, <1>3 DEF Contract!Expired, ExpiredRows

\* The contract's operations in terms of Table, State, Calls and Picked.
AnswersWith(r, code, rec, count) ==
    /\ State' = [State EXCEPT ![r] = "done"]
    /\ Picked' = [Picked EXCEPT ![r] = {}]
    /\ answer' = [answer EXCEPT ![r] = [code |-> code, rec |-> rec, count |-> count]]

LEMMA ContractInvoke ==
  ASSUME NEW r \in Callers, State[r] = "idle", Table' = Table,
         Calls' = [Calls EXCEPT ![r] = Calls'[r]],
         \/ /\ State' = [State EXCEPT ![r] = "pending"]
            /\ Picked' = Picked /\ answer' = answer
         \/ AnswersWith(r, "invalid", NoRow, 0)
  PROVE  Contract!Next
<1>1. \/ Contract!Invoke(r, Calls'[r], TRUE)
      \/ Contract!Invoke(r, Calls'[r], FALSE)
  BY DEF AnswersWith, Contract!Invoke, Contract!Return, Table, State, Calls, Picked
<1>2. QED
  BY <1>1 DEF Contract!Next, State, Calls

LEMMA ContractCreate ==
  ASSUME NEW r \in Callers, NEW k, NEW new,
         State[r] = "pending", Calls[r].op = "create", k = Calls[r].key, Calls' = Calls,
         new = [content |-> Calls[r].content, expiresAt |-> Calls[r].expiresAt, by |-> r],
         \/ /\ Table[k] = NoRow /\ Table' = [Table EXCEPT ![k] = new]
            /\ AnswersWith(r, "created", new, 0) \/ AnswersWith(r, "error", NoRow, 0)
         \/ /\ Table[k] /= NoRow /\ Table' = Table
            /\ State' = [State EXCEPT ![r] = "taken"]
            /\ Picked' = Picked /\ answer' = answer
  PROVE  Contract!Next
<1>1. Contract!Create(r)
  BY DEF Contract!Create, Contract!Pending, Contract!Insert, Contract!Return, Contract!Lost,
         AnswersWith, Table, State, Calls, Picked
<1>2. QED
  BY <1>1 DEF Contract!Next, Contract!Step

LEMMA ContractReplay ==
  ASSUME NEW r \in Callers, NEW there, State[r] = "taken", there = Table[Calls[r].key],
         Table' = Table, Calls' = Calls,
         IF there /= NoRow /\ there.content.hash = Calls[r].content.hash
         THEN AnswersWith(r, "replayed", there, 0)
         ELSE AnswersWith(r, "conflict", NoRow, 0)
  PROVE  Contract!Next
<1>1. Contract!Replay(r)
  BY DEF Contract!Replay, Contract!Return, AnswersWith, Table, State, Calls, Picked
<1>2. QED
  BY <1>1 DEF Contract!Next, Contract!Step

LEMMA ContractGet ==
  ASSUME NEW r \in Callers, State[r] = "pending", Calls[r].op = "get",
         Table' = Table, Calls' = Calls, NEW there,
         there = Contract!Visible(Table, Calls[r].key, Calls[r].now),
         AnswersWith(r, IF there = NoRow THEN "not_found" ELSE "record", there, 0)
  PROVE  Contract!Next
<1>1. Contract!Get(r)
  BY DEF Contract!Get, Contract!Pending, Contract!Return, AnswersWith, Table, State, Calls, Picked
<1>2. QED
  BY <1>1 DEF Contract!Next, Contract!Step

LEMMA ContractConsume ==
  ASSUME NEW r \in Callers, State[r] = "pending", Calls[r].op = "consume", Calls' = Calls,
         NEW there, there = Contract!Visible(Table, Calls[r].key, Calls[r].now),
         \/ there = NoRow /\ AnswersWith(r, "not_found", NoRow, 0) /\ Table' = Table
         \/ /\ there /= NoRow
            /\ Table' = [k \in Keys |-> IF k \in {Calls[r].key} THEN NoRow ELSE Table[k]]
            /\ AnswersWith(r, "record", there, 0) \/ AnswersWith(r, "error", NoRow, 0)
  PROVE  Contract!Next
<1>1. Contract!Consume(r)
  BY DEF Contract!Consume, Contract!Delete, Contract!Pending, Contract!Return, Contract!Lost,
         AnswersWith, Table, State, Calls, Picked
<1>2. QED
  BY <1>1 DEF Contract!Next, Contract!Step

LEMMA SameCardinality ==
  ASSUME NEW S
  PROVE  Contract!Cardinality(S) = Cardinality(S)
BY Zenon DEF Contract!Cardinality, Cardinality

LEMMA ContractDeleteExpired ==
  ASSUME NEW r \in Callers, State[r] = "pending", Calls[r].op = "sweep", Calls' = Calls,
         NEW S \in Contract!ExpiredBatches(Table, Calls[r].now, Calls[r].batch),
         Table' = [k \in Keys |-> IF k \in S THEN NoRow ELSE Table[k]],
         AnswersWith(r, "deleted", NoRow, Cardinality(S)) \/ AnswersWith(r, "error", NoRow, 0)
  PROVE  Contract!Next
<1>1. Contract!Pending(r, "sweep")
  BY DEF Contract!Pending, State, Calls
<1>2. Table' = Contract!Delete(Table, S)
  BY DEF Contract!Delete
<1>3. Contract!Return(r, "deleted", NoRow, Cardinality(S)) \/ Contract!Lost(r)
  BY DEF Contract!Return, Contract!Lost, AnswersWith, State, Picked
<1>4. \E T \in Contract!ExpiredBatches(Table, Calls[r].now, Calls[r].batch) :
          /\ Table' = Contract!Delete(Table, T)
          /\ Contract!Return(r, "deleted", NoRow, Contract!Cardinality(T)) \/ Contract!Lost(r)
  BY <1>2, <1>3, SameCardinality
<1>5. Contract!DeleteExpired(r)
  BY <1>1, <1>4, Zenon DEF Contract!DeleteExpired, Table, Calls
<1>6. QED
  BY <1>5 DEF Contract!Next, Contract!Step

LEMMA ContractPick ==
  ASSUME NEW r \in Callers, State[r] = "pending", Calls[r].op = "sweep", Calls' = Calls,
         NEW S \in Contract!ExpiredBatches(Table, Calls[r].now, Calls[r].batch),
         Picked' = [Picked EXCEPT ![r] = {<<k, Table[k]>> : k \in S}],
         State' = [State EXCEPT ![r] = "picked"], Table' = Table, answer' = answer
  PROVE  Contract!Next
<1>1. Contract!Pending(r, "sweep")
  BY DEF Contract!Pending, State, Calls
<1>2. Contract!Pick(r)
  BY <1>1, Zenon DEF Contract!Pick, Table, State, Calls, Picked
<1>3. QED
  BY <1>2 DEF Contract!Next, Contract!Step

LEMMA ContractDeletePicked ==
  ASSUME NEW r \in Callers, State[r] = "picked", Calls' = Calls,
         NEW S, S = {k \in Keys : <<k, Table[k]>> \in Picked[r]},
         Table' = [k \in Keys |-> IF k \in S THEN NoRow ELSE Table[k]],
         AnswersWith(r, "deleted", NoRow, Cardinality(S)) \/ AnswersWith(r, "error", NoRow, 0)
  PROVE  Contract!Next
<1>1. Table' = Contract!Delete(Table, S)
  BY DEF Contract!Delete
<1>2. Contract!Return(r, "deleted", NoRow, Cardinality(S)) \/ Contract!Lost(r)
  BY DEF Contract!Return, Contract!Lost, AnswersWith, State, Picked
<1>3. Contract!Return(r, "deleted", NoRow, Contract!Cardinality(S)) \/ Contract!Lost(r)
  BY <1>2, SameCardinality
<1>4. Contract!DeletePicked(r)
  BY <1>1, <1>3, Zenon DEF Contract!DeletePicked, Table, State, Calls, Picked
<1>5. QED
  BY <1>4 DEF Contract!Next, Contract!Step

LEMMA ContractFail ==
  ASSUME NEW r \in Callers, State[r] \in {"pending", "taken", "picked"}, Table' = Table, Calls' = Calls,
         AnswersWith(r, "error", NoRow, 0)
  PROVE  Contract!Next
<1>1. Contract!Fail(r)
  BY DEF Contract!Fail, Contract!Return, Contract!Lost, AnswersWith, Table, State, Calls, Picked
<1>2. QED
  BY <1>1 DEF Contract!Next, Contract!Step

LEMMA ContractStutter ==
  ASSUME Table' = Table, State' = State, Calls' = Calls, Picked' = Picked, answer' = answer
  PROVE  UNCHANGED Contract!vars
BY DEF Contract!vars, Table, State, Calls, Picked

\* How the steps of the callers look to the contract.
LEMMA AnswersAs ==
  ASSUME TypeOK, NEW r \in Callers, NEW where \in {"done", "rollback"}, NEW code, NEW rec,
         NEW count, Leave(r, where, code, rec, count), held' = held
  PROVE  AnswersWith(r, code, rec, count)
<1>1. where \in Labels /\ StateAt(where) = "done"
  BY DEF Labels, StateAt
<1>2. State' = [State EXCEPT ![r] = "done"] /\ Picked' = [Picked EXCEPT ![r] = {}]
  BY <1>1, StateStep, PickedStep DEF Leave
<1>3. QED
  BY <1>2 DEF Leave, AnswersWith

LEMMA ErrorAnswers ==
  ASSUME TypeOK, NEW r \in Callers, Error(r), held' = held
  PROVE  AnswersWith(r, "error", NoRow, 0)
BY AnswersAs DEF Error, Return

\* A step that the contract sees as no change of state.
LEMMA StateStutters ==
  ASSUME TypeOK, NEW r \in Callers, NEW where \in Labels, Goto(r, where),
         State[r] = StateAt(where)
  PROVE  State' = State
<1>1. State' = [State EXCEPT ![r] = StateAt(where)]
  BY StateStep
<1>2. State = [q \in Callers |-> State[q]]
  BY DEF State
<1>3. QED
  BY <1>1, <1>2

\* What the contract sees of a call that has begun.
LEMMA CallSeen ==
  ASSUME NEW r \in Callers
  PROVE  /\ call[r].op /= "create" => Calls[r] = call[r]
         /\ call[r].op = "create" =>
                /\ Calls[r].op = "create" /\ Calls[r].key = call[r].key
                /\ Calls[r].expiresAt = call[r].expiresAt
                /\ Calls[r].content = Content(call[r].input)
BY DEF Calls, ContractCall

LEMMA CallsWrite ==
  ASSUME NEW r \in Callers, NEW c, TypeOK, call' = [call EXCEPT ![r] = c]
  PROVE  Calls' = [Calls EXCEPT ![r] = Calls'[r]]
<1>1. \A q \in Callers \ {r} : call'[q] = call[q]
  BY DEF TypeOK, OnCallers
<1>2. ASSUME NEW q \in Callers, q /= r PROVE ContractCall(q)' = ContractCall(q)
  <2>1. call'[q] = call[q]
    BY <1>1, <1>2
  <2>2. QED
    BY <2>1 DEF ContractCall, Content, cloneBytes, Length
<1>3. Calls' = [q \in Callers |-> ContractCall(q)'] /\ Calls = [q \in Callers |-> ContractCall(q)]
  BY DEF Calls
<1>4. QED
  BY <1>2, <1>3

LEMMA CallRefines ==
  ASSUME Inv, NEW r \in Callers, Call(r)
  PROVE  Contract!Next
<1>1. TypeOK /\ pc[r] = "idle" /\ UNCHANGED <<rows, held>>
  BY DEF Inv, Call, CallCreate, CallRead, CallDeleteExpired
<1>2. State[r] = "idle" /\ Table' = Table
  BY <1>1, StateOfPc, TableStays DEF StateAt
<1>3. PICK c : call' = [call EXCEPT ![r] = c]
  BY Zenon DEF Call, CallCreate, CallRead, CallDeleteExpired
<1>4. Calls' = [Calls EXCEPT ![r] = Calls'[r]]
  BY <1>1, <1>3, CallsWrite
<1>5. \/ /\ \E where \in {"insert", "select", "lock", "consume", "sweep"} : Goto(r, where)
         /\ answer' = answer
      \/ Return(r, "invalid", NoRow, 0)
  BY DEF Call, CallCreate, CallRead, CallDeleteExpired
<1>6. CASE Return(r, "invalid", NoRow, 0)
  BY <1>1, <1>2, <1>4, <1>6, AnswersAs, ContractInvoke DEF Return
<1>7. CASE /\ \E where \in {"insert", "select", "lock", "consume", "sweep"} : Goto(r, where)
           /\ answer' = answer
  <2>1. PICK where \in {"insert", "select", "lock", "consume", "sweep"} : Goto(r, where)
    BY <1>7
  <2>2. where \in Labels /\ StateAt(where) = "pending"
    BY DEF Labels, StateAt
  <2>3. State' = [State EXCEPT ![r] = "pending"] /\ Picked' = Picked
    BY <1>1, <2>1, <2>2, StateStep, PickedStays
  <2>4. QED
    BY <1>2, <1>4, <1>7, <2>3, ContractInvoke
<1>8. QED
  BY <1>5, <1>6, <1>7

LEMMA CreateEnvelopeRefines ==
  ASSUME Inv, NEW r \in Callers, CreateEnvelope(r)
  PROVE  Contract!Next
<1> DEFINE c == call[r]
           row == Row(r, c.input, c.expiresAt)
           new == [content |-> Calls[r].content, expiresAt |-> Calls[r].expiresAt, by |-> r]
<1>1. /\ TypeOK /\ pc[r] = "insert" /\ UNCHANGED <<call, held>>
      /\ c \in CreateCalls /\ validateCreateInput(c.input)
  BY DEF Inv, CallOK, CreateEnvelope
<1>2. c.op = "create" /\ c.key \in Keys /\ c.input \in Inputs /\ c.expiresAt \in Expiries
  BY <1>1 DEF CreateCalls
<1>3. /\ State[r] = "pending" /\ Calls' = Calls
      /\ Calls[r].op = "create" /\ Calls[r].key = c.key
      /\ Calls[r].expiresAt = c.expiresAt /\ Calls[r].content = Content(c.input)
  BY <1>1, <1>2, StateOfPc, CallsStay, CallSeen DEF StateAt
<1>4. row \in Rows /\ recordFromDatabase(row) = new
  BY <1>1, <1>2, <1>3, RowType
<1>5. Table[c.key] = NoRow <=> rows[c.key] = NoRow
  BY <1>1, <1>2, TableAt
<1>6. CASE rows[c.key] = NoRow
  <2>1. /\ rows' = [rows EXCEPT ![c.key] = row]
        /\ Return(r, "created", recordFromDatabase(row), 0) \/ Error(r)
    BY <1>6 DEF CreateEnvelope
  <2>2. Table' = [Table EXCEPT ![c.key] = new]
    BY <1>1, <1>2, <1>4, <2>1, TableWrite
  <2>3. AnswersWith(r, "created", new, 0) \/ AnswersWith(r, "error", NoRow, 0)
    BY <1>1, <1>4, <2>1, AnswersAs, ErrorAnswers DEF Return
  <2>4. QED
    BY <1>3, <1>5, <1>6, <2>2, <2>3, ContractCreate
<1>7. CASE rows[c.key] /= NoRow
  <2>1. Goto(r, "replay") /\ UNCHANGED <<rows, answer>>
    BY <1>7 DEF CreateEnvelope
  <2>2. State' = [State EXCEPT ![r] = "taken"] /\ Table' = Table /\ Picked' = Picked
    BY <1>1, <2>1, StateStep, TableStays, PickedStays DEF Labels, StateAt
  <2>3. QED
    BY <1>3, <1>5, <1>7, <2>1, <2>2, ContractCreate
<1>8. QED
  BY <1>6, <1>7

LEMMA GetEnvelopeForReplayRefines ==
  ASSUME Inv, NEW r \in Callers, GetEnvelopeForReplay(r)
  PROVE  Contract!Next
<1> DEFINE c == call[r]
           there == Table[Calls[r].key]
           existing == ReplayRow(r)
<1>1. /\ TypeOK /\ pc[r] = "replay" /\ UNCHANGED <<rows, call, held>> /\ c \in CreateCalls
  BY DEF Inv, CallOK, GetEnvelopeForReplay
<1>2. c.op = "create" /\ c.key \in Keys
  BY <1>1 DEF CreateCalls
<1>3. /\ State[r] = "taken" /\ Calls' = Calls /\ Table' = Table
      /\ Calls[r].key = c.key /\ Calls[r].content.hash = c.input.hash
  <2>1. State[r] = "taken" /\ Calls' = Calls /\ Table' = Table
    BY <1>1, StateOfPc, CallsStay, TableStays DEF StateAt
  <2>2. Calls[r].key = c.key /\ Calls[r].content = Content(c.input)
    BY <1>2, CallSeen
  <2>3. QED
    BY <2>1, <2>2 DEF Content
<1>4. there = recordFromDatabase(rows[c.key]) /\ (there = NoRow <=> rows[c.key] = NoRow)
  BY <1>1, <1>2, <1>3, TableAt
<1>5. /\ existing = rows[c.key]
      /\ rows[c.key] /= NoRow => there.content.hash = rows[c.key].hash
  <2>1. CASE rows[c.key] = NoRow
    BY <2>1 DEF ReplayRow, Selected
  <2>2. CASE rows[c.key] \in Rows
    <3>1. rows[c.key].expires = Nil \/ rows[c.key].expires > 0
      BY <2>2 DEF Rows, Lengths, Nil
    <3>2. QED
      BY <1>4, <2>2, <3>1, RecordType DEF ReplayRow, Selected
  <2>3. QED
    BY <1>1, <1>2, <2>1, <2>2 DEF TypeOK
<1>6. IF there /= NoRow /\ there.content.hash = Calls[r].content.hash
      THEN Return(r, "replayed", there, 0) ELSE Return(r, "conflict", NoRow, 0)
  BY <1>3, <1>4, <1>5 DEF GetEnvelopeForReplay
<1>7. IF there /= NoRow /\ there.content.hash = Calls[r].content.hash
      THEN AnswersWith(r, "replayed", there, 0) ELSE AnswersWith(r, "conflict", NoRow, 0)
  BY <1>1, <1>6, AnswersAs DEF Return
<1>8. QED
  BY <1>3, <1>7, ContractReplay

LEMMA GetEnvelopeByKeyRefines ==
  ASSUME Inv, NEW r \in Callers, GetEnvelopeByKey(r)
  PROVE  Contract!Next
<1> DEFINE c == call[r]
           row == Selected(c.key, c.now)
           there == Contract!Visible(Table, Calls[r].key, Calls[r].now)
<1>1. /\ TypeOK /\ pc[r] = "select" /\ UNCHANGED <<rows, call, held>>
      /\ c \in ReadCalls /\ c.op = "get" /\ ReturnRow(r, row)
  BY DEF Inv, CallOK, GetEnvelopeByKey
<1>2. c.key \in Keys /\ c.now \in Nat
  BY <1>1, TimesAssumption DEF ReadCalls
<1>3. State[r] = "pending" /\ Calls' = Calls /\ Table' = Table /\ Calls[r] = c
  BY <1>1, StateOfPc, CallsStay, TableStays, CallSeen DEF StateAt
<1>4. there = recordFromDatabase(row) /\ row \in Rows \cup {NoRow}
  BY <1>1, <1>2, <1>3, SelectedIsVisible, SelectedType
<1>5. row = NoRow <=> there = NoRow
  BY <1>4, RecordType DEF recordFromDatabase
<1>6. Return(r, IF there = NoRow THEN "not_found" ELSE "record", there, 0)
  BY <1>1, <1>4, <1>5, ReturnRowEffect
<1>7. AnswersWith(r, IF there = NoRow THEN "not_found" ELSE "record", there, 0)
  BY <1>1, <1>6, AnswersAs DEF Return
<1>8. QED
  BY <1>1, <1>3, <1>7, ContractGet

\* A Consume that deletes its visible row, by DELETE ... RETURNING or by COMMIT.
LEMMA ConsumeRefines ==
  ASSUME TypeOK, NEW r \in Callers, State[r] = "pending", UNCHANGED <<call, held>>,
         call[r] \in ReadCalls, call[r].op = "consume",
         NEW row, row = Selected(call[r].key, call[r].now),
         \/ /\ row = NoRow /\ rows' = rows
            /\ \E where \in {"done", "rollback"} : Leave(r, where, "not_found", NoRow, 0)
         \/ /\ row /= NoRow /\ rows' = [rows EXCEPT ![call[r].key] = NoRow]
            /\ Return(r, "record", recordFromDatabase(row), 0) \/ Error(r)
  PROVE  Contract!Next
<1> DEFINE c == call[r]
           there == Contract!Visible(Table, Calls[r].key, Calls[r].now)
<1>1. c.key \in Keys /\ c.now \in Nat
  BY TimesAssumption DEF ReadCalls
<1>2. Calls' = Calls /\ Calls[r] = c /\ Calls[r].op = "consume"
  BY CallsStay, CallSeen
<1>3. there = recordFromDatabase(row) /\ row \in Rows \cup {NoRow}
  BY <1>1, <1>2, SelectedIsVisible, SelectedType
<1>4. row = NoRow <=> there = NoRow
  BY <1>3, RecordType DEF recordFromDatabase
<1>5. CASE row = NoRow
  <2>1. AnswersWith(r, "not_found", NoRow, 0)
    BY <1>5, AnswersAs
  <2>2. Table' = Table
    BY <1>5, TableStays
  <2>3. QED
    BY <1>2, <1>4, <1>5, <2>1, <2>2, ContractConsume
<1>6. CASE row /= NoRow
  <2>1. AnswersWith(r, "record", there, 0) \/ AnswersWith(r, "error", NoRow, 0)
    BY <1>3, <1>6, AnswersAs, ErrorAnswers DEF Return
  <2>2. Table' = [Table EXCEPT ![c.key] = NoRow]
    BY <1>1, <1>6, TableWrite DEF recordFromDatabase
  <2>3. Table' = [k \in Keys |-> IF k \in {Calls[r].key} THEN NoRow ELSE Table[k]]
    BY <1>1, <1>2, <2>2 DEF Table
  <2>4. QED
    BY <1>2, <1>4, <1>6, <2>1, <2>3, ContractConsume
<1>7. QED
  BY <1>5, <1>6

LEMMA ConsumeEnvelopeRefines ==
  ASSUME Inv, NEW r \in Callers, ConsumeEnvelope(r)
  PROVE  Contract!Next
<1> DEFINE c == call[r]
           row == Selected(c.key, c.now)
<1>1. /\ TypeOK /\ pc[r] = "consume" /\ UNCHANGED <<call, held>>
      /\ c \in ReadCalls /\ c.op = "consume" /\ c.key \in Keys
  BY DEF Inv, CallOK, ConsumeEnvelope, ReadCalls
<1>2. State[r] = "pending"
  BY <1>1, StateOfPc DEF StateAt
<1>3. row \in Rows \cup {NoRow}
  BY <1>1, SelectedType
<1>4. CASE row = NoRow
  <2>1. rows' = rows /\ Return(r, "not_found", NoRow, 0)
    BY <1>4 DEF ConsumeEnvelope, ReturnRow
  <2>2. QED
    BY <1>1, <1>2, <1>4, <2>1, ConsumeRefines DEF Return
<1>5. CASE row /= NoRow
  <2>1. rows' = [rows EXCEPT ![c.key] = NoRow] /\ (ReturnRow(r, row) \/ Error(r))
    BY <1>5 DEF ConsumeEnvelope
  <2>2. Return(r, "record", recordFromDatabase(row), 0) \/ Error(r)
    BY <1>1, <1>3, <1>5, <2>1, ReturnRowEffect
  <2>3. QED
    BY <1>1, <1>2, <1>5, <2>1, <2>2, ConsumeRefines
<1>6. QED
  BY <1>4, <1>5

LEMMA CommitRefines ==
  ASSUME Inv, NEW r \in Callers, Commit(r)
  PROVE  Contract!Next
<1> DEFINE c == call[r]
           row == Selected(c.key, c.now)
<1>1. /\ TypeOK /\ pc[r] = "commit" /\ UNCHANGED <<call, held>>
      /\ c \in ReadCalls /\ c.op = "consume" /\ Locked(r)
  BY DEF Inv, CallOK, Commit
<1>2. State[r] = "pending"
  BY <1>1, StateOfPc DEF StateAt
<1>3. row /= NoRow /\ held[r] = recordFromDatabase(row)
  BY <1>1 DEF Locked, Selected
<1>4. /\ rows' = [rows EXCEPT ![c.key] = NoRow]
      /\ Return(r, "record", recordFromDatabase(row), 0) \/ Error(r)
  BY <1>3 DEF Commit
<1>5. QED
  BY <1>1, <1>2, <1>3, <1>4, ConsumeRefines

\* Locking the row is no step of the contract; finding none is the whole Consume.
LEMMA LockEnvelopeByKeyRefines ==
  ASSUME Inv, NEW r \in Callers, LockEnvelopeByKey(r)
  PROVE  Contract!Next \/ UNCHANGED Contract!vars
<1> DEFINE c == call[r]
           row == Selected(c.key, c.now)
<1>1. /\ TypeOK /\ pc[r] = "lock" /\ UNCHANGED <<rows, call>>
      /\ c \in ReadCalls /\ c.op = "consume"
  BY DEF Inv, CallOK, LockEnvelopeByKey
<1>2. State[r] = "pending"
  BY <1>1, StateOfPc DEF StateAt
<1>3. CASE row = NoRow
  <2>1. Leave(r, "rollback", "not_found", NoRow, 0) /\ held' = held
    BY <1>3 DEF LockEnvelopeByKey
  <2>2. QED
    BY <1>1, <1>2, <1>3, <2>1, ConsumeRefines
<1>4. CASE row /= NoRow
  <2>1. /\ Goto(r, "delete") /\ answer' = answer
        /\ \A q \in Callers \ {r} : held'[q] = held[q]
    BY <1>1, <1>4 DEF LockEnvelopeByKey, TypeOK, OnCallers
  <2>2. State' = State /\ Picked' = Picked
    BY <1>1, <1>2, <2>1, StateStutters, PickedStays DEF StateAt, Labels
  <2>3. Table' = Table /\ Calls' = Calls
    BY <1>1, TableStays, CallsStay
  <2>4. QED
    BY <2>1, <2>2, <2>3, ContractStutter
<1>5. QED
  BY <1>3, <1>4

LEMMA DeleteEnvelopeByKeyRefines ==
  ASSUME Inv, NEW r \in Callers, DeleteEnvelopeByKey(r)
  PROVE  UNCHANGED Contract!vars
<1>1. TypeOK /\ pc[r] = "delete" /\ Goto(r, "commit") /\ UNCHANGED <<rows, call, held, answer>>
  BY DeleteFindsRow DEF Inv, DeleteEnvelopeByKey
<1>2. State[r] = "pending"
  BY <1>1, StateOfPc DEF StateAt
<1>3. State' = State /\ Table' = Table /\ Calls' = Calls /\ Picked' = Picked
  BY <1>1, <1>2, StateStutters, TableStays, CallsStay, PickedStays DEF StateAt, Labels
<1>4. QED
  BY <1>1, <1>3, ContractStutter

LEMMA RollbackRefines ==
  ASSUME Inv, NEW r \in Callers, Rollback(r) \/ ServerRollsBack(r)
  PROVE  UNCHANGED Contract!vars
<1>1. TypeOK /\ UNCHANGED <<rows, call, held, answer>>
  BY DEF Inv, Rollback, ServerRollsBack
<1>2. CASE Rollback(r)
  <2>1. pc[r] = "rollback" /\ Goto(r, "done")
    BY <1>2 DEF Rollback
  <2>2. State[r] = "done"
    BY <1>1, <2>1, StateOfPc DEF StateAt
  <2>3. State' = State /\ Picked' = Picked
    BY <1>1, <2>1, <2>2, StateStutters, PickedStays DEF StateAt, Labels
  <2>4. QED
    BY <1>1, <2>3, TableStays, CallsStay, ContractStutter
<1>3. CASE ServerRollsBack(r)
  <2>1. pc' = pc
    BY <1>3 DEF ServerRollsBack
  <2>2. State' = State /\ Picked' = Picked
    BY <1>1, <2>1 DEF State, ContractState, Picked, ContractPicked
  <2>3. QED
    BY <1>1, <2>2, TableStays, CallsStay, ContractStutter
<1>4. QED
  BY <1>2, <1>3

\* The rows a sweep may choose are the records the contract's sweep may choose.
LEMMA OldestAreBatches ==
  ASSUME TypeOK, NEW now \in Nat, NEW batch, NEW S \in OldestExpired(now, batch)
  PROVE  S \in Contract!ExpiredBatches(Table, now, batch)
<1> DEFINE E == ExpiredRows(now)
           size == IF Cardinality(E) <= batch THEN Cardinality(E) ELSE batch
<1>1. /\ S \in SUBSET E /\ Cardinality(S) = size
      /\ \A k \in S, l \in E \ S : rows[k].expires <= rows[l].expires
  BY DEF OldestExpired
<1>2. /\ Contract!Expired(Table, now) = E
      /\ \A k \in E : Table[k].expiresAt = rows[k].expires
  BY ExpiredRowsAreExpired
<1>3. \A k \in S, l \in E \ S : Table[k].expiresAt <= Table[l].expiresAt
  BY <1>1, <1>2
<1>4. Contract!Cardinality(S) = IF Contract!Cardinality(E) <= batch
                                THEN Contract!Cardinality(E) ELSE batch
  BY <1>1, SameCardinality
<1>5. QED
  BY <1>1, <1>2, <1>3, <1>4 DEF Contract!ExpiredBatches

\* What the contract sees of the delete of a sweep.
LEMMA ReturnDeletedSeen ==
  ASSUME TypeOK, NEW r \in Callers, NEW S, ReturnDeleted(r, S)
  PROVE  /\ Calls' = Calls
         /\ Table' = [k \in Keys |-> IF k \in S THEN NoRow ELSE Table[k]]
         /\ \/ AnswersWith(r, "deleted", NoRow, Cardinality(S))
            \/ AnswersWith(r, "error", NoRow, 0)
<1>1. /\ rows' = [k \in Keys |-> IF k \in S THEN NoRow ELSE rows[k]]
      /\ Return(r, "deleted", NoRow, Cardinality(S)) \/ Error(r)
      /\ UNCHANGED <<call, held>>
  BY DEF ReturnDeleted
<1>2. ASSUME NEW k \in Keys
      PROVE  recordFromDatabase(rows[k])' = IF k \in S THEN NoRow ELSE recordFromDatabase(rows[k])
  <2>1. rows'[k] = IF k \in S THEN NoRow ELSE rows[k]
    BY <1>1
  <2>2. QED
    BY <2>1 DEF recordFromDatabase, cloneBytes, Length, timestamp
<1>3. Table' = [k \in Keys |-> IF k \in S THEN NoRow ELSE Table[k]]
  BY <1>2 DEF Table
<1>4. AnswersWith(r, "deleted", NoRow, Cardinality(S)) \/ AnswersWith(r, "error", NoRow, 0)
  BY <1>1, AnswersAs, ErrorAnswers DEF Return
<1>5. QED
  BY <1>1, <1>3, <1>4, CallsStay

\* A sweep that has begun, as the contract sees it.
LEMMA SweepSeen ==
  ASSUME Inv, NEW r \in Callers, pc[r] = "sweep"
  PROVE  TypeOK /\ State[r] = "pending" /\ Calls[r] = call[r]
         /\ call[r].op = "sweep" /\ call[r].now \in Nat
<1>1. TypeOK /\ call[r].op = "sweep" /\ call[r].now \in Nat
  BY TimesAssumption DEF Inv, CallOK, SweepCalls
<1>2. QED
  BY <1>1, StateOfPc, CallSeen DEF StateAt

LEMMA DeleteExpiredEnvelopesRefines ==
  ASSUME Inv, NEW r \in Callers, DeleteExpiredEnvelopes(r)
  PROVE  Contract!Next
<1>1. PICK S \in OldestExpired(call[r].now, call[r].batch) : ReturnDeleted(r, S)
  BY DEF DeleteExpiredEnvelopes
<1>2. /\ TypeOK /\ State[r] = "pending" /\ Calls[r] = call[r]
      /\ call[r].op = "sweep" /\ call[r].now \in Nat
  BY SweepSeen DEF DeleteExpiredEnvelopes
<1>3. S \in Contract!ExpiredBatches(Table, Calls[r].now, Calls[r].batch)
  BY <1>2, OldestAreBatches
<1>4. QED
  BY <1>1, <1>2, <1>3, ReturnDeletedSeen, ContractDeleteExpired

LEMMA SelectExpiredRefines ==
  ASSUME Inv, NEW r \in Callers, SelectExpired(r)
  PROVE  Contract!Next
<1>1. PICK S \in OldestExpired(call[r].now, call[r].batch) :
          held' = [held EXCEPT ![r] = {<<k, recordFromDatabase(rows[k])>> : k \in S}]
  BY DEF SelectExpired
<1>2. /\ TypeOK /\ State[r] = "pending" /\ Calls[r] = call[r]
      /\ call[r].op = "sweep" /\ call[r].now \in Nat
      /\ Goto(r, "remove") /\ UNCHANGED <<rows, call, answer>>
  BY SweepSeen DEF SelectExpired
<1>3. S \in Contract!ExpiredBatches(Table, Calls[r].now, Calls[r].batch)
  BY <1>2, OldestAreBatches
<1>4. /\ held'[r] = {<<k, recordFromDatabase(rows[k])>> : k \in S}
      /\ \A q \in Callers \ {r} : held'[q] = held[q]
  BY <1>1, <1>2 DEF TypeOK, OnCallers
<1>5. \A k \in S : Table[k] = recordFromDatabase(rows[k])
  BY <1>2, OldestAreExpired, TableAt
<1>6. held'[r] = {<<k, Table[k]>> : k \in S}
  BY <1>4, <1>5
<1>7. Picked' = [Picked EXCEPT ![r] = {<<k, Table[k]>> : k \in S}]
  BY <1>2, <1>4, <1>6, PickedStep DEF Labels
<1>8. State' = [State EXCEPT ![r] = "picked"]
  BY <1>2, StateStep DEF Labels, StateAt
<1>9. QED
  BY <1>2, <1>3, <1>7, <1>8, TableStays, CallsStay, ContractPick

LEMMA DeleteSelectedRefines ==
  ASSUME Inv, NEW r \in Callers, DeleteSelected(r)
  PROVE  Contract!Next
<1>1. TypeOK /\ pc[r] = "remove" /\ ReturnDeleted(r, StillThere(r))
  BY DEF Inv, DeleteSelected
<1>2. State[r] = "picked" /\ Picked[r] = held[r]
  BY <1>1, StateOfPc, PickedAt DEF StateAt
<1>3. StillThere(r) = {k \in Keys : <<k, Table[k]>> \in Picked[r]}
  BY <1>1, <1>2, TableAt DEF StillThere
<1>4. QED
  BY <1>1, <1>2, <1>3, ReturnDeletedSeen, ContractDeletePicked

LEMMA BreakRefines ==
  ASSUME Inv, NEW r \in Callers, Break(r)
  PROVE  Contract!Next
<1>1. TypeOK /\ pc[r] \notin {"idle", "done", "rollback"}
      /\ UNCHANGED <<rows, call, held>> /\ Error(r)
  BY DEF Inv, Break
<1>2. State[r] \in {"pending", "taken", "picked"}
  BY <1>1, StateOfPc DEF StateAt
<1>3. QED
  BY <1>1, <1>2, TableStays, CallsStay, ErrorAnswers, ContractFail

LEMMA InitRefines == Init => Contract!Init
<1> SUFFICES ASSUME Init PROVE Contract!Init
  OBVIOUS
<1>1. Table = [k \in Keys |-> NoRow]
  BY DEF Init, Table, recordFromDatabase
<1>2. State = [r \in Callers |-> "idle"]
  BY DEF Init, State, ContractState
<1>3. Calls = [r \in Callers |-> [op |-> "none"]]
  BY DEF Init, Calls, ContractCall
<1>4. answer = [r \in Callers |-> [code |-> "none", rec |-> NoRow, count |-> 0]]
  BY DEF Init, NoAnswer
<1>5. Picked = [r \in Callers |-> {}]
  BY DEF Init, Picked, ContractPicked
<1>6. QED
  BY <1>1, <1>2, <1>3, <1>4, <1>5
  DEF Contract!Init, Contract!NoAnswer, Table, State, Calls, Picked

LEMMA NextRefines == Inv /\ [Next]_<<vars, backend>> => [Contract!Next]_Contract!vars
<1> SUFFICES ASSUME Inv, [Next]_<<vars, backend>> PROVE Contract!Next \/ UNCHANGED Contract!vars
  OBVIOUS
<1>1. CASE UNCHANGED <<vars, backend>>
  <2>1. UNCHANGED <<rows, pc, call, held, answer>>
    BY <1>1 DEF vars
  <2>2. State' = State /\ Picked' = Picked
    BY <2>1 DEF State, ContractState, Picked, ContractPicked
  <2>3. QED
    BY <2>1, <2>2, TableStays, CallsStay, ContractStutter
<1>2. CASE Next
  <2>1. PICK r \in Callers : Call(r) \/ Step(r) \/ Break(r) \/ ServerRollsBack(r)
    BY <1>2 DEF Next
  <2>2. CASE Call(r)
    BY <2>2, CallRefines
  <2>3. CASE Step(r)
    BY <2>3, CreateEnvelopeRefines, GetEnvelopeForReplayRefines, GetEnvelopeByKeyRefines,
       ConsumeEnvelopeRefines, LockEnvelopeByKeyRefines, DeleteEnvelopeByKeyRefines,
       CommitRefines, RollbackRefines, DeleteExpiredEnvelopesRefines, SelectExpiredRefines,
       DeleteSelectedRefines DEF Step
  <2>4. CASE Break(r) \/ ServerRollsBack(r)
    BY <2>4, BreakRefines, RollbackRefines
  <2>5. QED
    BY <2>1, <2>2, <2>3, <2>4
<1>3. QED
  BY <1>1, <1>2

\* Both databases, with their conversions, locks, broken connections and lost answers,
\* implement the contract the handlers rely on.
THEOREM Refinement == Spec => ImplementsContract
<1>1. QED
  BY InitRefines, NextRefines, Invariance, PTL DEF Spec, ImplementsContract, Contract!Spec
==============================================================================
