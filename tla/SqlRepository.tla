---------------------------- MODULE SqlRepository -----------------------------
(***************************************************************************)
(* The PostgreSQL and MariaDB repositories, statement by statement, over a *)
(* table of rows. Between two statements of one call any other call may    *)
(* run, a connection may break and its answer may be lost. A statement is  *)
(* atomic, with one exception: PostgreSQL's DeleteExpired chooses its rows *)
(* in a snapshot and deletes those of them that are still there. MariaDB's *)
(* Consume is a transaction that locks its row; PostgreSQL's is one        *)
(* DELETE ... RETURNING.                                                   *)
(*                                                                         *)
(* A column keeps what the conversions between store records and rows tell *)
(* apart: feature_flags its width, the CAPTCHA bundle NULL and empty. Byte *)
(* strings are their lengths, -1 for nil and for NULL. Times are seconds,  *)
(* 0 the zero time.Time, -1 NULL.                                          *)
(***************************************************************************)
EXTENDS Integers, FiniteSets

CONSTANTS
    Backends,       \* the databases to look at, of "postgres" and "mariadb"
    Keys,
    Callers,        \* each makes one call
    Inputs,         \* CreateInputs: hash, payload, flags, nonce, ciphertext
    Expiries,       \* times of expiry, 0 for none
    Times,          \* values of "now"
    Batches,        \* limits DeleteExpired is called with
    MaxInt32,       \* the largest value of PostgreSQL's feature_flags column
    NonceSize,      \* length of a CAPTCHA key's nonce (12)
    NoRow, Nobody

Lengths == Nat \cup {-1}

ASSUME BackendsAssumption == Backends \subseteq {"postgres", "mariadb"}
ASSUME LimitsAssumption == MaxInt32 \in Nat /\ NonceSize \in Nat \ {0}
ASSUME InputsAssumption ==
    \A input \in Inputs :
        input.flags \in Nat /\ input.nonce \in Lengths /\ input.ciphertext \in Lengths
ASSUME TimesAssumption == Expiries \subseteq Nat /\ Times \subseteq Nat /\ Batches \subseteq Int

\* The rows the statements write and the records they are read as.
Hashes == {input.hash : input \in Inputs}
Rows == [hash : Hashes, flags : Nat, nonce : Lengths, ciphertext : Lengths,
         expires : Lengths \ {0}, by : Callers]
Records == [content : [hash : Hashes, flags : Nat, nonce : Lengths, ciphertext : Lengths],
            expiresAt : Nat, by : Callers]

ASSUME NoRowAssumption == NoRow \notin Rows /\ NoRow \notin Records
ASSUME NobodyAssumption == Nobody \notin Callers

VARIABLES
    backend,    \* the database, for good
    rows,       \* the committed rows
    owner,      \* [Keys -> Callers \cup {Nobody}]: InnoDB row locks
    pc,         \* the statement the call runs next
    call,       \* its arguments
    held,       \* the record MariaDB's Consume read under its lock; the keys and
                \* records PostgreSQL's DeleteExpired found in its snapshot
    answer,     \* what the call returned
    broken,     \* calls whose connection broke inside a transaction
    stored      \* history: the rows ever inserted, with their keys

vars == <<rows, owner, pc, call, held, answer, broken, stored>>

Nil == -1

------------------------------------------------------------------------------
\* Conversions.

Length(bytes) == IF bytes = Nil THEN 0 ELSE bytes

validateCreateInput(input) ==
    /\ input.payload
    /\ backend = "postgres" => input.flags <= MaxInt32
    /\ Length(input.nonce) /= 0 \/ Length(input.ciphertext) /= 0
        => Length(input.nonce) = NonceSize /\ Length(input.ciphertext) /= 0

\* pgTime, nullTime and timestamp.
nullTime(time) == IF time = 0 THEN Nil ELSE time
timestamp(column) == IF column = Nil THEN 0 ELSE column

\* int32(flags) on PostgreSQL, INT UNSIGNED on MariaDB.
FlagsColumn(flags) ==
    IF backend = "postgres" /\ flags > MaxInt32 THEN flags - 2 * (MaxInt32 + 1) ELSE flags

\* A clone of empty bytes is nil: appending nothing to nil.
cloneBytes(bytes) == IF Length(bytes) = 0 THEN Nil ELSE bytes

\* PostgreSQL stores nil as NULL; databaseBytes makes it empty for MariaDB's NOT
\* NULL column. Reading, cloneBytes and optionalBytes make empty nil again.
BytesColumn(bytes) == IF backend = "mariadb" THEN Length(bytes) ELSE cloneBytes(bytes)

\* The values of an INSERT.
Row(r, input, expiresAt) ==
    [hash |-> input.hash, flags |-> FlagsColumn(input.flags),
     nonce |-> BytesColumn(input.nonce), ciphertext |-> BytesColumn(input.ciphertext),
     expires |-> nullTime(expiresAt), by |-> r]

Readable(row) == backend = "postgres" => row.flags >= 0

\* The store.Record of a row; NoRow is the contract's NoRecord.
recordFromDatabase(row) ==
    IF row = NoRow THEN NoRow
    ELSE [content |-> [hash |-> row.hash, flags |-> row.flags,
                       nonce |-> cloneBytes(row.nonce),
                       ciphertext |-> cloneBytes(row.ciphertext)],
          expiresAt |-> timestamp(row.expires), by |-> row.by]

\* The WHERE clause of the lookups: expires_at IS NULL OR expires_at > now.
Selected(k, now) ==
    IF rows[k] /= NoRow /\ (rows[k].expires = Nil \/ rows[k].expires > now)
    THEN rows[k] ELSE NoRow

------------------------------------------------------------------------------
NoAnswer == [code |-> "none", rec |-> NoRow, count |-> 0]

Init ==
    /\ backend \in Backends
    /\ rows = [k \in Keys |-> NoRow]
    /\ owner = [k \in Keys |-> Nobody]
    /\ pc = [r \in Callers |-> "idle"]
    /\ call = [r \in Callers |-> [op |-> "none"]]
    /\ held = [r \in Callers |-> NoRow]
    /\ answer = [r \in Callers |-> NoAnswer]
    /\ broken = {}
    /\ stored = {}

Goto(r, where) == pc' = [pc EXCEPT ![r] = where]

Leave(r, where, code, rec, count) ==
    /\ Goto(r, where)
    /\ answer' = [answer EXCEPT ![r] = [code |-> code, rec |-> rec, count |-> count]]

Return(r, code, rec, count) == Leave(r, "done", code, rec, count)
Error(r) == Return(r, "error", NoRow, 0)

\* The answer to a row a lookup or a delete returned.
ReturnRow(r, row) ==
    IF row = NoRow THEN Return(r, "not_found", NoRow, 0)
    ELSE IF Readable(row) THEN Return(r, "record", recordFromDatabase(row), 0)
    ELSE Return(r, "invalid", NoRow, 0)

\* An InnoDB statement waits for the locks of others on the rows it changes.
Unlocked(r, S) == \A k \in S : owner[k] \in {Nobody, r}

------------------------------------------------------------------------------
\* The calls: the checks of the arguments before the first statement.

CallCreate(r, k, input, expiresAt) ==
    /\ pc[r] = "idle"
    /\ call' = [call EXCEPT ![r] =
                    [op |-> "create", key |-> k, expiresAt |-> expiresAt, input |-> input]]
    /\ IF validateCreateInput(input) THEN Goto(r, "insert") /\ UNCHANGED answer
                                     ELSE Return(r, "invalid", NoRow, 0)
    /\ UNCHANGED <<rows, owner, held, broken, stored>>

CallRead(r, op, k, now) ==
    /\ pc[r] = "idle"
    /\ call' = [call EXCEPT ![r] = [op |-> op, key |-> k, now |-> now]]
    /\ Goto(r, IF op = "get" THEN "select" ELSE IF backend = "mariadb" THEN "lock" ELSE "consume")
    /\ UNCHANGED <<rows, owner, held, answer, broken, stored>>

CallDeleteExpired(r, now, batch) ==
    /\ pc[r] = "idle"
    /\ call' = [call EXCEPT ![r] = [op |-> "sweep", now |-> now, batch |-> batch]]
    /\ IF batch > 0 THEN Goto(r, "sweep") /\ UNCHANGED answer
                    ELSE Return(r, "invalid", NoRow, 0)
    /\ UNCHANGED <<rows, owner, held, broken, stored>>

------------------------------------------------------------------------------
\* Create.

\* INSERT: the row is stored, also when the answer is lost, or the unique key
\* refuses it (23505, 1062).
CreateEnvelope(r) ==
    LET c == call[r]
        new == Row(r, c.input, c.expiresAt)
    IN  /\ pc[r] = "insert"
        /\ Unlocked(r, {c.key})
        /\ IF rows[c.key] = NoRow
           THEN /\ rows' = [rows EXCEPT ![c.key] = new]
                /\ stored' = stored \cup {<<c.key, new>>}
                /\ Return(r, "created", recordFromDatabase(new), 0) \/ Error(r)
           ELSE /\ Goto(r, "replay")
                /\ UNCHANGED <<rows, answer, stored>>
        /\ UNCHANGED <<owner, call, held, broken>>

\* GetEnvelopeForReplay, or GetEnvelopeByKey at time.Unix(0, 0): expired rows too.
ReplayRow(r) == Selected(call[r].key, 0)

GetEnvelopeForReplay(r) ==
    LET existing == ReplayRow(r)
    IN  /\ pc[r] = "replay"
        /\ IF existing = NoRow \/ existing.hash /= call[r].input.hash
           THEN Return(r, "conflict", NoRow, 0)
           ELSE Return(r, "replayed", recordFromDatabase(existing), 0)
        /\ UNCHANGED <<rows, owner, call, held, broken, stored>>

------------------------------------------------------------------------------
\* Get and GetMetadata.

GetEnvelopeByKey(r) ==
    /\ pc[r] = "select"
    /\ ReturnRow(r, Selected(call[r].key, call[r].now))
    /\ UNCHANGED <<rows, owner, call, held, broken, stored>>

------------------------------------------------------------------------------
\* Consume on PostgreSQL.

\* Mutated form: the expiry is looked at after the row is deleted.
ConsumeEnvelopeUnfiltered(r) ==
    /\ pc[r] = "consume"
    /\ rows' = [rows EXCEPT ![call[r].key] = NoRow]
    /\ ReturnRow(r, Selected(call[r].key, call[r].now))
    /\ UNCHANGED <<owner, call, held, broken, stored>>

ConsumeEnvelope(r) ==
    LET row == Selected(call[r].key, call[r].now)
    IN  /\ pc[r] = "consume"
        /\ IF row = NoRow THEN ReturnRow(r, row) /\ UNCHANGED rows
           ELSE /\ rows' = [rows EXCEPT ![call[r].key] = NoRow]
                /\ ReturnRow(r, row) \/ Error(r)
        /\ UNCHANGED <<owner, call, held, broken, stored>>

------------------------------------------------------------------------------
\* Consume on MariaDB: lock, delete, commit, and the deferred rollback.

\* Mutated form: the SELECT does not lock.
LockedByUnlocking(r) == owner

\* The locks after SELECT ... FOR UPDATE: a row that is there is locked, also when
\* it has expired.
LockedBy(r) ==
    IF rows[call[r].key] = NoRow THEN owner ELSE [owner EXCEPT ![call[r].key] = r]

LockEnvelopeByKey(r) ==
    LET row == Selected(call[r].key, call[r].now)
    IN  /\ pc[r] = "lock"
        /\ Unlocked(r, {call[r].key})
        /\ owner' = LockedBy(r)
        /\ IF row = NoRow
           THEN /\ Leave(r, "rollback", "not_found", NoRow, 0)
                /\ UNCHANGED held
           ELSE /\ held' = [held EXCEPT ![r] = recordFromDatabase(row)]
                /\ Goto(r, "delete")
                /\ UNCHANGED answer
        /\ UNCHANGED <<rows, call, broken, stored>>

\* DELETE by key; one affected row or ErrInvalid.
DeleteEnvelopeByKey(r) ==
    LET k == call[r].key
    IN  /\ pc[r] = "delete"
        /\ Unlocked(r, {k})
        /\ IF rows[k] = NoRow
           THEN Leave(r, "rollback", "invalid", NoRow, 0) /\ UNCHANGED owner
           ELSE /\ owner' = [owner EXCEPT ![k] = r]
                /\ Goto(r, "commit")
                /\ UNCHANGED answer
        /\ UNCHANGED <<rows, call, held, broken, stored>>

\* COMMIT, whose answer may be lost; one that did not happen is a Break.
Commit(r) ==
    /\ pc[r] = "commit"
    /\ rows' = [rows EXCEPT ![call[r].key] = NoRow]
    /\ owner' = [owner EXCEPT ![call[r].key] = Nobody]
    /\ Return(r, "record", held[r], 0) \/ Error(r)
    /\ UNCHANGED <<call, held, broken, stored>>

\* Mutated form: no deferred rollback; the transaction stays open.
RollbackForgotten(r) ==
    /\ pc[r] = "rollback"
    /\ Goto(r, "done")
    /\ UNCHANGED <<rows, owner, call, held, answer, broken, stored>>

Rollback(r) ==
    /\ pc[r] = "rollback"
    /\ owner' = [k \in Keys |-> IF owner[k] = r THEN Nobody ELSE owner[k]]
    /\ Goto(r, "done")
    /\ UNCHANGED <<rows, call, held, answer, broken, stored>>

------------------------------------------------------------------------------
\* DeleteExpired: the oldest expired rows up to the limit.

ExpiredRows(now) == {k \in Keys : rows[k] /= NoRow /\ rows[k].expires /= Nil
                                    /\ rows[k].expires <= now}

\* ORDER BY expires_at LIMIT batch; rows of one time in any order.
OldestExpired(now, batch) ==
    LET E == ExpiredRows(now)
        size == IF Cardinality(E) <= batch THEN Cardinality(E) ELSE batch
    IN  {S \in SUBSET E : /\ Cardinality(S) = size
                          /\ \A k \in S, l \in E \ S : rows[k].expires <= rows[l].expires}

ReturnDeleted(r, S) ==
    /\ rows' = [k \in Keys |-> IF k \in S THEN NoRow ELSE rows[k]]
    /\ Return(r, "deleted", NoRow, Cardinality(S)) \/ Error(r)
    /\ UNCHANGED <<owner, call, held, broken, stored>>

\* MariaDB: one locking DELETE ... ORDER BY ... LIMIT.
DeleteExpiredEnvelopes(r) ==
    /\ backend = "mariadb"
    /\ pc[r] = "sweep"
    /\ \E S \in OldestExpired(call[r].now, call[r].batch) : Unlocked(r, S) /\ ReturnDeleted(r, S)

\* PostgreSQL: the common table expression of the DELETE reads the snapshot ...
SelectExpired(r) ==
    /\ backend = "postgres"
    /\ pc[r] = "sweep"
    /\ \E S \in OldestExpired(call[r].now, call[r].batch) :
        held' = [held EXCEPT ![r] = {<<k, recordFromDatabase(rows[k])>> : k \in S}]
    /\ Goto(r, "remove")
    /\ UNCHANGED <<rows, owner, call, answer, broken, stored>>

\* Mutated form: the delete goes by the keys, also of rows stored since.
StillThereByKey(r) == {k \in Keys : rows[k] /= NoRow /\ \E entry \in held[r] : entry[1] = k}

\* A row others deleted meanwhile is skipped, and a new one under its key is not
\* the one that was found.
StillThere(r) == {k \in Keys : <<k, recordFromDatabase(rows[k])>> \in held[r]}

\* ... and the DELETE itself finds the rows of the snapshot that are still there.
DeleteSelected(r) ==
    /\ pc[r] = "remove"
    /\ ReturnDeleted(r, StillThere(r))

------------------------------------------------------------------------------
\* The database and the network: a statement, or the wait for its lock, ends in an
\* error. Locks of a broken connection are released when the server notices.

Break(r) ==
    /\ pc[r] \notin {"idle", "done", "rollback"}
    /\ Error(r)
    /\ broken' = broken \cup {r}
    /\ UNCHANGED <<rows, owner, call, held, stored>>

ServerRollsBack(r) ==
    /\ r \in broken
    /\ owner' = [k \in Keys |-> IF owner[k] = r THEN Nobody ELSE owner[k]]
    /\ broken' = broken \ {r}
    /\ UNCHANGED <<rows, pc, call, held, answer, stored>>

Call(r) ==
    \/ \E k \in Keys, input \in Inputs, e \in Expiries : CallCreate(r, k, input, e)
    \/ \E k \in Keys, op \in {"get", "consume"}, now \in Times : CallRead(r, op, k, now)
    \/ \E now \in Times, batch \in Batches : CallDeleteExpired(r, now, batch)

Step(r) ==
    \/ CreateEnvelope(r) \/ GetEnvelopeForReplay(r)
    \/ GetEnvelopeByKey(r)
    \/ ConsumeEnvelope(r)
    \/ LockEnvelopeByKey(r) \/ DeleteEnvelopeByKey(r) \/ Commit(r) \/ Rollback(r)
    \/ DeleteExpiredEnvelopes(r) \/ SelectExpired(r) \/ DeleteSelected(r)

Next ==
    /\ \E r \in Callers : Call(r) \/ Step(r) \/ Break(r) \/ ServerRollsBack(r)
    /\ UNCHANGED backend

Spec == Init /\ [][Next]_<<vars, backend>>
------------------------------------------------------------------------------
\* Properties.

ContractState(r) ==
    CASE pc[r] = "idle"                    -> "idle"
      [] pc[r] = "replay"                  -> "taken"
      [] pc[r] = "remove"                  -> "picked"
      [] pc[r] \in {"done", "rollback"}    -> "done"
      [] OTHER                             -> "pending"

Content(input) == [hash |-> input.hash, flags |-> input.flags,
                   nonce |-> cloneBytes(input.nonce), ciphertext |-> cloneBytes(input.ciphertext)]

ContractCall(r) ==
    IF call[r].op = "create"
    THEN [op |-> "create", key |-> call[r].key, expiresAt |-> call[r].expiresAt,
          content |-> Content(call[r].input)]
    ELSE call[r]

ContractPicked(r) == IF pc[r] = "remove" THEN held[r] ELSE {}

Contract == INSTANCE RepositoryContract WITH
    NoRecord <- NoRow,
    table    <- [k \in Keys |-> recordFromDatabase(rows[k])],
    state    <- [r \in Callers |-> ContractState(r)],
    call     <- [r \in Callers |-> ContractCall(r)],
    picked   <- [r \in Callers |-> ContractPicked(r)],
    answer   <- answer

\* Both repositories implement the contract the handlers rely on: their several
\* statements, conversions, locks and failures look like operations in one step, a
\* Create on a taken key and a DeleteExpired like operations in two.
ImplementsContract == Contract!Spec

\* A row that was stored and is gone was handed to a caller, had expired for a
\* cleanup, or was lost by a Consume that reported an error: no Consume that
\* answers not-found or invalid has deleted a row.
LossIsReported ==
    \A entry \in stored :
        LET k == entry[1]
            row == entry[2]
        IN  \/ rows[k] = row
            \/ \E q \in Callers :
                \/ /\ call[q].op = "consume"
                   /\ \/ answer[q].code = "record" /\ answer[q].rec = recordFromDatabase(row)
                      \/ answer[q].code = "error" /\ call[q].key = k
                \/ call[q].op = "sweep" /\ row.expires /= Nil /\ call[q].now >= row.expires

\* A row is locked only for a transaction that is still open or that the database
\* is about to roll back: no way out of Consume leaves a lock that later calls on
\* the key would wait for.
NoLockLeftBehind ==
    \A k \in Keys : owner[k] /= Nobody =>
        pc[owner[k]] \in {"delete", "commit", "rollback"} \/ owner[k] \in broken
==============================================================================
