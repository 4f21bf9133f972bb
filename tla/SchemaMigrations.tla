--------------------------- MODULE SchemaMigrations -------------------------
(***************************************************************************)
(* Apply of db/postgres/migrations and of db/mariadb/migrations, which     *)
(* every server runs before it serves, while other servers of the same or  *)
(* of an older release start on the same database, fail, crash and start   *)
(* again.                                                                  *)
(*                                                                         *)
(*   "postgres"   one transaction under an advisory lock that ends with    *)
(*                it: all of the files, or none;                           *)
(*   "cockroach"  no lock and no transaction: each statement of each file  *)
(*                by itself, tried again after a serialization failure;    *)
(*   "mariadb"    a session lock, waited for at most 30 s; every DDL       *)
(*                statement commits by itself.                             *)
(*                                                                         *)
(* The schema is what the two migration files change: the table, its       *)
(* index, and the size its CHECK constraint allows an envelope.            *)
(***************************************************************************)
EXTENDS Naturals, FiniteSets, Sequences

CONSTANTS Modes,          \* databases to look at, of "postgres", "cockroach", "mariadb"
          Servers,        \* processes that call Apply
          Release,        \* Release[s]: how many migration files s embeds
          MaxRetries,     \* cockroachMaxRetries, 5 in the program
          MaxFaults,      \* bound: errors, crashes and serialization failures
          NoServer

VARIABLES mode,       \* the database, for good
          db,         \* the committed schema
          view,       \* view[s]: the schema as s's open transaction sees it
          lock,       \* the server whose session holds the advisory lock
          pc,         \* pc[s]: the step of Apply that s is at
          entry,      \* entry[s]: the file at hand
          statement,  \* statement[s]: the statement of that file, from 1
          attempt,    \* attempt[s]: tries of the current operation that failed
          reason,     \* reason[s]: why the last Apply of s returned an error
          faults

vars == <<db, view, lock, pc, entry, statement, attempt, reason, faults>>
local == <<entry, statement, attempt, reason>>

Versions == 1..2

EmptySchema == [versions |-> FALSE, recorded |-> {}, table |-> FALSE,
                index |-> FALSE, limit |-> "none"]

Init ==
    /\ mode \in Modes
    /\ db = EmptySchema
    /\ view = [s \in Servers |-> EmptySchema]
    /\ lock = NoServer
    /\ pc = [s \in Servers |-> "idle"]
    /\ entry = [s \in Servers |-> 1]
    /\ statement = [s \in Servers |-> 1]
    /\ attempt = [s \in Servers |-> 0]
    /\ reason = [s \in Servers |-> "none"]
    /\ faults = 0

-----------------------------------------------------------------------------
(* The migration files *)

\* CREATE TABLE IF NOT EXISTS envelopes, with the size limit of 16 KiB.
CreateEnvelopes(d) == IF d.table THEN d ELSE [d EXCEPT !.table = TRUE, !.limit = "small"]

\* CREATE INDEX IF NOT EXISTS.  MariaDB's table statement creates the index.
CreateIndex(d) == [d EXCEPT !.index = TRUE]

\* The ALTER that replaces the limit by 1 MiB, in one statement.
RaiseEnvelopeSize(d) == [d EXCEPT !.limit = "large"]

Statements(version) ==
    IF version = 2 THEN <<"raise">>
    ELSE IF mode = "mariadb" THEN <<"table_and_index">>
    ELSE <<"table", "index">>

Effect(name, d) ==
    CASE name = "table"           -> CreateEnvelopes(d)
      [] name = "index"           -> CreateIndex(d)
      [] name = "table_and_index" -> CreateIndex(CreateEnvelopes(d))
      [] name = "raise"           -> RaiseEnvelopeSize(d)

\* A statement the database refuses: there is no table to index or to alter,
\* or, on MariaDB, which drops it without IF EXISTS, no constraint to drop.
Refused(name, d) ==
    \/ name = "index" /\ ~d.table
    \/ name = "raise" /\ (~d.table \/ (mode = "mariadb" /\ d.limit = "none"))

\* What has been done once a version's file has run.
Applied(version, d) ==
    IF version = 1 THEN d.table /\ d.index ELSE d.limit = "large"

-----------------------------------------------------------------------------
(* Apply *)

Schema(s) == IF mode = "postgres" THEN view[s] ELSE db

\* A statement's effect: on the transaction's view, or committed by itself.
Write(s, d) ==
    IF mode = "postgres"
    THEN view' = [view EXCEPT ![s] = d] /\ UNCHANGED db
    ELSE db' = d /\ UNCHANGED view

Goto(s, step) == pc' = [pc EXCEPT ![s] = step]

Succeed(s) == attempt' = [attempt EXCEPT ![s] = 0]

\* Apply is called: the database's version, or a connection.
Begin(s) ==
    /\ pc[s] = "idle"
    /\ Goto(s, IF mode = "cockroach" THEN "versions" ELSE "lock")
    /\ entry' = [entry EXCEPT ![s] = 1]
    /\ statement' = [statement EXCEPT ![s] = 1]
    /\ attempt' = [attempt EXCEPT ![s] = 0]
    /\ reason' = [reason EXCEPT ![s] = "none"]
    /\ UNCHANGED <<db, view, lock, faults>>

\* Mutated form: the answer of GET_LOCK is not looked at.
AcquireAnyway(s) ==
    /\ pc[s] = "lock"
    /\ lock' = IF lock = NoServer THEN s ELSE lock
    /\ view' = [view EXCEPT ![s] = db]
    /\ Goto(s, "versions")
    /\ UNCHANGED <<db, local, faults>>

\* The advisory lock; the transaction sees what was committed before it.
Acquire(s) ==
    /\ pc[s] = "lock" /\ lock = NoServer
    /\ lock' = s
    /\ view' = [view EXCEPT ![s] = db]
    /\ Goto(s, "versions")
    /\ UNCHANGED <<db, local, faults>>

\* GET_LOCK answers 0 after 30 seconds.
LockTimesOut(s) ==
    /\ mode = "mariadb"
    /\ pc[s] = "lock" /\ lock # NoServer
    /\ Goto(s, "failed")
    /\ reason' = [reason EXCEPT ![s] = "lock_unavailable"]
    /\ UNCHANGED <<db, view, lock, entry, statement, attempt, faults>>

\* CREATE TABLE IF NOT EXISTS securl_schema_migrations.
CreateVersions(s) ==
    /\ pc[s] = "versions"
    /\ Write(s, [Schema(s) EXCEPT !.versions = TRUE])
    /\ Succeed(s)
    /\ Goto(s, "check")
    /\ UNCHANGED <<lock, entry, statement, reason, faults>>

\* SELECT EXISTS for the file at hand; after the last one, the end of Apply.
Check(s) ==
    /\ pc[s] = "check"
    /\ IF entry[s] > Release[s]
       THEN Goto(s, IF mode = "cockroach" THEN "done" ELSE "finish") /\ UNCHANGED <<entry, attempt>>
       ELSE /\ Succeed(s)
            /\ IF entry[s] \in Schema(s).recorded
               THEN entry' = [entry EXCEPT ![s] = @ + 1] /\ UNCHANGED pc
               ELSE Goto(s, "apply") /\ UNCHANGED entry
    /\ statement' = [statement EXCEPT ![s] = 1]
    /\ UNCHANGED <<db, view, lock, reason, faults>>

\* One statement of the file.
Execute(s) ==
    LET name == Statements(entry[s])[statement[s]]
    IN  /\ pc[s] = "apply"
        /\ IF Refused(name, Schema(s))
           THEN /\ Goto(s, "finish")
                /\ reason' = [reason EXCEPT ![s] = "statement_refused"]
                /\ UNCHANGED <<db, view, statement, attempt>>
           ELSE /\ Write(s, Effect(name, Schema(s)))
                /\ Succeed(s)
                /\ statement' = [statement EXCEPT ![s] = @ + 1]
                /\ Goto(s, IF statement[s] = Len(Statements(entry[s])) THEN "record" ELSE "apply")
                /\ UNCHANGED reason
        /\ UNCHANGED <<lock, entry, faults>>

\* INSERT of the version; only CockroachDB's has ON CONFLICT DO NOTHING.
Record(s) ==
    /\ pc[s] = "record"
    /\ IF entry[s] \in Schema(s).recorded /\ mode # "cockroach"
       THEN /\ Goto(s, "finish")
            /\ reason' = [reason EXCEPT ![s] = "duplicate_version"]
            /\ UNCHANGED <<db, view, entry, attempt>>
       ELSE /\ Write(s, [Schema(s) EXCEPT !.recorded = @ \union {entry[s]}])
            /\ Succeed(s)
            /\ entry' = [entry EXCEPT ![s] = @ + 1]
            /\ Goto(s, "check")
            /\ UNCHANGED reason
    /\ UNCHANGED <<lock, statement, faults>>

\* Mutated form: the lock is not given back.
FinishHoldingLock(s) ==
    /\ pc[s] = "finish"
    /\ db' = IF mode = "postgres" /\ reason[s] = "none" THEN view[s] ELSE db
    /\ Goto(s, IF reason[s] = "none" THEN "done" ELSE "failed")
    /\ UNCHANGED <<view, lock, local, faults>>

\* The end of Apply: COMMIT or ROLLBACK, which releases the lock with the
\* transaction, or RELEASE_LOCK, deferred past every return.
Finish(s) ==
    /\ pc[s] = "finish"
    /\ db' = IF mode = "postgres" /\ reason[s] = "none" THEN view[s] ELSE db
    /\ lock' = IF lock = s THEN NoServer ELSE lock
    /\ Goto(s, IF reason[s] = "none" THEN "done" ELSE "failed")
    /\ UNCHANGED <<view, local, faults>>

-----------------------------------------------------------------------------
(* Faults *)

Active(s) == pc[s] \in {"versions", "check", "apply", "record"}

\* What the database may make of the statement that is under way at the given
\* step when its client loses it: nothing, or its effect.  Of a transaction
\* only the COMMIT can take effect.
Outcomes(s, step) ==
    LET name == Statements(entry[s])[statement[s]]
    IN  CASE mode = "postgres" ->
               IF step = "finish" /\ reason[s] = "none" THEN {db, view[s]} ELSE {db}
          [] mode # "postgres" /\ step = "apply" ->
               IF Refused(name, db) THEN {db} ELSE {db, Effect(name, db)}
          [] mode # "postgres" /\ step = "record" ->
               {db, [db EXCEPT !.recorded = @ \union {entry[s]}]}
          [] OTHER -> {db}

\* Mutated form: a migration's error is dropped, and its version recorded.
ErrorDropped(s) ==
    /\ pc[s] = "apply" /\ faults < MaxFaults
    /\ Goto(s, "record")
    /\ faults' = faults + 1
    /\ UNCHANGED <<db, view, lock, local>>

\* A statement or the COMMIT fails: its answer is lost, or the context is
\* cancelled.  Apply returns through its deferred calls.
Error(s) ==
    /\ Active(s) \/ (pc[s] = "finish" /\ mode = "postgres" /\ reason[s] = "none")
    /\ faults < MaxFaults
    /\ db' \in Outcomes(s, pc[s])
    /\ reason' = [reason EXCEPT ![s] = "error"]
    /\ Goto(s, "finish")
    /\ faults' = faults + 1
    /\ UNCHANGED <<view, lock, entry, statement, attempt>>

\* retryCockroach: SQLSTATE 40001 undoes the statement; it is tried again
\* after a delay, up to MaxRetries times in all.
SerializationFailure(s) ==
    /\ mode = "cockroach"
    /\ Active(s) /\ faults < MaxFaults
    /\ attempt' = [attempt EXCEPT ![s] = @ + 1]
    /\ IF attempt'[s] = MaxRetries
       THEN Goto(s, "finish") /\ reason' = [reason EXCEPT ![s] = "retries_exhausted"]
       ELSE UNCHANGED <<pc, reason>>
    /\ faults' = faults + 1
    /\ UNCHANGED <<db, view, lock, entry, statement>>

\* The process dies.  Its session lives on in the database for a while.
Dead == [versions |-> "dead", check |-> "dead", apply |-> "dead_in_apply",
         record |-> "dead_in_record", finish |-> "dead_in_finish"]

Crash(s) ==
    /\ pc[s] \in DOMAIN Dead
    /\ faults < MaxFaults
    /\ Goto(s, Dead[pc[s]])
    /\ faults' = faults + 1
    /\ UNCHANGED <<db, view, lock, local>>

\* The database ends a dead client's session: it may still complete what was
\* under way, rolls the transaction back and releases the lock.
SessionEnds(s) ==
    /\ \E step \in DOMAIN Dead :
         pc[s] = Dead[step] /\ db' \in Outcomes(s, step)
    /\ lock' = IF lock = s THEN NoServer ELSE lock
    /\ reason' = [reason EXCEPT ![s] = "crash"]
    /\ Goto(s, "failed")
    /\ UNCHANGED <<view, entry, statement, attempt, faults>>

\* A server whose Apply failed exits, its sessions end, and it starts again.
Restart(s) ==
    /\ pc[s] = "failed"
    /\ lock' = IF lock = s THEN NoServer ELSE lock
    /\ Goto(s, "idle")
    /\ UNCHANGED <<db, view, local, faults>>

-----------------------------------------------------------------------------

Step(s) ==
    \/ Begin(s) \/ Acquire(s) \/ CreateVersions(s) \/ Check(s) \/ Execute(s)
    \/ Record(s) \/ Finish(s) \/ SessionEnds(s) \/ Restart(s)

Fault(s) == LockTimesOut(s) \/ Error(s) \/ SerializationFailure(s) \/ Crash(s)

Next == (\E s \in Servers : Step(s) \/ Fault(s)) /\ UNCHANGED mode

\* A started server keeps running, the database ends dead sessions, failed
\* servers are restarted, and a lock that is free again and again is granted
\* in the end.
Fairness == \A s \in Servers : WF_vars(Step(s)) /\ SF_vars(Acquire(s))

Spec == Init /\ [][Next]_<<vars, mode>>

-----------------------------------------------------------------------------
(* Properties *)

\* After Apply returned nil on a server, the schema of its release is there and
\* stays there, whatever older and newer servers do to the database meanwhile. A
\* version is recorded only when everything its file does has been done, so that
\* no later Apply skips a file whose effect is missing: whichever server ran the
\* file, wherever it failed and whoever wrote the version row.
ServedSchemaStays ==
    /\ \A s \in Servers : pc[s] = "done" => \A v \in 1..Release[s] : Applied(v, db)
    /\ \A v \in db.recorded : Applied(v, db)

\* No server is kept from starting by what another server, or an earlier try
\* of its own, did: no statement is refused and no version row is a duplicate.
NoHomemadeFailure ==
    \A s \in Servers : reason[s] \notin {"statement_refused", "duplicate_version"}

\* Every server gets through Apply in the end, however often servers failed or
\* died before: no fault leaves a schema or a lock that stops the next try.
Converges == <>[](\A s \in Servers : pc[s] = "done")
=============================================================================
