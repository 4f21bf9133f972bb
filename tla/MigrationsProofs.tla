--------------------------- MODULE MigrationsProofs ---------------------------
(***************************************************************************)
(* Proofs about the schema migrations as MCDatabase runs them: for any set *)
(* of servers of either release, on each of the three databases, with any  *)
(* number of faults and retries.                                           *)
(***************************************************************************)
EXTENDS MCDatabase, Integers, Sequences, TLAPS

------------------------------------------------------------------------------
\* Schemas.

Schemas == [versions: BOOLEAN, recorded: SUBSET (1 .. 2), table: BOOLEAN, index: BOOLEAN,
            limit: {"none", "small", "large"}]

\* A schema that the migration files lead to: what is recorded has been done.
Good(d) ==
    /\ d \in Schemas
    /\ d.table <=> d.limit /= "none"
    /\ d.index => d.table
    /\ \A v \in d.recorded : M!Applied(v, d)

\* Nothing is undone.
Grows(d, e) ==
    /\ d.recorded \subseteq e.recorded
    /\ d.table => e.table
    /\ d.index => e.index
    /\ d.limit = "large" => e.limit = "large"

Names == {"table", "index", "table_and_index", "raise"}

LEMMA GrowsFacts ==
  /\ \A d : Grows(d, d)
  /\ \A d, e, f : Grows(d, e) /\ Grows(e, f) => Grows(d, f)
  /\ \A d, e, v : Grows(d, e) /\ M!Applied(v, d) => M!Applied(v, e)
BY DEF Grows, M!Applied

\* A statement the database does not refuse.
LEMMA EffectFacts ==
  ASSUME NEW name \in Names, NEW d, Good(d), ~M!Refused(name, d)
  PROVE  /\ Good(M!Effect(name, d)) /\ Grows(d, M!Effect(name, d))
         /\ M!Effect(name, d).recorded = d.recorded
         /\ name \in {"table", "table_and_index"} => M!Effect(name, d).table
         /\ name \in {"index", "table_and_index"} => M!Applied(1, M!Effect(name, d))
         /\ name = "raise" => M!Applied(2, M!Effect(name, d))
<1> USE DEF Good, Schemas, Grows, M!Applied
<1>1. CASE name = "table"
  BY <1>1 DEF M!Effect, M!CreateEnvelopes
<1>2. CASE name = "index"
  BY <1>2 DEF M!Effect, M!CreateIndex, M!Refused
<1>3. CASE name = "table_and_index"
  BY <1>3 DEF M!Effect, M!CreateEnvelopes, M!CreateIndex
<1>4. CASE name = "raise"
  BY <1>4 DEF M!Effect, M!RaiseEnvelopeSize, M!Refused
<1>5. QED
  BY <1>1, <1>2, <1>3, <1>4 DEF Names

LEMMA RecordFacts ==
  ASSUME NEW d, Good(d), NEW v \in 1 .. 2, M!Applied(v, d)
  PROVE  /\ Good([d EXCEPT !.recorded = @ \union {v}])
         /\ Grows(d, [d EXCEPT !.recorded = @ \union {v}])
BY DEF Good, Schemas, Grows, M!Applied

LEMMA VersionsFacts ==
  ASSUME NEW d, Good(d)
  PROVE  /\ Good([d EXCEPT !.versions = TRUE]) /\ Grows(d, [d EXCEPT !.versions = TRUE])
         /\ [d EXCEPT !.versions = TRUE].recorded = d.recorded
BY DEF Good, Schemas, Grows, M!Applied

LEMMA EmptyFacts == Good(M!EmptySchema)
BY DEF Good, Schemas, M!EmptySchema

------------------------------------------------------------------------------
\* The inductive invariant.

Release(s) == IF s \in OldServers THEN 1 ELSE 2

\* The steps of Apply, and the states of a dead one, in which the session has the lock.
Holding == {"versions", "check", "apply", "record", "finish",
            "dead", "dead_in_apply", "dead_in_record", "dead_in_finish"}
Steps == Holding \cup {"idle", "lock", "done", "failed"}
Reasons == {"none", "lock_unavailable", "error", "retries_exhausted", "crash"}

MigrationType ==
    /\ mode \in {"postgres", "cockroach", "mariadb"}
    /\ Good(db)
    /\ lock \in Servers \cup {NoServer}
    /\ view \in [Servers -> Schemas]
    /\ at \in [Servers -> Steps]
    /\ entry \in [Servers -> 1 .. 3]
    /\ statement \in [Servers -> Nat]
    /\ reason \in [Servers -> Reasons]

\* The advisory lock excludes; CockroachDB has none.
LockInv == mode /= "cockroach" => \A s \in Servers : at[s] \in Holding <=> lock = s

\* What a PostgreSQL transaction may commit: everything that was there when it began.
ViewInv(s) ==
    mode = "postgres" /\ at[s] \in Holding => Good(view[s]) /\ Grows(db, view[s])

\* How far the Apply of a server is.
ProgressInv(s) ==
    /\ at[s] \in {"lock", "versions"} => entry[s] = 1
    /\ at[s] \in {"check", "apply", "record"} =>
        \A v \in 1 .. entry[s] - 1 : M!Applied(v, M!Schema(s))
    /\ at[s] \in {"apply", "dead_in_apply"} =>
        /\ entry[s] \in 1 .. 2
        /\ statement[s] \in 1 .. Len(M!Statements(entry[s]))
        /\ entry[s] = 1 /\ statement[s] = 2 => M!Schema(s).table
    /\ at[s] \in {"record", "dead_in_record"} =>
        entry[s] \in 1 .. 2 /\ M!Applied(entry[s], M!Schema(s))
    /\ at[s] \in {"apply", "record"} /\ mode /= "cockroach" => entry[s] \notin M!Schema(s).recorded
    /\ at[s] = "finish" /\ reason[s] = "none" =>
        \A v \in 1 .. Release(s) : M!Applied(v, M!Schema(s))
    /\ at[s] = "done" => \A v \in 1 .. Release(s) : M!Applied(v, db)

MigrationInv ==
    /\ MigrationType
    /\ LockInv
    /\ \A s \in Servers : ViewInv(s) /\ ProgressInv(s)

LEMMA MigrationInit == M!Init => MigrationInv
<1> SUFFICES ASSUME M!Init PROVE MigrationInv
  OBVIOUS
<1>1. MigrationType
  BY EmptyFacts DEF M!Init, MigrationType, Steps, Reasons, Good
<1>2. LockInv
  BY ServersAssumption DEF M!Init, LockInv, Holding
<1>3. \A s \in Servers : ViewInv(s) /\ ProgressInv(s)
  BY DEF M!Init, ViewInv, ProgressInv, Holding
<1>4. QED
  BY <1>1, <1>2, <1>3 DEF MigrationInv

------------------------------------------------------------------------------
\* A step of one server, as the others see it: the schema grows, and without
\* CockroachDB's freedom only under the lock.

Others(s) ==
    /\ UNCHANGED mode
    /\ Good(db') /\ Grows(db, db')
    /\ db' = db \/ mode = "cockroach" \/ at[s] \in Holding
    /\ \A t \in Servers \ {s} :
        /\ view'[t] = view[t] /\ at'[t] = at[t] /\ entry'[t] = entry[t]
        /\ statement'[t] = statement[t] /\ reason'[t] = reason[t]

\* The lock moves with the steps that have it.
LockMoves(s) ==
    \/ UNCHANGED lock /\ (at'[s] \in Holding <=> at[s] \in Holding)
    \/ UNCHANGED lock /\ mode = "cockroach"
    \/ lock = NoServer /\ lock' = s /\ at'[s] \in Holding
    \/ lock' = (IF lock = s THEN NoServer ELSE lock) /\ at'[s] \notin Holding

LEMMA OthersInv ==
  ASSUME MigrationInv, NEW s \in Servers, Others(s), LockMoves(s), MigrationType',
         ViewInv(s)', ProgressInv(s)'
  PROVE  MigrationInv'
<1>1. LockInv'
  BY ServersAssumption DEF MigrationInv, MigrationType, LockInv, LockMoves, Others
<1>2. ASSUME NEW t \in Servers \ {s} PROVE ViewInv(t)' /\ ProgressInv(t)'
  <2>1. db' = db \/ mode = "cockroach" \/ at[t] \notin Holding
    BY DEF Others, MigrationInv, LockInv
  <2>2. ViewInv(t)'
    BY <2>1 DEF MigrationInv, ViewInv, Others
  <2>3. Grows(M!Schema(t), M!Schema(t)') /\ M!Statements(entry[t])' = M!Statements(entry[t])
    BY GrowsFacts DEF M!Schema, M!Statements, Others
  <2>4. at[t] \in {"apply", "record"} /\ mode /= "cockroach" => M!Schema(t)' = M!Schema(t)
    BY <2>1 DEF M!Schema, Others, Holding
  <2>5. ProgressInv(t)
    BY DEF MigrationInv
  <2>6. /\ at'[t] = at[t] /\ entry'[t] = entry[t] /\ statement'[t] = statement[t]
        /\ reason'[t] = reason[t] /\ mode' = mode /\ Grows(db, db')
    BY DEF Others
  <2>7. \A v : /\ M!Applied(v, M!Schema(t)) => M!Applied(v, M!Schema(t)')
               /\ M!Applied(v, db) => M!Applied(v, db')
    BY <2>3, <2>6, GrowsFacts
  <2>8. M!Schema(t).table => M!Schema(t)'.table
    BY <2>3 DEF Grows
  <2>9. ProgressInv(t)'
    BY <2>3, <2>4, <2>5, <2>6, <2>7, <2>8 DEF ProgressInv
  <2>10. QED
    BY <2>2, <2>9
<1>3. QED
  BY <1>1, <1>2 DEF MigrationInv

------------------------------------------------------------------------------
\* What a step writes.

LEMMA SchemaGood ==
  ASSUME MigrationInv, NEW s \in Servers, at[s] \in Holding
  PROVE  Good(M!Schema(s))
BY DEF MigrationInv, MigrationType, ViewInv, M!Schema

LEMMA Written ==
  ASSUME MigrationInv, NEW s \in Servers, at[s] \in Holding, UNCHANGED mode,
         NEW d, M!Write(s, d), Good(d), Grows(M!Schema(s), d)
  PROVE  /\ M!Schema(s)' = d
         /\ Good(db') /\ Grows(db, db') /\ (db' = db \/ mode /= "postgres")
         /\ view' \in [Servers -> Schemas] /\ \A t \in Servers \ {s} : view'[t] = view[t]
         /\ mode = "postgres" => Good(view'[s]) /\ Grows(db', view'[s])
<1>1. CASE mode = "postgres"
  BY <1>1, GrowsFacts DEF M!Write, M!Schema, MigrationInv, MigrationType, ViewInv, Good
<1>2. CASE mode /= "postgres"
  BY <1>2 DEF M!Write, M!Schema, MigrationInv, MigrationType
<1>3. QED
  BY <1>1, <1>2

LEMMA StatementFacts ==
  ASSUME MigrationInv, NEW s \in Servers, at[s] \in {"apply", "dead_in_apply"}
  PROVE  LET name == M!Statements(entry[s])[statement[s]]
         IN  /\ name \in Names
             /\ entry[s] = 2 => name = "raise" /\ Len(M!Statements(entry[s])) = 1
             /\ entry[s] = 1 /\ mode = "mariadb" =>
                    name = "table_and_index" /\ Len(M!Statements(entry[s])) = 1
             /\ entry[s] = 1 /\ mode /= "mariadb" =>
                    /\ Len(M!Statements(entry[s])) = 2
                    /\ \/ statement[s] = 1 /\ name = "table"
                       \/ statement[s] = 2 /\ name = "index"
             /\ entry[s] \in {1, 2}
<1>1. entry[s] \in 1 .. 2 /\ statement[s] \in 1 .. Len(M!Statements(entry[s]))
  BY DEF MigrationInv, ProgressInv
<1>2. \/ entry[s] = 1 /\ entry[s] /= 2
      \/ entry[s] = 2 /\ entry[s] /= 1
  BY <1>1
<1>3. /\ Len(<<"raise">>) = 1 /\ <<"raise">>[1] = "raise"
      /\ Len(<<"table_and_index">>) = 1 /\ <<"table_and_index">>[1] = "table_and_index"
      /\ Len(<<"table", "index">>) = 2
      /\ <<"table", "index">>[1] = "table" /\ <<"table", "index">>[2] = "index"
  OBVIOUS
<1>4. CASE entry[s] = 2
  <2>1. M!Statements(entry[s]) = <<"raise">>
    BY <1>4, Zenon DEF M!Statements
  <2>2. statement[s] = 1
    <3>1. statement[s] \in 1 .. 1
      BY <1>1, <1>3, <2>1, Zenon
    <3>2. QED
      BY <3>1
  <2>3. QED
    BY <1>2, <1>3, <1>4, <2>1, <2>2, Zenon DEF Names
<1>5. CASE entry[s] = 1 /\ mode = "mariadb"
  <2>1. M!Statements(entry[s]) = <<"table_and_index">>
    BY <1>2, <1>5, Zenon DEF M!Statements
  <2>2. statement[s] = 1
    <3>1. statement[s] \in 1 .. 1
      BY <1>1, <1>3, <2>1, Zenon
    <3>2. QED
      BY <3>1
  <2>3. QED
    BY <1>2, <1>3, <1>5, <2>1, <2>2, Zenon DEF Names
<1>6. CASE entry[s] = 1 /\ mode /= "mariadb"
  <2>1. M!Statements(entry[s]) = <<"table", "index">>
    BY <1>2, <1>6, Zenon DEF M!Statements
  <2>2. statement[s] = 1 \/ statement[s] = 2
    <3>1. statement[s] \in 1 .. 2
      BY <1>1, <1>3, <2>1, Zenon
    <3>2. QED
      BY <3>1
  <2>3. QED
    BY <1>2, <1>3, <1>6, <2>1, <2>2, Zenon DEF Names
<1>7. QED
  BY <1>2, <1>4, <1>5, <1>6, Zenon

\* What a lost statement or COMMIT may leave.
LEMMA OutcomeFacts ==
  ASSUME MigrationInv, NEW s \in Servers, NEW step, NEW e \in M!Outcomes(s, step),
         step = "apply" => at[s] \in {"apply", "dead_in_apply"},
         step = "record" => at[s] \in {"record", "dead_in_record"},
         step = "finish" => at[s] \in {"finish", "dead_in_finish"}
  PROVE  Good(e) /\ Grows(db, e) /\ (mode = "postgres" => e \in {db, view[s]})
<1>1. Good(db) /\ Grows(db, db)
  BY GrowsFacts DEF MigrationInv, MigrationType
<1>2. CASE mode = "postgres"
  <2>1. e = db \/ (step = "finish" /\ e = view[s])
    BY <1>2 DEF M!Outcomes
  <2>2. step = "finish" => Good(view[s]) /\ Grows(db, view[s])
    BY <1>2 DEF MigrationInv, ViewInv, Holding
  <2>3. QED
    BY <1>1, <2>1, <2>2
<1>3. CASE mode /= "postgres" /\ step = "apply"
  <2> DEFINE name == M!Statements(entry[s])[statement[s]]
  <2>1. name \in Names
    BY <1>3, StatementFacts
  <2>2. e = db \/ (~M!Refused(name, db) /\ e = M!Effect(name, db))
    BY <1>3 DEF M!Outcomes
  <2> HIDE DEF name
  <2>3. QED
    BY <1>1, <1>3, <2>1, <2>2, EffectFacts
<1>4. CASE mode /= "postgres" /\ step = "record"
  <2>1. entry[s] \in 1 .. 2 /\ M!Applied(entry[s], db)
    BY <1>4 DEF MigrationInv, ProgressInv, M!Schema
  <2>2. e = db \/ e = [db EXCEPT !.recorded = @ \union {entry[s]}]
    BY <1>4 DEF M!Outcomes
  <2>3. QED
    BY <1>1, <1>4, <2>1, <2>2, RecordFacts
<1>5. CASE mode /= "postgres" /\ step \notin {"apply", "record"}
  BY <1>1, <1>5 DEF M!Outcomes
<1>6. QED
  BY <1>2, <1>3, <1>4, <1>5

------------------------------------------------------------------------------
\* One lemma per action.

LEMMA BeginInv ==
  ASSUME MigrationInv, NEW s \in Servers, UNCHANGED mode, M!Begin(s)
  PROVE  MigrationInv' /\ Others(s)
<1> USE DEF MigrationInv, MigrationType, Holding, Steps, Reasons
<1>1. Others(s)
  BY GrowsFacts DEF M!Begin, M!Goto, Others
<1>2. LockMoves(s)
  BY DEF M!Begin, M!Goto, LockMoves
<1>3. MigrationType'
  BY DEF M!Begin, M!Goto
<1>4. ViewInv(s)'
  BY DEF M!Begin, M!Goto, ViewInv
<1>5. ProgressInv(s)'
  BY DEF M!Begin, M!Goto, ProgressInv
<1> QED
  BY <1>1, <1>2, <1>3, <1>4, <1>5, OthersInv

LEMMA AcquireInv ==
  ASSUME MigrationInv, NEW s \in Servers, UNCHANGED mode, M!Acquire(s)
  PROVE  MigrationInv' /\ Others(s)
<1> USE DEF MigrationInv, MigrationType, Holding, Steps, Reasons, M!local
<1>1. Others(s)
  BY GrowsFacts DEF M!Acquire, M!Goto, Others
<1>2. LockMoves(s)
  BY DEF M!Acquire, M!Goto, LockMoves
<1>3. MigrationType'
  BY DEF M!Acquire, M!Goto, Good
<1>4. ViewInv(s)'
  BY GrowsFacts DEF M!Acquire, M!Goto, ViewInv
<1>5. ProgressInv(s)'
  BY DEF M!Acquire, M!Goto, ProgressInv
<1> QED
  BY <1>1, <1>2, <1>3, <1>4, <1>5, OthersInv

LEMMA LockTimesOutInv ==
  ASSUME MigrationInv, NEW s \in Servers, UNCHANGED mode, M!LockTimesOut(s)
  PROVE  MigrationInv' /\ Others(s)
<1> USE DEF MigrationInv, MigrationType, Holding, Steps, Reasons
<1>1. Others(s)
  BY GrowsFacts DEF M!LockTimesOut, M!Goto, Others
<1>2. LockMoves(s)
  BY DEF M!LockTimesOut, M!Goto, LockMoves
<1>3. MigrationType'
  BY DEF M!LockTimesOut, M!Goto
<1>4. ViewInv(s)'
  BY DEF M!LockTimesOut, M!Goto, ViewInv
<1>5. ProgressInv(s)'
  BY DEF M!LockTimesOut, M!Goto, ProgressInv
<1> QED
  BY <1>1, <1>2, <1>3, <1>4, <1>5, OthersInv

LEMMA CrashInv ==
  ASSUME MigrationInv, NEW s \in Servers, UNCHANGED mode, M!Crash(s)
  PROVE  MigrationInv' /\ Others(s)
<1> USE DEF MigrationInv, MigrationType, Holding, Steps, Reasons, M!local
<1>1. \/ at[s] \in {"versions", "check"} /\ M!Goto(s, "dead")
      \/ at[s] = "apply" /\ M!Goto(s, "dead_in_apply")
      \/ at[s] = "record" /\ M!Goto(s, "dead_in_record")
      \/ at[s] = "finish" /\ M!Goto(s, "dead_in_finish")
  BY DEF M!Crash, M!Dead
<1>2. UNCHANGED <<db, view, lock, entry, statement, reason>>
  BY DEF M!Crash
<1>3. Others(s)
  BY <1>1, <1>2, GrowsFacts DEF M!Goto, Others
<1>4. LockMoves(s)
  BY <1>1, <1>2 DEF M!Goto, LockMoves
<1>5. MigrationType'
  BY <1>1, <1>2 DEF M!Goto
<1>6. ViewInv(s)'
  BY <1>1, <1>2 DEF M!Goto, ViewInv
<1>7. ProgressInv(s)'
  BY <1>1, <1>2 DEF M!Goto, ProgressInv, M!Schema, M!Statements
<1> QED
  BY <1>3, <1>4, <1>5, <1>6, <1>7, OthersInv

LEMMA RestartInv ==
  ASSUME MigrationInv, NEW s \in Servers, UNCHANGED mode, M!Restart(s)
  PROVE  MigrationInv' /\ Others(s)
<1> USE DEF MigrationInv, MigrationType, Holding, Steps, Reasons, M!local
<1>1. Others(s)
  BY GrowsFacts DEF M!Restart, M!Goto, Others
<1>2. LockMoves(s)
  BY DEF M!Restart, M!Goto, LockMoves
<1>3. MigrationType'
  BY DEF M!Restart, M!Goto
<1>4. ViewInv(s)'
  BY DEF M!Restart, M!Goto, ViewInv
<1>5. ProgressInv(s)'
  BY DEF M!Restart, M!Goto, ProgressInv
<1> QED
  BY <1>1, <1>2, <1>3, <1>4, <1>5, OthersInv

LEMMA SerializationFailureInv ==
  ASSUME MigrationInv, NEW s \in Servers, UNCHANGED mode, M!SerializationFailure(s)
  PROVE  MigrationInv' /\ Others(s)
<1> USE DEF MigrationInv, MigrationType, Holding, Steps, Reasons
<1>1. \/ M!Goto(s, "finish") /\ reason' = [reason EXCEPT ![s] = "retries_exhausted"]
      \/ UNCHANGED <<at, reason>>
  BY DEF M!SerializationFailure
<1>2. /\ UNCHANGED <<db, view, lock, entry, statement>>
      /\ mode = "cockroach"
  BY DEF M!SerializationFailure
<1>3. Others(s)
  BY <1>1, <1>2, GrowsFacts DEF M!Goto, Others
<1>4. LockMoves(s)
  BY <1>2 DEF LockMoves
<1>5. MigrationType'
  BY <1>1, <1>2 DEF M!Goto
<1>6. ViewInv(s)'
  BY <1>2 DEF ViewInv
<1>7. ProgressInv(s)'
  BY <1>1, <1>2 DEF M!Goto, ProgressInv, M!Schema, M!Statements
<1> QED
  BY <1>3, <1>4, <1>5, <1>6, <1>7, OthersInv

LEMMA CreateVersionsInv ==
  ASSUME MigrationInv, NEW s \in Servers, UNCHANGED mode, M!CreateVersions(s)
  PROVE  MigrationInv' /\ Others(s)
<1> DEFINE d == [M!Schema(s) EXCEPT !.versions = TRUE]
<1>1. /\ M!Write(s, d) /\ at[s] = "versions"
      /\ at' = [at EXCEPT ![s] = "check"]
      /\ UNCHANGED <<lock, entry, statement, reason>>
  BY DEF M!CreateVersions, M!Goto
<1>2. at[s] \in Holding
  BY <1>1 DEF Holding
<1>3. Good(d) /\ Grows(M!Schema(s), d)
  BY <1>2, SchemaGood, VersionsFacts
<1> HIDE DEF d
<1>4. /\ Good(db') /\ Grows(db, db')
      /\ view' \in [Servers -> Schemas] /\ \A t \in Servers \ {s} : view'[t] = view[t]
      /\ mode = "postgres" => Good(view'[s]) /\ Grows(db', view'[s])
  BY <1>1, <1>2, <1>3, Written
<1> USE DEF MigrationInv, MigrationType
<1>5. Others(s)
  BY <1>1, <1>2, <1>4 DEF Others
<1>6. LockMoves(s)
  BY <1>1, <1>2 DEF LockMoves, Holding
<1>7. MigrationType'
  BY <1>1, <1>4 DEF Steps, Holding
<1>8. ViewInv(s)'
  BY <1>4 DEF ViewInv
<1>9. ProgressInv(s)'
  BY <1>1 DEF ProgressInv
<1> QED
  BY <1>5, <1>6, <1>7, <1>8, <1>9, OthersInv

LEMMA CheckInv ==
  ASSUME MigrationInv, NEW s \in Servers, UNCHANGED mode, M!Check(s)
  PROVE  MigrationInv' /\ Others(s)
<1>1. /\ at[s] = "check"
      /\ statement' = [statement EXCEPT ![s] = 1]
      /\ UNCHANGED <<db, view, lock, reason>>
      /\ \/ /\ entry[s] > Release(s)
            /\ at' = [at EXCEPT ![s] = IF mode = "cockroach" THEN "done" ELSE "finish"]
            /\ UNCHANGED entry
         \/ /\ entry[s] <= Release(s) /\ entry[s] \in M!Schema(s).recorded
            /\ entry' = [entry EXCEPT ![s] = @ + 1]
            /\ UNCHANGED at
         \/ /\ entry[s] <= Release(s) /\ entry[s] \notin M!Schema(s).recorded
            /\ at' = [at EXCEPT ![s] = "apply"]
            /\ UNCHANGED entry
  <2>1. entry[s] \in Nat /\ Release(s) \in 1 .. 2
    BY DEF MigrationInv, MigrationType, Release
  <2>2. [t \in Servers |-> IF t \in OldServers THEN 1 ELSE 2][s] = Release(s)
    BY DEF Release
  <2>3. entry[s] > Release(s) \/ entry[s] <= Release(s)
    BY <2>1
  <2>4. QED
    BY <2>2, <2>3 DEF M!Check, M!Goto
<1>2. Good(M!Schema(s)) /\ M!Schema(s)' = M!Schema(s)
  BY <1>1, SchemaGood DEF M!Schema, Holding
<1>3. Release(s) \in 1 .. 2
  BY DEF Release
<1>4. Others(s)
  BY <1>1, GrowsFacts DEF Others, MigrationInv, MigrationType
<1>5. LockMoves(s)
  BY <1>1 DEF LockMoves, Holding, MigrationInv, MigrationType
<1>6. MigrationType'
  BY <1>1, <1>3 DEF MigrationInv, MigrationType, Steps, Holding
<1>7. ViewInv(s)'
  BY <1>1 DEF MigrationInv, MigrationType, ViewInv, Holding
<1>8. ProgressInv(s)'
  <2>1. entry \in [Servers -> 1 .. 3] /\ at \in [Servers -> Steps]
        /\ statement \in [Servers -> Nat]
    BY DEF MigrationInv, MigrationType
  <2>2. \A v \in 1 .. entry[s] - 1 : M!Applied(v, M!Schema(s))
    BY <1>1 DEF MigrationInv, ProgressInv
  <2>3. \A v \in M!Schema(s).recorded : M!Applied(v, M!Schema(s))
    BY <1>2 DEF Good
  <2>4. CASE /\ entry[s] > Release(s)
             /\ at' = [at EXCEPT ![s] = IF mode = "cockroach" THEN "done" ELSE "finish"]
             /\ UNCHANGED entry
    <3>1. \A v \in 1 .. Release(s) : M!Applied(v, M!Schema(s))
      BY <1>3, <2>1, <2>2, <2>4
    <3>2. at'[s] = "done" => M!Schema(s)' = db'
      BY <2>1, <2>4 DEF M!Schema
    <3>3. at'[s] = "done" \/ at'[s] = "finish"
      BY <2>1, <2>4
    <3>4. QED
      BY <1>2, <3>1, <3>2, <3>3 DEF ProgressInv
  <2>5. CASE /\ entry[s] <= Release(s) /\ entry[s] \in M!Schema(s).recorded
             /\ entry' = [entry EXCEPT ![s] = @ + 1]
             /\ UNCHANGED at
    <3>1. entry'[s] = entry[s] + 1 /\ at'[s] = "check"
      BY <1>1, <2>1, <2>5
    <3>2. \A v \in 1 .. entry'[s] - 1 : v \in 1 .. entry[s] - 1 \/ v = entry[s]
      BY <2>1, <3>1
    <3>3. \A v \in 1 .. entry'[s] - 1 : M!Applied(v, M!Schema(s)')
      BY <1>2, <2>2, <2>3, <2>5, <3>2
    <3>4. QED
      BY <3>1, <3>3 DEF ProgressInv
  <2>6. CASE /\ entry[s] <= Release(s) /\ entry[s] \notin M!Schema(s).recorded
             /\ at' = [at EXCEPT ![s] = "apply"]
             /\ UNCHANGED entry
    <3>1. at'[s] = "apply" /\ statement'[s] = 1 /\ entry'[s] = entry[s] /\ entry[s] \in 1 .. 2
      BY <1>1, <1>3, <2>1, <2>6
    <3>2. 1 \in 1 .. Len(M!Statements(entry[s])')
      <4>1. /\ Len(<<"raise">>) = 1 /\ Len(<<"table_and_index">>) = 1
            /\ Len(<<"table", "index">>) = 2
        OBVIOUS
      <4>2. Len(M!Statements(entry[s])') \in {1, 2}
        BY <4>1, Zenon DEF M!Statements
      <4>3. QED
        BY <4>2
    <3>3. QED
      BY <1>2, <2>2, <2>6, <3>1, <3>2 DEF ProgressInv
  <2>7. QED
    BY <1>1, <2>4, <2>5, <2>6
<1> QED
  BY <1>4, <1>5, <1>6, <1>7, <1>8, OthersInv

\* No statement is refused: the file's first statement made the table the second
\* one indexes, and the first file made the table the second file alters.
LEMMA NeverRefused ==
  ASSUME MigrationInv, NEW s \in Servers, at[s] = "apply"
  PROVE  ~M!Refused(M!Statements(entry[s])[statement[s]], M!Schema(s))
<1> DEFINE name == M!Statements(entry[s])[statement[s]]
<1> SUFFICES ~M!Refused(name, M!Schema(s))
  OBVIOUS
<1>1. /\ name \in Names
      /\ entry[s] = 2 => name = "raise"
      /\ entry[s] = 1 /\ mode = "mariadb" => name = "table_and_index"
      /\ entry[s] = 1 /\ mode /= "mariadb" =>
            \/ statement[s] = 1 /\ name = "table"
            \/ statement[s] = 2 /\ name = "index"
      /\ entry[s] \in {1, 2}
  BY StatementFacts
<1> HIDE DEF name
<1>2. ProgressInv(s) /\ Good(M!Schema(s))
  BY SchemaGood DEF MigrationInv, Holding
<1>3. CASE entry[s] = 2
  <2>1. M!Applied(1, M!Schema(s))
    BY <1>2, <1>3 DEF ProgressInv
  <2>2. M!Schema(s).table /\ M!Schema(s).limit /= "none"
    BY <1>2, <2>1 DEF M!Applied, Good
  <2>3. QED
    BY <1>1, <1>3, <2>2 DEF M!Refused
<1>4. CASE entry[s] = 1 /\ mode = "mariadb"
  BY <1>1, <1>4 DEF M!Refused
<1>5. CASE entry[s] = 1 /\ mode /= "mariadb"
  <2>1. statement[s] = 2 => M!Schema(s).table
    BY <1>2, <1>5 DEF ProgressInv
  <2>2. QED
    BY <1>1, <1>5, <2>1 DEF M!Refused
<1>6. QED
  BY <1>1, <1>3, <1>4, <1>5

LEMMA ExecuteInv ==
  ASSUME MigrationInv, NEW s \in Servers, UNCHANGED mode, M!Execute(s)
  PROVE  MigrationInv' /\ Others(s)
<1> DEFINE name == M!Statements(entry[s])[statement[s]]
           last == statement[s] = Len(M!Statements(entry[s]))
           d == M!Effect(name, M!Schema(s))
<1>1. at[s] = "apply"
  BY DEF M!Execute
<1>2. ~M!Refused(name, M!Schema(s))
  BY <1>1, NeverRefused
<1>3. /\ M!Write(s, d)
      /\ statement' = [statement EXCEPT ![s] = @ + 1]
      /\ at' = [at EXCEPT ![s] = IF last THEN "record" ELSE "apply"]
      /\ UNCHANGED <<lock, entry, reason>>
  BY <1>2 DEF M!Execute, M!Goto
<1>4. /\ name \in Names
      /\ entry[s] = 2 => name = "raise" /\ Len(M!Statements(entry[s])) = 1
      /\ entry[s] = 1 /\ mode = "mariadb" =>
            name = "table_and_index" /\ Len(M!Statements(entry[s])) = 1
      /\ entry[s] = 1 /\ mode /= "mariadb" =>
            /\ Len(M!Statements(entry[s])) = 2
            /\ \/ statement[s] = 1 /\ name = "table"
               \/ statement[s] = 2 /\ name = "index"
      /\ entry[s] \in {1, 2}
  BY <1>1, StatementFacts
<1>5. at[s] \in Holding /\ Good(M!Schema(s)) /\ ProgressInv(s)
  BY <1>1, SchemaGood DEF Holding, MigrationInv
<1> HIDE DEF name
<1>6. /\ Good(d) /\ Grows(M!Schema(s), d) /\ d.recorded = M!Schema(s).recorded
      /\ name \in {"table", "table_and_index"} => d.table
      /\ name \in {"index", "table_and_index"} => M!Applied(1, d)
      /\ name = "raise" => M!Applied(2, d)
  BY <1>2, <1>4, <1>5, EffectFacts
<1> HIDE DEF d
<1>7. /\ M!Schema(s)' = d /\ Good(db') /\ Grows(db, db')
      /\ view' \in [Servers -> Schemas] /\ \A t \in Servers \ {s} : view'[t] = view[t]
      /\ mode = "postgres" => Good(view'[s]) /\ Grows(db', view'[s])
  BY <1>3, <1>5, <1>6, Written
<1>8. statement[s] \in 1 .. Len(M!Statements(entry[s]))
  BY <1>1, <1>5 DEF ProgressInv
<1>9. M!Statements(entry[s])' = M!Statements(entry[s])
  BY <1>3 DEF M!Statements
<1>10. /\ at'[s] = IF last THEN "record" ELSE "apply"
       /\ entry'[s] = entry[s]
       /\ statement'[s] = statement[s] + 1
  BY <1>3 DEF MigrationInv, MigrationType
<1>11. Others(s)
  BY <1>3, <1>5, <1>7 DEF Others, MigrationInv, MigrationType
<1>12. LockMoves(s)
  BY <1>1, <1>3, <1>10 DEF LockMoves, Holding
<1>13. MigrationType'
  <2>1. "record" \in Steps /\ "apply" \in Steps
    BY DEF Steps, Holding
  <2>2. at' \in [Servers -> Steps] /\ statement' \in [Servers -> Nat]
    BY <1>3, <2>1 DEF MigrationInv, MigrationType
  <2>3. QED
    BY <1>3, <1>7, <2>2 DEF MigrationInv, MigrationType
<1>14. ViewInv(s)'
  BY <1>7 DEF ViewInv
<1>15. ProgressInv(s)'
  <2>1. \A v \in 1 .. entry[s] - 1 : M!Applied(v, d)
    BY <1>1, <1>5, <1>6, GrowsFacts DEF ProgressInv
  <2>2. mode /= "cockroach" => entry[s] \notin d.recorded
    BY <1>1, <1>5, <1>6 DEF ProgressInv
  <2>3. entry[s] \in 1 .. 2
    BY <1>4
  <2>4. CASE last
    <3>1. M!Applied(entry[s], d)
      BY <1>4, <1>6, <2>4
    <3>2. at'[s] = "record"
      BY <1>10, <2>4
    <3>3. QED
      BY <1>7, <1>10, <2>1, <2>2, <2>3, <3>1, <3>2 DEF ProgressInv
  <2>5. CASE ~last
    <3>1. entry[s] = 1 /\ mode /= "mariadb" /\ statement[s] = 1 /\ name = "table"
      <4>1. ASSUME Len(M!Statements(entry[s])) = 1 PROVE FALSE
        <5>1. statement[s] \in 1 .. 1
          BY <1>8, <4>1, Zenon
        <5>2. statement[s] = 1
          BY <5>1
        <5>3. QED
          BY <2>5, <4>1, <5>2, Zenon
      <4>2. Len(M!Statements(entry[s])) = 2 => statement[s] /= 2
        BY <2>5, Zenon
      <4>3. QED
        BY <1>4, <4>1, <4>2, Zenon
    <3>2. Len(M!Statements(entry[s])) = 2 /\ d.table
      BY <1>4, <1>6, <3>1
    <3>3. statement'[s] \in 1 .. Len(M!Statements(entry[s]))
      <4>1. statement'[s] = 2
        BY <1>10, <3>1
      <4>2. 2 \in 1 .. 2
        OBVIOUS
      <4>3. QED
        BY <3>2, <4>1, <4>2, Zenon
    <3>4. at'[s] = "apply"
      BY <1>10, <2>5
    <3>5. QED
      BY <1>7, <1>9, <1>10, <2>1, <2>2, <2>3, <3>2, <3>3, <3>4 DEF ProgressInv
  <2>6. QED
    BY <2>4, <2>5
<1> QED
  BY <1>11, <1>12, <1>13, <1>14, <1>15, OthersInv

LEMMA RecordInv ==
  ASSUME MigrationInv, NEW s \in Servers, UNCHANGED mode, M!Record(s)
  PROVE  MigrationInv' /\ Others(s)
<1> DEFINE d == [M!Schema(s) EXCEPT !.recorded = @ \union {entry[s]}]
<1>1. at[s] = "record"
  BY DEF M!Record
<1>2. /\ at[s] \in Holding /\ Good(M!Schema(s))
      /\ entry[s] \in 1 .. 2 /\ M!Applied(entry[s], M!Schema(s))
      /\ \A v \in 1 .. entry[s] - 1 : M!Applied(v, M!Schema(s))
      /\ ~(entry[s] \in M!Schema(s).recorded /\ mode # "cockroach")
  BY <1>1, SchemaGood DEF Holding, MigrationInv, ProgressInv
<1>3. /\ M!Write(s, d)
      /\ entry' = [entry EXCEPT ![s] = @ + 1]
      /\ at' = [at EXCEPT ![s] = "check"]
      /\ UNCHANGED <<lock, statement, reason>>
  BY <1>2 DEF M!Record, M!Goto
<1>4. Good(d) /\ Grows(M!Schema(s), d)
  BY <1>2, RecordFacts
<1> HIDE DEF d
<1>5. /\ M!Schema(s)' = d /\ Good(db') /\ Grows(db, db')
      /\ view' \in [Servers -> Schemas] /\ \A t \in Servers \ {s} : view'[t] = view[t]
      /\ mode = "postgres" => Good(view'[s]) /\ Grows(db', view'[s])
  BY <1>2, <1>3, <1>4, Written
<1>6. at'[s] = "check" /\ entry'[s] = entry[s] + 1
  BY <1>3 DEF MigrationInv, MigrationType
<1>7. Others(s)
  BY <1>2, <1>3, <1>5 DEF Others, MigrationInv, MigrationType
<1>8. LockMoves(s)
  BY <1>1, <1>3, <1>6 DEF LockMoves, Holding
<1>9. MigrationType'
  <2>1. entry' \in [Servers -> 1 .. 3]
    BY <1>2, <1>3 DEF MigrationInv, MigrationType
  <2>2. at' \in [Servers -> Steps]
    BY <1>3 DEF MigrationInv, MigrationType, Steps, Holding
  <2>3. QED
    BY <1>3, <1>5, <2>1, <2>2 DEF MigrationInv, MigrationType
<1>10. ViewInv(s)'
  BY <1>5 DEF ViewInv
<1>11. ProgressInv(s)'
  <2>1. \A v \in 1 .. entry[s] : v = entry[s] \/ v \in 1 .. entry[s] - 1
    BY <1>2
  <2>2. \A v \in 1 .. entry[s] : M!Applied(v, d)
    BY <1>2, <1>4, <2>1, GrowsFacts
  <2>3. entry'[s] - 1 = entry[s]
    BY <1>2, <1>6
  <2>4. QED
    BY <1>5, <1>6, <2>2, <2>3 DEF ProgressInv
<1> QED
  BY <1>7, <1>8, <1>9, <1>10, <1>11, OthersInv

LEMMA FinishInv ==
  ASSUME MigrationInv, NEW s \in Servers, UNCHANGED mode, M!Finish(s)
  PROVE  MigrationInv' /\ Others(s)
<1>1. /\ at[s] = "finish" /\ at[s] \in Holding
      /\ db' = IF mode = "postgres" /\ reason[s] = "none" THEN view[s] ELSE db
      /\ lock' = IF lock = s THEN NoServer ELSE lock
      /\ at' = [at EXCEPT ![s] = IF reason[s] = "none" THEN "done" ELSE "failed"]
      /\ UNCHANGED <<view, entry, statement, reason>>
  BY DEF M!Finish, M!Goto, M!local, Holding
<1>2. Good(db') /\ Grows(db, db')
  BY <1>1, GrowsFacts DEF MigrationInv, MigrationType, ViewInv
<1>3. at'[s] = IF reason[s] = "none" THEN "done" ELSE "failed"
  BY <1>1 DEF MigrationInv, MigrationType
<1>4. Others(s)
  BY <1>1, <1>2 DEF Others, MigrationInv, MigrationType
<1>5. LockMoves(s)
  BY <1>1, <1>3 DEF LockMoves, Holding
<1>6. MigrationType'
  BY <1>1, <1>2 DEF MigrationInv, MigrationType, Steps
<1>7. ViewInv(s)'
  BY <1>3 DEF ViewInv, Holding
<1>8. ProgressInv(s)'
  <2>1. CASE reason[s] = "none"
    <3>1. \A v \in 1 .. Release(s) : M!Applied(v, M!Schema(s))
      BY <1>1, <2>1 DEF MigrationInv, ProgressInv
    <3>2. db' = M!Schema(s) /\ at'[s] = "done"
      BY <1>1, <1>3, <2>1 DEF M!Schema
    <3>3. QED
      BY <3>1, <3>2 DEF ProgressInv
  <2>2. CASE reason[s] /= "none"
    BY <1>3, <2>2 DEF ProgressInv
  <2>3. QED
    BY <2>1, <2>2
<1> QED
  BY <1>4, <1>5, <1>6, <1>7, <1>8, OthersInv

LEMMA ErrorInv ==
  ASSUME MigrationInv, NEW s \in Servers, UNCHANGED mode, M!Error(s)
  PROVE  MigrationInv' /\ Others(s)
<1>1. /\ at[s] \in {"versions", "check", "apply", "record", "finish"} /\ at[s] \in Holding
      /\ db' \in M!Outcomes(s, at[s])
      /\ reason' = [reason EXCEPT ![s] = "error"]
      /\ at' = [at EXCEPT ![s] = "finish"]
      /\ UNCHANGED <<view, lock, entry, statement>>
  BY DEF M!Error, M!Active, M!Goto, Holding
<1>2. Good(db') /\ Grows(db, db') /\ (mode = "postgres" => db' \in {db, view[s]})
  BY <1>1, OutcomeFacts
<1>3. at'[s] = "finish" /\ reason'[s] = "error"
  BY <1>1 DEF MigrationInv, MigrationType
<1>4. Others(s)
  BY <1>1, <1>2 DEF Others, MigrationInv, MigrationType
<1>5. LockMoves(s)
  BY <1>1, <1>3 DEF LockMoves, Holding
<1>6. MigrationType'
  BY <1>1, <1>2 DEF MigrationInv, MigrationType, Steps, Holding, Reasons
<1>7. ViewInv(s)'
  BY <1>1, <1>2, GrowsFacts DEF MigrationInv, ViewInv
<1>8. ProgressInv(s)'
  BY <1>3 DEF ProgressInv
<1> QED
  BY <1>4, <1>5, <1>6, <1>7, <1>8, OthersInv

LEMMA SessionEndsInv ==
  ASSUME MigrationInv, NEW s \in Servers, UNCHANGED mode, M!SessionEnds(s)
  PROVE  MigrationInv' /\ Others(s)
<1>1. PICK step \in DOMAIN M!Dead : at[s] = M!Dead[step] /\ db' \in M!Outcomes(s, step)
  BY DEF M!SessionEnds
<1>2. /\ step = "apply" => at[s] = "dead_in_apply"
      /\ step = "record" => at[s] = "dead_in_record"
      /\ step = "finish" => at[s] = "dead_in_finish"
      /\ at[s] \in Holding
  BY <1>1 DEF M!Dead, Holding
<1>3. /\ lock' = IF lock = s THEN NoServer ELSE lock
      /\ reason' = [reason EXCEPT ![s] = "crash"]
      /\ at' = [at EXCEPT ![s] = "failed"]
      /\ UNCHANGED <<view, entry, statement>>
  BY DEF M!SessionEnds, M!Goto
<1>4. Good(db') /\ Grows(db, db')
  BY <1>1, <1>2, OutcomeFacts
<1>5. at'[s] = "failed"
  BY <1>3 DEF MigrationInv, MigrationType
<1>6. Others(s)
  BY <1>2, <1>3, <1>4 DEF Others, MigrationInv, MigrationType
<1>7. LockMoves(s)
  BY <1>3, <1>5 DEF LockMoves, Holding
<1>8. MigrationType'
  BY <1>3, <1>4 DEF MigrationInv, MigrationType, Steps, Reasons
<1>9. ViewInv(s)'
  BY <1>5 DEF ViewInv, Holding
<1>10. ProgressInv(s)'
  BY <1>5 DEF ProgressInv
<1> QED
  BY <1>6, <1>7, <1>8, <1>9, <1>10, OthersInv

LEMMA MigrationNext ==
  ASSUME MigrationInv, [M!Next]_migrationVars
  PROVE  MigrationInv' /\ Grows(db, db')
<1>1. ASSUME M!Next PROVE MigrationInv' /\ Grows(db, db')
  <2>1. PICK s \in Servers : M!Step(s) \/ M!Fault(s)
    BY <1>1 DEF M!Next
  <2>2. UNCHANGED mode
    BY <1>1 DEF M!Next
  <2>3. MigrationInv' /\ Others(s)
    BY <2>1, <2>2, BeginInv, AcquireInv, CreateVersionsInv, CheckInv, ExecuteInv, RecordInv,
       FinishInv, SessionEndsInv, RestartInv, LockTimesOutInv, ErrorInv,
       SerializationFailureInv, CrashInv DEF M!Step, M!Fault
  <2>4. QED
    BY <2>3 DEF Others
<1>2. ASSUME UNCHANGED migrationVars PROVE MigrationInv' /\ Grows(db, db')
  BY <1>2, GrowsFacts DEF migrationVars, MigrationInv, MigrationType, LockInv, ViewInv, ProgressInv,
              M!Schema, M!Statements
<1>3. QED
  BY <1>1, <1>2

------------------------------------------------------------------------------
\* The theorems.

\* Whatever the servers that run Apply on a database do, fail at or die of: a
\* recorded version has been applied, the lock excludes where there is one, a
\* transaction commits nothing that takes back what others committed, and every
\* server is as far in its files as the schema it sees.
THEOREM MigrationInvariance == MCSpec => []MigrationInv
<1>1. MCInit => MigrationInv
  BY MigrationInit DEF MCInit
<1>2. MigrationInv /\ [MCNext]_all => MigrationInv'
  BY MigrationNext DEF MCNext, all
<1>3. QED
  BY <1>1, <1>2, PTL DEF MCSpec

\* The schema that a server found complete when its Apply returned stays complete
\* whatever servers of the older and of the newer release do to it, and no version
\* row is there without the effect of its file.
THEOREM ServedSchemaStaysAlways == MCSpec => []ServedSchemaStays
<1>1. MigrationInv => ServedSchemaStays
  <2>1. SUFFICES ASSUME MigrationInv PROVE M!ServedSchemaStays
    BY DEF ServedSchemaStays
  <2>2. \A s \in Servers : [t \in Servers |-> IF t \in OldServers THEN 1 ELSE 2][s] = Release(s)
    BY DEF Release
  <2>3. \A s \in Servers : at[s] = "done" => \A v \in 1 .. Release(s) : M!Applied(v, db)
    BY <2>1 DEF MigrationInv, ProgressInv
  <2>4. \A v \in db.recorded : M!Applied(v, db)
    BY <2>1 DEF MigrationInv, MigrationType, Good
  <2>5. QED
    BY <2>2, <2>3, <2>4 DEF M!ServedSchemaStays
<1>2. QED
  BY <1>1, MigrationInvariance, PTL

\* No server is kept from starting by what another server or an earlier try of its
\* own left behind: no statement of a file is refused, and no version row that Apply
\* inserts is there already.
THEOREM NoHomemadeFailureAlways == MCSpec => []NoHomemadeFailure
<1>1. MigrationInv => NoHomemadeFailure
  BY DEF MigrationInv, MigrationType, Reasons, NoHomemadeFailure, M!NoHomemadeFailure
<1>2. QED
  BY <1>1, MigrationInvariance, PTL

\* No step of any server undoes what a migration has done, not even the rollback of a
\* transaction, a crash in the middle of a file or the older release's Apply: a table,
\* an index, a raised limit and a version row stay once they are committed.
THEOREM NothingUndone == MCSpec => [][Grows(db, db')]_all
<1>1. MigrationInv /\ [MCNext]_all => [Grows(db, db')]_all
  BY MigrationNext DEF MCNext, all
<1>2. QED
  BY <1>1, MigrationInvariance, PTL DEF MCSpec
==============================================================================
