------------------------- MODULE RepositoryContract --------------------------
(***************************************************************************)
(* What a store.Repository promises its callers: every operation acts on   *)
(* one table in one step somewhere between its call and its answer, except *)
(* that Create looks at the table twice when the key is taken, that        *)
(* DeleteExpired may choose its records first and delete those that are    *)
(* left of them later, and that an error may hide an effect. SqlRepository *)
(* implements it statement by statement.                                   *)
(***************************************************************************)
EXTENDS EnvelopeStore

CONSTANT Callers    \* one call of the interface each

VARIABLES
    table,      \* [Keys -> records \cup {NoRecord}]
    state,      \* "idle", "pending", "taken" (Create met a record), "picked"
                \* (DeleteExpired chose its records) or "done"
    call,       \* the call's arguments
    picked,     \* the keys and records a DeleteExpired is about to delete
    answer      \* what it returned

vars == <<table, state, call, picked, answer>>

NoAnswer == [code |-> "none", rec |-> NoRecord, count |-> 0]

Init ==
    /\ table = [k \in Keys |-> NoRecord]
    /\ state = [r \in Callers |-> "idle"]
    /\ call = [r \in Callers |-> [op |-> "none"]]
    /\ picked = [r \in Callers |-> {}]
    /\ answer = [r \in Callers |-> NoAnswer]

Return(r, code, rec, count) ==
    /\ state' = [state EXCEPT ![r] = "done"]
    /\ picked' = [picked EXCEPT ![r] = {}]
    /\ answer' = [answer EXCEPT ![r] = [code |-> code, rec |-> rec, count |-> count]]

Pending(r, op) == state[r] = "pending" /\ call[r].op = op

Lost(r) == Return(r, "error", NoRecord, 0)

------------------------------------------------------------------------------
\* A call that its arguments rule out is answered at once.
Invoke(r, c, valid) ==
    /\ state[r] = "idle"
    /\ call' = [call EXCEPT ![r] = c]
    /\ IF valid THEN state' = [state EXCEPT ![r] = "pending"] /\ UNCHANGED <<picked, answer>>
                ELSE Return(r, "invalid", NoRecord, 0)
    /\ UNCHANGED table

Create(r) ==
    LET new == [content |-> call[r].content, expiresAt |-> call[r].expiresAt, by |-> r]
    IN  /\ Pending(r, "create")
        /\ IF table[call[r].key] = NoRecord
           THEN /\ table' = Insert(table, call[r].key, new)
                /\ Return(r, "created", new, 0) \/ Lost(r)
           ELSE /\ state' = [state EXCEPT ![r] = "taken"]
                /\ UNCHANGED <<table, picked, answer>>
        /\ UNCHANGED call

\* The same request is answered with the record that is there, another one is a
\* conflict, and so is one whose rival went away in between.
Replay(r) ==
    LET there == table[call[r].key]
    IN  /\ state[r] = "taken"
        /\ IF there /= NoRecord /\ there.content.hash = call[r].content.hash
           THEN Return(r, "replayed", there, 0)
           ELSE Return(r, "conflict", NoRecord, 0)
        /\ UNCHANGED <<table, call>>

Get(r) ==
    LET there == Visible(table, call[r].key, call[r].now)
    IN  /\ Pending(r, "get")
        /\ Return(r, IF there = NoRecord THEN "not_found" ELSE "record", there, 0)
        /\ UNCHANGED <<table, call>>

Consume(r) ==
    LET there == Visible(table, call[r].key, call[r].now)
    IN  /\ Pending(r, "consume")
        /\ IF there = NoRecord
           THEN Return(r, "not_found", NoRecord, 0) /\ UNCHANGED table
           ELSE /\ table' = Delete(table, {call[r].key})
                /\ Return(r, "record", there, 0) \/ Lost(r)
        /\ UNCHANGED call

DeleteExpired(r) ==
    /\ Pending(r, "sweep")
    /\ \E S \in ExpiredBatches(table, call[r].now, call[r].batch) :
        /\ table' = Delete(table, S)
        /\ Return(r, "deleted", NoRecord, Cardinality(S)) \/ Lost(r)
    /\ UNCHANGED call

Pick(r) ==
    /\ Pending(r, "sweep")
    /\ \E S \in ExpiredBatches(table, call[r].now, call[r].batch) :
        picked' = [picked EXCEPT ![r] = {<<k, table[k]>> : k \in S}]
    /\ state' = [state EXCEPT ![r] = "picked"]
    /\ UNCHANGED <<table, call, answer>>

\* No record is stored twice (by tells them apart): what is deleted was picked, and
\* the count is of what is deleted, not of what was picked.
DeletePicked(r) ==
    LET S == {k \in Keys : <<k, table[k]>> \in picked[r]}
    IN  /\ state[r] = "picked"
        /\ table' = Delete(table, S)
        /\ Return(r, "deleted", NoRecord, Cardinality(S)) \/ Lost(r)
        /\ UNCHANGED call

\* An error that left the table alone.
Fail(r) ==
    /\ state[r] \in {"pending", "taken", "picked"}
    /\ Lost(r)
    /\ UNCHANGED <<table, call>>

Step(r) ==
    \/ Create(r) \/ Replay(r) \/ Get(r) \/ Consume(r)
    \/ DeleteExpired(r) \/ Pick(r) \/ DeletePicked(r)
    \/ Fail(r)

\* The arguments are the caller's; a step may not invent others.
Next ==
    \E r \in Callers :
        \/ state[r] = "idle" /\ \E valid \in BOOLEAN : Invoke(r, call'[r], valid)
        \/ Step(r)

Spec == Init /\ [][Next]_vars
==============================================================================
