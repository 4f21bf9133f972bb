---------------------------- MODULE CleanupCommand ----------------------------
(***************************************************************************)
(* The "securl cleanup" command (Application.cleanupExpired) on a SQL      *)
(* table that the workers of running servers clean up, and their requests  *)
(* read and write, at the same time.                                       *)
(*                                                                         *)
(* Time is what it has done to the rows: a row has expired or not, and a   *)
(* cleaner's "now" is the set of rows that had expired when it read the    *)
(* clock. A row is what one create inserts; creates of one key, at once or *)
(* one after the other, are rows of their own. A row that has gone stands  *)
(* for a new one as soon as a create needs one, expired for nobody yet.    *)
(*                                                                         *)
(* MariaDB's DELETE ... ORDER BY ... LIMIT counts the rows it deletes.     *)
(* PostgreSQL's statement selects its batch in a CTE and deletes what is   *)
(* left of it when it gets to the rows (READ COMMITTED): a row another     *)
(* transaction deletes in between is skipped and not replaced.             *)
(***************************************************************************)
EXTENDS Integers, FiniteSets

CONSTANTS
    Rows,           \* the rows in the table or on their way into it
    Cleaners,       \* the workers of the running servers
    Command,        \* the cleanup command
    Backend,        \* "postgres" or "mariadb"
    CleanupBatch,
    TotalRange      \* the command counts modulo this (an int64)

All == Cleaners \cup {Command}

VARIABLES
    table,      \* rows in the table
    creating,   \* rows a create has checked and not yet inserted
    expired,    \* rows whose time of expiry has passed
    due,        \* per cleaner: rows that had expired at its "now"
    pc,         \* per cleaner: "idle", "select", "delete", "done"
    batch,      \* PostgreSQL: the rows a statement has selected
    total,      \* the command's count
    err,        \* the command stopped on an error
    initial,    \* history: rows there and expired when the command started
    mine        \* history: rows the command deleted

vars == <<table, creating, expired, due, pc, batch, total, err, initial, mine>>

Init ==
    /\ table \in SUBSET Rows
    /\ creating = {}
    /\ expired \in SUBSET table
    /\ due = [c \in All |-> {}]
    /\ pc = [c \in All |-> "idle"]
    /\ batch = [c \in All |-> {}]
    /\ total = 0
    /\ err = FALSE
    /\ initial = {}
    /\ mine = {}

------------------------------------------------------------------------------
\* DeleteExpired.

\* Up to CleanupBatch rows of E, all of them when there are no more. Which ones
\* ORDER BY expires_at puts first is left open.
Limited(E) ==
    {S \in SUBSET E :
        Cardinality(S) = IF Cardinality(E) <= CleanupBatch THEN Cardinality(E)
                         ELSE CleanupBatch}

\* Mutated form: every statement reads the clock again.
Batches_Rereads(c) == Limited(table \cap expired)

\* The rows a statement of the cleaner may pick.
Batches(c) == Limited(table \cap due[c])

\* Mutated form: the loop stops at the first full batch.
AfterBatch_StopsWhenFull(c, deleted) ==
    IF c = Command
    THEN /\ total' = (total + deleted) % TotalRange
         /\ pc' = [pc EXCEPT ![c] = IF deleted <= CleanupBatch THEN "done" ELSE "select"]
    ELSE pc' = [pc EXCEPT ![c] = "idle"] /\ UNCHANGED total

\* What a cleaner does with the number of rows it deleted: a worker waits for its
\* next tick, the command goes on while its batches are full.
AfterBatch(c, deleted) ==
    IF c = Command
    THEN /\ total' = (total + deleted) % TotalRange
         /\ pc' = [pc EXCEPT ![c] = IF deleted < CleanupBatch THEN "done" ELSE "select"]
    ELSE pc' = [pc EXCEPT ![c] = "idle"] /\ UNCHANGED total

\* Removes rows from the table, and remembers which the command removed.
Remove(c, S) ==
    /\ table' = table \ S
    /\ mine' = IF c = Command THEN mine \cup (S \cap table) ELSE mine

\* A tick of a worker, or the start of the command: the time is read once.
Begin(c) ==
    /\ pc[c] = "idle"
    /\ due' = [due EXCEPT ![c] = expired]
    /\ pc' = [pc EXCEPT ![c] = "select"]
    /\ initial' = IF c = Command THEN table \cap expired ELSE initial
    /\ UNCHANGED <<table, creating, expired, batch, total, err, mine>>

\* MariaDB: one statement.
DeleteExpired(c) ==
    /\ Backend = "mariadb"
    /\ pc[c] = "select"
    /\ \E S \in Batches(c) : Remove(c, S) /\ AfterBatch(c, Cardinality(S))
    /\ UNCHANGED <<creating, expired, due, batch, err, initial>>

\* PostgreSQL: the CTE's snapshot, then the deletion.
SelectExpired(c) ==
    /\ Backend = "postgres"
    /\ pc[c] = "select"
    /\ batch' \in {[batch EXCEPT ![c] = S] : S \in Batches(c)}
    /\ pc' = [pc EXCEPT ![c] = "delete"]
    /\ UNCHANGED <<table, creating, expired, due, total, err, initial, mine>>

\* Mutated form: the selected rows are counted, not the deleted ones.
DeleteSelected_CountsSelected(c) ==
    /\ pc[c] = "delete"
    /\ Remove(c, batch[c])
    /\ batch' = [batch EXCEPT ![c] = {}]
    /\ AfterBatch(c, Cardinality(batch[c]))
    /\ UNCHANGED <<creating, expired, due, err, initial>>

DeleteSelected(c) ==
    /\ pc[c] = "delete"
    /\ Remove(c, batch[c])
    /\ batch' = [batch EXCEPT ![c] = {}]
    /\ AfterBatch(c, Cardinality(batch[c] \cap table))
    /\ UNCHANGED <<creating, expired, due, err, initial>>

\* The statement fails (connection, cancellation, deadlock victim), or it is applied
\* and its answer is lost: the command stops with the error and without counting the
\* rows, a worker waits for its next tick.
Fail(c) ==
    /\ pc[c] \in {"select", "delete"}
    /\ \/ UNCHANGED <<table, mine>>
       \/ Backend = "mariadb" /\ \E S \in Batches(c) : Remove(c, S)
       \/ pc[c] = "delete" /\ Remove(c, batch[c])
    /\ pc' = [pc EXCEPT ![c] = IF c = Command THEN "done" ELSE "idle"]
    /\ batch' = [batch EXCEPT ![c] = {}]
    /\ err' = (err \/ c = Command)
    /\ UNCHANGED <<creating, expired, due, total, initial>>

------------------------------------------------------------------------------
\* The servers' requests, and time.

\* createEnvelope reads the clock and counts the time to live from there. The row is
\* a new one: what statements and histories know of it is about an older one.
CheckCreate(row) ==
    /\ row \notin table \cup creating
    /\ creating' = creating \cup {row}
    /\ expired' = expired \ {row}
    /\ due' = [c \in All |-> due[c] \ {row}]
    /\ batch' = [c \in All |-> batch[c] \ {row}]
    /\ initial' = initial \ {row}
    /\ UNCHANGED <<table, pc, total, err, mine>>

\* The INSERT, after a lookup and a CAPTCHA verification: the row may have expired.
InsertCreated(row) ==
    /\ row \in creating
    /\ creating' = creating \ {row}
    /\ table' = table \cup {row}
    /\ UNCHANGED <<expired, due, pc, batch, total, err, initial, mine>>

\* The lookup, the verification or the INSERT fails.
AbandonCreate(row) ==
    /\ row \in creating
    /\ creating' = creating \ {row}
    /\ UNCHANGED <<table, expired, due, pc, batch, total, err, initial, mine>>

\* A burn access. Its clock was read before the row expired, however long ago.
Consume(row) ==
    /\ row \in table
    /\ table' = table \ {row}
    /\ UNCHANGED <<creating, expired, due, pc, batch, total, err, initial, mine>>

Expire(row) ==
    /\ row \in (table \cup creating) \ expired
    /\ expired' = expired \cup {row}
    /\ UNCHANGED <<table, creating, due, pc, batch, total, err, initial, mine>>

Statement(c) == DeleteExpired(c) \/ SelectExpired(c) \/ DeleteSelected(c)

Next ==
    \/ \E c \in All : Begin(c) \/ Statement(c) \/ Fail(c)
    \/ \E row \in Rows :
        \/ CheckCreate(row) \/ InsertCreated(row) \/ AbandonCreate(row)
        \/ Consume(row) \/ Expire(row)

Spec == Init /\ [][Next]_vars

\* The database answers the command's statements.
Fairness == WF_vars(Statement(Command))

------------------------------------------------------------------------------
\* Properties.

\* "CleanupExpired deletes every envelope expired when the command starts": when
\* the command ends without an error, none of them is left.
InitialSetGone == (pc[Command] = "done" /\ ~err) => initial \cap table = {}

\* The count of a command that ends well is the number of rows it deleted itself,
\* whatever the servers delete, create again or consume between its statements and
\* between the halves of one; after an error it may lack the last batch but never
\* counts a row that somebody else deleted.
CountIsExact ==
    /\ total <= Cardinality(mine)
    /\ ~err => total = Cardinality(mine)

\* The loop ends although the servers go on storing rows and the rows go on expiring:
\* what it looks for was fixed at its start, and only a create that had read the clock
\* before can still add to it.
CommandEnds == pc[Command] = "select" ~> pc[Command] = "done"
==============================================================================
