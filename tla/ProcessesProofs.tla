---------------------------- MODULE ProcessesProofs ----------------------------
(***************************************************************************)
(* Proofs about the launcher and the cleanup command as MCProcesses puts   *)
(* them together, for any shutdown budget and deadline, any rows, batch    *)
(* size and number of running servers.                                     *)
(***************************************************************************)
EXTENDS MCProcesses, FiniteSetTheorems, TLAPS

------------------------------------------------------------------------------
\* The launcher.

LauncherType ==
    /\ launcher \in {"starting", "up", "stopping", "exited", "died"}
    /\ child \in {"none", "boot", "running", "stopping", "ended"}
    /\ exitCode \in {0, 1} /\ requestedExitCode \in {0, 1}
    /\ elapsed \in Nat /\ elapsed <= KillAfter
    /\ spent \in Nat /\ spent <= KillAfter
    /\ pending \subseteq L!Signals

\* The command is there once the launcher is up, and the deadline runs only when the
\* launcher is stopping.
PhaseInv ==
    /\ launcher = "starting" => child = "none"
    /\ launcher \in {"up", "stopping"} => child /= "none"
    /\ child = "none" => pending = {} /\ ending = "none"
    /\ launcher \in {"starting", "up"} => elapsed = 0

\* What the exit code says.
ExitInv ==
    /\ launcher = "stopping" /\ requestedExitCode = 0 => asked
    /\ launcher = "exited" /\ exitCode = 0 => asked
    /\ ending = "forced" => launcher = "exited" /\ exitCode = 1

\* The command's shutdown began no later than the launcher's deadline: a command that
\* has not begun has the launcher's signal waiting, and then no time passes.
BudgetInv ==
    launcher = "stopping" /\ L!ChildAlive =>
        \/ child = "stopping" /\ elapsed <= spent
        \/ elapsed = 0 /\ "SIGTERM" \in pending

\* The launcher sends one signal; the command no longer handles signals only after it
\* has received one.
SignalInv ==
    /\ child \in {"none", "boot"} => ~notified
    /\ child = "running" => notified
    /\ ~direct =>
        /\ pending \subseteq {"SIGTERM"}
        /\ pending /= {} \/ child = "stopping" => launcher \notin {"starting", "up"}
        /\ child = "stopping" => pending = {}

LauncherInv == LauncherType /\ PhaseInv /\ ExitInv /\ BudgetInv /\ SignalInv

LEMMA LauncherInit == L!Init => LauncherInv
BY LauncherAssumption DEF L!Init, L!Signals, L!ChildAlive, LauncherInv, LauncherType, PhaseInv,
   ExitInv, BudgetInv, SignalInv

\* The steps that call shutdown.
LEMMA ShutdownInv ==
  ASSUME LauncherInv, L!Alive, NEW code \in {0, 1}, L!shutdown(code), code = 0 => asked',
         asked => asked',
         UNCHANGED <<child, ending, notified, elapsed, spent, direct>>
  PROVE  LauncherInv'
BY DEF L!shutdown, L!exitProcess, L!Alive, L!Signals, L!ChildAlive, LauncherInv, LauncherType,
   PhaseInv, ExitInv, BudgetInv, SignalInv

LEMMA DiedInv ==
  ASSUME LauncherInv, launcher' = "died", L!Alive, asked => asked',
         UNCHANGED <<exitCode, requestedExitCode, pending, child, ending, notified, elapsed,
                     spent, direct>>
  PROVE  LauncherInv'
BY DEF L!Alive, L!Signals, L!ChildAlive, LauncherInv, LauncherType, PhaseInv, ExitInv,
   BudgetInv, SignalInv

LEMMA LauncherNext == LauncherInv /\ [L!Next]_(L!vars) => LauncherInv'
<1> SUFFICES ASSUME LauncherInv, [L!Next]_(L!vars) PROVE LauncherInv'
  OBVIOUS
<1> USE DEF LauncherInv, LauncherType, PhaseInv, ExitInv, BudgetInv, SignalInv, L!Alive,
            L!ChildAlive, L!Signals
<1>1. CASE L!Start
  <2>1. CASE launcher' = "up" /\ child' = "boot" /\ UNCHANGED <<exitCode, requestedExitCode, pending>>
    BY <1>1, <2>1 DEF L!Start
  <2>2. CASE L!shutdown(1) /\ UNCHANGED child
    BY <1>1, <2>2, ShutdownInv DEF L!Start
  <2>3. QED
    BY <1>1, <2>1, <2>2 DEF L!Start
<1>2. ASSUME NEW s \in L!Signals, L!SignalLauncher(s) PROVE LauncherInv'
  BY <1>2, ShutdownInv, DiedInv DEF L!SignalLauncher, L!Handle
<1>3. ASSUME NEW s \in L!Signals, L!SignalCommand(s) PROVE LauncherInv'
  BY <1>3 DEF L!SignalCommand
<1>4. CASE L!Interrupt
  BY <1>4 DEF L!Interrupt
<1>5. CASE L!Exception
  BY <1>5, ShutdownInv, DiedInv DEF L!Exception, L!Handle
<1>6. CASE L!Die
  BY <1>6, DiedInv DEF L!Die, L!commandVars
<1>7. CASE L!ChildExit
  BY <1>7 DEF L!ChildExit, L!exitProcess, L!commandVars
<1>8. CASE L!KillTimer
  BY <1>8 DEF L!KillTimer, L!exitProcess, L!TimerDue
<1>9. CASE L!Boot
  BY <1>9 DEF L!Boot, L!launcherVars
<1>10. ASSUME NEW s \in L!Signals, L!Receive(s) PROVE LauncherInv'
  <2>1. CASE ~notified
    BY <1>10, <2>1 DEF L!Receive, L!launcherVars
  <2>2. CASE notified /\ child = "running"
    BY <1>10, <2>2, LauncherAssumption DEF L!Receive, L!Cancel, L!launcherVars
  <2>3. CASE notified /\ child = "stopping"
    BY <1>10, <2>3 DEF L!Receive, L!launcherVars
  <2>4. QED
    BY <1>10, <2>1, <2>2, <2>3 DEF L!Receive
<1>11. CASE L!StopNotify
  BY <1>11 DEF L!StopNotify, L!launcherVars
<1>12. CASE L!shutdownOnStdinEOF
  BY <1>12, LauncherAssumption DEF L!shutdownOnStdinEOF, L!Cancel, L!launcherVars
<1>13. CASE L!Return
  BY <1>13 DEF L!Return, L!launcherVars
<1>14. CASE L!Tick
  BY <1>14, LauncherAssumption DEF L!Tick, L!Urgent, L!TimerDue
<1>15. CASE UNCHANGED L!vars
  BY <1>15 DEF L!vars
<1>16. QED
  BY <1>1, <1>2, <1>3, <1>4, <1>5, <1>6, <1>7, <1>8, <1>9, <1>10, <1>11, <1>12, <1>13, <1>14,
     <1>15 DEF L!Next, L!Command, L!Outside

\* The launcher rests while another process runs.
LEMMA LauncherStep == [MCNext]_all => [L!Next]_(L!vars)
BY DEF MCNext, all, launcherVars, L!vars

\* The fairness of MCSpec is not needed below.
LEMMA SafetyPart == MCSpec => MCInit /\ [][MCNext]_all
BY PTL DEF MCSpec

\* The inductive invariant of the launcher (run.js) and the command (main.go) holds
\* whichever process runs.
THEOREM LauncherInvariance == MCSpec => []LauncherInv
<1>1. MCInit => LauncherInv
  BY LauncherInit DEF MCInit
<1>2. LauncherInv /\ [MCNext]_all => LauncherInv'
  BY LauncherStep, LauncherNext
<1>3. QED
  BY <1>1, <1>2, SafetyPart, PTL

\* Exit code 0 of the launcher means that SIGINT or SIGTERM reached it and that the
\* command was not killed, whatever the deadlines and however many signals arrive
\* (run.js, exitProcess and the child's exit handler).
THEOREM ZeroMeansAskedAlways == MCSpec => []ZeroMeansAsked
<1>1. LauncherInv => ZeroMeansAsked
  BY DEF LauncherInv, ExitInv, ZeroMeansAsked, L!ZeroMeansAsked
<1>2. QED
  BY <1>1, LauncherInvariance, PTL

\* What a step of the launcher or the command may do to the command's end.
LEMMA EndingStep ==
  ASSUME LauncherInv, [L!Next]_(L!vars), ending' /= ending
  PROVE  /\ ending' = "signal" => direct \/ child = "boot"
         /\ ending' = "forced" => spent > Budget
<1>1. CASE L!KillTimer
  BY <1>1, LauncherAssumption DEF L!KillTimer, L!TimerDue, L!ChildAlive, LauncherInv,
     LauncherType, BudgetInv
<1>2. ASSUME NEW s \in L!Signals, L!Receive(s)
      PROVE  ending' = "signal" /\ (direct \/ child = "boot")
  BY <1>2 DEF L!Receive, L!ChildAlive, LauncherInv, SignalInv
<1>3. CASE L!Boot \/ L!Return
  BY <1>3 DEF L!Boot, L!Return
<1>4. QED
  BY <1>1, <1>2, <1>3 DEF L!Next, L!Start, L!ChildExit, L!Command, L!StopNotify,
     L!shutdownOnStdinEOF, L!Tick, L!Outside, L!SignalLauncher, L!SignalCommand, L!Interrupt,
     L!Exception, L!Die, L!commandVars, L!vars

\* The launcher's two ways of ending the command, its one signal and its deadline,
\* leave a command that handles signals its whole shutdown budget, for every budget
\* below the deadline.
THEOREM ShutdownNotCutShortAlways == MCSpec => ShutdownNotCutShort
<1>1. LauncherInv /\ [MCNext]_all =>
        [ending' /= ending =>
            /\ ending' = "signal" => direct \/ child = "boot"
            /\ ending' = "forced" => spent > Budget]_(L!vars)
  BY LauncherStep, EndingStep
<1>2. QED
  BY <1>1, LauncherInvariance, SafetyPart, PTL DEF ShutdownNotCutShort, L!ShutdownNotCutShort

------------------------------------------------------------------------------
\* The cleanup command.

\* The instances take Cardinality from FiniteSets as well.
LEMMA SameCardinality ==
  ASSUME NEW S
  PROVE  MariaDB!Cardinality(S) = Cardinality(S) /\ PostgreSQL!Cardinality(S) = Cardinality(S)
BY DEF MariaDB!Cardinality, PostgreSQL!Cardinality, Cardinality

CleanupType ==
    /\ table \subseteq Rows /\ creating \subseteq Rows /\ table \cap creating = {}
    /\ expired \subseteq Rows
    /\ due \in [MariaDB!All -> SUBSET Rows]
    /\ pc \in [MariaDB!All -> {"idle", "select", "delete", "done"}]
    /\ batch \in [MariaDB!All -> SUBSET Rows]
    /\ total \in Nat
    /\ err \in BOOLEAN

\* What the command deletes, and what had expired when it started, is due to it; none
\* of the latter is a row that is yet to be inserted.
InitialInv ==
    /\ initial \subseteq due["command"] /\ initial \cap creating = {}
    /\ batch["command"] \subseteq due["command"]
    /\ pc["command"] = "idle" => batch["command"] = {}

\* A row the command deleted is not due to it again: it may be back, but for a new
\* one. Until an error stops the command its count is exact.
MineInv ==
    /\ mine \subseteq Rows
    /\ mine \cap due["command"] \cap (table \cup creating) = {}
    /\ total <= Cardinality(mine)
    /\ ~err => total = Cardinality(mine)
    /\ err => pc["command"] = "done"
    /\ pc["command"] = "idle" => mine = {}

CleanupInv == CleanupType /\ InitialInv /\ MineInv

\* Of MariaDB: a short batch was all there was.
GoneInv ==
    /\ pc["command"] /= "delete"
    /\ pc["command"] = "done" /\ ~err => initial \cap table = {}

LEMMA CleanupInit == MCInit => CleanupInv /\ GoneInv
<1> SUFFICES ASSUME MariaDB!Init PROVE CleanupInv /\ GoneInv
  BY DEF MCInit
<1> USE DEF MariaDB!Init
<1>1. CleanupType
  BY DEF CleanupType
<1>2. InitialInv
  BY DEF InitialInv, MariaDB!All
<1>3. MineInv
  BY FS_EmptySet DEF MineInv
<1>4. GoneInv
  BY DEF GoneInv, MariaDB!All
<1>5. QED
  BY <1>1, <1>2, <1>3, <1>4 DEF CleanupInv

\* Rows that are due to the command, added to those it has deleted.
LEMMA CountGrows ==
  ASSUME CleanupInv, NEW S \in SUBSET (table \cap due["command"])
  PROVE  /\ Cardinality(S) \in Nat
         /\ Cardinality(mine \cup S) = Cardinality(mine) + Cardinality(S)
         /\ Cardinality(mine) \in Nat
         /\ Cardinality(mine \cup S) < TotalRange
<1>1. IsFiniteSet(mine) /\ IsFiniteSet(S) /\ mine \cap S = {} /\ mine \cup S \subseteq Rows
  BY RowsAssumption, FS_Subset DEF CleanupInv, CleanupType, MineInv
<1>2. Cardinality(mine \cup S) = Cardinality(mine) + Cardinality(S) - Cardinality({})
  BY <1>1, FS_Union
<1>3. Cardinality(mine \cup S) <= Cardinality(Rows) /\ Cardinality(Rows) \in Nat
  BY <1>1, RowsAssumption, FS_Subset, FS_CardinalityType
<1>4. QED
  BY <1>1, <1>2, <1>3, CleanupAssumption, FS_EmptySet, FS_CardinalityType

LEMMA ShortBatch ==
  ASSUME CleanupInv, NEW c \in MariaDB!All, NEW S \in MariaDB!Batches(c),
         Cardinality(S) < CleanupBatch
  PROVE  S = table \cap due[c]
<1> DEFINE E == table \cap due[c]
<1>1. IsFiniteSet(E) /\ S \subseteq E
  BY RowsAssumption, FS_Subset DEF CleanupInv, CleanupType, MariaDB!Batches, MariaDB!Limited
<1>2. Cardinality(S) = Cardinality(E)
  BY <1>1, CleanupAssumption, FS_CardinalityType, SameCardinality
     DEF MariaDB!Batches, MariaDB!Limited
<1> HIDE DEF E
<1>3. S = E
  BY <1>1, <1>2, FS_Subset
<1>4. QED
  BY <1>3 DEF E

\* A statement that deletes rows of the table for a cleaner, and is answered or not.
LEMMA DeletionInv ==
  ASSUME CleanupInv, NEW c \in MariaDB!All, NEW S \in SUBSET table,
         c = "command" => S \subseteq due["command"],
         pc[c] \in {"select", "delete"},
         table' = table \ S,
         mine' = IF c = "command" THEN mine \cup S ELSE mine,
         NEW where \in {"idle", "select", "done"}, pc' = [pc EXCEPT ![c] = where],
         c = "command" => where /= "idle",
         \/ /\ UNCHANGED err
            /\ total' = IF c = "command" THEN (total + Cardinality(S)) % TotalRange ELSE total
         \/ UNCHANGED total /\ err' = (err \/ c = "command") /\ (c = "command" => where = "done"),
         batch' = [batch EXCEPT ![c] = {}] \/ UNCHANGED batch,
         UNCHANGED <<creating, expired, due, initial>>
  PROVE  CleanupInv'
<1>1. InitialInv'
  BY DEF CleanupInv, CleanupType, InitialInv, MariaDB!All
<1>2. CASE c /= "command"
  <2>1. CleanupType'
    BY <1>2 DEF CleanupInv, CleanupType
  <2>2. MineInv'
    BY <1>2 DEF CleanupInv, CleanupType, MineInv, MariaDB!All
  <2>3. QED
    BY <1>1, <2>1, <2>2 DEF CleanupInv
<1>3. CASE c = "command"
  <2>1. /\ Cardinality(mine') = Cardinality(mine) + Cardinality(S)
        /\ Cardinality(S) \in Nat /\ Cardinality(mine) \in Nat
        /\ Cardinality(mine') < TotalRange
    BY <1>3, CountGrows
  <2>2. ~err /\ total = Cardinality(mine)
    BY <1>3 DEF CleanupInv, MineInv
  <2>3. \/ UNCHANGED err /\ total' = Cardinality(mine')
        \/ err' /\ UNCHANGED total
    <3>1. Cardinality(mine') % TotalRange = Cardinality(mine')
      BY <2>1, CleanupAssumption
    <3>2. QED
      BY <1>3, <2>1, <2>2, <3>1
  <2>4. CleanupType'
    <3>1. total' \in Nat
      BY <2>1, <2>2, <2>3
    <3>2. err' \in BOOLEAN
      BY Zenon DEF CleanupInv, CleanupType
    <3>3. QED
      BY <1>3, <3>1, <3>2 DEF CleanupInv, CleanupType
  <2>5. /\ mine' \subseteq Rows
        /\ mine' \cap due'["command"] \cap (table' \cup creating') = {}
    BY <1>3 DEF CleanupInv, CleanupType, MineInv
  <2>6. total' <= Cardinality(mine') /\ (~err' => total' = Cardinality(mine'))
    BY <2>1, <2>2, <2>3
  <2>7. pc'["command"] = where
    BY <1>3 DEF CleanupInv, CleanupType
  <2>8. MineInv'
    BY <1>3, <2>2, <2>5, <2>6, <2>7 DEF MineInv
  <2>9. QED
    BY <1>1, <2>4, <2>8 DEF CleanupInv
<1>4. QED
  BY <1>2, <1>3

\* The steps that delete nothing.
LEMMA BeginInv ==
  ASSUME CleanupInv, NEW c \in MariaDB!All, MariaDB!Begin(c)
  PROVE  CleanupInv'
<1>1. CleanupType'
  BY DEF CleanupInv, CleanupType, MariaDB!Begin
<1>2. InitialInv'
  BY DEF CleanupInv, CleanupType, InitialInv, MariaDB!Begin, MariaDB!All
<1>3. MineInv'
  BY DEF CleanupInv, CleanupType, MineInv, MariaDB!Begin, MariaDB!All
<1>4. QED
  BY <1>1, <1>2, <1>3 DEF CleanupInv

\* The rows of the batch a failing statement may have deleted.
LEMMA FailedStatement ==
  ASSUME CleanupInv, NEW c \in MariaDB!All, MariaDB!Fail(c) \/ PostgreSQL!Fail(c)
  PROVE  \E S \in SUBSET table :
            /\ c = "command" => S \subseteq due["command"]
            /\ table' = table \ S
            /\ mine' = IF c = "command" THEN mine \cup S ELSE mine
<1>1. CASE UNCHANGED <<table, mine>>
  <2>1. {} \in SUBSET table
    OBVIOUS
  <2>2. QED
    BY <1>1, <2>1
<1>2. CASE MariaDB!Remove(c, batch[c]) \/ PostgreSQL!Remove(c, batch[c])
  <2>1. batch[c] \cap table \in SUBSET table
    OBVIOUS
  <2>2. c = "command" => batch[c] \cap table \subseteq due["command"]
    BY DEF CleanupInv, InitialInv
  <2>3. /\ table' = table \ (batch[c] \cap table)
        /\ mine' = IF c = "command" THEN mine \cup (batch[c] \cap table) ELSE mine
    BY <1>2 DEF MariaDB!Remove, PostgreSQL!Remove
  <2>4. QED
    BY <2>1, <2>2, <2>3
<1>3. CASE \E S \in MariaDB!Batches(c) : MariaDB!Remove(c, S)
  <2>1. PICK S \in MariaDB!Batches(c) : MariaDB!Remove(c, S)
    BY <1>3
  <2>2. S \in SUBSET table /\ S \subseteq due[c] /\ S \cap table = S
    BY <2>1 DEF MariaDB!Batches, MariaDB!Limited
  <2>3. QED
    BY <2>1, <2>2 DEF MariaDB!Remove
<1>4. QED
  BY <1>1, <1>2, <1>3 DEF MariaDB!Fail, PostgreSQL!Fail

LEMMA FailInv ==
  ASSUME CleanupInv, NEW c \in MariaDB!All, MariaDB!Fail(c) \/ PostgreSQL!Fail(c)
  PROVE  CleanupInv'
<1> DEFINE where == IF c = "command" THEN "done" ELSE "idle"
<1>1. PICK S \in SUBSET table :
        /\ c = "command" => S \subseteq due["command"]
        /\ table' = table \ S
        /\ mine' = IF c = "command" THEN mine \cup S ELSE mine
  BY FailedStatement
<1>2. /\ pc[c] \in {"select", "delete"}
      /\ pc' = [pc EXCEPT ![c] = where]
      /\ batch' = [batch EXCEPT ![c] = {}]
      /\ err' = (err \/ c = "command")
      /\ UNCHANGED <<creating, expired, due, total, initial>>
  BY DEF MariaDB!Fail, PostgreSQL!Fail
<1>3. where \in {"idle", "select", "done"} /\ (c = "command" => where = "done")
  OBVIOUS
<1> HIDE DEF where
<1>4. QED
  BY <1>1, <1>2, <1>3, DeletionInv

LEMMA ServersInv ==
  ASSUME CleanupInv, NEW row \in Rows,
         \/ MariaDB!CheckCreate(row) \/ MariaDB!InsertCreated(row) \/ MariaDB!AbandonCreate(row)
         \/ MariaDB!Consume(row) \/ MariaDB!Expire(row)
  PROVE  CleanupInv'
<1> USE DEF CleanupInv, CleanupType, InitialInv, MineInv
<1>1. CASE MariaDB!CheckCreate(row)
  BY <1>1 DEF MariaDB!CheckCreate, MariaDB!All
<1>2. CASE MariaDB!InsertCreated(row)
  BY <1>2 DEF MariaDB!InsertCreated
<1>3. CASE MariaDB!AbandonCreate(row)
  BY <1>3 DEF MariaDB!AbandonCreate
<1>4. CASE MariaDB!Consume(row)
  BY <1>4 DEF MariaDB!Consume
<1>5. CASE MariaDB!Expire(row)
  BY <1>5 DEF MariaDB!Expire
<1>6. QED
  BY <1>1, <1>2, <1>3, <1>4, <1>5

\* The statements.
LEMMA DeleteExpiredInv ==
  ASSUME CleanupInv, NEW c \in MariaDB!All, MariaDB!DeleteExpired(c)
  PROVE  CleanupInv'
<1>1. PICK S \in MariaDB!Batches(c) : MariaDB!Remove(c, S) /\ MariaDB!AfterBatch(c, Cardinality(S))
  BY SameCardinality DEF MariaDB!DeleteExpired
<1>2. S \subseteq table /\ S \subseteq due[c] /\ pc[c] = "select" /\ S \cap table = S
  BY DEF MariaDB!DeleteExpired, MariaDB!Batches, MariaDB!Limited
<1>3. QED
  BY <1>1, <1>2, DeletionInv DEF MariaDB!DeleteExpired, MariaDB!Remove, MariaDB!AfterBatch

LEMMA SelectExpiredInv ==
  ASSUME CleanupInv, NEW c \in MariaDB!All, PostgreSQL!SelectExpired(c)
  PROVE  CleanupInv'
<1>1. PICK S \in PostgreSQL!Batches(c) : batch' = [batch EXCEPT ![c] = S]
  BY DEF PostgreSQL!SelectExpired
<1>2. S \subseteq table /\ S \subseteq due[c] /\ pc[c] = "select"
  BY DEF PostgreSQL!SelectExpired, PostgreSQL!Batches, PostgreSQL!Limited
<1>3. CleanupType'
  BY <1>1, <1>2 DEF PostgreSQL!SelectExpired, CleanupInv, CleanupType
<1>4. InitialInv' /\ MineInv'
  BY <1>1, <1>2 DEF PostgreSQL!SelectExpired, CleanupInv, CleanupType, InitialInv, MineInv,
     MariaDB!All
<1>5. QED
  BY <1>3, <1>4 DEF CleanupInv

LEMMA DeleteSelectedInv ==
  ASSUME CleanupInv, NEW c \in MariaDB!All, PostgreSQL!DeleteSelected(c)
  PROVE  CleanupInv'
<1> DEFINE S == batch[c] \cap table
<1>1. S \in SUBSET table /\ (c = "command" => S \subseteq due["command"]) /\ pc[c] = "delete"
  BY DEF PostgreSQL!DeleteSelected, CleanupInv, InitialInv
<1>2. table' = table \ S /\ mine' = IF c = "command" THEN mine \cup S ELSE mine
  BY DEF PostgreSQL!DeleteSelected, PostgreSQL!Remove
<1>3. PostgreSQL!AfterBatch(c, Cardinality(S))
  BY SameCardinality DEF PostgreSQL!DeleteSelected
<1> HIDE DEF S
<1>4. QED
  BY <1>1, <1>2, <1>3, DeletionInv DEF PostgreSQL!DeleteSelected, PostgreSQL!AfterBatch

\* The two backends differ in their statements only.
LEMMA SameSteps ==
  /\ PostgreSQL!All = MariaDB!All
  /\ \A c : PostgreSQL!Begin(c) <=> MariaDB!Begin(c)
  /\ \A c : PostgreSQL!DeleteSelected(c) <=> MariaDB!DeleteSelected(c)
  /\ \A row : PostgreSQL!CheckCreate(row) <=> MariaDB!CheckCreate(row)
  /\ \A row : PostgreSQL!InsertCreated(row) <=> MariaDB!InsertCreated(row)
  /\ \A row : PostgreSQL!AbandonCreate(row) <=> MariaDB!AbandonCreate(row)
  /\ \A row : PostgreSQL!Consume(row) <=> MariaDB!Consume(row)
  /\ \A row : PostgreSQL!Expire(row) <=> MariaDB!Expire(row)
<1>1. PostgreSQL!All = MariaDB!All
  BY DEF PostgreSQL!All, MariaDB!All
<1>2. \A c : PostgreSQL!Begin(c) <=> MariaDB!Begin(c)
  BY DEF PostgreSQL!Begin, MariaDB!Begin
<1>3. \A c : PostgreSQL!DeleteSelected(c) <=> MariaDB!DeleteSelected(c)
  BY SameCardinality DEF PostgreSQL!DeleteSelected, MariaDB!DeleteSelected, PostgreSQL!Remove,
     MariaDB!Remove, PostgreSQL!AfterBatch, MariaDB!AfterBatch
<1>4. \A row : PostgreSQL!CheckCreate(row) <=> MariaDB!CheckCreate(row)
  BY DEF PostgreSQL!CheckCreate, MariaDB!CheckCreate, PostgreSQL!All, MariaDB!All
<1>5. /\ \A row : PostgreSQL!InsertCreated(row) <=> MariaDB!InsertCreated(row)
      /\ \A row : PostgreSQL!AbandonCreate(row) <=> MariaDB!AbandonCreate(row)
      /\ \A row : PostgreSQL!Consume(row) <=> MariaDB!Consume(row)
      /\ \A row : PostgreSQL!Expire(row) <=> MariaDB!Expire(row)
  BY DEF PostgreSQL!InsertCreated, MariaDB!InsertCreated, PostgreSQL!AbandonCreate,
     MariaDB!AbandonCreate, PostgreSQL!Consume, MariaDB!Consume, PostgreSQL!Expire, MariaDB!Expire
<1>6. QED
  BY <1>1, <1>2, <1>3, <1>4, <1>5

LEMMA CleanupNext == CleanupInv /\ [MCNext]_all => CleanupInv'
<1> SUFFICES ASSUME CleanupInv, [MCNext]_all PROVE CleanupInv'
  OBVIOUS
<1>1. CASE UNCHANGED cleanupVars
  BY <1>1 DEF cleanupVars, CleanupInv, CleanupType, InitialInv, MineInv
<1>2. CASE MariaDB!Next
  BY <1>2, BeginInv, FailInv, ServersInv, DeleteExpiredInv, DeleteSelectedInv, SameSteps
     DEF MariaDB!Next, MariaDB!Statement, MariaDB!SelectExpired
<1>3. CASE PostgreSQL!Next
  BY <1>3, BeginInv, FailInv, ServersInv, SelectExpiredInv, DeleteSelectedInv, SameSteps
     DEF PostgreSQL!Next, PostgreSQL!Statement, PostgreSQL!DeleteExpired
<1>4. QED
  BY <1>1, <1>2, <1>3 DEF MCNext, all

\* The inductive invariant of the cleanup command (Application.cleanupExpired) holds
\* on both databases.
THEOREM CleanupInvariance == MCSpec => []CleanupInv
<1>1. MCInit => CleanupInv
  BY CleanupInit
<1>2. QED
  BY <1>1, CleanupNext, SafetyPart, PTL

\* The count "securl cleanup" reports when it ends well is the number of rows it
\* deleted itself, and after an error never more than that: on either database, for
\* every batch size, and whatever workers and requests delete and store again between
\* its statements and inside them (Application.cleanupExpired).
THEOREM CountIsExactAlways == MCSpec => []CountIsExact
<1>1. CleanupInv => CountIsExact
  BY SameCardinality DEF CleanupInv, MineInv, CountIsExact, MariaDB!CountIsExact
<1>2. QED
  BY <1>1, CleanupInvariance, PTL

\* The loop of the command ends on MariaDB with a batch that was all there was.
LEMMA GoneNext ==
  ASSUME CleanupInv, GoneInv, MariaDB!Next
  PROVE  GoneInv'
<1> USE DEF GoneInv, CleanupInv, CleanupType, MariaDB!All
<1>1. ASSUME NEW c \in MariaDB!All, MariaDB!Begin(c) PROVE GoneInv'
  BY <1>1 DEF MariaDB!Begin
<1>2. ASSUME NEW c \in MariaDB!All, MariaDB!DeleteExpired(c) PROVE GoneInv'
  <2>1. PICK S \in MariaDB!Batches(c) :
          MariaDB!Remove(c, S) /\ MariaDB!AfterBatch(c, Cardinality(S))
    BY <1>2, SameCardinality DEF MariaDB!DeleteExpired
  <2>2. table' = table \ S /\ UNCHANGED <<initial, err>>
    BY <1>2, <2>1 DEF MariaDB!DeleteExpired, MariaDB!Remove
  <2>3. CASE c /= "command"
    BY <2>1, <2>2, <2>3 DEF MariaDB!AfterBatch
  <2>4. CASE c = "command" /\ Cardinality(S) < CleanupBatch
    <3>1. S = table \cap due[c]
      BY <2>4, ShortBatch
    <3>2. initial \cap table' = {}
      BY <2>2, <2>4, <3>1 DEF InitialInv
    <3>3. pc' = [pc EXCEPT !["command"] = "done"]
      BY <2>1, <2>4 DEF MariaDB!AfterBatch
    <3>4. QED
      BY <2>2, <3>2, <3>3
  <2>5. CASE c = "command" /\ ~(Cardinality(S) < CleanupBatch)
    BY <2>1, <2>5 DEF MariaDB!AfterBatch
  <2>6. QED
    BY <2>3, <2>4, <2>5
<1>3. ASSUME NEW c \in MariaDB!All, MariaDB!DeleteSelected(c) PROVE GoneInv'
  BY <1>3, CleanupAssumption DEF MariaDB!DeleteSelected, MariaDB!Remove, MariaDB!AfterBatch
<1>4. ASSUME NEW c \in MariaDB!All, MariaDB!Fail(c) PROVE GoneInv'
  BY <1>4 DEF MariaDB!Fail, MariaDB!Remove
<1>5. ASSUME NEW row \in Rows,
             \/ MariaDB!CheckCreate(row) \/ MariaDB!InsertCreated(row)
             \/ MariaDB!AbandonCreate(row) \/ MariaDB!Consume(row) \/ MariaDB!Expire(row)
      PROVE  GoneInv'
  BY <1>5 DEF MariaDB!CheckCreate, MariaDB!InsertCreated, MariaDB!AbandonCreate,
     MariaDB!Consume, MariaDB!Expire, InitialInv
<1>6. QED
  BY <1>1, <1>2, <1>3, <1>4, <1>5 DEF MariaDB!Next, MariaDB!Statement, MariaDB!SelectExpired

\* On MariaDB a cleanup command that ends without an error has left none of the rows
\* that had expired when it started, for every batch size and table, and whatever the
\* running servers create, consume or delete meanwhile.
THEOREM InitialSetGoneAlways == MCSpec => []InitialSetGone
<1> DEFINE Gone == process = "cleanup on mariadb" => GoneInv
<1>1. MCInit => Gone
  BY CleanupInit
<1>2. CleanupInv /\ Gone /\ [MCNext]_all => Gone'
  <2> SUFFICES ASSUME CleanupInv, [MCNext]_all, process' = "cleanup on mariadb",
                      process = "cleanup on mariadb" => GoneInv
               PROVE  GoneInv'
    OBVIOUS
  <2>1. process = "cleanup on mariadb" /\ GoneInv
    BY DEF MCNext, all
  <2>2. MariaDB!Next \/ UNCHANGED cleanupVars
    BY <2>1 DEF MCNext, all
  <2>3. CASE UNCHANGED cleanupVars
    BY <2>1, <2>3 DEF cleanupVars, GoneInv
  <2>4. QED
    BY <2>1, <2>2, <2>3, GoneNext
<1>3. Gone => InitialSetGone
  BY DEF GoneInv, InitialSetGone, MariaDB!InitialSetGone
<1> HIDE DEF Gone
<1>4. QED
  BY <1>1, <1>2, <1>3, CleanupInvariance, SafetyPart, PTL
==============================================================================
