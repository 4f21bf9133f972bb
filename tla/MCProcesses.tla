----------------------------- MODULE MCProcesses ------------------------------
\* The processes of a deployment for TLC: the server, the launcher with the command
\* it runs, and the cleanup command on either database. They share no variable here:
\* one of them runs, the others rest in an initial state.
EXTENDS ServerLifecycle, Naturals

CONSTANTS
    Rows, Cleaners, CleanupBatch, TotalRange,   \* of the cleanup command
    Budget, KillAfter, MaxSignals               \* of the launcher

ASSUME RowsAssumption == IsFiniteSet(Rows)
ASSUME CleanupAssumption ==
    /\ CleanupBatch \in Nat \ {0}
    /\ TotalRange \in Nat /\ TotalRange > Cardinality(Rows)
    /\ "command" \notin Cleaners

\* 8 s and 10 s in the program.
ASSUME LauncherAssumption ==
    Budget \in Nat /\ KillAfter \in Nat /\ Budget < KillAfter /\ MaxSignals \in Nat

VARIABLES
    table, creating, expired, due, pc, batch, total, err, initial, mine,
    launcher, exitCode, requestedExitCode, once, elapsed, child, ending, pending, notified,
    spent, events, asked, direct,
    process     \* the one that runs

MariaDB == INSTANCE CleanupCommand WITH Backend <- "mariadb", Command <- "command"
PostgreSQL == INSTANCE CleanupCommand WITH Backend <- "postgres", Command <- "command"

L == INSTANCE Launcher

Cleanups == {"cleanup on mariadb", "cleanup on postgres"}

cleanupVars == <<table, creating, expired, due, pc, batch, total, err, initial, mine>>
launcherVars == <<launcher, exitCode, requestedExitCode, once, elapsed, child, ending, pending,
                  notified, spent, events, asked, direct>>
all == <<vars, cleanupVars, launcherVars, process>>

MCInit ==
    /\ process \in {"server", "launcher"} \cup Cleanups
    /\ Init /\ L!Init /\ MariaDB!Init
    /\ process \in Cleanups \/ table = {}

MCNext ==
    /\ \/ process = "server" /\ Next /\ UNCHANGED cleanupVars /\ UNCHANGED launcherVars
       \/ process = "launcher" /\ L!Next /\ UNCHANGED vars /\ UNCHANGED cleanupVars
       \/ process = "cleanup on mariadb" /\ MariaDB!Next /\ UNCHANGED vars /\ UNCHANGED launcherVars
       \/ process = "cleanup on postgres" /\ PostgreSQL!Next /\ UNCHANGED vars /\ UNCHANGED launcherVars
    /\ UNCHANGED process

\* The fairness of the components, each for the process that runs.
MCSpec ==
    /\ MCInit /\ [][MCNext]_all
    /\ WF_vars(process = "server" /\ Main)
    /\ WF_vars(process = "server" /\ DeadlineExpires)
    /\ \A h \in Handlers : WF_vars(process = "server" /\ HandlerRuns(h))
    /\ WF_vars(process = "server" /\ WorkerRan)
    /\ SF_vars(process = "server" /\ WorkerReturns)
    /\ WF_vars(process = "server" /\ Closer)
    /\ WF_launcherVars(process = "launcher" /\ L!Start)
    /\ WF_launcherVars(process = "launcher" /\ L!ChildExit)
    /\ WF_launcherVars(process = "launcher" /\ L!KillTimer)
    /\ WF_launcherVars(process = "launcher" /\ L!Tick)
    /\ WF_launcherVars(process = "launcher" /\ L!Command)
    /\ WF_launcherVars(process = "launcher" /\ child = "stopping" /\ L!Return)
    /\ WF_cleanupVars(process = "cleanup on mariadb" /\ MariaDB!Statement("command"))
    /\ WF_cleanupVars(process = "cleanup on postgres" /\ PostgreSQL!Statement("command"))

------------------------------------------------------------------------------
\* Properties; those of the server are ServerLifecycle's.

\* The command deletes every envelope that had expired when it started (on MariaDB;
\* PostgreSQL skips rows that a server is deleting).
InitialSetGone == process = "cleanup on mariadb" => MariaDB!InitialSetGone

\* The command counts the rows it deleted itself, fewer only when it ends with an
\* error.
CountIsExact == MariaDB!CountIsExact

\* The command's loop ends although rows go on being stored and go on expiring.
CommandEnds == MariaDB!CommandEnds

\* When the launcher or its command has ended, the other one ends as well.
SharedLifecycle == L!SharedLifecycle

\* The launcher exits with 0 only when it was asked to stop and the command was not
\* killed.
ZeroMeansAsked == L!ZeroMeansAsked

\* The launcher does not cut the graceful shutdown of a command short that only the
\* launcher signals, and it kills no command within its budget.
ShutdownNotCutShort == L!ShutdownNotCutShort
==============================================================================
