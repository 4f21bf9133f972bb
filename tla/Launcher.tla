------------------------------- MODULE Launcher -------------------------------
(***************************************************************************)
(* The Node launcher (cmd/securl/run.js) and the command it runs           *)
(* (cmd/securl/main.go): how the two processes start, pass signals on and  *)
(* end together.                                                           *)
(*                                                                         *)
(* A signal reaches the launcher, the command, or both (Ctrl-C in a        *)
(* terminal). Each launcher handler is registered with process.once: a     *)
(* second signal of the same kind ends the launcher at once. The command   *)
(* stops handling signals as soon as its context is cancelled, so that a   *)
(* second signal ends it too. The command's own shutdown is ServerLifecycle *)
(* and may overrun its budget here.                                        *)
(*                                                                         *)
(* Time passes in ticks. Events that need no waiting (a pending signal, a  *)
(* timer that is due) come before the next tick.                           *)
(***************************************************************************)
EXTENDS Naturals

CONSTANTS
    Budget,         \* the command's shutdown budget, in ticks
    KillAfter,      \* SHUTDOWN_TIMEOUT_MS, in ticks
    MaxSignals      \* bound on the signals and exceptions from outside

VARIABLES
    launcher,       \* "starting", "up", "stopping" (shuttingDown), "exited", "died"
    exitCode,       \* the code the launcher exits with
    requestedExitCode,
    once,           \* the launcher's handlers still registered
    elapsed,        \* ticks since shutdownTimer was set
    child,          \* "none", "boot", "running", "stopping", "ended"
    ending,         \* how the command ended: "none", "zero", "failure", "signal", "forced"
    pending,        \* signals sent to the command and not received
    notified,       \* signal.NotifyContext is in force in the command
    spent,          \* ticks since the command's context was cancelled
    events,         \* signals, exceptions and kills from outside so far
    asked,          \* SIGINT or SIGTERM has reached the launcher
    direct          \* a signal from outside has reached the command

vars == <<launcher, exitCode, requestedExitCode, once, elapsed, child, ending, pending,
          notified, spent, events, asked, direct>>
commandVars == <<child, ending, pending, notified, spent>>

Signals == {"SIGINT", "SIGTERM"}

Init ==
    /\ launcher = "starting"
    /\ exitCode = 0
    /\ requestedExitCode = 0
    /\ once = Signals \cup {"uncaughtException"}
    /\ elapsed = 0
    /\ child = "none"
    /\ ending = "none"
    /\ pending = {}
    /\ notified = FALSE
    /\ spent = 0
    /\ events = 0
    /\ asked = FALSE
    /\ direct = FALSE

Alive == launcher \in {"starting", "up", "stopping"}
ChildAlive == child \in {"boot", "running", "stopping"}

------------------------------------------------------------------------------
\* The launcher.

exitProcess(code) == launcher' = "exited" /\ exitCode' = code

\* Mutated form: every call signals the command.
shutdownAgain(code) ==
    /\ requestedExitCode' = code
    /\ IF child = "none"
       THEN exitProcess(code) /\ UNCHANGED pending
       ELSE /\ launcher' = "stopping"
            /\ pending' = IF ChildAlive THEN pending \cup {"SIGTERM"} ELSE pending
            /\ UNCHANGED exitCode

\* The first call decides; a command that has ended but whose exit event is still
\* to come gets the signal in vain.
shutdown(code) ==
    IF launcher = "stopping"
    THEN UNCHANGED <<launcher, requestedExitCode, exitCode, pending>>
    ELSE /\ requestedExitCode' = code
         /\ IF child = "none"
            THEN exitProcess(code) /\ UNCHANGED pending
            ELSE /\ launcher' = "stopping"
                 /\ pending' = IF ChildAlive THEN pending \cup {"SIGTERM"} ELSE pending
                 /\ UNCHANGED exitCode

\* The port is bound and the command spawned; a missing binary, a taken port or a
\* failed spawn ends the launcher with code 1.
Start ==
    /\ launcher = "starting"
    /\ \/ launcher' = "up" /\ child' = "boot" /\ UNCHANGED <<exitCode, requestedExitCode, pending>>
       \/ shutdown(1) /\ UNCHANGED child
    /\ UNCHANGED <<once, elapsed, ending, notified, spent, events, asked, direct>>

\* What the launcher does with a signal or an exception: the handler runs once, the
\* next of its kind ends the process.
Handle(kind, code) ==
    IF kind \in once
    THEN once' = once \ {kind} /\ shutdown(code)
    ELSE launcher' = "died" /\ UNCHANGED <<once, exitCode, requestedExitCode, pending>>

SignalLauncher(s) ==
    /\ Alive /\ events < MaxSignals
    /\ events' = events + 1
    /\ asked' = TRUE
    /\ Handle(s, 0)
    /\ UNCHANGED <<elapsed, child, ending, notified, spent, direct>>

SignalCommand(s) ==
    /\ ChildAlive /\ events < MaxSignals
    /\ events' = events + 1
    /\ direct' = TRUE
    /\ pending' = pending \cup {s}
    /\ UNCHANGED <<launcher, exitCode, requestedExitCode, once, elapsed, child, ending,
                   notified, spent, asked>>

\* Ctrl-C: the command has its copy before the launcher passes anything on.
Interrupt ==
    /\ Alive /\ ChildAlive /\ "SIGINT" \notin pending /\ events < MaxSignals
    /\ events' = events + 1
    /\ asked' = TRUE
    /\ direct' = TRUE
    /\ IF "SIGINT" \in once
       THEN /\ once' = once \ {"SIGINT"}
            /\ IF launcher = "stopping"
               THEN pending' = pending \cup {"SIGINT"} /\ UNCHANGED <<launcher, requestedExitCode>>
               ELSE /\ launcher' = "stopping"
                    /\ requestedExitCode' = 0
                    /\ pending' = pending \cup {"SIGINT", "SIGTERM"}
       ELSE /\ launcher' = "died"
            /\ pending' = pending \cup {"SIGINT"}
            /\ UNCHANGED <<once, requestedExitCode>>
    /\ UNCHANGED <<exitCode, elapsed, child, ending, notified, spent>>

Exception ==
    /\ Alive /\ events < MaxSignals
    /\ events' = events + 1
    /\ Handle("uncaughtException", 1)
    /\ UNCHANGED <<elapsed, child, ending, notified, spent, asked, direct>>

\* The launcher is killed, or crashes in a way no handler sees.
Die ==
    /\ Alive /\ events < MaxSignals
    /\ events' = events + 1
    /\ launcher' = "died"
    /\ UNCHANGED <<exitCode, requestedExitCode, once, elapsed, asked, direct>>
    /\ UNCHANGED commandVars

\* Mutated form: the command's own exit code is passed on.
ChildExitPassedOn ==
    /\ Alive /\ child = "ended"
    /\ exitProcess(IF launcher = "stopping" THEN requestedExitCode
                   ELSE IF ending = "zero" THEN 0 ELSE 1)
    /\ UNCHANGED <<requestedExitCode, once, elapsed, events, asked, direct>>
    /\ UNCHANGED commandVars

\* The exit event: an end nobody asked for is an error, whatever the command's code.
ChildExit ==
    /\ Alive /\ child = "ended"
    /\ IF launcher = "stopping"
       THEN exitProcess(requestedExitCode) /\ UNCHANGED requestedExitCode
       ELSE requestedExitCode' = 1 /\ exitProcess(1)
    /\ UNCHANGED <<once, elapsed, events, asked, direct>>
    /\ UNCHANGED commandVars

TimerDue == launcher = "stopping" /\ elapsed = KillAfter

\* shutdownTimer: SIGKILL, and the launcher does not wait for its effect.
KillTimer ==
    /\ TimerDue
    /\ IF ChildAlive THEN child' = "ended" /\ ending' = "forced"
                     ELSE UNCHANGED <<child, ending>>
    /\ exitProcess(1)
    /\ UNCHANGED <<requestedExitCode, once, elapsed, pending, notified, spent, events, asked,
                   direct>>

------------------------------------------------------------------------------
\* The command.

launcherVars == <<launcher, exitCode, requestedExitCode, once, elapsed, events, asked, direct>>

Cancel == child' = "stopping" /\ spent' = 0

\* main up to NotifyContext and the goroutine that reads stdin; a bad environment
\* ends it with code 1.
Boot ==
    /\ child = "boot"
    /\ \/ child' = "running" /\ notified' = TRUE /\ UNCHANGED ending
       \/ child' = "ended" /\ ending' = "failure" /\ UNCHANGED notified
    /\ UNCHANGED <<pending, spent>>
    /\ UNCHANGED launcherVars

\* A signal cancels the context, is swallowed while it is being cancelled, or finds
\* the default action in force.
Receive(s) ==
    /\ ChildAlive /\ s \in pending
    /\ pending' = pending \ {s}
    /\ IF ~notified
       THEN child' = "ended" /\ ending' = "signal" /\ UNCHANGED spent
       ELSE IF child = "running" THEN Cancel /\ UNCHANGED ending
            ELSE UNCHANGED <<child, ending, spent>>
    /\ UNCHANGED notified
    /\ UNCHANGED launcherVars

\* The goroutine that calls stop() once the context is done.
StopNotify ==
    /\ child = "stopping" /\ notified
    /\ notified' = FALSE
    /\ UNCHANGED <<child, ending, pending, spent>>
    /\ UNCHANGED launcherVars

\* Mutated form: the end of stdin goes unnoticed.
shutdownOnStdinEOFNever == FALSE /\ UNCHANGED vars

\* The launcher's end of the pipe closes with the launcher; a signal sent before is
\* delivered before.
shutdownOnStdinEOF ==
    /\ ~Alive /\ child = "running" /\ pending = {}
    /\ Cancel
    /\ UNCHANGED <<ending, pending, notified>>
    /\ UNCHANGED launcherVars

\* run returns: after its shutdown, or with an error of its own.
Return ==
    /\ child \in {"running", "stopping"}
    /\ child' = "ended"
    /\ ending' \in (IF child = "running" THEN {"failure"} ELSE {"zero", "failure"})
    /\ UNCHANGED <<pending, notified, spent>>
    /\ UNCHANGED launcherVars

------------------------------------------------------------------------------
Urgent ==
    \/ ChildAlive /\ pending /= {}
    \/ Alive /\ child = "ended"
    \/ ~Alive /\ child = "running"
    \/ child = "boot"
    \/ TimerDue

Tick ==
    /\ ~Urgent
    /\ launcher = "stopping" \/ (child = "stopping" /\ spent < KillAfter)
    /\ elapsed' = IF launcher = "stopping" THEN elapsed + 1 ELSE elapsed
    /\ spent' = IF child = "stopping" /\ spent < KillAfter THEN spent + 1 ELSE spent
    /\ UNCHANGED <<launcher, exitCode, requestedExitCode, once, child, ending, pending,
                   notified, events, asked, direct>>

Ended == ~Alive /\ ~ChildAlive

Outside ==
    \/ \E s \in Signals : SignalLauncher(s) \/ SignalCommand(s)
    \/ Interrupt \/ Exception \/ Die

Command ==
    \/ Boot \/ StopNotify \/ shutdownOnStdinEOF
    \/ \E s \in Signals : Receive(s)

Next ==
    \/ Start \/ ChildExit \/ KillTimer \/ Command \/ Return \/ Tick
    \/ Outside
    \/ Ended /\ UNCHANGED vars

\* Both event loops run, time passes, and a command that was told to stop returns.
Fairness ==
    /\ WF_vars(Start) /\ WF_vars(ChildExit) /\ WF_vars(KillTimer) /\ WF_vars(Tick)
    /\ WF_vars(Command)
    /\ WF_vars(child = "stopping" /\ Return)

Spec == Init /\ [][Next]_vars
------------------------------------------------------------------------------
\* Properties.

\* docs/configuration.md: "both processes share a lifecycle". When one of them has
\* ended, however it ended, the other one ends as well.
SharedLifecycle == (~Alive \/ child = "ended") ~> Ended

\* A supervisor can trust the launcher's exit code: 0 means that somebody asked the
\* launcher to stop and that the command ended without being killed for its delay;
\* a command that ends on its own, even with code 0, is reported as an error.
ZeroMeansAsked == (launcher = "exited" /\ exitCode = 0) => asked /\ ending /= "forced"

\* On its own the launcher does not cut the command's graceful shutdown short: it
\* signals the command once, so that two signals to the launcher, or a signal and an
\* exception, do not end a command that has begun to handle signals, and its deadline
\* leaves the command its whole budget. Of a command that others have signalled too
\* (Ctrl-C in a terminal reaches both processes: "direct") only the second half is
\* said: there the launcher's SIGTERM is a second signal, and it does end the command.
ShutdownNotCutShort ==
    [][ending' /= ending =>
        /\ ending' = "signal" => direct \/ child = "boot"
        /\ ending' = "forced" => spent > Budget]_vars
==============================================================================
