--------------------------- MODULE ServerLifecycle ---------------------------
(***************************************************************************)
(* Application.Serve from the opening of the repository to its return:     *)
(* the request handlers behind handlerTracker, the cleanup worker's        *)
(* goroutine, shutdownApplication under its deadline, and the goroutines   *)
(* that close the repository.                                              *)
(*                                                                         *)
(* net/http is external and modelled from how Serve uses it. What matters  *)
(* is that Shutdown closes connections it still believes idle: a request   *)
(* read from such a connection just before runs its handler although       *)
(* Shutdown has returned nil. handlerTracker exists for these handlers.    *)
(***************************************************************************)
EXTENDS FiniteSets

CONSTANT Handlers       \* requests, each on a connection of its own
CONSTANT Worker         \* the cleanup worker's goroutine

ASSUME WorkerAssumption == Worker \notin Handlers

VARIABLES
    main,       \* what the goroutine of Serve does next
    failed,     \* Serve has an error to return
    graceful,   \* server.Shutdown returned nil
    deadline,   \* shutdownContext (or closeContext): "unset", "running", "expired"
    handler,    \* per request: how far it is
    dropped,    \* connections net/http has closed or forgotten
    sealed,     \* handlerTracker.sealed
    tracked,    \* handlerTracker.waitGroup, as the set of its members
    worker,     \* the worker's goroutine
    cancelled,  \* workerContext is cancelled
    closer,     \* the goroutine that closes the repository
    repository

vars == <<main, failed, graceful, deadline, handler, dropped, sealed, tracked,
          worker, cancelled, closer, repository>>

TypeOK ==
    /\ main \in {"start", "build", "serve", "shutdown", "seal", "pollWorker", "waitWorker",
                 "waitHandlers", "closeRepository", "awaitClose", "returned"}
    /\ failed \in BOOLEAN
    /\ graceful \in BOOLEAN
    /\ deadline \in {"unset", "running", "expired"}
    /\ handler \in [Handlers -> {"none", "read", "active", "running", "finished", "refused"}]
    /\ dropped \subseteq Handlers
    /\ sealed \in BOOLEAN
    /\ tracked \subseteq Handlers
    /\ worker \in {"unstarted", "select", "cleanup", "done"}
    /\ cancelled \in BOOLEAN
    /\ closer \in {"none", "waitHandlers", "waitWorker", "close", "closing", "closed"}
    /\ repository \in {"unopened", "open", "closed"}

Init ==
    /\ main = "start"
    /\ failed = FALSE
    /\ graceful = FALSE
    /\ deadline = "unset"
    /\ handler = [h \in Handlers |-> "none"]
    /\ dropped = {}
    /\ sealed = FALSE
    /\ tracked = {}
    /\ worker = "unstarted"
    /\ cancelled = FALSE
    /\ closer = "none"
    /\ repository = "unopened"

------------------------------------------------------------------------------
\* Starting up.

\* Serve returns at once when its context is already done or the repository
\* cannot be opened.
OpenRepository ==
    /\ main = "start"
    /\ \/ main' = "returned" /\ failed' \in BOOLEAN /\ UNCHANGED repository
       \/ main' = "build" /\ repository' = "open" /\ UNCHANGED failed
    /\ UNCHANGED <<graceful, deadline, handler, dropped, sealed, tracked, worker,
                   cancelled, closer>>

\* The verifier, the Safe Browsing client and the frontend are built. An error
\* closes the repository under a deadline of its own (closeRepositoryAfterError).
Build ==
    /\ main = "build"
    /\ \/ main' = "serve" /\ worker' = "select" /\ UNCHANGED <<failed, deadline>>
       \/ main' = "closeRepository" /\ failed' = TRUE /\ deadline' = "running"
          /\ UNCHANGED worker
    /\ UNCHANGED <<graceful, handler, dropped, sealed, tracked, cancelled, closer, repository>>

\* Mutated form: the worker is not told.
StopServing_WorkerNotCancelled ==
    /\ main = "serve"
    /\ main' = "shutdown"
    /\ failed' \in BOOLEAN
    /\ deadline' = "running"
    /\ UNCHANGED <<graceful, handler, dropped, sealed, tracked, worker, cancelled, closer,
                   repository>>

\* The context is done, or server.Serve failed; shutdownApplication sets its
\* deadline and cancels the worker.
StopServing ==
    /\ main = "serve"
    /\ main' = "shutdown"
    /\ failed' \in BOOLEAN
    /\ deadline' = "running"
    /\ cancelled' = TRUE
    /\ UNCHANGED <<graceful, handler, dropped, sealed, tracked, worker, closer, repository>>

DeadlineExpires ==
    /\ deadline = "running"
    /\ deadline' = "expired"
    /\ UNCHANGED <<main, failed, graceful, handler, dropped, sealed, tracked, worker,
                   cancelled, closer, repository>>

------------------------------------------------------------------------------
\* Requests.

\* The connection's goroutine reads a request; net/http still calls it idle.
RequestRead(h) ==
    /\ main \in {"serve", "shutdown", "seal"}
    /\ handler[h] = "none" /\ h \notin dropped
    /\ handler' = [handler EXCEPT ![h] = "read"]
    /\ UNCHANGED <<main, failed, graceful, deadline, dropped, sealed, tracked, worker,
                   cancelled, closer, repository>>

ConnectionActive(h) ==
    /\ handler[h] = "read"
    /\ handler' = [handler EXCEPT ![h] = "active"]
    /\ UNCHANGED <<main, failed, graceful, deadline, dropped, sealed, tracked, worker,
                   cancelled, closer, repository>>

\* Mutated form: late handlers are not turned away.
ServeHTTP_Unsealed(h) ==
    /\ handler[h] = "active"
    /\ handler' = [handler EXCEPT ![h] = "running"]
    /\ tracked' = tracked \cup {h}
    /\ UNCHANGED <<main, failed, graceful, deadline, dropped, sealed, worker, cancelled,
                   closer, repository>>

\* handlerTracker.ServeHTTP up to the inner handler: one critical section.
ServeHTTP(h) ==
    /\ handler[h] = "active"
    /\ IF sealed
       THEN handler' = [handler EXCEPT ![h] = "refused"] /\ UNCHANGED tracked
       ELSE handler' = [handler EXCEPT ![h] = "running"] /\ tracked' = tracked \cup {h}
    /\ UNCHANGED <<main, failed, graceful, deadline, dropped, sealed, worker, cancelled,
                   closer, repository>>

\* Mutated form: the waitGroup is not told.
HandlerReturns_NoDone(h) ==
    /\ handler[h] = "running"
    /\ handler' = [handler EXCEPT ![h] = "finished"]
    /\ UNCHANGED <<main, failed, graceful, deadline, dropped, sealed, tracked, worker,
                   cancelled, closer, repository>>

\* The inner handler returns; the deferred waitGroup.Done.
HandlerReturns(h) ==
    /\ handler[h] = "running"
    /\ handler' = [handler EXCEPT ![h] = "finished"]
    /\ tracked' = tracked \ {h}
    /\ UNCHANGED <<main, failed, graceful, deadline, dropped, sealed, worker, cancelled,
                   closer, repository>>

------------------------------------------------------------------------------
\* The cleanup worker's loop. When the ticker and the cancellation are both
\* ready the select may still take the tick.

WorkerTick ==
    /\ worker = "select"
    /\ worker' = "cleanup"
    /\ UNCHANGED <<main, failed, graceful, deadline, handler, dropped, sealed, tracked,
                   cancelled, closer, repository>>

WorkerRan ==
    /\ worker = "cleanup"
    /\ worker' = "select"
    /\ UNCHANGED <<main, failed, graceful, deadline, handler, dropped, sealed, tracked,
                   cancelled, closer, repository>>

WorkerReturns ==
    /\ worker = "select" /\ cancelled
    /\ worker' = "done"
    /\ UNCHANGED <<main, failed, graceful, deadline, handler, dropped, sealed, tracked,
                   cancelled, closer, repository>>

------------------------------------------------------------------------------
\* shutdownApplication.

\* Connections net/http counts as busy.
Busy == {h \in Handlers \ dropped : handler[h] \in {"active", "running"}}

\* server.Shutdown closes what it takes for idle, and returns when nothing is busy.
ShutdownPoll ==
    /\ main = "shutdown"
    /\ dropped' = dropped \cup {h \in Handlers : handler[h] \in {"none", "read"}}
    /\ IF Busy = {} THEN main' = "seal" /\ graceful' = TRUE
                    ELSE UNCHANGED <<main, graceful>>
    /\ UNCHANGED <<failed, deadline, handler, sealed, tracked, worker, cancelled,
                   closer, repository>>

ShutdownTimesOut ==
    /\ main = "shutdown"
    /\ deadline = "expired"
    /\ main' = "seal"
    /\ failed' = TRUE
    /\ UNCHANGED <<graceful, deadline, handler, dropped, sealed, tracked, worker,
                   cancelled, closer, repository>>

\* handlers.Seal, and server.Close after a forced shutdown.
Seal ==
    /\ main = "seal"
    /\ main' = "pollWorker"
    /\ sealed' = TRUE
    /\ dropped' = IF graceful THEN dropped ELSE Handlers
    /\ UNCHANGED <<failed, graceful, deadline, handler, tracked, worker, cancelled,
                   closer, repository>>

\* After the wait for the worker: close the repository here, or leave it to a
\* goroutine that outlives Serve (closeRepositoryAfterRoutines).
AfterWorkerWait(stopped) ==
    IF graceful /\ stopped
    THEN main' = "waitHandlers" /\ UNCHANGED closer
    ELSE main' = "returned" /\ closer' = "waitHandlers"

\* The first select: a worker that is done counts, deadline or not.
PollWorker ==
    /\ main = "pollWorker"
    /\ IF worker = "done" THEN AfterWorkerWait(TRUE)
       ELSE main' = "waitWorker" /\ UNCHANGED closer
    /\ UNCHANGED <<failed, graceful, deadline, handler, dropped, sealed, tracked, worker,
                   cancelled, repository>>

\* The second select takes either case when both are ready.
WaitWorker ==
    /\ main = "waitWorker"
    /\ \/ worker = "done" /\ AfterWorkerWait(TRUE) /\ UNCHANGED failed
       \/ deadline = "expired" /\ AfterWorkerWait(FALSE) /\ failed' = TRUE
    /\ UNCHANGED <<graceful, deadline, handler, dropped, sealed, tracked, worker, cancelled,
                   repository>>

\* handlers.Wait, without a deadline.
WaitHandlers ==
    /\ main = "waitHandlers"
    /\ tracked = {}
    /\ main' = "closeRepository"
    /\ UNCHANGED <<failed, graceful, deadline, handler, dropped, sealed, tracked, worker,
                   cancelled, closer, repository>>

\* closeRepository gives up on an expired deadline before it has even tried.
CloseRepository ==
    /\ main = "closeRepository"
    /\ IF deadline = "expired"
       THEN main' = "returned" /\ failed' = TRUE /\ UNCHANGED closer
       ELSE main' = "awaitClose" /\ closer' = "close" /\ UNCHANGED failed
    /\ UNCHANGED <<graceful, deadline, handler, dropped, sealed, tracked, worker, cancelled,
                   repository>>

\* Mutated form: an expired deadline is not reported.
AwaitClose_Silent ==
    /\ main = "awaitClose"
    /\ closer = "closed" \/ deadline = "expired"
    /\ main' = "returned"
    /\ UNCHANGED <<failed, graceful, deadline, handler, dropped, sealed, tracked, worker,
                   cancelled, closer, repository>>

AwaitClose ==
    /\ main = "awaitClose"
    /\ \/ closer = "closed" /\ UNCHANGED failed
       \/ deadline = "expired" /\ failed' = TRUE
    /\ main' = "returned"
    /\ UNCHANGED <<graceful, deadline, handler, dropped, sealed, tracked, worker, cancelled,
                   closer, repository>>

------------------------------------------------------------------------------
\* The closing goroutines: closeRepositoryAfterRoutines starts at "waitHandlers",
\* the one of closeRepository at "close". repository.Close may block.

CloserWaitHandlers ==
    /\ closer = "waitHandlers" /\ tracked = {}
    /\ closer' = "waitWorker"
    /\ UNCHANGED <<main, failed, graceful, deadline, handler, dropped, sealed, tracked,
                   worker, cancelled, repository>>

CloserWaitWorker ==
    /\ closer = "waitWorker" /\ worker = "done"
    /\ closer' = "close"
    /\ UNCHANGED <<main, failed, graceful, deadline, handler, dropped, sealed, tracked,
                   worker, cancelled, repository>>

CloserCloses ==
    /\ closer = "close"
    /\ closer' = "closing"
    /\ repository' = "closed"
    /\ UNCHANGED <<main, failed, graceful, deadline, handler, dropped, sealed, tracked,
                   worker, cancelled>>

CloserDone ==
    /\ closer = "closing"
    /\ closer' = "closed"
    /\ UNCHANGED <<main, failed, graceful, deadline, handler, dropped, sealed, tracked,
                   worker, cancelled, repository>>

------------------------------------------------------------------------------
Main ==
    \/ OpenRepository
    \/ Build
    \/ ShutdownPoll
    \/ ShutdownTimesOut
    \/ Seal
    \/ PollWorker
    \/ WaitWorker
    \/ WaitHandlers
    \/ CloseRepository
    \/ AwaitClose

HandlerRuns(h) == ConnectionActive(h) \/ ServeHTTP(h) \/ HandlerReturns(h)

Closer == CloserWaitHandlers \/ CloserWaitWorker \/ CloserCloses \/ CloserDone

Next ==
    \/ Main
    \/ StopServing
    \/ DeadlineExpires
    \/ \E h \in Handlers : RequestRead(h) \/ HandlerRuns(h)
    \/ WorkerTick \/ WorkerRan \/ WorkerReturns
    \/ Closer

\* Goroutines are scheduled and deadlines pass. Handlers return: they honour their
\* request's context, which a closed connection cancels, and repository.Close
\* returns once the pool's connections are back. The select of a cancelled worker
\* does not take the tick for ever. Nobody has to stop the server or send a request.
Fairness ==
    /\ WF_vars(Main)
    /\ WF_vars(DeadlineExpires)
    /\ \A h \in Handlers : WF_vars(HandlerRuns(h))
    /\ WF_vars(WorkerRan)
    /\ SF_vars(WorkerReturns)
    /\ WF_vars(Closer)

Spec == Init /\ [][Next]_vars
FairSpec == Spec /\ Fairness

------------------------------------------------------------------------------
\* Properties.

\* The repository is never closed under a running handler or a running cleanup,
\* nor before one that can still start: neither after a graceful shutdown with a
\* late handler, nor after a forced one that leaves goroutines behind.
NoUseAfterClose ==
    repository = "closed" =>
        /\ \A h \in Handlers : handler[h] /= "running"
        /\ worker \notin {"select", "cleanup"}

\* When Serve returns without an error the repository is closed (or was never
\* opened), every handler it admitted has returned and the worker has stopped.
CleanReturn ==
    (main = "returned" /\ ~failed) =>
        /\ repository /= "open"
        /\ tracked = {}
        /\ worker \in {"unstarted", "done"}

\* The goroutines that use the repository, and the lifetime they respect.
using == tracked \cup (IF worker = "cleanup" THEN {Worker} ELSE {})

Lifetime == INSTANCE RepositoryLifetime
                WITH Users <- Handlers \cup {Worker}, phase <- repository, using <- using

\* Opening, use by handlers and worker, and closing of the repository follow
\* RepositoryLifetime: one opening, one closing, and no use outside them.
RespectsLifetime == Lifetime!Spec

\* A server that is asked to stop does return from Serve, whatever is in flight.
ServeReturns == main = "shutdown" ~> main = "returned"

\* A forced shutdown, or one whose worker is late, closes the repository once the
\* handlers and the worker are done (closeRepositoryAfterRoutines).
LeftoverClosed == closer = "waitHandlers" ~> repository = "closed"

\* What the shutdown tests say: the repository is closed in the end, at the latest
\* after the last handler.
EventuallyClosed == main = "shutdown" ~> repository = "closed"
==============================================================================
