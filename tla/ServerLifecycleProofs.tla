------------------------- MODULE ServerLifecycleProofs -------------------------
(***************************************************************************)
(* Proofs about ServerLifecycle, for any number of requests.               *)
(*                                                                         *)
(* The argument: only the goroutine in closer closes the repository, and   *)
(* it reaches that point only when the server is Quiet. Quiet is stable:   *)
(* once the tracker is sealed and empty ServeHTTP admits nobody, and a     *)
(* worker that has returned does not come back.                            *)
(***************************************************************************)
EXTENDS ServerLifecycle, TLAPS

Started == worker /= "unstarted"

\* Nobody uses the repository, and nobody ever will again.
Quiet ==
    IF Started THEN sealed /\ tracked = {} /\ worker = "done"
    ELSE main /= "build"

\* The tracker's wait group holds exactly the running handlers, and before the
\* server is started there are none.
TrackerInv ==
    /\ tracked = {h \in Handlers : handler[h] = "running"}
    /\ ~Started => \A h \in Handlers : handler[h] = "none"

\* How far the goroutine of Serve is, against what it has done.
MainInv ==
    /\ Started => main \notin {"start", "build"}
    /\ ~Started => main \in {"start", "build", "closeRepository", "awaitClose", "returned"}
    /\ main = "start" => repository = "unopened"
    /\ repository = "unopened" => main \in {"start", "returned"} /\ ~Started /\ closer = "none"
    /\ main \in {"pollWorker", "waitWorker", "waitHandlers"} => sealed
    /\ main \in {"seal", "pollWorker", "waitWorker"} => graceful \/ failed
    /\ main = "waitHandlers" => worker = "done"
    /\ main \in {"closeRepository", "awaitClose"} => Quiet

\* What the closing goroutine has waited for.
CloserInv ==
    /\ closer /= "none" => main \in {"awaitClose", "returned"}
    /\ closer = "waitHandlers" => sealed /\ Started
    /\ closer = "waitWorker" => sealed /\ Started /\ tracked = {}
    /\ closer \in {"close", "closing", "closed"} => Quiet
    /\ repository = "closed" <=> closer \in {"closing", "closed"}
    /\ (main = "returned" /\ ~failed) =>
           closer = "closed" \/ (~Started /\ repository = "unopened")

Inv == TypeOK /\ TrackerInv /\ MainInv /\ CloserInv

LEMMA InitInv == Init => Inv
  BY DEF Init, Inv, TypeOK, TrackerInv, MainInv, CloserInv, Started, Quiet

\* The steps of Serve's own goroutine.
LEMMA MainStep == ASSUME Inv, Main \/ StopServing \/ DeadlineExpires PROVE Inv'
<1> USE DEF Inv, TypeOK, TrackerInv, MainInv, CloserInv, Started, Quiet
<1>1. CASE OpenRepository
  BY <1>1 DEF OpenRepository
<1>2. CASE Build
  BY <1>2 DEF Build
<1>3. CASE ShutdownPoll
  BY <1>3 DEF ShutdownPoll
<1>4. CASE ShutdownTimesOut
  BY <1>4 DEF ShutdownTimesOut
<1>5. CASE Seal
  BY <1>5 DEF Seal
<1>6. CASE PollWorker
  BY <1>6 DEF PollWorker, AfterWorkerWait
<1>7. CASE WaitWorker
  BY <1>7 DEF WaitWorker, AfterWorkerWait
<1>8. CASE WaitHandlers
  BY <1>8 DEF WaitHandlers
<1>9. CASE CloseRepository
  <2>1. CASE deadline = "expired"
    BY <1>9, <2>1 DEF CloseRepository
  <2>2. CASE deadline /= "expired"
    BY <1>9, <2>2 DEF CloseRepository
  <2>3. QED
    BY <2>1, <2>2
<1>10. CASE AwaitClose
  <2>1. CASE closer = "closed" /\ UNCHANGED failed
    BY <1>10, <2>1 DEF AwaitClose
  <2>2. CASE failed' = TRUE
    BY <1>10, <2>2 DEF AwaitClose
  <2>3. QED
    BY <1>10, <2>1, <2>2 DEF AwaitClose
<1>11. CASE StopServing
  BY <1>11 DEF StopServing
<1>12. CASE DeadlineExpires
  BY <1>12 DEF DeadlineExpires
<1>13. QED
  BY <1>1, <1>2, <1>3, <1>4, <1>5, <1>6, <1>7, <1>8, <1>9, <1>10, <1>11, <1>12 DEF Main

\* The steps of the requests' goroutines.
LEMMA HandlerStep ==
  ASSUME Inv, NEW h \in Handlers, RequestRead(h) \/ HandlerRuns(h) PROVE Inv'
<1> USE DEF Inv, TypeOK, TrackerInv, MainInv, CloserInv, Started, Quiet
<1>1. CASE RequestRead(h)
  BY <1>1 DEF RequestRead
<1>2. CASE ConnectionActive(h)
  BY <1>2 DEF ConnectionActive
<1>3. CASE ServeHTTP(h)
  BY <1>3 DEF ServeHTTP
<1>4. CASE HandlerReturns(h)
  BY <1>4 DEF HandlerReturns
<1>5. QED
  BY <1>1, <1>2, <1>3, <1>4 DEF HandlerRuns

\* The steps of the cleanup worker and of the closing goroutine.
LEMMA BackgroundStep ==
  ASSUME Inv, WorkerTick \/ WorkerRan \/ WorkerReturns \/ Closer PROVE Inv'
<1> USE DEF Inv, TypeOK, TrackerInv, MainInv, CloserInv, Started, Quiet
<1>1. CASE WorkerTick
  BY <1>1 DEF WorkerTick
<1>2. CASE WorkerRan
  BY <1>2 DEF WorkerRan
<1>3. CASE WorkerReturns
  BY <1>3 DEF WorkerReturns
<1>4. CASE CloserWaitHandlers
  BY <1>4 DEF CloserWaitHandlers
<1>5. CASE CloserWaitWorker
  BY <1>5 DEF CloserWaitWorker
<1>6. CASE CloserCloses
  BY <1>6 DEF CloserCloses
<1>7. CASE CloserDone
  BY <1>7 DEF CloserDone
<1>8. QED
  BY <1>1, <1>2, <1>3, <1>4, <1>5, <1>6, <1>7 DEF Closer

LEMMA NextInv == Inv /\ [Next]_vars => Inv'
<1> SUFFICES ASSUME Inv, [Next]_vars PROVE Inv'
  OBVIOUS
<1>1. CASE UNCHANGED vars
  BY <1>1 DEF vars, Inv, TypeOK, TrackerInv, MainInv, CloserInv, Started, Quiet
<1>2. CASE Next
  BY <1>2, MainStep, HandlerStep, BackgroundStep DEF Next
<1>3. QED
  BY <1>1, <1>2

\* Every reachable state satisfies the inductive invariant, and so the types.
THEOREM Invariance == Spec => []Inv
<1>1. Init => Inv
  BY InitInv
<1>2. Inv /\ [Next]_vars => Inv'
  BY NextInv
<1>3. QED
  BY <1>1, <1>2, PTL DEF Spec
\* The repository is never closed under a handler or a cleanup, for any number of
\* requests.
THEOREM ClosedOnlyWhenUnused == Spec => []NoUseAfterClose
<1>1. Inv => NoUseAfterClose
  BY DEF Inv, TypeOK, TrackerInv, CloserInv, Quiet, Started, NoUseAfterClose
<1>2. QED
  BY <1>1, Invariance, PTL

\* Serve returns nil only after it has closed the repository and waited for every
\* handler and the worker.
THEOREM ReturnsClean == Spec => []CleanReturn
<1>1. Inv => CleanReturn
  BY DEF Inv, TypeOK, TrackerInv, CloserInv, Quiet, Started, CleanReturn
<1>2. QED
  BY <1>1, Invariance, PTL

\* Serve, its handlers and its worker implement RepositoryLifetime: the repository
\* is opened once, used only while open, and closed once when nobody uses it.
THEOREM ImplementsLifetime == Spec => RespectsLifetime
<1>1. Init => Lifetime!Init
  BY DEF Init, Lifetime!Init, using
<1>2. ASSUME Inv, [Next]_vars PROVE [Lifetime!Next]_(Lifetime!vars)
  <2> USE <1>2 DEF Inv, TypeOK, using
  <2>1. CASE UNCHANGED vars
    BY <2>1 DEF vars, Lifetime!vars
  <2>2. CASE OpenRepository
    <3>1. repository = "unopened" /\ worker /= "cleanup" /\ using' = using
      BY <2>2 DEF OpenRepository, MainInv, Started
    <3>2. CASE repository' = "open"
      BY <2>2, <3>1, <3>2 DEF OpenRepository, Lifetime!Next, Lifetime!Open
    <3>3. CASE repository' = repository
      BY <2>2, <3>1, <3>3 DEF OpenRepository, Lifetime!vars
    <3>4. QED
      BY <2>2, <3>2, <3>3 DEF OpenRepository
  <2>3. CASE Build
    BY <2>3 DEF Build, MainInv, Started, Lifetime!vars
  <2>4. CASE ShutdownPoll \/ ShutdownTimesOut \/ Seal \/ PollWorker \/ WaitWorker
             \/ WaitHandlers \/ CloseRepository \/ AwaitClose \/ StopServing \/ DeadlineExpires
    BY <2>4 DEF ShutdownPoll, ShutdownTimesOut, Seal, PollWorker, WaitWorker, AfterWorkerWait,
                WaitHandlers, CloseRepository, AwaitClose, StopServing, DeadlineExpires,
                Lifetime!vars
  <2>5. ASSUME NEW h \in Handlers, RequestRead(h) \/ ConnectionActive(h)
        PROVE [Lifetime!Next]_(Lifetime!vars)
    BY <2>5 DEF RequestRead, ConnectionActive, Lifetime!vars
  <2>6. ASSUME NEW h \in Handlers, ServeHTTP(h)
        PROVE [Lifetime!Next]_(Lifetime!vars)
    <3>1. CASE sealed
      BY <2>6, <3>1 DEF ServeHTTP, Lifetime!vars
    <3>2. CASE ~sealed
      <4>1. repository = "open"
        BY <2>6, <3>2 DEF ServeHTTP, TrackerInv, MainInv, CloserInv, Quiet, Started
      <4>2. h \notin using /\ using' = using \cup {h} /\ repository' = repository
        BY <2>6, <3>2, WorkerAssumption DEF ServeHTTP, TrackerInv
      <4>3. Lifetime!Acquire(h)
        BY <4>1, <4>2 DEF Lifetime!Acquire
      <4>4. QED
        BY <4>3 DEF Lifetime!Next
    <3>3. QED
      BY <3>1, <3>2
  <2>7. ASSUME NEW h \in Handlers, HandlerReturns(h)
        PROVE [Lifetime!Next]_(Lifetime!vars)
    <3>1. h \in using /\ using' = using \ {h} /\ repository' = repository
      BY <2>7, WorkerAssumption DEF HandlerReturns, TrackerInv
    <3>2. QED
      BY <3>1 DEF Lifetime!Release, Lifetime!Next
  <2>8. CASE WorkerTick
    <3>1. repository = "open"
      BY <2>8 DEF WorkerTick, MainInv, CloserInv, Quiet, Started
    <3>2. Worker \notin using /\ using' = using \cup {Worker} /\ repository' = repository
      BY <2>8, WorkerAssumption DEF WorkerTick
    <3>3. QED
      BY <3>1, <3>2 DEF Lifetime!Acquire, Lifetime!Next
  <2>9. CASE WorkerRan
    <3>1. Worker \in using /\ using' = using \ {Worker} /\ repository' = repository
      BY <2>9, WorkerAssumption DEF WorkerRan
    <3>2. QED
      BY <3>1 DEF Lifetime!Release, Lifetime!Next
  <2>10. CASE WorkerReturns \/ CloserWaitHandlers \/ CloserWaitWorker \/ CloserDone
    BY <2>10 DEF WorkerReturns, CloserWaitHandlers, CloserWaitWorker, CloserDone, Lifetime!vars
  <2>11. CASE CloserCloses
    <3>1. repository = "open" /\ repository' = "closed" /\ using = {} /\ using' = {}
      BY <2>11 DEF CloserCloses, MainInv, CloserInv, TrackerInv, Quiet, Started
    <3>2. QED
      BY <3>1 DEF Lifetime!Close, Lifetime!Next
  <2>12. QED
    BY <2>1, <2>2, <2>3, <2>4, <2>5, <2>6, <2>7, <2>8, <2>9, <2>10, <2>11
       DEF Next, Main, HandlerRuns, Closer
<1>3. QED
  BY <1>1, <1>2, Invariance, PTL DEF Spec, RespectsLifetime, Lifetime!Spec
==============================================================================
