---------------------------- MODULE KeyDerivation ----------------------------
(***************************************************************************)
(* deriveRootLinkKeys and derivePasswordKey in the browser: a worker       *)
(* derives the keys, the page falls back to its own thread when the worker *)
(* cannot be used, and the page's abort signal may arrive at any time.     *)
(* Each call has a worker of its own; all calls share one signal, as those *)
(* of a page do.                                                           *)
(*                                                                         *)
(* A step of the page is one task of its event loop. A key array is        *)
(* wherever the code last put it; "lost" is an array the page was given    *)
(* and neither passed on nor zero-filled. What a caller does with the keys *)
(* it was handed is OpenLink's.                                            *)
(***************************************************************************)
EXTENDS Naturals, FiniteSets

CONSTANT Calls      \* calls of the two functions

VARIABLES
    aborted,    \* the signal
    promise,    \* [Calls -> {"none", "pending", "resolved", "rejected"}]
    worker,     \* [Calls -> {"none", "running", "posted", "failed", "terminated"}]
    event,      \* [Calls -> {"none", "keys", "message", "error"}]: what the worker's
                \* side has queued for the page
    fallback,   \* [Calls -> {"none", "running", "done"}]
    secret,     \* [Calls -> {"live", "wiped"}]: the caller's own input
    fallbackOf, \* [Calls -> {"none", "live", "wiped"}]: the input the fallback copied
    keys,       \* [Calls -> set of places derived keys are in]
    abandoned   \* the calls whose results nobody awaits any more

vars == <<aborted, promise, worker, event, fallback, secret, fallbackOf, keys, abandoned>>

Init ==
    /\ aborted = FALSE
    /\ promise = [c \in Calls |-> "none"]
    /\ worker = [c \in Calls |-> "none"]
    /\ event = [c \in Calls |-> "none"]
    /\ fallback = [c \in Calls |-> "none"]
    /\ secret = [c \in Calls |-> "live"]
    /\ fallbackOf = [c \in Calls |-> "none"]
    /\ keys = [c \in Calls |-> {}]
    /\ abandoned = {}

settled(c) == promise[c] \in {"resolved", "rejected"}
fallbackStarted(c) == fallback[c] /= "none"

Terminated(w) == IF w = "none" THEN "none" ELSE "terminated"

\* Where a key goes.
Put(c, place) == keys' = [keys EXCEPT ![c] = @ \cup {place}]

\* Who gets what the promise is resolved with.
Receiver(c) == IF c \in abandoned THEN "lost" ELSE "caller"

\* Mutated form: a late result is dropped as it is.
resolveOnceLate(c) ==
    IF settled(c)
    THEN Put(c, "lost") /\ UNCHANGED <<promise, worker>>
    ELSE /\ promise' = [promise EXCEPT ![c] = "resolved"]
         /\ worker' = [worker EXCEPT ![c] = Terminated(@)]
         /\ Put(c, Receiver(c))

resolveOnce(c) ==
    IF settled(c)
    THEN Put(c, "wiped") /\ UNCHANGED <<promise, worker>>
    ELSE /\ promise' = [promise EXCEPT ![c] = "resolved"]
         /\ worker' = [worker EXCEPT ![c] = Terminated(@)]
         /\ Put(c, Receiver(c))

rejectOnce(c) ==
    IF settled(c) THEN UNCHANGED <<promise, worker>>
    ELSE /\ promise' = [promise EXCEPT ![c] = "rejected"]
         /\ worker' = [worker EXCEPT ![c] = Terminated(@)]

MayFallBack(c) == ~settled(c) /\ ~fallbackStarted(c)

\* deriveWithoutWorker up to its await: the input is copied.
BeginFallback(c) ==
    /\ fallback' = [fallback EXCEPT ![c] = "running"]
    /\ fallbackOf' = [fallbackOf EXCEPT ![c] = secret[c]]

------------------------------------------------------------------------------
\* The call: refused when aborted, without a worker when there is none, else the
\* input is posted to a new worker. Posting may throw, which starts the fallback.

CallAborted(c) ==
    /\ promise[c] = "none" /\ aborted
    /\ promise' = [promise EXCEPT ![c] = "rejected"]
    /\ UNCHANGED <<aborted, worker, event, fallback, secret, fallbackOf, keys, abandoned>>

CallWithoutWorker(c) ==
    /\ promise[c] = "none" /\ ~aborted
    /\ promise' = [promise EXCEPT ![c] = "pending"]
    /\ BeginFallback(c)
    /\ UNCHANGED <<aborted, worker, event, secret, keys, abandoned>>

CallWorker(c) ==
    /\ promise[c] = "none" /\ ~aborted
    /\ promise' = [promise EXCEPT ![c] = "pending"]
    /\ worker' = [worker EXCEPT ![c] = "running"]
    /\ UNCHANGED <<aborted, event, fallback, secret, fallbackOf, keys, abandoned>>

\* Mutated form: the exception is swallowed.
PostFailsQuietly(c) ==
    /\ promise[c] = "none" /\ ~aborted
    /\ promise' = [promise EXCEPT ![c] = "pending"]
    /\ worker' = [worker EXCEPT ![c] = "terminated"]
    /\ UNCHANGED <<aborted, event, fallback, secret, fallbackOf, keys, abandoned>>

PostFails(c) ==
    /\ promise[c] = "none" /\ ~aborted
    /\ promise' = [promise EXCEPT ![c] = "pending"]
    /\ worker' = [worker EXCEPT ![c] = "terminated"]
    /\ BeginFallback(c)
    /\ UNCHANGED <<aborted, event, secret, keys, abandoned>>

------------------------------------------------------------------------------
\* The worker: keys or an error message, or it fails and an error event is fired.

WorkerPosts(c) ==
    /\ worker[c] = "running"
    /\ worker' = [worker EXCEPT ![c] = "posted"]
    /\ \E what \in {"keys", "message"} : event' = [event EXCEPT ![c] = what]
    /\ UNCHANGED <<aborted, promise, fallback, secret, fallbackOf, keys, abandoned>>

WorkerFails(c) ==
    /\ worker[c] = "running"
    /\ worker' = [worker EXCEPT ![c] = "failed"]
    /\ event' = [event EXCEPT ![c] = "error"]
    /\ UNCHANGED <<aborted, promise, fallback, secret, fallbackOf, keys, abandoned>>

\* What terminating a worker does to an event already queued: it may be dropped.
EventDropped(c) ==
    /\ worker[c] = "terminated"
    /\ event[c] /= "none"
    /\ event' = [event EXCEPT ![c] = "none"]
    /\ UNCHANGED <<aborted, promise, worker, fallback, secret, fallbackOf, keys, abandoned>>

------------------------------------------------------------------------------
\* The page's listeners.

OnMessage(c) ==
    /\ event[c] \in {"keys", "message"}
    /\ event' = [event EXCEPT ![c] = "none"]
    /\ IF fallbackStarted(c)
       THEN IF event[c] = "keys" THEN Put(c, "lost") /\ UNCHANGED <<promise, worker>>
                                 ELSE UNCHANGED <<promise, worker, keys>>
       ELSE IF event[c] = "keys" THEN resolveOnce(c)
       ELSE rejectOnce(c) /\ UNCHANGED keys
    /\ UNCHANGED <<aborted, fallback, secret, fallbackOf, abandoned>>

OnError(c) ==
    /\ event[c] = "error"
    /\ event' = [event EXCEPT ![c] = "none"]
    /\ IF MayFallBack(c)
       THEN BeginFallback(c) /\ worker' = [worker EXCEPT ![c] = Terminated(@)]
       ELSE UNCHANGED <<fallback, fallbackOf, worker>>
    /\ UNCHANGED <<aborted, promise, secret, keys, abandoned>>

\* The calls whose abort listener is there: those with a worker.
AbortedPromises == {c \in Calls : promise[c] = "pending" /\ worker[c] /= "none"}

Abort ==
    /\ ~aborted
    /\ aborted' = TRUE
    /\ promise' = [c \in Calls |-> IF c \in AbortedPromises THEN "rejected" ELSE promise[c]]
    /\ worker' = [c \in Calls |->
                    IF c \in AbortedPromises THEN Terminated(worker[c]) ELSE worker[c]]
    /\ UNCHANGED <<event, fallback, secret, fallbackOf, keys, abandoned>>

\* The rest of deriveWithoutWorker. Keys derived after the abort are wiped here.
FallbackEnds(c) ==
    /\ fallback[c] = "running"
    /\ fallback' = [fallback EXCEPT ![c] = "done"]
    /\ \/ IF aborted THEN rejectOnce(c) /\ Put(c, "wiped") ELSE resolveOnce(c)
       \/ rejectOnce(c) /\ UNCHANGED keys
    /\ UNCHANGED <<aborted, event, secret, fallbackOf, abandoned>>

\* The caller wipes its input once the promise is settled, or when it has aborted.
CallerWipes(c) ==
    /\ settled(c) \/ aborted
    /\ secret[c] = "live"
    /\ secret' = [secret EXCEPT ![c] = "wiped"]
    /\ UNCHANGED <<aborted, promise, worker, event, fallback, fallbackOf, keys, abandoned>>

\* The other promise of the caller's Promise.all is rejected: the page fails and wipes
\* the input under the derivation, which goes on. A fallback that starts later finds
\* a wiped input. The signal is not aborted. (This is the id of deriveRootLinkKeys; a
\* password is a string, which the page can only forget.)
CallerFails(c) ==
    /\ promise[c] = "pending" /\ ~aborted
    /\ c \notin abandoned
    /\ abandoned' = abandoned \cup {c}
    /\ secret' = [secret EXCEPT ![c] = "wiped"]
    /\ UNCHANGED <<aborted, promise, worker, event, fallback, fallbackOf, keys>>

Derivation(c) == WorkerPosts(c) \/ WorkerFails(c) \/ OnMessage(c) \/ OnError(c) \/ FallbackEnds(c)

Next ==
    \/ Abort
    \/ \E c \in Calls :
        \/ CallAborted(c) \/ CallWithoutWorker(c) \/ CallWorker(c) \/ PostFails(c)
        \/ Derivation(c)
        \/ EventDropped(c)
        \/ CallerWipes(c) \/ CallerFails(c)

\* Workers run and event loops turn; nobody has to abort.
Fairness == \A c \in Calls : WF_vars(Derivation(c))
------------------------------------------------------------------------------
\* Properties.

\* Every key array that reaches the page is handed to the caller or zero-filled,
\* whichever of the message, the fallback and the abort comes last, and at most one
\* is handed out. A fallback on an input the caller has zero-filled gives keys of the
\* wrong link, which look like keys: they reach no caller. The exception is a caller
\* that failed while the keys were derived; what is resolved after that is left as it
\* is, and nobody has it.
KeysAccounted ==
    \A c \in Calls :
        /\ "lost" \in keys[c] => c \in abandoned
        /\ "caller" \in keys[c] <=> promise[c] = "resolved" /\ c \notin abandoned
        /\ fallbackOf[c] = "wiped" => c \in abandoned

\* Every call settles, although workers fail and messages are dropped.
EveryCallSettles == \A c \in Calls : promise[c] = "pending" ~> settled(c)
==============================================================================
