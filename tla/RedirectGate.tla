----------------------------- MODULE RedirectGate -----------------------------
(***************************************************************************)
(* The last step of opening a URL link: RedirectGate.svelte and its        *)
(* RedirectCoordinator, which look the destination up and redirect to it.  *)
(*                                                                         *)
(* OpenLink mounts a gate with the promise of the destination, unmounts it *)
(* when the password turns out to be wrong, and mounts another with a new  *)
(* promise; a gate lives on after that as far as its callbacks do. A step  *)
(* is one task of the event loop or an action of the user on what the page *)
(* shows.                                                                  *)
(***************************************************************************)
EXTENDS Naturals, FiniteSets

CONSTANT Gates      \* gates the page mounts one after the other, 1 .. n

VARIABLES
    enabled,        \* RuntimeConfig.safeBrowsingEnabled
    life,           \* [Gates -> {"new", "mounted", "destroyed"}]
    destination,    \* [Gates -> {"pending", "resolved", "rejected"}]: the promise
    scan,           \* [Gates -> {"none", "destination", "lookup", "clean", "threat",
                    \* "failed", "over"}]: how far the scan's promise is
    scanState,      \* [Gates -> ScanState]
    aborted,        \* the coordinators whose signal is aborted
    redirected,     \* the coordinators that have redirected
    chosen,         \* gates whose user chose to open the destination
    visits          \* the calls of location.replace: gate, scanState, chosen, life

vars == <<enabled, life, destination, scan, scanState, aborted, redirected, chosen, visits>>

Init ==
    /\ enabled \in BOOLEAN
    /\ life = [g \in Gates |-> "new"]
    /\ destination = [g \in Gates |-> "pending"]
    /\ scan = [g \in Gates |-> "none"]
    /\ scanState = [g \in Gates |-> "scanning"]
    /\ aborted = {}
    /\ redirected = {}
    /\ chosen = {}
    /\ visits = {}

\* redirect: the destination has been resolved whenever it is called.
Redirect(g, state) ==
    visits' = visits \cup {[gate |-> g, verdict |-> state, chosen |-> g \in chosen',
                            shown |-> life[g] = "mounted", nth |-> Cardinality(visits) + 1]}

\* Mutated form: every call redirects.
RedirectEach(g, state) ==
    /\ redirected' = redirected \cup {g}
    /\ Redirect(g, state)

RedirectOnce(g, state) ==
    IF g \in redirected THEN UNCHANGED <<redirected, visits>>
    ELSE redirected' = redirected \cup {g} /\ Redirect(g, state)

------------------------------------------------------------------------------
\* onMount: with Safe Browsing the coordinator starts.
Mount(g) ==
    /\ life[g] = "new"
    /\ \A h \in Gates : h < g => life[h] = "destroyed"
    /\ life' = [life EXCEPT ![g] = "mounted"]
    /\ scan' = [scan EXCEPT ![g] = IF enabled THEN "destination" ELSE "none"]
    /\ UNCHANGED <<enabled, destination, scanState, aborted, redirected, chosen, visits>>

\* onDestroy: the coordinator is cancelled.
Destroy(g) ==
    /\ life[g] = "mounted"
    /\ life' = [life EXCEPT ![g] = "destroyed"]
    /\ aborted' = IF enabled THEN aborted \cup {g} ELSE aborted
    /\ UNCHANGED <<enabled, destination, scan, scanState, redirected, chosen, visits>>

\* The envelope is decrypted, or it cannot be.
DestinationSettles(g) ==
    /\ life[g] /= "new"
    /\ destination[g] = "pending"
    /\ \E outcome \in {"resolved", "rejected"} :
            destination' = [destination EXCEPT ![g] = outcome]
    /\ UNCHANGED <<enabled, life, scan, scanState, aborted, redirected, chosen, visits>>

------------------------------------------------------------------------------
\* The scan: it waits for the destination, hashes it, asks the server.

ScanDestination(g) ==
    /\ scan[g] = "destination"
    /\ destination[g] /= "pending"
    /\ scan' = [scan EXCEPT ![g] =
            IF destination[g] = "rejected" \/ g \in aborted THEN "failed" ELSE "lookup"]
    /\ UNCHANGED <<enabled, life, destination, scanState, aborted, redirected, chosen, visits>>

\* The lookup and findBlockingMatch; an aborted fetch fails, unless its answer was
\* already there.
LookupAnswers(g) ==
    /\ scan[g] = "lookup"
    /\ \E outcome \in {"clean", "threat", "failed"} : scan' = [scan EXCEPT ![g] = outcome]
    /\ UNCHANGED <<enabled, life, destination, scanState, aborted, redirected, chosen, visits>>

\* Mutated form: the callbacks do not look at the signal.
CancelledIgnored(g) == FALSE

Cancelled(g) == g \in aborted

\* Mutated form: a failed scan is not reported.
VerdictQuiet(g) == IF scan[g] = "failed" THEN "scanning" ELSE scan[g]

Verdict(g) == IF scan[g] = "failed" THEN "error" ELSE scan[g]

\* start's callbacks.
ScanSettles(g) ==
    /\ scan[g] \in {"clean", "threat", "failed"}
    /\ scan' = [scan EXCEPT ![g] = "over"]
    /\ IF Cancelled(g) THEN UNCHANGED <<scanState, redirected, chosen, visits>>
       ELSE /\ scanState' = [scanState EXCEPT ![g] = Verdict(g)]
            /\ UNCHANGED chosen
            /\ IF Verdict(g) = "clean" THEN RedirectOnce(g, "clean")
               ELSE UNCHANGED <<redirected, visits>>
    /\ UNCHANGED <<enabled, life, destination, aborted>>

------------------------------------------------------------------------------
\* The user, on a gate that is on the page and shows the destination.

Shows(g) == life[g] = "mounted" /\ destination[g] = "resolved"

\* "Open without safety check", offered when the scan has failed.
openWithoutSafetyCheck(g) ==
    /\ Shows(g) /\ enabled /\ scanState[g] = "error"
    /\ aborted' = aborted \cup {g}
    /\ chosen' = chosen \cup {g}
    /\ RedirectOnce(g, scanState[g])
    /\ UNCHANGED <<enabled, life, destination, scan, scanState>>

\* "Open destination", offered when Safe Browsing is off.
OpenDestination(g) ==
    /\ Shows(g) /\ ~enabled /\ g \notin chosen
    /\ chosen' = chosen \cup {g}
    /\ Redirect(g, "none")
    /\ UNCHANGED <<enabled, life, destination, scan, scanState, aborted, redirected>>

Work(g) == ScanDestination(g) \/ LookupAnswers(g) \/ ScanSettles(g)

Next ==
    \E g \in Gates :
        \/ Mount(g) \/ Destroy(g) \/ DestinationSettles(g)
        \/ Work(g)
        \/ openWithoutSafetyCheck(g) \/ OpenDestination(g)

\* Promises are settled and callbacks run; no user has to do anything.
Fairness == \A g \in Gates : WF_vars(Work(g))
------------------------------------------------------------------------------
\* Properties.

\* A destination is opened by the user's choice or by the clean verdict of its own
\* gate while that gate is on the page: a verdict that arrives after the gate was
\* cancelled or replaced opens nothing, and a threat is never opened. A gate with a
\* safety check redirects at most once, although the user may choose to open it
\* again while the page is going away.
OpensOnlyWhenCleared ==
    \A v \in visits :
        /\ v.shown
        /\ v.verdict /= "threat"
        /\ v.chosen \/ (enabled /\ v.verdict = "clean")
        /\ enabled => \A w \in visits : v.gate = w.gate => v = w

\* A link with a decrypted destination does not hang: it is opened, or the page
\* tells the user why not, or it was left.
ScanConcludes ==
    \A g \in Gates :
        (enabled /\ life[g] = "mounted" /\ destination[g] = "resolved")
            ~> (life[g] = "destroyed" \/ scanState[g] \in {"threat", "error"} \/ g \in redirected)
==============================================================================
