-------------------------- MODULE RepositoryLifetime --------------------------
(***************************************************************************)
(* What the server promises about its repository: it is opened at most     *)
(* once, goroutines use it only while it is open, and it is closed at most *)
(* once, when nobody uses it and nobody will again.                        *)
(***************************************************************************)
CONSTANT Users      \* the goroutines that call the repository

VARIABLES
    phase,          \* "unopened", "open", "closed"
    using           \* the users that are in the middle of their calls

vars == <<phase, using>>

Init == phase = "unopened" /\ using = {}

Open == phase = "unopened" /\ phase' = "open" /\ UNCHANGED using

Acquire(u) == phase = "open" /\ u \notin using /\ using' = using \cup {u} /\ UNCHANGED phase

Release(u) == u \in using /\ using' = using \ {u} /\ UNCHANGED phase

Close == phase = "open" /\ using = {} /\ phase' = "closed" /\ UNCHANGED using

Next == Open \/ Close \/ \E u \in Users : Acquire(u) \/ Release(u)

Spec == Init /\ [][Next]_vars
==============================================================================
