----------------------------- MODULE LinkService ------------------------------
(***************************************************************************)
(* What the envelope API promises to the people who publish and open       *)
(* links: one table of links in which everything happens in one step. A    *)
(* link is published under a key that is free, and never changes; it goes  *)
(* when it has expired or when somebody takes it, and only the one who     *)
(* takes a burn-after-reading link receives it. Lookups before a create,   *)
(* the provider, its semaphore, lost answers of a database, contexts and   *)
(* the worker are gone. EnvelopeApi implements it.                         *)
(***************************************************************************)
EXTENDS EnvelopeStore

CONSTANTS
    Users,                  \* one request each
    Calls,                  \* what they may ask for, and when
    CreateCaptchaRequired

VARIABLES
    clock,
    links,      \* key -> link or NoRecord
    call,       \* per user: what it asks for, and when
    verified,   \* users whose CAPTCHA was accepted
    found,      \* per user: the link its access has found
    got,        \* per user: the envelope it was handed, or NoRecord
    unlocked,   \* users who were handed a CAPTCHA key with it
    answered    \* users for whom nothing more is done

vars == <<clock, links, call, verified, found, got, unlocked, answered>>

Init ==
    /\ clock = 1
    /\ links = [k \in Keys |-> NoRecord]
    /\ call = [u \in Users |-> [op |-> "none"]]
    /\ verified = {}
    /\ found = [u \in Users |-> NoRecord]
    /\ got = [u \in Users |-> NoRecord]
    /\ unlocked = {}
    /\ answered = {}

------------------------------------------------------------------------------
\* What user u asked for, as long as it waits for an answer.
Waiting(u, op) == u \notin answered /\ call[u].op = op

Answers(u) == answered' = answered \cup {u}

\* The arguments are the user's, the time is the server's. Some are refused at once.
Ask(u) ==
    /\ call[u].op = "none"
    /\ \E c \in Calls : c.now = clock /\ call' = [call EXCEPT ![u] = c]
    /\ Answers(u) \/ UNCHANGED answered
    /\ UNCHANGED <<clock, links, verified, found, got, unlocked>>

\* Refusals and failures, which leave nothing behind, and answers without an envelope.
GiveUp(u) ==
    /\ u \notin answered /\ call[u].op /= "none"
    /\ Answers(u)
    /\ UNCHANGED <<clock, links, call, verified, found, got, unlocked>>

Link(u) ==
    [body |-> call[u].body,
     expiresAt |-> IF call[u].body.ttl = 0 THEN NoExpiry ELSE call[u].now + call[u].body.ttl,
     by |-> u]

\* One envelope per user, under a free key; where creates need a CAPTCHA, a user who
\* has solved one.
Publish(u) ==
    /\ Waiting(u, "create")
    /\ CreateCaptchaRequired => u \in verified
    /\ links[call[u].key] = NoRecord
    /\ links' = Insert(links, call[u].key, Link(u))
    /\ Answers(u)
    /\ UNCHANGED <<clock, call, verified, found, got, unlocked>>

\* The link a user's key leads to at the time of the request.
There(u) == Visible(links, call[u].key, call[u].now)

\* An envelope is handed out, with a CAPTCHA key only if it has one.
Hand(u, link, withKey) ==
    /\ got' = [got EXCEPT ![u] = link]
    /\ IF withKey THEN link.body.captcha /\ unlocked' = unlocked \cup {u}
                  ELSE UNCHANGED unlocked
    /\ Answers(u)

\* A link without protection, for whoever has the key.
Read(u) ==
    /\ Waiting(u, "get")
    /\ There(u) /= NoRecord /\ ~There(u).body.captcha /\ ~There(u).body.burn
    /\ Hand(u, There(u), FALSE)
    /\ UNCHANGED <<clock, links, call, verified, found>>

\* Protected links: which one a user deals with is decided once.
Find(u) ==
    /\ Waiting(u, "access") /\ found[u] = NoRecord
    /\ There(u) /= NoRecord
    /\ found' = [found EXCEPT ![u] = There(u)]
    /\ Answers(u) \/ UNCHANGED answered
    /\ UNCHANGED <<clock, links, call, verified, got, unlocked>>

\* A CAPTCHA is solved, once per user: for a create or for the link found, which is
\* handed out unless it has to be taken.
Verify(u) ==
    /\ u \notin verified
    /\ verified' = verified \cup {u}
    /\ \/ Waiting(u, "create") /\ UNCHANGED <<got, unlocked, answered>>
       \/ /\ Waiting(u, "access") /\ found[u] /= NoRecord /\ found[u].body.captcha
          /\ IF found[u].body.burn THEN UNCHANGED <<got, unlocked, answered>>
                                   ELSE Hand(u, found[u], TRUE)
    /\ UNCHANGED <<clock, links, call, found>>

\* Whoever has found a burn-after-reading link, and solved its CAPTCHA, takes what is
\* under the key, once: it is gone for everybody else, also if it does not arrive.
Take(u) ==
    /\ Waiting(u, "access") /\ found[u] /= NoRecord /\ found[u].body.burn
    /\ found[u].body.captcha => u \in verified
    /\ There(u) /= NoRecord
    /\ links' = Delete(links, {call[u].key})
    /\ \/ Hand(u, There(u), found[u].body.captcha)
       \/ Answers(u) /\ UNCHANGED <<got, unlocked>>
    /\ UNCHANGED <<clock, call, verified, found>>

\* Links go when they have expired, some earlier than others.
Expire ==
    /\ \E S \in SUBSET Expired(links, clock) : links' = Delete(links, S)
    /\ UNCHANGED <<clock, call, verified, found, got, unlocked, answered>>

Tick ==
    /\ clock' = clock + 1
    /\ UNCHANGED <<links, call, verified, found, got, unlocked, answered>>

Next ==
    \/ \E u \in Users : Ask(u) \/ GiveUp(u) \/ Publish(u) \/ Read(u) \/ Find(u)
                        \/ Verify(u) \/ Take(u)
    \/ Expire \/ Tick

Spec == Init /\ [][Next]_vars
==============================================================================
