-------------------------- MODULE SafeBrowsingCache --------------------------
(***************************************************************************)
(* safeBrowsingLookup, the Cache in front of the Safe Browsing client, and *)
(* the client with its bounded concurrency.                                *)
(*                                                                         *)
(* The cache's mutex is held for one get or one put, so lookups interleave *)
(* between prefixes and around the provider call. Prefixes are taken in    *)
(* the order of the request, which is arbitrary: Get picks any of those    *)
(* left. The full hashes of a prefix are abstracted to one verdict: there  *)
(* is a threat with this prefix, or not. Times are in seconds.             *)
(***************************************************************************)
EXTENDS Naturals, Sequences, SequencesExt, FiniteSets

CONSTANTS
    Lookups,                \* requests
    HashPrefixes,
    MaxPrefixes,
    MaxEntries,             \* capacity of the cache
    MaxConcurrentRequests,  \* capacity of the client's semaphore
    Durations,              \* cache durations the provider returns
    NoEntry,
    MaxTime                 \* bound on the clock

ASSUME LimitsAssumption ==
    /\ MaxPrefixes \in Nat \ {0}
    /\ MaxEntries \in Nat \ {0}
    /\ MaxConcurrentRequests \in Nat \ {0}
    /\ MaxTime \in Nat \ {0}
    /\ Durations \subseteq Nat

\* A prefix is four bytes: there are finitely many.
ASSUME PrefixesAssumption == IsFiniteSet(HashPrefixes)

VARIABLES
    clock,
    listed,     \* the provider's list of threats at each time, fixed
    entries,    \* Cache.entries and the values of its list elements
    lru,        \* Cache.lru, most recently used first
    pc,         \* per lookup: what it does next
    asked,      \* per lookup: the prefixes of its request
    now,        \* per lookup: the time it read first
    todo,       \* per lookup: prefixes it has not looked for in the cache yet
    missing,    \* per lookup: prefixes the cache did not have, in order
    fetched,    \* per lookup: the provider's answer
    result,     \* per lookup: verdicts collected so far
    slots       \* semaphore slots taken

vars == <<clock, listed, entries, lru, pc, asked, now, todo, missing, fetched, result, slots>>

\* A cached verdict; at and seconds are history: when the provider gave it, and for
\* how long.
Entry(threat, expiresAt, at, seconds) ==
    [threat |-> threat, expiresAt |-> expiresAt, at |-> at, seconds |-> seconds]

Entries == [threat : BOOLEAN, expiresAt : Nat, at : Nat, seconds : Nat]

ASSUME NoEntryAssumption == NoEntry \notin Entries

NoAnswer == [threats |-> {}, at |-> 0, seconds |-> 0]

Init ==
    /\ clock = 1
    /\ listed \in [1 .. MaxTime -> SUBSET HashPrefixes]
    /\ entries = [p \in HashPrefixes |-> NoEntry]
    /\ lru = <<>>
    /\ pc = [l \in Lookups |-> "idle"]
    /\ asked = [l \in Lookups |-> {}]
    /\ now = [l \in Lookups |-> 0]
    /\ todo = [l \in Lookups |-> {}]
    /\ missing = [l \in Lookups |-> <<>>]
    /\ fetched = [l \in Lookups |-> NoAnswer]
    /\ result = [l \in Lookups |-> {}]
    /\ slots = 0

------------------------------------------------------------------------------
\* The cache.

\* The list without the element the map has for p.
Without(p) == RemoveAt(lru, CHOOSE i \in DOMAIN lru : lru[i] = p)

\* MoveToFront of an element the map has, PushFront of a new one.
ToFront(p) == <<p>> \o (IF entries[p] = NoEntry THEN lru ELSE Without(p))

\* remainingCacheSeconds and the verdict a request gets for p.
Verdict(p, entry, t) ==
    [prefix |-> p, entry |-> entry, remaining |-> IF t < entry.expiresAt THEN entry.expiresAt - t ELSE 0]

\* Cache.get of one prefix. An expired entry is dropped.
Get(l) ==
    /\ pc[l] = "get"
    /\ \E p \in todo[l] :
        /\ todo' = [todo EXCEPT ![l] = @ \ {p}]
        /\ \/ /\ entries[p] /= NoEntry /\ now[l] < entries[p].expiresAt
              /\ result' = [result EXCEPT ![l] = @ \cup {Verdict(p, entries[p], now[l])}]
              /\ lru' = ToFront(p)
              /\ UNCHANGED <<entries, missing>>
           \/ /\ entries[p] /= NoEntry /\ now[l] >= entries[p].expiresAt
              /\ entries' = [entries EXCEPT ![p] = NoEntry]
              /\ lru' = Without(p)
              /\ missing' = [missing EXCEPT ![l] = Append(@, p)]
              /\ UNCHANGED result
           \/ /\ entries[p] = NoEntry
              /\ missing' = [missing EXCEPT ![l] = Append(@, p)]
              /\ UNCHANGED <<entries, lru, result>>
    /\ pc' = [pc EXCEPT ![l] = IF todo'[l] /= {} THEN "get"
                               ELSE IF missing'[l] = <<>> THEN "ok" ELSE "acquire"]
    /\ UNCHANGED <<clock, listed, asked, now, fetched, slots>>

\* Mutated form: the evicted prefix stays in the map.
Evict_ListOnly(table, list) ==
    [entries |-> table, lru |-> IF Len(list) > MaxEntries THEN Front(list) ELSE list]

\* The loop at the end of put. One put adds at most one element to a list that was
\* within its bound, so it runs at most once.
Evict(table, list) ==
    IF Len(list) > MaxEntries
    THEN [entries |-> [table EXCEPT ![Last(list)] = NoEntry], lru |-> Front(list)]
    ELSE [entries |-> table, lru |-> list]

\* Mutated form: the answer's duration counts from the time it is stored.
ExpiresAt_FromPut(l) == clock + fetched[l].seconds

\* The duration counts from the time the lookup started, before the request.
ExpiresAt(l) == now[l] + fetched[l].seconds

\* Cache.put of the next missing prefix, and its place in the result.
Put(l) ==
    LET p == Head(missing[l])
        entry == Entry(p \in fetched[l].threats, ExpiresAt(l), fetched[l].at, fetched[l].seconds)
        kept == Evict([entries EXCEPT ![p] = entry], ToFront(p))
    IN  /\ pc[l] = "put"
        /\ entries' = kept.entries
        /\ lru' = kept.lru
        /\ missing' = [missing EXCEPT ![l] = Tail(@)]
        /\ result' = [result EXCEPT ![l] = @ \cup {Verdict(p, entry, now[l])}]
        /\ pc' = [pc EXCEPT ![l] = IF Len(missing[l]) = 1 THEN "ok" ELSE "put"]
        /\ UNCHANGED <<clock, listed, asked, now, todo, fetched, slots>>

------------------------------------------------------------------------------
\* The handler and the client.

\* safeBrowsingLookup and deduplicatePrefixes: the request's prefixes as a set.
Start(l, P) ==
    /\ pc[l] = "idle"
    /\ asked' = [asked EXCEPT ![l] = P]
    /\ IF P = {} \/ Cardinality(P) > MaxPrefixes
       THEN pc' = [pc EXCEPT ![l] = "invalid_request"] /\ UNCHANGED <<now, todo>>
       ELSE /\ pc' = [pc EXCEPT ![l] = "get"]
            /\ now' = [now EXCEPT ![l] = clock]
            /\ todo' = [todo EXCEPT ![l] = P]
    /\ UNCHANGED <<clock, listed, entries, lru, missing, fetched, result, slots>>

\* Client.Lookup takes a slot or refuses.
Acquire(l) ==
    /\ pc[l] = "acquire"
    /\ IF slots < MaxConcurrentRequests
       THEN slots' = slots + 1 /\ pc' = [pc EXCEPT ![l] = "fetch"]
       ELSE UNCHANGED slots /\ pc' = [pc EXCEPT ![l] = "rate_limited"]
    /\ UNCHANGED <<clock, listed, entries, lru, asked, now, todo, missing, fetched, result>>

\* Mutated form: only an answer gives the slot back.
Released_OnAnswer(answered) == IF answered THEN slots - 1 ELSE slots

\* The deferred release of the slot.
Released(answered) == slots - 1

\* The provider's answer for the missing prefixes, or an error: no answer, one that
\* cannot be decoded or has no duration, or one about a prefix nobody asked for. An
\* error leaves the cache alone and drops the verdicts found in it.
Fetch(l) ==
    /\ pc[l] = "fetch"
    /\ \/ /\ slots' = Released(TRUE)
          /\ \E s \in Durations :
                fetched' = [fetched EXCEPT ![l] =
                    [threats |-> listed[clock] \cap ToSet(missing[l]), at |-> clock, seconds |-> s]]
          /\ pc' = [pc EXCEPT ![l] = "put"]
          /\ UNCHANGED result
       \/ /\ slots' = Released(FALSE)
          /\ pc' = [pc EXCEPT ![l] = "dependency_unavailable"]
          /\ result' = [result EXCEPT ![l] = {}]
          /\ UNCHANGED fetched
    /\ UNCHANGED <<clock, listed, entries, lru, asked, now, todo, missing>>

Tick ==
    /\ clock < MaxTime
    /\ clock' = clock + 1
    /\ UNCHANGED <<listed, entries, lru, pc, asked, now, todo, missing, fetched, result, slots>>

Next ==
    \/ \E l \in Lookups :
        \/ \E P \in SUBSET HashPrefixes : Start(l, P)
        \/ Get(l) \/ Acquire(l) \/ Fetch(l) \/ Put(l)
    \/ Tick

Spec == Init /\ [][Next]_vars

------------------------------------------------------------------------------
\* Properties.

\* A lookup that succeeds has one verdict per prefix it asked for, each is what the
\* provider said of that prefix, and a cached one is still covered by the duration
\* the provider gave with it when the lookup starts; so is the time it reports as
\* remaining. Lookups may be overtaken between get, fetch and put, and evict or
\* overwrite each other's entries.
VerdictsHonoured ==
    \A l \in Lookups : pc[l] = "ok" =>
        /\ asked[l] = {v.prefix : v \in result[l]}
        /\ Cardinality(asked[l]) = Cardinality(result[l])
        /\ \A v \in result[l] :
            /\ v.entry.threat <=> v.prefix \in listed[v.entry.at]
            /\ v.entry.at >= now[l] \/ now[l] < v.entry.at + v.entry.seconds
            /\ now[l] + v.remaining <= v.entry.at + v.entry.seconds

\* The map and the list of the cache hold the same prefixes, each once, and no more
\* than its capacity, after any sequence of hits, expiries, insertions and evictions.
MapMatchesList ==
    /\ {p \in HashPrefixes : entries[p] /= NoEntry} = ToSet(lru)
    /\ IsInjective(lru)
    /\ Len(lru) <= MaxEntries

\* A slot of the client's semaphore is taken exactly while a lookup waits for the
\* provider.
SlotsMatchFetches == slots = Cardinality({l \in Lookups : pc[l] = "fetch"})
==============================================================================
