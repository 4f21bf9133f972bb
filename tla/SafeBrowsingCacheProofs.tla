----------------------- MODULE SafeBrowsingCacheProofs ------------------------
(***************************************************************************)
(* Proofs about SafeBrowsingCache, for any number of lookups and any       *)
(* limits: the cache's map and list stay in step, every slot of the        *)
(* client's semaphore is returned, and every verdict of a lookup that      *)
(* succeeds is one the provider gave and still vouches for.                *)
(***************************************************************************)
EXTENDS SafeBrowsingCache, FiniteSetTheorems, SequenceTheorems, TLAPS

------------------------------------------------------------------------------
\* Lists without duplicates: what the list operations do to the set of elements.

\* The elements of a list after one of them is unlinked (list.Remove).
LEMMA RemoveAtProperties ==
  ASSUME NEW S, NEW s \in Seq(S), NEW i \in 1 .. Len(s)
  PROVE  /\ RemoveAt(s, i) \in Seq(S)
         /\ Len(RemoveAt(s, i)) = Len(s) - 1
         /\ \A j \in 1 .. Len(s) - 1 : RemoveAt(s, i)[j] = IF j < i THEN s[j] ELSE s[j + 1]
<1>1. /\ Len(s) \in Nat
      /\ i \in Nat /\ i >= 1 /\ i <= Len(s)
  BY LenProperties
<1> DEFINE a == SubSeq(s, 1, i - 1)
           b == SubSeq(s, i + 1, Len(s))
<1>2. /\ a \in Seq(S)
      /\ Len(a) = i - 1
      /\ \A j \in 1 .. i - 1 : a[j] = s[j]
  BY <1>1, SubSeqProperties
<1>3. /\ b \in Seq(S)
      /\ Len(b) = Len(s) - i
      /\ \A j \in 1 .. Len(s) - i : b[j] = s[i + j]
  BY <1>1, SubSeqProperties
<1> HIDE DEF a, b
<1>4. /\ a \o b \in Seq(S)
      /\ Len(a \o b) = Len(a) + Len(b)
      /\ \A j \in 1 .. Len(a) + Len(b) :
             (a \o b)[j] = IF j <= Len(a) THEN a[j] ELSE b[j - Len(a)]
  BY <1>2, <1>3, ConcatProperties
<1>5. /\ Len(a \o b) = Len(s) - 1
      /\ \A j \in 1 .. Len(s) - 1 : (a \o b)[j] = IF j <= i - 1 THEN a[j] ELSE b[j - (i - 1)]
  BY <1>1, <1>2, <1>3, <1>4
<1>6. ASSUME NEW j \in 1 .. Len(s) - 1
      PROVE  (a \o b)[j] = IF j < i THEN s[j] ELSE s[j + 1]
  <2>1. CASE j < i
    BY <2>1, <1>1, <1>2, <1>5
  <2>2. CASE ~(j < i)
    <3>1. /\ j - (i - 1) \in 1 .. Len(s) - i
          /\ i + (j - (i - 1)) = j + 1
      BY <2>2, <1>1
    <3>2. b[j - (i - 1)] = s[j + 1]
      BY <3>1, <1>3
    <3>3. QED
      BY <2>2, <3>2, <1>1, <1>5
  <2>3. QED
    BY <2>1, <2>2
<1>7. RemoveAt(s, i) = a \o b
  BY DEF RemoveAt, a, b
<1>8. QED
  BY <1>4, <1>5, <1>6, <1>7

LEMMA RemoveAtInjective ==
  ASSUME NEW S, NEW s \in Seq(S), NEW i \in 1 .. Len(s), IsInjective(s)
  PROVE  /\ IsInjective(RemoveAt(s, i))
         /\ ToSet(RemoveAt(s, i)) = ToSet(s) \ {s[i]}
<1> DEFINE t == RemoveAt(s, i)
<1>1. /\ Len(s) \in Nat
      /\ DOMAIN s = 1 .. Len(s)
      /\ i \in Nat /\ i >= 1 /\ i <= Len(s)
  BY LenProperties
<1>2. /\ t \in Seq(S)
      /\ Len(t) = Len(s) - 1
      /\ \A j \in 1 .. Len(s) - 1 : t[j] = IF j < i THEN s[j] ELSE s[j + 1]
  BY RemoveAtProperties
<1>3. DOMAIN t = 1 .. Len(s) - 1
  BY <1>2, LenProperties
<1> HIDE DEF t
<1>4. \A j, k \in 1 .. Len(s) : s[j] = s[k] => j = k
  BY <1>1 DEF IsInjective
<1>5. ASSUME NEW j \in 1 .. Len(s) - 1, NEW k \in 1 .. Len(s) - 1, t[j] = t[k]
      PROVE  j = k
  <2> DEFINE From(l) == IF l < i THEN l ELSE l + 1
  <2>1. From(j) \in 1 .. Len(s) /\ From(k) \in 1 .. Len(s)
    BY <1>1
  <2>2. t[j] = s[From(j)] /\ t[k] = s[From(k)]
    BY <1>2
  <2>3. From(j) = From(k)
    BY <1>4, <1>5, <2>1, <2>2
  <2>4. QED
    BY <1>1, <2>3
<1>6. ASSUME NEW j \in 1 .. Len(s) - 1
      PROVE  t[j] \in ToSet(s) /\ t[j] /= s[i]
  <2>1. PICK k \in 1 .. Len(s) : k /= i /\ t[j] = s[k]
    BY <1>1, <1>2
  <2>2. QED
    BY <2>1, <1>1, <1>4 DEF ToSet
<1>7. ASSUME NEW j \in 1 .. Len(s), s[j] /= s[i]
      PROVE  \E k \in 1 .. Len(s) - 1 : t[k] = s[j]
  <2>1. CASE j < i
    BY <2>1, <1>1, <1>2
  <2>2. CASE ~(j < i)
    <3>1. j - 1 \in 1 .. Len(s) - 1 /\ ~(j - 1 < i) /\ (j - 1) + 1 = j
      BY <2>2, <1>1, <1>7
    <3>2. t[j - 1] = s[j]
      BY <3>1, <1>2
    <3>3. QED
      BY <3>1, <3>2
  <2>3. QED
    BY <2>1, <2>2
<1>8. IsInjective(t)
  BY <1>3, <1>5 DEF IsInjective
<1>9. ToSet(t) = ToSet(s) \ {s[i]}
  <2>1. ASSUME NEW x \in ToSet(t) PROVE x \in ToSet(s) \ {s[i]}
    BY <1>3, <1>6 DEF ToSet
  <2>2. ASSUME NEW x \in ToSet(s) \ {s[i]} PROVE x \in ToSet(t)
    BY <1>1, <1>3, <1>7 DEF ToSet
  <2>3. QED
    BY <2>1, <2>2
<1>10. QED
  BY <1>8, <1>9 DEF t

\* PushFront of a new element.
LEMMA PushFrontInjective ==
  ASSUME NEW S, NEW s \in Seq(S), NEW p \in S, p \notin ToSet(s), IsInjective(s)
  PROVE  /\ <<p>> \o s \in Seq(S)
         /\ Len(<<p>> \o s) = Len(s) + 1
         /\ IsInjective(<<p>> \o s)
         /\ ToSet(<<p>> \o s) = ToSet(s) \cup {p}
<1> DEFINE one == <<p>>
           t == one \o s
<1>1. /\ Len(s) \in Nat
      /\ DOMAIN s = 1 .. Len(s)
  BY LenProperties
<1>2. one \in Seq(S) /\ Len(one) = 1 /\ one[1] = p
  OBVIOUS
<1> HIDE DEF one
<1>3. /\ t \in Seq(S)
      /\ Len(t) = Len(one) + Len(s)
      /\ \A j \in 1 .. Len(one) + Len(s) :
             t[j] = IF j <= Len(one) THEN one[j] ELSE s[j - Len(one)]
  BY <1>2, ConcatProperties
<1>4. DOMAIN t = 1 .. Len(s) + 1
  BY <1>1, <1>2, <1>3, LenProperties
<1> HIDE DEF t
<1>5. /\ t[1] = p
      /\ \A j \in 2 .. Len(s) + 1 : t[j] = s[j - 1]
  BY <1>1, <1>2, <1>3
<1>6. \A j \in 1 .. Len(s) : s[j] /= p /\ t[j + 1] = s[j]
  BY <1>1, <1>5 DEF ToSet
<1>7. \A j, k \in 1 .. Len(s) : s[j] = s[k] => j = k
  BY <1>1 DEF IsInjective
<1>8. ASSUME NEW j \in 1 .. Len(s) + 1, NEW k \in 1 .. Len(s) + 1, t[j] = t[k]
      PROVE  j = k
  <2>1. CASE j = 1
    BY <2>1, <1>1, <1>5, <1>6, <1>8
  <2>2. CASE k = 1
    BY <2>2, <1>1, <1>5, <1>6, <1>8
  <2>3. CASE j /= 1 /\ k /= 1
    <3>1. /\ j - 1 \in 1 .. Len(s) /\ k - 1 \in 1 .. Len(s)
          /\ s[j - 1] = s[k - 1]
      BY <2>3, <1>1, <1>5, <1>8
    <3>2. j - 1 = k - 1
      BY <3>1, <1>7
    <3>3. QED
      BY <3>2, <1>1
  <2>4. QED
    BY <2>1, <2>2, <2>3
<1>9. IsInjective(t)
  BY <1>4, <1>8 DEF IsInjective
<1>10. ToSet(t) = ToSet(s) \cup {p}
  <2>1. ASSUME NEW j \in 1 .. Len(s) + 1
        PROVE  t[j] \in ToSet(s) \cup {p}
    BY <1>1, <1>5 DEF ToSet
  <2>2. ASSUME NEW j \in 1 .. Len(s)
        PROVE  s[j] \in ToSet(t)
    BY <1>1, <1>4, <1>6 DEF ToSet
  <2>3. p \in ToSet(t)
    BY <1>1, <1>4, <1>5 DEF ToSet
  <2>4. QED
    BY <2>1, <2>2, <2>3, <1>1, <1>4 DEF ToSet
<1>11. QED
  BY <1>1, <1>2, <1>3, <1>9, <1>10 DEF one, t

\* Removing the oldest element (Back), the next missing prefix, adding one.
LEMMA FrontInjective ==
  ASSUME NEW S, NEW s \in Seq(S), Len(s) > 0, IsInjective(s)
  PROVE  /\ Front(s) \in Seq(S)
         /\ Len(Front(s)) = Len(s) - 1
         /\ IsInjective(Front(s))
         /\ Last(s) \in ToSet(s)
         /\ ToSet(Front(s)) = ToSet(s) \ {Last(s)}
<1>1. /\ Len(s) \in Nat
      /\ DOMAIN s = 1 .. Len(s)
  BY LenProperties
<1>2. /\ RemoveAt(s, Len(s)) \in Seq(S)
      /\ Len(RemoveAt(s, Len(s))) = Len(s) - 1
      /\ \A j \in 1 .. Len(s) - 1 : RemoveAt(s, Len(s))[j] = s[j]
      /\ IsInjective(RemoveAt(s, Len(s)))
      /\ ToSet(RemoveAt(s, Len(s))) = ToSet(s) \ {s[Len(s)]}
  <2>1. Len(s) \in 1 .. Len(s)
    BY <1>1
  <2>2. /\ RemoveAt(s, Len(s)) \in Seq(S)
        /\ Len(RemoveAt(s, Len(s))) = Len(s) - 1
        /\ \A j \in 1 .. Len(s) - 1 :
               RemoveAt(s, Len(s))[j] = IF j < Len(s) THEN s[j] ELSE s[j + 1]
    BY <2>1, RemoveAtProperties
  <2>3. /\ IsInjective(RemoveAt(s, Len(s)))
        /\ ToSet(RemoveAt(s, Len(s))) = ToSet(s) \ {s[Len(s)]}
    BY <2>1, RemoveAtInjective
  <2>4. QED
    BY <1>1, <2>2, <2>3
<1>3. /\ Front(s) \in Seq(S)
      /\ Len(Front(s)) = Len(s) - 1
      /\ \A j \in 1 .. Len(s) - 1 : Front(s)[j] = s[j]
  BY <1>1, SubSeqProperties DEF Front
<1>4. Front(s) = RemoveAt(s, Len(s))
  BY <1>1, <1>2, <1>3, SeqEqual
<1>5. Last(s) \in ToSet(s)
  BY <1>1 DEF Last, ToSet
<1>6. QED
  BY <1>2, <1>4, <1>5 DEF Last

LEMMA TailInjective ==
  ASSUME NEW S, NEW s \in Seq(S), s /= <<>>, IsInjective(s)
  PROVE  /\ Tail(s) \in Seq(S)
         /\ Len(Tail(s)) = Len(s) - 1
         /\ IsInjective(Tail(s))
         /\ Head(s) \in ToSet(s) /\ Head(s) \in S
         /\ ToSet(Tail(s)) = ToSet(s) \ {Head(s)}
<1>1. /\ Len(s) \in Nat /\ Len(s) > 0
      /\ DOMAIN s = 1 .. Len(s)
      /\ Head(s) = s[1]
  BY LenProperties, EmptySeq
<1>2. /\ RemoveAt(s, 1) \in Seq(S)
      /\ Len(RemoveAt(s, 1)) = Len(s) - 1
      /\ \A j \in 1 .. Len(s) - 1 : RemoveAt(s, 1)[j] = s[j + 1]
      /\ IsInjective(RemoveAt(s, 1))
      /\ ToSet(RemoveAt(s, 1)) = ToSet(s) \ {s[1]}
  <2>1. 1 \in 1 .. Len(s)
    BY <1>1
  <2>2. /\ RemoveAt(s, 1) \in Seq(S)
        /\ Len(RemoveAt(s, 1)) = Len(s) - 1
        /\ \A j \in 1 .. Len(s) - 1 :
               RemoveAt(s, 1)[j] = IF j < 1 THEN s[j] ELSE s[j + 1]
    BY <2>1, RemoveAtProperties
  <2>3. /\ IsInjective(RemoveAt(s, 1))
        /\ ToSet(RemoveAt(s, 1)) = ToSet(s) \ {s[1]}
    BY <2>1, RemoveAtInjective
  <2>4. ASSUME NEW j \in 1 .. Len(s) - 1 PROVE RemoveAt(s, 1)[j] = s[j + 1]
    <3>1. ~(j < 1)
      BY <1>1
    <3>2. QED
      BY <2>2, <3>1
  <2>5. QED
    BY <2>2, <2>3, <2>4
<1>3. /\ Tail(s) \in Seq(S)
      /\ Len(Tail(s)) = Len(s) - 1
      /\ Head(s) \in S
      /\ \A j \in 1 .. Len(s) - 1 : Tail(s)[j] = s[j + 1]
  BY <1>1, HeadTailProperties
<1>4. Tail(s) = RemoveAt(s, 1)
  BY <1>1, <1>2, <1>3, SeqEqual
<1>5. Head(s) \in ToSet(s)
  BY <1>1 DEF ToSet
<1>6. QED
  BY <1>1, <1>2, <1>3, <1>4, <1>5

LEMMA AppendInjectiveElement ==
  ASSUME NEW S, NEW s \in Seq(S), NEW p \in S, p \notin ToSet(s), IsInjective(s)
  PROVE  /\ Append(s, p) \in Seq(S)
         /\ Append(s, p) /= <<>>
         /\ IsInjective(Append(s, p))
         /\ ToSet(Append(s, p)) = ToSet(s) \cup {p}
<1> DEFINE t == Append(s, p)
<1>1. /\ Len(s) \in Nat
      /\ DOMAIN s = 1 .. Len(s)
  BY LenProperties
<1>2. /\ t \in Seq(S) /\ t /= <<>>
      /\ Len(t) = Len(s) + 1
      /\ \A j \in 1 .. Len(s) : t[j] = s[j]
      /\ t[Len(s) + 1] = p
  BY AppendProperties
<1>3. DOMAIN t = 1 .. Len(s) + 1
  BY <1>2, LenProperties
<1> HIDE DEF t
<1>4. \A j, k \in 1 .. Len(s) : s[j] = s[k] => j = k
  BY <1>1 DEF IsInjective
<1>5. \A j \in 1 .. Len(s) : s[j] /= p
  BY <1>1 DEF ToSet
<1>6. \A j, k \in 1 .. Len(s) + 1 : t[j] = t[k] => j = k
  BY <1>1, <1>2, <1>4, <1>5
<1>7. IsInjective(t)
  BY <1>3, <1>6 DEF IsInjective
<1>8. ASSUME NEW x \in ToSet(t) PROVE x \in ToSet(s) \cup {p}
  <2>1. PICK j \in 1 .. Len(s) + 1 : x = t[j]
    BY <1>3 DEF ToSet
  <2>2. QED
    BY <2>1, <1>1, <1>2 DEF ToSet
<1>9. ASSUME NEW x \in ToSet(s) \cup {p} PROVE x \in ToSet(t)
  BY <1>1, <1>2, <1>3 DEF ToSet
<1>10. QED
  BY <1>2, <1>7, <1>8, <1>9 DEF t

LEMMA EmptyList == IsInjective(<<>>) /\ ToSet(<<>>) = {}
BY DEF IsInjective, ToSet

------------------------------------------------------------------------------
\* The inductive invariant.

Labels == {"idle", "get", "acquire", "fetch", "put", "ok", "invalid_request",
           "rate_limited", "dependency_unavailable"}
Answers == [threats : SUBSET HashPrefixes, at : Nat, seconds : Nat]
Verdicts == [prefix : HashPrefixes, entry : Entries, remaining : Nat]

TypeOK ==
    /\ clock \in 1 .. MaxTime
    /\ listed \in [1 .. MaxTime -> SUBSET HashPrefixes]
    /\ entries \in [HashPrefixes -> Entries \cup {NoEntry}]
    /\ lru \in Seq(HashPrefixes)
    /\ pc \in [Lookups -> Labels]
    /\ asked \in [Lookups -> SUBSET HashPrefixes]
    /\ now \in [Lookups -> Nat]
    /\ todo \in [Lookups -> SUBSET HashPrefixes]
    /\ missing \in [Lookups -> Seq(HashPrefixes)]
    /\ fetched \in [Lookups -> Answers]
    /\ result \in [Lookups -> SUBSET Verdicts]
    /\ slots \in Nat

Fetching == {l \in Lookups : pc[l] = "fetch"}

SlotsInv == IsFiniteSet(Fetching) /\ slots = Cardinality(Fetching)

\* What the provider said of p at a time that has come.
Said(p, entry) == entry.at \in 1 .. clock /\ (entry.threat <=> p \in listed[entry.at])

\* A cached verdict expires no later than the provider's duration allows: the lookup
\* that stored it had read the clock before it asked.
CacheInv ==
    \A p \in HashPrefixes : entries[p] /= NoEntry =>
        Said(p, entries[p]) /\ entries[p].expiresAt <= entries[p].at + entries[p].seconds

\* What VerdictsHonoured says of one verdict of lookup l.
Vouched(l, v) ==
    /\ Said(v.prefix, v.entry)
    /\ v.entry.at >= now[l] \/ now[l] < v.entry.at + v.entry.seconds
    /\ now[l] + v.remaining <= v.entry.at + v.entry.seconds

PrefixesOf(R) == {v.prefix : v \in R}

\* Lookup l has asked the cache for every prefix but those in todo: it has a verdict
\* for it, or will ask the provider.
Partition(l) ==
    /\ asked[l] = todo[l] \cup ToSet(missing[l]) \cup PrefixesOf(result[l])
    /\ todo[l] \cap ToSet(missing[l]) = {}
    /\ todo[l] \cap PrefixesOf(result[l]) = {}
    /\ ToSet(missing[l]) \cap PrefixesOf(result[l]) = {}

Working == {"get", "acquire", "fetch", "put", "ok"}

LookupInv(l) ==
    /\ pc[l] = "idle" => missing[l] = <<>> /\ result[l] = {}
    /\ pc[l] \in Working =>
           /\ now[l] \in 1 .. clock
           /\ Partition(l)
           /\ IsInjective(missing[l])
           /\ \A v, w \in result[l] : v.prefix = w.prefix => v = w
           /\ \A v \in result[l] : Vouched(l, v)
    /\ pc[l] \in Working \ {"get"} => todo[l] = {}
    /\ pc[l] = "ok" => missing[l] = <<>>
    /\ pc[l] \in {"acquire", "fetch", "put"} => missing[l] /= <<>>
    /\ pc[l] = "put" =>
           /\ fetched[l].at \in now[l] .. clock
           /\ \A p \in ToSet(missing[l]) :
                  p \in fetched[l].threats <=> p \in listed[fetched[l].at]

Inv ==
    /\ TypeOK
    /\ SlotsInv
    /\ MapMatchesList
    /\ CacheInv
    /\ \A l \in Lookups : LookupInv(l)

LEMMA InitInv == Init => Inv
<1> SUFFICES ASSUME Init PROVE Inv
  OBVIOUS
<1>1. TypeOK
  BY LimitsAssumption, EmptySeq DEF Init, TypeOK, Labels, Answers, Verdicts, NoAnswer
<1>2. Fetching = {}
  BY DEF Init, Fetching
<1>3. SlotsInv
  BY <1>2, FS_EmptySet DEF Init, SlotsInv
<1>4. MapMatchesList
  BY LimitsAssumption, EmptySeq, EmptyList DEF Init, MapMatchesList
<1>5. CacheInv
  BY DEF Init, CacheInv
<1>6. \A l \in Lookups : LookupInv(l)
  BY DEF Init, LookupInv, Working
<1>7. QED
  BY <1>1, <1>3, <1>4, <1>5, <1>6 DEF Inv

------------------------------------------------------------------------------
\* Steps leave the lookups they are not about alone, and what the provider said.

TimeGoesOn == clock' \in 1 .. MaxTime /\ clock' >= clock /\ listed' = listed

Untouched(l) ==
    /\ pc'[l] = pc[l] /\ asked'[l] = asked[l] /\ now'[l] = now[l] /\ todo'[l] = todo[l]
    /\ missing'[l] = missing[l] /\ fetched'[l] = fetched[l] /\ result'[l] = result[l]

LEMMA SaidStays ==
  ASSUME TypeOK, TimeGoesOn, NEW p, NEW entry, Said(p, entry)
  PROVE  Said(p, entry)'
<1>1. clock \in Int /\ clock' \in Int
  BY DEF TypeOK, TimeGoesOn
<1>2. entry.at \in 1 .. clock'
  BY <1>1 DEF Said, TimeGoesOn
<1>3. QED
  BY <1>2 DEF Said, TimeGoesOn

LEMMA UntouchedLookup ==
  ASSUME TypeOK, TimeGoesOn, NEW l \in Lookups, Untouched(l), LookupInv(l)
  PROVE  LookupInv(l)'
<1>1. /\ clock \in Int /\ clock' \in Int /\ clock' >= clock
      /\ now[l] \in Nat /\ fetched[l].at \in Nat
  BY DEF TypeOK, TimeGoesOn, Answers
<1>2. ASSUME NEW v \in result[l], Vouched(l, v)
      PROVE  Vouched(l, v)'
  BY <1>2, SaidStays DEF Vouched, Untouched
<1>3. Partition(l) => Partition(l)'
  BY DEF Partition, Untouched
<1>4. now[l] \in 1 .. clock => now'[l] \in 1 .. clock'
  BY <1>1 DEF Untouched
<1>5. fetched[l].at \in now[l] .. clock => fetched'[l].at \in now'[l] .. clock'
  BY <1>1 DEF Untouched
<1>6. QED
  BY <1>2, <1>3, <1>4, <1>5 DEF LookupInv, Untouched, TimeGoesOn

LEMMA CacheStays ==
  ASSUME TypeOK, TimeGoesOn, CacheInv, UNCHANGED entries
  PROVE  CacheInv'
BY SaidStays DEF CacheInv

LEMMA SlotsStay ==
  ASSUME TypeOK, SlotsInv, NEW l \in Lookups, pc[l] /= "fetch", NEW where, where /= "fetch",
         pc' = [pc EXCEPT ![l] = where], UNCHANGED slots
  PROVE  SlotsInv'
<1>1. Fetching' = Fetching
  BY DEF TypeOK, Fetching
<1>2. QED
  BY <1>1 DEF SlotsInv

------------------------------------------------------------------------------
\* The actions.

LEMMA TickStep ==
  ASSUME Inv, Tick
  PROVE  Inv'
<1> USE DEF Inv, Tick
<1>1. TypeOK'
  BY LimitsAssumption DEF TypeOK
<1>2. TimeGoesOn
  BY LimitsAssumption DEF TypeOK, TimeGoesOn
<1>3. \A l \in Lookups : LookupInv(l)'
  BY <1>2, UntouchedLookup DEF Untouched
<1>4. CacheInv'
  BY <1>2, CacheStays
<1>5. SlotsInv' /\ MapMatchesList'
  BY DEF SlotsInv, Fetching, MapMatchesList
<1>6. QED
  BY <1>1, <1>3, <1>4, <1>5

LEMMA StartStep ==
  ASSUME Inv, NEW l \in Lookups, NEW P \in SUBSET HashPrefixes, Start(l, P)
  PROVE  Inv'
<1> USE DEF Inv
<1>1. TypeOK'
  <2>1. pc' \in [Lookups -> Labels]
    BY DEF TypeOK, Start, Labels
  <2>2. now' \in [Lookups -> Nat]
    <3>1. clock \in Nat
      BY DEF TypeOK
    <3>2. QED
      BY <3>1 DEF TypeOK, Start
  <2>3. asked' \in [Lookups -> SUBSET HashPrefixes] /\ todo' \in [Lookups -> SUBSET HashPrefixes]
    BY DEF TypeOK, Start
  <2>4. QED
    BY <2>1, <2>2, <2>3 DEF TypeOK, Start
<1>2. TimeGoesOn
  BY DEF TypeOK, TimeGoesOn, Start
<1>3. ASSUME NEW m \in Lookups, m /= l PROVE LookupInv(m)'
  <2>1. Untouched(m)
    BY <1>3 DEF TypeOK, Start, Untouched
  <2>2. QED
    BY <2>1, <1>2, UntouchedLookup
<1>4. LookupInv(l)'
  <2>1. pc[l] = "idle" /\ missing[l] = <<>> /\ result[l] = {}
    BY DEF Start, LookupInv
  <2>2. missing'[l] = <<>> /\ result'[l] = {} /\ asked'[l] = P
    BY <2>1 DEF Start, TypeOK
  <2>3. CASE pc'[l] = "invalid_request"
    BY <2>3 DEF LookupInv, Working
  <2>4. CASE pc'[l] = "get"
    <3>1. now'[l] = clock /\ todo'[l] = P /\ clock' = clock /\ clock \in 1 .. clock
      BY <2>4 DEF Start, TypeOK
    <3>2. Partition(l)'
      BY <2>2, <3>1, EmptyList DEF Partition, PrefixesOf
    <3>3. QED
      BY <2>2, <2>4, <3>1, <3>2, EmptyList DEF LookupInv, Working
  <2>5. QED
    BY <2>3, <2>4 DEF Start, TypeOK
<1>5. CacheInv'
  BY <1>2, CacheStays DEF Start
<1>6. SlotsInv'
  <2>1. pc[l] /= "fetch" /\ slots' = slots
    BY DEF Start
  <2>2. PICK where \in {"invalid_request", "get"} : pc' = [pc EXCEPT ![l] = where]
    BY DEF Start
  <2>3. QED
    BY <2>1, <2>2, SlotsStay
<1>7. MapMatchesList'
  BY DEF Start, MapMatchesList
<1>8. QED
  BY <1>1, <1>3, <1>4, <1>5, <1>6, <1>7

LEMMA AcquireStep ==
  ASSUME Inv, NEW l \in Lookups, Acquire(l)
  PROVE  Inv'
<1> USE DEF Inv
<1>1. TypeOK'
  <2>1. pc' \in [Lookups -> Labels]
    BY DEF TypeOK, Acquire, Labels
  <2>2. slots' \in Nat
    BY DEF TypeOK, Acquire
  <2>3. QED
    BY <2>1, <2>2 DEF TypeOK, Acquire
<1>2. TimeGoesOn
  BY DEF TypeOK, TimeGoesOn, Acquire
<1>3. ASSUME NEW m \in Lookups, m /= l PROVE LookupInv(m)'
  <2>1. Untouched(m)
    BY <1>3 DEF TypeOK, Acquire, Untouched
  <2>2. QED
    BY <2>1, <1>2, UntouchedLookup
<1>4. LookupInv(l)'
  <2>1. /\ pc[l] = "acquire" /\ pc'[l] \in {"fetch", "rate_limited"}
        /\ UNCHANGED <<clock, listed, asked, now, todo, missing, fetched, result>>
    BY DEF Acquire, TypeOK
  <2>2. \A v : Vouched(l, v) <=> Vouched(l, v)'
    BY <2>1 DEF Vouched, Said
  <2>3. Partition(l) <=> Partition(l)'
    BY <2>1 DEF Partition
  <2>4. QED
    BY <2>1, <2>2, <2>3 DEF LookupInv, Working
<1>5. CacheInv'
  BY <1>2, CacheStays DEF Acquire
<1>6. SlotsInv'
  <2>1. CASE slots < MaxConcurrentRequests
    <3>1. Fetching' = Fetching \cup {l} /\ l \notin Fetching
      BY <2>1 DEF Acquire, Fetching, TypeOK
    <3>2. slots' = slots + 1
      BY <2>1 DEF Acquire
    <3>3. QED
      BY <3>1, <3>2, FS_AddElement DEF SlotsInv
  <2>2. CASE ~(slots < MaxConcurrentRequests)
    BY <2>2, SlotsStay DEF Acquire
  <2>3. QED
    BY <2>1, <2>2
<1>7. MapMatchesList'
  BY DEF Acquire, MapMatchesList
<1>8. QED
  BY <1>1, <1>3, <1>4, <1>5, <1>6, <1>7

LEMMA FetchStep ==
  ASSUME Inv, NEW l \in Lookups, Fetch(l)
  PROVE  Inv'
<1> USE DEF Inv
<1>1. pc[l] = "fetch" /\ l \in Fetching
  BY DEF Fetch, Fetching
<1>2. SlotsInv' /\ slots' \in Nat
  <2>1. pc'[l] /= "fetch" /\ slots' = slots - 1
    BY DEF Fetch, Released, TypeOK
  <2>2. Fetching' = Fetching \ {l}
    BY <2>1 DEF Fetch, Fetching, TypeOK
  <2>3. /\ IsFiniteSet(Fetching \ {l})
        /\ Cardinality(Fetching \ {l}) = Cardinality(Fetching) - 1
        /\ Cardinality(Fetching \ {l}) \in Nat
    BY <1>1, FS_RemoveElement, FS_CardinalityType DEF SlotsInv
  <2>4. QED
    BY <2>1, <2>2, <2>3 DEF SlotsInv
<1>3. TypeOK'
  <2>1. fetched' \in [Lookups -> Answers]
    <3>1. ASSUME NEW s \in Durations
          PROVE  [threats |-> listed[clock] \cap ToSet(missing[l]), at |-> clock, seconds |-> s] \in Answers
      BY LimitsAssumption DEF TypeOK, Answers
    <3>2. QED
      BY <3>1 DEF TypeOK, Fetch
  <2>2. QED
    BY <1>2, <2>1 DEF TypeOK, Fetch, Labels
<1>4. TimeGoesOn
  BY DEF TypeOK, TimeGoesOn, Fetch
<1>5. ASSUME NEW m \in Lookups, m /= l PROVE LookupInv(m)'
  <2>1. Untouched(m)
    BY <1>5 DEF TypeOK, Fetch, Untouched
  <2>2. QED
    BY <2>1, <1>4, UntouchedLookup
<1>6. LookupInv(l)'
  <2>1. UNCHANGED <<clock, listed, asked, now, todo, missing>>
    BY DEF Fetch
  <2>2. CASE pc'[l] = "put"
    <3>1. PICK s \in Durations :
              fetched' = [fetched EXCEPT ![l] =
                  [threats |-> listed[clock] \cap ToSet(missing[l]), at |-> clock, seconds |-> s]]
      BY <2>2 DEF Fetch, TypeOK
    <3>2. /\ fetched'[l].at = clock
          /\ fetched'[l].threats = listed[clock] \cap ToSet(missing[l])
      BY <3>1 DEF TypeOK
    <3>3. result' = result
      BY <2>2 DEF Fetch, TypeOK
    <3>4. \A v : Vouched(l, v) <=> Vouched(l, v)'
      BY <2>1 DEF Vouched, Said
    <3>5. Partition(l) <=> Partition(l)'
      BY <2>1, <3>3 DEF Partition
    <3>6. missing[l] /= <<>>
      BY <1>1 DEF LookupInv
    <3>7. now'[l] \in 1 .. clock' /\ fetched'[l].at \in now'[l] .. clock'
      BY <1>1, <2>1, <3>2 DEF LookupInv, Working, TypeOK
    <3>8. \A p \in ToSet(missing'[l]) :
              p \in fetched'[l].threats <=> p \in listed'[fetched'[l].at]
      BY <2>1, <3>2
    <3>9. QED
      BY <1>1, <2>1, <2>2, <3>3, <3>4, <3>5, <3>6, <3>7, <3>8 DEF LookupInv, Working
  <2>3. CASE pc'[l] = "dependency_unavailable"
    BY <2>3 DEF LookupInv, Working
  <2>4. QED
    BY <2>2, <2>3 DEF Fetch, TypeOK
<1>7. CacheInv'
  BY <1>4, CacheStays DEF Fetch
<1>8. MapMatchesList'
  BY DEF Fetch, MapMatchesList
<1>9. QED
  BY <1>2, <1>3, <1>5, <1>6, <1>7, <1>8

------------------------------------------------------------------------------
\* The cache's map and list.

LEMMA WithoutProperties ==
  ASSUME TypeOK, MapMatchesList, NEW p \in HashPrefixes, entries[p] /= NoEntry
  PROVE  /\ Without(p) \in Seq(HashPrefixes)
         /\ Len(Without(p)) = Len(lru) - 1
         /\ IsInjective(Without(p))
         /\ ToSet(Without(p)) = ToSet(lru) \ {p}
<1>1. lru \in Seq(HashPrefixes) /\ IsInjective(lru) /\ p \in ToSet(lru)
  BY DEF TypeOK, MapMatchesList
<1>2. DOMAIN lru = 1 .. Len(lru)
  BY <1>1, LenProperties
<1> DEFINE i == CHOOSE i \in DOMAIN lru : lru[i] = p
<1>3. i \in 1 .. Len(lru) /\ lru[i] = p
  BY <1>1, <1>2 DEF ToSet
<1>4. Without(p) = RemoveAt(lru, i)
  BY DEF Without
<1> HIDE DEF i
<1>5. RemoveAt(lru, i) \in Seq(HashPrefixes) /\ Len(RemoveAt(lru, i)) = Len(lru) - 1
  BY <1>1, <1>3, RemoveAtProperties
<1>6. IsInjective(RemoveAt(lru, i)) /\ ToSet(RemoveAt(lru, i)) = ToSet(lru) \ {lru[i]}
  BY <1>1, <1>3, RemoveAtInjective
<1>7. QED
  BY <1>3, <1>4, <1>5, <1>6

LEMMA ToFrontProperties ==
  ASSUME TypeOK, MapMatchesList, NEW p \in HashPrefixes
  PROVE  /\ ToFront(p) \in Seq(HashPrefixes)
         /\ Len(ToFront(p)) = IF entries[p] = NoEntry THEN Len(lru) + 1 ELSE Len(lru)
         /\ IsInjective(ToFront(p))
         /\ ToSet(ToFront(p)) = ToSet(lru) \cup {p}
<1>1. lru \in Seq(HashPrefixes) /\ IsInjective(lru) /\ Len(lru) \in Nat
  BY LenProperties DEF TypeOK, MapMatchesList
<1>2. CASE entries[p] = NoEntry
  <2>1. p \notin ToSet(lru)
    BY <1>2 DEF MapMatchesList
  <2>2. ToFront(p) = <<p>> \o lru
    BY <1>2 DEF ToFront
  <2>3. QED
    BY <1>1, <1>2, <2>1, <2>2, PushFrontInjective
<1>3. CASE entries[p] /= NoEntry
  <2>1. /\ Without(p) \in Seq(HashPrefixes)
        /\ Len(Without(p)) = Len(lru) - 1
        /\ IsInjective(Without(p))
        /\ ToSet(Without(p)) = ToSet(lru) \ {p}
    BY <1>3, WithoutProperties
  <2>2. ToFront(p) = <<p>> \o Without(p)
    BY <1>3 DEF ToFront
  <2>3. /\ ToFront(p) \in Seq(HashPrefixes)
        /\ Len(ToFront(p)) = Len(Without(p)) + 1
        /\ IsInjective(ToFront(p))
        /\ ToSet(ToFront(p)) = ToSet(Without(p)) \cup {p}
    BY <2>1, <2>2, PushFrontInjective
  <2>4. p \in ToSet(lru)
    BY <1>3 DEF MapMatchesList
  <2>5. QED
    BY <1>1, <1>3, <2>1, <2>3, <2>4
<1>4. QED
  BY <1>2, <1>3

\* What one put makes of map and list, whether or not it evicts.
LEMMA EvictProperties ==
  ASSUME TypeOK, MapMatchesList, NEW p \in HashPrefixes, NEW entry \in Entries,
         NEW kept, kept = Evict([entries EXCEPT ![p] = entry], ToFront(p))
  PROVE  /\ kept.entries \in [HashPrefixes -> Entries \cup {NoEntry}]
         /\ kept.lru \in Seq(HashPrefixes)
         /\ {q \in HashPrefixes : kept.entries[q] /= NoEntry} = ToSet(kept.lru)
         /\ IsInjective(kept.lru)
         /\ Len(kept.lru) <= MaxEntries
         /\ \A q \in HashPrefixes :
                kept.entries[q] \in {NoEntry, IF q = p THEN entry ELSE entries[q]}
<1> DEFINE table == [entries EXCEPT ![p] = entry]
           list == ToFront(p)
<1>1. /\ Len(lru) \in Nat /\ Len(lru) <= MaxEntries /\ MaxEntries \in Nat \ {0}
      /\ {q \in HashPrefixes : entries[q] /= NoEntry} = ToSet(lru)
  BY LenProperties, LimitsAssumption DEF TypeOK, MapMatchesList
<1>2. /\ list \in Seq(HashPrefixes)
      /\ Len(list) \in Nat /\ Len(list) <= Len(lru) + 1
      /\ IsInjective(list)
      /\ ToSet(list) = ToSet(lru) \cup {p}
  BY <1>1, ToFrontProperties
<1>3. /\ table \in [HashPrefixes -> Entries \cup {NoEntry}]
      /\ \A q \in HashPrefixes : table[q] = IF q = p THEN entry ELSE entries[q]
  BY DEF TypeOK
<1>4. {q \in HashPrefixes : table[q] /= NoEntry} = ToSet(list)
  BY <1>1, <1>2, <1>3, NoEntryAssumption
<1> HIDE DEF table, list
<1>5. CASE Len(list) > MaxEntries
  <2> DEFINE after == [table EXCEPT ![Last(list)] = NoEntry]
  <2>1. kept.entries = after /\ kept.lru = Front(list)
    BY <1>5 DEF Evict, table, list
  <2>2. /\ Front(list) \in Seq(HashPrefixes)
        /\ Len(Front(list)) = Len(list) - 1
        /\ IsInjective(Front(list))
        /\ Last(list) \in ToSet(list)
        /\ ToSet(Front(list)) = ToSet(list) \ {Last(list)}
    BY <1>1, <1>2, <1>5, FrontInjective
  <2>3. /\ after \in [HashPrefixes -> Entries \cup {NoEntry}]
        /\ \A q \in HashPrefixes : after[q] = IF q = Last(list) THEN NoEntry ELSE table[q]
    BY <1>3
  <2> HIDE DEF after
  <2>4. {q \in HashPrefixes : after[q] /= NoEntry} = ToSet(Front(list))
    BY <1>4, <2>2, <2>3
  <2>5. Len(Front(list)) <= MaxEntries
    BY <1>1, <1>2, <1>5, <2>2
  <2>6. \A q \in HashPrefixes : after[q] \in {NoEntry, IF q = p THEN entry ELSE entries[q]}
    BY <1>3, <2>3
  <2>7. QED
    BY <2>1, <2>2, <2>3, <2>4, <2>5, <2>6
<1>6. CASE ~(Len(list) > MaxEntries)
  <2>1. kept.entries = table /\ kept.lru = list
    BY <1>6 DEF Evict, table, list
  <2>2. Len(list) <= MaxEntries
    BY <1>1, <1>2, <1>6
  <2>3. \A q \in HashPrefixes : table[q] \in {NoEntry, IF q = p THEN entry ELSE entries[q]}
    BY <1>3
  <2>4. QED
    BY <2>1, <2>2, <2>3, <1>2, <1>3, <1>4
<1>7. QED
  BY <1>5, <1>6

------------------------------------------------------------------------------
\* The two steps that use the cache.

\* A verdict added to a result that had none for its prefix.
LEMMA AddVerdict ==
  ASSUME NEW R, NEW v, v.prefix \notin PrefixesOf(R),
         \A x, y \in R : x.prefix = y.prefix => x = y
  PROVE  /\ PrefixesOf(R \cup {v}) = PrefixesOf(R) \cup {v.prefix}
         /\ \A x, y \in R \cup {v} : x.prefix = y.prefix => x = y
BY DEF PrefixesOf

LEMMA VerdictType ==
  ASSUME NEW p \in HashPrefixes, NEW entry \in Entries, NEW t \in Nat
  PROVE  /\ Verdict(p, entry, t) \in Verdicts
         /\ Verdict(p, entry, t).prefix = p
         /\ Verdict(p, entry, t).entry = entry
         /\ Verdict(p, entry, t).remaining =
                IF t < entry.expiresAt THEN entry.expiresAt - t ELSE 0
<1>1. entry.expiresAt \in Nat
  BY DEF Entries
<1>2. (IF t < entry.expiresAt THEN entry.expiresAt - t ELSE 0) \in Nat
  BY <1>1
<1>3. QED
  BY <1>2 DEF Verdict, Verdicts

LEMMA GetStep ==
  ASSUME Inv, NEW l \in Lookups, Get(l)
  PROVE  Inv'
<1> USE DEF Inv
<1>1. PICK p \in todo[l] :
        /\ todo' = [todo EXCEPT ![l] = @ \ {p}]
        /\ \/ /\ entries[p] /= NoEntry /\ now[l] < entries[p].expiresAt
              /\ result' = [result EXCEPT ![l] = @ \cup {Verdict(p, entries[p], now[l])}]
              /\ lru' = ToFront(p)
              /\ UNCHANGED <<entries, missing>>
           \/ /\ entries[p] /= NoEntry /\ now[l] >= entries[p].expiresAt
              /\ entries' = [entries EXCEPT ![p] = NoEntry]
              /\ lru' = Without(p)
              /\ missing' = [missing EXCEPT ![l] = Append(@, p)]
              /\ UNCHANGED result
           \/ /\ entries[p] = NoEntry
              /\ missing' = [missing EXCEPT ![l] = Append(@, p)]
              /\ UNCHANGED <<entries, lru, result>>
  BY DEF Get
<1>2. /\ pc[l] = "get" /\ p \in HashPrefixes
      /\ pc' = [pc EXCEPT ![l] = IF todo'[l] /= {} THEN "get"
                                 ELSE IF missing'[l] = <<>> THEN "ok" ELSE "acquire"]
      /\ UNCHANGED <<clock, listed, asked, now, fetched, slots>>
  BY <1>1 DEF Get, TypeOK
<1>3. /\ now[l] \in 1 .. clock /\ now[l] \in Nat /\ clock \in Nat
      /\ missing[l] \in Seq(HashPrefixes) /\ IsInjective(missing[l])
      /\ result[l] \in SUBSET Verdicts
      /\ p \in asked[l] /\ p \notin ToSet(missing[l]) /\ p \notin PrefixesOf(result[l])
      /\ Partition(l)
      /\ \A v, w \in result[l] : v.prefix = w.prefix => v = w
      /\ \A v \in result[l] : Vouched(l, v)
  BY <1>1, <1>2 DEF TypeOK, LookupInv, Working, Partition
<1>4. /\ todo'[l] = todo[l] \ {p}
      /\ \A m \in Lookups \ {l} : todo'[m] = todo[m] /\ pc'[m] = pc[m]
  BY <1>1, <1>2 DEF TypeOK
<1>5. TimeGoesOn
  BY <1>2 DEF TypeOK, TimeGoesOn
<1>6. \A v : Vouched(l, v) => Vouched(l, v)'
  BY <1>2 DEF Vouched, Said
<1>7. SlotsInv'
  <2>1. PICK where : where /= "fetch" /\ pc' = [pc EXCEPT ![l] = where]
    BY <1>2
  <2>2. QED
    BY <2>1, <1>2, SlotsStay
<1>8. pc' \in [Lookups -> Labels] /\ todo' \in [Lookups -> SUBSET HashPrefixes]
  BY <1>1, <1>2 DEF TypeOK, Labels
<1>9. pc'[l] = IF todo'[l] /= {} THEN "get"
               ELSE IF missing'[l] = <<>> THEN "ok" ELSE "acquire"
  BY <1>2 DEF TypeOK
<1>10. CASE /\ entries[p] /= NoEntry /\ now[l] < entries[p].expiresAt
            /\ result' = [result EXCEPT ![l] = @ \cup {Verdict(p, entries[p], now[l])}]
            /\ lru' = ToFront(p)
            /\ UNCHANGED <<entries, missing>>
  <2> DEFINE v == Verdict(p, entries[p], now[l])
  <2>1. entries[p] \in Entries /\ entries[p].at \in Nat /\ entries[p].seconds \in Nat
        /\ entries[p].expiresAt \in Nat
    BY <1>2, <1>10 DEF TypeOK, Entries
  <2>2. /\ v \in Verdicts /\ v.prefix = p /\ v.entry = entries[p]
        /\ v.remaining = entries[p].expiresAt - now[l]
    BY <1>2, <1>3, <1>10, <2>1, VerdictType
  <2> HIDE DEF v
  <2>3. /\ result'[l] = result[l] \cup {v}
        /\ \A m \in Lookups \ {l} : result'[m] = result[m]
        /\ result' \in [Lookups -> SUBSET Verdicts]
    BY <1>10, <2>2 DEF TypeOK, v
  <2>4. TypeOK'
    BY <1>2, <1>8, <1>10, <2>3, ToFrontProperties DEF TypeOK
  <2>5. CacheInv'
    BY <1>5, <1>10, CacheStays
  <2>6. MapMatchesList'
    <3>1. p \in ToSet(lru)
      BY <1>2, <1>10 DEF MapMatchesList
    <3>2. Len(lru') = Len(lru) /\ IsInjective(lru') /\ ToSet(lru') = ToSet(lru)
      <4>1. /\ Len(ToFront(p)) = Len(lru) /\ IsInjective(ToFront(p))
            /\ ToSet(ToFront(p)) = ToSet(lru) \cup {p}
        <5>1. p \in HashPrefixes /\ TypeOK /\ MapMatchesList /\ entries[p] /= NoEntry
          BY <1>2, <1>10
        <5>2. QED
          BY <5>1, ToFrontProperties
      <4>2. ToSet(lru) \cup {p} = ToSet(lru)
        BY <3>1
      <4>3. lru' = ToFront(p)
        BY <1>10
      <4>4. QED
        BY <4>1, <4>2, <4>3
    <3>3. QED
      BY <1>10, <3>2 DEF MapMatchesList
  <2>7. LookupInv(l)'
    <3>1. Vouched(l, v)
      <4>1. /\ Said(p, entries[p])
            /\ entries[p].expiresAt <= entries[p].at + entries[p].seconds
        BY <1>2, <1>10 DEF CacheInv
      <4>2. now[l] < entries[p].at + entries[p].seconds
        BY <1>3, <1>10, <2>1, <4>1
      <4>3. now[l] + (entries[p].expiresAt - now[l]) <= entries[p].at + entries[p].seconds
        BY <1>3, <2>1, <4>1
      <4>4. QED
        BY <2>2, <4>1, <4>2, <4>3 DEF Vouched
    <3>2. /\ PrefixesOf(result'[l]) = PrefixesOf(result[l]) \cup {p}
          /\ \A x, y \in result'[l] : x.prefix = y.prefix => x = y
      <4>1. v.prefix \notin PrefixesOf(result[l])
        BY <1>3, <2>2
      <4>2. \A x, y \in result[l] : x.prefix = y.prefix => x = y
        BY <1>3
      <4>3. /\ PrefixesOf(result[l] \cup {v}) = PrefixesOf(result[l]) \cup {v.prefix}
            /\ \A x, y \in result[l] \cup {v} : x.prefix = y.prefix => x = y
        BY <4>1, <4>2, AddVerdict
      <4>4. QED
        BY <2>2, <2>3, <4>3
    <3>3. Partition(l)'
      <4>1. asked'[l] = asked[l] /\ missing'[l] = missing[l]
        BY <1>2, <1>10
      <4>2. /\ asked[l] = todo[l] \cup ToSet(missing[l]) \cup PrefixesOf(result[l])
            /\ todo[l] \cap ToSet(missing[l]) = {}
            /\ todo[l] \cap PrefixesOf(result[l]) = {}
            /\ ToSet(missing[l]) \cap PrefixesOf(result[l]) = {}
        BY <1>3 DEF Partition
      <4>3. asked'[l] = todo'[l] \cup ToSet(missing'[l]) \cup PrefixesOf(result'[l])
        BY <1>1, <1>4, <3>2, <4>1, <4>2
      <4>4. /\ todo'[l] \cap ToSet(missing'[l]) = {}
            /\ todo'[l] \cap PrefixesOf(result'[l]) = {}
            /\ ToSet(missing'[l]) \cap PrefixesOf(result'[l]) = {}
        BY <1>1, <1>3, <1>4, <3>2, <4>1, <4>2
      <4>5. QED
        BY <4>3, <4>4 DEF Partition, PrefixesOf, ToSet
    <3>4. \A x \in result'[l] : Vouched(l, x)'
      BY <1>3, <1>6, <2>3, <3>1
    <3>5. now'[l] \in 1 .. clock' /\ IsInjective(missing'[l])
      BY <1>2, <1>3, <1>10
    <3>6. QED
      BY <1>9, <3>2, <3>3, <3>4, <3>5 DEF LookupInv, Working
  <2>8. ASSUME NEW m \in Lookups, m /= l PROVE LookupInv(m)'
    BY <2>8, <1>2, <1>4, <1>5, <1>10, <2>3, UntouchedLookup DEF Untouched
  <2>9. QED
    BY <1>7, <2>4, <2>5, <2>6, <2>7, <2>8
<1>11. ASSUME /\ missing' = [missing EXCEPT ![l] = Append(@, p)]
              /\ UNCHANGED result
       PROVE  /\ missing' \in [Lookups -> Seq(HashPrefixes)]
              /\ \A m \in Lookups : LookupInv(m)'
  <2>1. /\ missing'[l] = Append(missing[l], p)
        /\ \A m \in Lookups \ {l} : missing'[m] = missing[m]
        /\ Append(missing[l], p) \in Seq(HashPrefixes)
    BY <1>2, <1>3, <1>11, AppendProperties DEF TypeOK
  <2>2. /\ missing'[l] /= <<>>
        /\ IsInjective(missing'[l])
        /\ ToSet(missing'[l]) = ToSet(missing[l]) \cup {p}
    BY <1>2, <1>3, <2>1, AppendInjectiveElement
  <2>3. Partition(l)'
    BY <1>1, <1>2, <1>3, <1>4, <1>11, <2>2 DEF Partition
  <2>4. \A x \in result'[l] : Vouched(l, x)'
    BY <1>3, <1>6, <1>11
  <2>5. LookupInv(l)'
    BY <1>2, <1>3, <1>9, <1>11, <2>2, <2>3, <2>4 DEF LookupInv, Working
  <2>6. ASSUME NEW m \in Lookups, m /= l PROVE LookupInv(m)'
    BY <2>6, <1>2, <1>4, <1>5, <1>11, <2>1, UntouchedLookup DEF Untouched
  <2>7. missing' \in [Lookups -> Seq(HashPrefixes)]
    BY <1>11, <2>1 DEF TypeOK
  <2>8. QED
    BY <2>5, <2>6, <2>7
<1>12. CASE /\ entries[p] /= NoEntry /\ now[l] >= entries[p].expiresAt
            /\ entries' = [entries EXCEPT ![p] = NoEntry]
            /\ lru' = Without(p)
            /\ missing' = [missing EXCEPT ![l] = Append(@, p)]
            /\ UNCHANGED result
  <2>1. \A q \in HashPrefixes : entries'[q] = IF q = p THEN NoEntry ELSE entries[q]
    BY <1>12 DEF TypeOK
  <2>2. /\ lru' \in Seq(HashPrefixes) /\ Len(lru') = Len(lru) - 1
        /\ IsInjective(lru') /\ ToSet(lru') = ToSet(lru) \ {p}
    BY <1>2, <1>12, WithoutProperties
  <2>3. TypeOK'
    BY <1>2, <1>8, <1>11, <1>12, <2>2 DEF TypeOK
  <2>4. CacheInv'
    BY <1>5, <2>1, SaidStays DEF CacheInv
  <2>5. MapMatchesList'
    <3>1. Len(lru) \in Nat /\ Len(lru) - 1 <= MaxEntries
      BY LenProperties, LimitsAssumption DEF TypeOK, MapMatchesList
    <3>2. {q \in HashPrefixes : entries'[q] /= NoEntry} = ToSet(lru')
      BY <2>1, <2>2 DEF MapMatchesList
    <3>3. QED
      BY <2>2, <3>1, <3>2 DEF MapMatchesList
  <2>6. QED
    BY <1>7, <1>11, <1>12, <2>3, <2>4, <2>5
<1>13. CASE /\ entries[p] = NoEntry
            /\ missing' = [missing EXCEPT ![l] = Append(@, p)]
            /\ UNCHANGED <<entries, lru, result>>
  <2>1. TypeOK'
    BY <1>2, <1>8, <1>11, <1>13 DEF TypeOK
  <2>2. CacheInv'
    BY <1>5, <1>13, CacheStays
  <2>3. MapMatchesList'
    BY <1>13 DEF MapMatchesList
  <2>4. QED
    BY <1>7, <1>11, <1>13, <2>1, <2>2, <2>3
<1>14. QED
  BY <1>1, <1>10, <1>12, <1>13

LEMMA PutStep ==
  ASSUME Inv, NEW l \in Lookups, Put(l)
  PROVE  Inv'
<1> USE DEF Inv
<1> DEFINE p == Head(missing[l])
           entry == Entry(p \in fetched[l].threats, ExpiresAt(l), fetched[l].at, fetched[l].seconds)
           kept == Evict([entries EXCEPT ![p] = entry], ToFront(p))
           v == Verdict(p, entry, now[l])
<1>1. /\ pc[l] = "put"
      /\ entries' = kept.entries
      /\ lru' = kept.lru
      /\ missing' = [missing EXCEPT ![l] = Tail(@)]
      /\ result' = [result EXCEPT ![l] = @ \cup {v}]
      /\ pc' = [pc EXCEPT ![l] = IF Len(missing[l]) = 1 THEN "ok" ELSE "put"]
      /\ UNCHANGED <<clock, listed, asked, now, todo, fetched, slots>>
  BY DEF Put
<1>2. /\ now[l] \in 1 .. clock /\ now[l] \in Nat /\ clock \in Nat
      /\ missing[l] \in Seq(HashPrefixes) /\ IsInjective(missing[l]) /\ missing[l] /= <<>>
      /\ result[l] \in SUBSET Verdicts
      /\ todo[l] = {}
      /\ Partition(l)
      /\ \A x, w \in result[l] : x.prefix = w.prefix => x = w
      /\ \A x \in result[l] : Vouched(l, x)
      /\ fetched[l].at \in now[l] .. clock
      /\ fetched[l].at \in Nat /\ fetched[l].seconds \in Nat
      /\ \A q \in ToSet(missing[l]) :
             q \in fetched[l].threats <=> q \in listed[fetched[l].at]
  <2>1. LookupInv(l)
    OBVIOUS
  <2>2. /\ now[l] \in Nat /\ clock \in Nat
        /\ missing[l] \in Seq(HashPrefixes) /\ result[l] \in SUBSET Verdicts
        /\ fetched[l] \in Answers
    BY DEF TypeOK
  <2>3. fetched[l].at \in Nat /\ fetched[l].seconds \in Nat
    BY <2>2 DEF Answers
  <2>4. QED
    BY <1>1, <2>1, <2>2, <2>3 DEF LookupInv, Working
<1>3. /\ p \in HashPrefixes /\ p \in ToSet(missing[l])
      /\ Tail(missing[l]) \in Seq(HashPrefixes)
      /\ Len(Tail(missing[l])) = Len(missing[l]) - 1
      /\ IsInjective(Tail(missing[l]))
      /\ ToSet(Tail(missing[l])) = ToSet(missing[l]) \ {p}
  BY <1>2, TailInjective
<1>4. /\ entry \in Entries
      /\ entry.threat = (p \in fetched[l].threats)
      /\ entry.expiresAt = now[l] + fetched[l].seconds
      /\ entry.at = fetched[l].at /\ entry.seconds = fetched[l].seconds
  BY <1>2 DEF Entry, Entries, ExpiresAt
<1> HIDE DEF p, entry, v
<1>5. Said(p, entry)
  <2>1. fetched[l].at \in 1 .. clock
    BY <1>2
  <2>2. QED
    BY <2>1, <1>2, <1>3, <1>4 DEF Said
<1>6. /\ v \in Verdicts /\ v.prefix = p /\ v.entry = entry
      /\ v.remaining = fetched[l].seconds
  <2>1. /\ v \in Verdicts /\ v.prefix = p /\ v.entry = entry
        /\ v.remaining = IF now[l] < entry.expiresAt THEN entry.expiresAt - now[l] ELSE 0
    <3>1. p \in HashPrefixes /\ entry \in Entries /\ now[l] \in Nat
      BY <1>2, <1>3, <1>4
    <3>2. v = Verdict(p, entry, now[l])
      BY DEF v
    <3>3. QED
      BY <3>1, <3>2, VerdictType
  <2>2. (IF now[l] < entry.expiresAt THEN entry.expiresAt - now[l] ELSE 0) = fetched[l].seconds
    BY <1>2, <1>4
  <2>3. QED
    BY <2>1, <2>2
<1>7. /\ kept.entries \in [HashPrefixes -> Entries \cup {NoEntry}]
      /\ kept.lru \in Seq(HashPrefixes)
      /\ {q \in HashPrefixes : kept.entries[q] /= NoEntry} = ToSet(kept.lru)
      /\ IsInjective(kept.lru)
      /\ Len(kept.lru) <= MaxEntries
      /\ \A q \in HashPrefixes :
             kept.entries[q] \in {NoEntry, IF q = p THEN entry ELSE entries[q]}
  BY <1>3, <1>4, EvictProperties
<1> HIDE DEF kept
<1>8. TimeGoesOn
  BY <1>1 DEF TypeOK, TimeGoesOn
<1>9. /\ missing'[l] = Tail(missing[l]) /\ result'[l] = result[l] \cup {v}
      /\ pc'[l] = (IF Len(missing[l]) = 1 THEN "ok" ELSE "put")
      /\ \A m \in Lookups \ {l} :
             missing'[m] = missing[m] /\ result'[m] = result[m] /\ pc'[m] = pc[m]
  BY <1>1 DEF TypeOK
<1>10. TypeOK'
  <2>1. missing' \in [Lookups -> Seq(HashPrefixes)] /\ pc' \in [Lookups -> Labels]
    BY <1>1, <1>3 DEF TypeOK, Labels
  <2>2. result' \in [Lookups -> SUBSET Verdicts]
    BY <1>1, <1>6 DEF TypeOK
  <2>3. QED
    BY <1>1, <1>7, <2>1, <2>2 DEF TypeOK
<1>11. SlotsInv'
  <2>1. PICK where : where /= "fetch" /\ pc' = [pc EXCEPT ![l] = where]
    BY <1>1
  <2>2. QED
    BY <2>1, <1>1, SlotsStay
<1>12. MapMatchesList'
  BY <1>1, <1>7 DEF MapMatchesList
<1>13. CacheInv'
  <2>1. ASSUME NEW q \in HashPrefixes, entries'[q] /= NoEntry
        PROVE  /\ Said(q, kept.entries[q])
               /\ kept.entries[q].expiresAt <= kept.entries[q].at + kept.entries[q].seconds
    <3>1. CASE q = p
      <4>1. kept.entries[q] = entry
        BY <1>1, <1>7, <2>1, <3>1
      <4>2. entry.expiresAt <= entry.at + entry.seconds
        BY <1>2, <1>4
      <4>3. QED
        BY <1>5, <3>1, <4>1, <4>2
    <3>2. CASE q /= p
      <4>1. kept.entries[q] = entries[q] /\ entries[q] /= NoEntry
        BY <1>1, <1>7, <2>1, <3>2
      <4>2. QED
        BY <4>1 DEF CacheInv
    <3>3. QED
      BY <3>1, <3>2
  <2>2. QED
    BY <2>1, <1>1 DEF CacheInv, Said
<1>14. LookupInv(l)'
  <2>1. Vouched(l, v)
    <3>1. entry.at >= now[l] /\ now[l] + fetched[l].seconds <= entry.at + entry.seconds
      BY <1>2, <1>4
    <3>2. QED
      BY <1>5, <1>6, <3>1 DEF Vouched
  <2>2. \A x \in result'[l] : Vouched(l, x)'
    <3>1. \A x : Vouched(l, x) => Vouched(l, x)'
      BY <1>1 DEF Vouched, Said
    <3>2. QED
      BY <1>2, <1>9, <2>1, <3>1
  <2>3. p \notin PrefixesOf(result[l])
    BY <1>2, <1>3 DEF Partition
  <2>4. /\ PrefixesOf(result'[l]) = PrefixesOf(result[l]) \cup {p}
        /\ \A x, y \in result'[l] : x.prefix = y.prefix => x = y
    <3>1. v.prefix \notin PrefixesOf(result[l])
      BY <1>6, <2>3
    <3>2. \A x, y \in result[l] : x.prefix = y.prefix => x = y
      BY <1>2
    <3>3. /\ PrefixesOf(result[l] \cup {v}) = PrefixesOf(result[l]) \cup {v.prefix}
          /\ \A x, y \in result[l] \cup {v} : x.prefix = y.prefix => x = y
      BY <3>1, <3>2, AddVerdict
    <3>4. QED
      BY <1>6, <1>9, <3>3
  <2>5. Partition(l)'
    <3>1. /\ asked[l] = todo[l] \cup ToSet(missing[l]) \cup PrefixesOf(result[l])
          /\ ToSet(missing[l]) \cap PrefixesOf(result[l]) = {}
          /\ asked'[l] = asked[l] /\ todo'[l] = {}
      BY <1>1, <1>2 DEF Partition
    <3>2. asked'[l] = todo'[l] \cup ToSet(missing'[l]) \cup PrefixesOf(result'[l])
      BY <1>2, <1>3, <1>9, <2>4, <3>1
    <3>3. ToSet(missing'[l]) \cap PrefixesOf(result'[l]) = {}
      BY <1>3, <1>9, <2>4, <3>1
    <3>4. QED
      BY <3>1, <3>2, <3>3 DEF Partition, PrefixesOf, ToSet
  <2>6. /\ now'[l] \in 1 .. clock' /\ todo'[l] = {} /\ IsInjective(missing'[l])
        /\ fetched'[l].at \in now'[l] .. clock'
    BY <1>1, <1>2, <1>3, <1>9
  <2>7. \A q \in ToSet(missing'[l]) :
            q \in fetched'[l].threats <=> q \in listed'[fetched'[l].at]
    BY <1>1, <1>2, <1>3, <1>9
  <2>8. Len(missing[l]) = 1 <=> missing'[l] = <<>>
    <3>1. Len(missing[l]) \in Nat /\ Tail(missing[l]) \in Seq(HashPrefixes)
      BY <1>2, <1>3, LenProperties
    <3>2. Len(Tail(missing[l])) = 0 <=> Tail(missing[l]) = <<>>
      BY <3>1, EmptySeq
    <3>3. QED
      BY <1>3, <1>9, <3>1, <3>2
  <2>9. QED
    BY <1>9, <2>2, <2>4, <2>5, <2>6, <2>7, <2>8 DEF LookupInv, Working
<1>15. ASSUME NEW m \in Lookups, m /= l PROVE LookupInv(m)'
  BY <1>15, <1>1, <1>8, <1>9, UntouchedLookup DEF Untouched
<1>16. QED
  BY <1>10, <1>11, <1>12, <1>13, <1>14, <1>15

------------------------------------------------------------------------------
\* The theorems.

LEMMA NextStep == Inv /\ [Next]_vars => Inv'
<1> SUFFICES ASSUME Inv, [Next]_vars PROVE Inv'
  OBVIOUS
<1>1. CASE UNCHANGED vars
  BY <1>1 DEF vars, Inv, TypeOK, SlotsInv, Fetching, MapMatchesList, CacheInv, Said, LookupInv,
              Partition, Vouched
<1>2. ASSUME NEW l \in Lookups, NEW P \in SUBSET HashPrefixes, Start(l, P) PROVE Inv'
  BY <1>2, StartStep
<1>3. ASSUME NEW l \in Lookups, Get(l) PROVE Inv'
  BY <1>3, GetStep
<1>4. ASSUME NEW l \in Lookups, Acquire(l) PROVE Inv'
  BY <1>4, AcquireStep
<1>5. ASSUME NEW l \in Lookups, Fetch(l) PROVE Inv'
  BY <1>5, FetchStep
<1>6. ASSUME NEW l \in Lookups, Put(l) PROVE Inv'
  BY <1>6, PutStep
<1>7. CASE Tick
  BY <1>7, TickStep
<1>8. QED
  BY <1>1, <1>2, <1>3, <1>4, <1>5, <1>6, <1>7 DEF Next

\* The invariant holds in every state of every execution.
THEOREM Invariance == Spec => []Inv
<1>1. QED
  BY InitInv, NextStep, PTL DEF Spec

\* Cache.entries and Cache.lru always hold the same prefixes, each once, within
\* maxEntries: the eviction loop of put never runs twice and never misses.
THEOREM MapMatchesListAlways == Spec => []MapMatchesList
<1>1. Inv => MapMatchesList
  BY DEF Inv
<1>2. QED
  BY Invariance, <1>1, PTL

\* The client's semaphore is exactly as full as there are lookups waiting for the
\* provider: every way out of Client.Lookup gives its slot back once.
THEOREM SlotsMatchFetchesAlways == Spec => []SlotsMatchFetches
<1>1. Inv => SlotsMatchFetches
  BY DEF Inv, SlotsInv, SlotsMatchFetches, Fetching
<1>2. QED
  BY Invariance, <1>1, PTL

\* One verdict per prefix: a result that has unique prefixes is as large as their set.
LEMMA OneVerdictEach ==
  ASSUME NEW R, NEW A, IsFiniteSet(A), A = PrefixesOf(R),
         \A v, w \in R : v.prefix = w.prefix => v = w
  PROVE  Cardinality(A) = Cardinality(R)
<1> DEFINE f == [q \in A |-> CHOOSE v \in R : v.prefix = q]
<1>1. \A q \in A : f[q] \in R /\ f[q].prefix = q
  BY DEF PrefixesOf
<1>2. f \in [A -> R]
  BY <1>1
<1>3. f \in Injection(A, R)
  <2>1. DOMAIN f = A
    OBVIOUS
  <2> HIDE DEF f
  <2>2. QED
    BY <2>1, <1>1, <1>2 DEF Injection, IsInjective
<1>4. \A v \in R : f[v.prefix] = v /\ v.prefix \in A
  <2> HIDE DEF f
  <2>1. QED
    BY <1>1 DEF PrefixesOf
<1> HIDE DEF f
<1>5. f \in Surjection(A, R)
  BY <1>2, <1>4 DEF Surjection
<1>6. ExistsBijection(A, R)
  BY <1>3, <1>5 DEF ExistsBijection, Bijection
<1>7. QED
  BY <1>6, FS_Bijection

\* A lookup that succeeds answers with one verdict per prefix, each one the provider's
\* and still covered by the duration it gave, whatever other lookups did to the cache
\* between its gets, its request and its puts.
THEOREM VerdictsHonouredAlways == Spec => []VerdictsHonoured
<1>1. ASSUME Inv PROVE VerdictsHonoured
  <2> SUFFICES ASSUME NEW l \in Lookups, pc[l] = "ok"
               PROVE  /\ asked[l] = {v.prefix : v \in result[l]}
                      /\ Cardinality(asked[l]) = Cardinality(result[l])
                      /\ \A v \in result[l] : Vouched(l, v)
    BY DEF VerdictsHonoured, Vouched, Said
  <2>1. LookupInv(l)
    BY <1>1 DEF Inv
  <2>2. /\ todo[l] = {} /\ missing[l] = <<>> /\ Partition(l)
        /\ \A v, w \in result[l] : v.prefix = w.prefix => v = w
        /\ \A v \in result[l] : Vouched(l, v)
    BY <2>1 DEF LookupInv, Working
  <2>3. asked[l] = PrefixesOf(result[l])
    BY <2>2, EmptyList DEF Partition
  <2>4. IsFiniteSet(asked[l])
    BY <1>1, PrefixesAssumption, FS_Subset DEF Inv, TypeOK
  <2>5. Cardinality(asked[l]) = Cardinality(result[l])
    BY <2>2, <2>3, <2>4, OneVerdictEach
  <2>6. QED
    BY <2>2, <2>3, <2>5 DEF PrefixesOf
<1>2. QED
  BY Invariance, <1>1, PTL
==============================================================================
