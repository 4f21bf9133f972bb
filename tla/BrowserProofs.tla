----------------------------- MODULE BrowserProofs -----------------------------
(***************************************************************************)
(* Proofs about the browser's parts as MCBrowser puts them together, for   *)
(* any number of derivations, gates, passwords, storage keys, attempts and *)
(* submissions, with and without create CAPTCHAs.                          *)
(***************************************************************************)
EXTENDS MCBrowser, Integers, SequenceTheorems, TLAPS

------------------------------------------------------------------------------
\* The derivation of keys.

DerivationType ==
    /\ promise \in [Calls -> {"none", "pending", "resolved", "rejected"}]
    /\ worker \in [Calls -> {"none", "running", "posted", "failed", "terminated"}]
    /\ event \in [Calls -> {"none", "keys", "message", "error"}]
    /\ fallback \in [Calls -> {"none", "running", "done"}]
    /\ secret \in [Calls -> {"live", "wiped"}]
    /\ fallbackOf \in [Calls -> {"none", "live", "wiped"}]
    /\ keys \in [Calls -> SUBSET {"caller", "wiped", "lost"}]
    /\ abandoned \subseteq Calls

\* A worker's event and the fallback exclude each other: the fallback starts when the
\* worker is known not to answer, and the page listens to the worker only before. A
\* fallback that is still to start finds a wiped input only if its caller has failed.
CallInv(c) ==
    /\ promise[c] = "none" => worker[c] = "none" /\ fallback[c] = "none"
    /\ worker[c] \in {"none", "running"} => event[c] = "none"
    /\ fallback[c] /= "none" => worker[c] \in {"none", "terminated"} /\ event[c] = "none"
    /\ promise[c] = "pending" /\ secret[c] = "wiped" /\ fallback[c] = "none" => c \in abandoned
    /\ promise[c] = "none" /\ secret[c] = "wiped" => signal
    /\ promise[c] = "pending" /\ (signal \/ worker[c] = "none") => fallback[c] /= "none"
    /\ c \in abandoned => promise[c] /= "none"
    /\ fallbackOf[c] = "wiped" => c \in abandoned
    /\ "lost" \in keys[c] => c \in abandoned
    /\ "caller" \in keys[c] <=> promise[c] = "resolved" /\ c \notin abandoned

DerivationInv == DerivationType /\ \A c \in Calls : CallInv(c)

LEMMA DerivationInit == Derivations!Init => DerivationInv
BY DEF Derivations!Init, DerivationInv, DerivationType, CallInv

LEMMA DerivationNext == DerivationInv /\ Derivations!Next => DerivationInv'
<1> SUFFICES ASSUME DerivationInv, Derivations!Next PROVE DerivationInv'
  OBVIOUS
<1> USE DEF DerivationInv, DerivationType, CallInv, Derivations!settled,
            Derivations!fallbackStarted, Derivations!Terminated, Derivations!Put,
            Derivations!resolveOnce, Derivations!rejectOnce, Derivations!MayFallBack,
            Derivations!BeginFallback, Derivations!Receiver
<1>1. CASE Derivations!Abort
  BY <1>1 DEF Derivations!Abort, Derivations!AbortedPromises
<1>2. ASSUME NEW c \in Calls, Derivations!CallAborted(c) \/ Derivations!CallWithoutWorker(c)
      PROVE  DerivationInv'
  BY <1>2 DEF Derivations!CallAborted, Derivations!CallWithoutWorker
<1>3. ASSUME NEW c \in Calls, Derivations!CallWorker(c) \/ Derivations!PostFails(c)
      PROVE  DerivationInv'
  BY <1>3 DEF Derivations!CallWorker, Derivations!PostFails
<1>4. ASSUME NEW c \in Calls, Derivations!WorkerPosts(c) \/ Derivations!WorkerFails(c)
      PROVE  DerivationInv'
  BY <1>4 DEF Derivations!WorkerPosts, Derivations!WorkerFails
<1>5. ASSUME NEW c \in Calls, Derivations!EventDropped(c) PROVE DerivationInv'
  BY <1>5 DEF Derivations!EventDropped
<1>6. ASSUME NEW c \in Calls, Derivations!OnMessage(c) PROVE DerivationInv'
  BY <1>6 DEF Derivations!OnMessage
<1>7. ASSUME NEW c \in Calls, Derivations!OnError(c) PROVE DerivationInv'
  BY <1>7 DEF Derivations!OnError
<1>8. ASSUME NEW c \in Calls, Derivations!FallbackEnds(c) PROVE DerivationInv'
  BY <1>8 DEF Derivations!FallbackEnds
<1>9. ASSUME NEW c \in Calls, Derivations!CallerWipes(c) PROVE DerivationInv'
  BY <1>9 DEF Derivations!CallerWipes
<1>10. ASSUME NEW c \in Calls, Derivations!CallerFails(c) PROVE DerivationInv'
  BY <1>10 DEF Derivations!CallerFails
<1>11. QED
  BY <1>1, <1>2, <1>3, <1>4, <1>5, <1>6, <1>7, <1>8, <1>9, <1>10
     DEF Derivations!Next, Derivations!Derivation

------------------------------------------------------------------------------
\* The gate before the redirect.

GateType ==
    /\ enabled \in BOOLEAN
    /\ life \in [Gates -> {"new", "mounted", "destroyed"}]
    /\ scan \in [Gates -> {"none", "destination", "lookup", "clean", "threat", "failed", "over"}]
    /\ scanState \in [Gates -> {"scanning", "clean", "threat", "error"}]

\* A gate that was on the page and is not has cancelled its scan; what a coordinator
\* opened is remembered.
LifeInv ==
    \A g \in Gates :
        /\ scan[g] /= "none" => enabled /\ life[g] /= "new"
        /\ enabled /\ life[g] = "destroyed" => g \in aborted
VisitsInv ==
    \A v \in visits :
        /\ enabled => v.gate \in redirected
        /\ v.shown
        /\ v.verdict /= "threat"
        /\ v.chosen \/ (enabled /\ v.verdict = "clean")
        /\ enabled => \A w \in visits : v.gate = w.gate => v = w

GateInv == GateType /\ LifeInv /\ VisitsInv

LEMMA GateInit == Gate!Init => GateInv
BY DEF Gate!Init, GateInv, GateType, LifeInv, VisitsInv

\* One more visit.
LEMMA VisitAdded ==
  ASSUME VisitsInv, NEW v, visits' = visits \cup {v}, UNCHANGED enabled,
         enabled => v.gate \notin redirected /\ redirected' = redirected \cup {v.gate},
         v.shown, v.verdict /= "threat", v.chosen \/ (enabled /\ v.verdict = "clean")
  PROVE  VisitsInv'
BY DEF VisitsInv

LEMMA GateNext == GateInv /\ Gate!Next => GateInv'
<1> SUFFICES ASSUME GateInv, NEW g \in Gates,
                    \/ Gate!Mount(g) \/ Gate!Destroy(g) \/ Gate!DestinationSettles(g)
                    \/ Gate!Work(g)
                    \/ Gate!openWithoutSafetyCheck(g) \/ Gate!OpenDestination(g)
             PROVE  GateInv'
  BY DEF Gate!Next
<1> USE DEF GateInv, GateType, LifeInv
<1>1. CASE Gate!Mount(g)
  BY <1>1 DEF Gate!Mount, VisitsInv
<1>2. CASE Gate!Destroy(g)
  BY <1>2 DEF Gate!Destroy, VisitsInv
<1>3. CASE Gate!DestinationSettles(g)
  BY <1>3 DEF Gate!DestinationSettles, VisitsInv
<1>4. CASE Gate!ScanDestination(g)
  BY <1>4 DEF Gate!ScanDestination, VisitsInv
<1>5. CASE Gate!LookupAnswers(g)
  BY <1>5 DEF Gate!LookupAnswers, VisitsInv
<1>6. CASE Gate!ScanSettles(g)
  <2>1. GateType' /\ LifeInv'
    BY <1>6 DEF Gate!ScanSettles, Gate!Cancelled, Gate!Verdict
  <2>2. CASE UNCHANGED <<redirected, visits>>
    BY <1>6, <2>2, <2>1 DEF Gate!ScanSettles, VisitsInv
  <2>3. CASE Gate!RedirectOnce(g, "clean") /\ ~UNCHANGED <<redirected, visits>>
    <3> DEFINE v == [gate |-> g, verdict |-> "clean", chosen |-> g \in chosen',
                     shown |-> life[g] = "mounted", nth |-> Gate!Cardinality(visits) + 1]
    <3>1. g \notin redirected /\ redirected' = redirected \cup {g} /\ visits' = visits \cup {v}
      BY <2>3 DEF Gate!RedirectOnce, Gate!Redirect
    <3>2. enabled /\ life[g] = "mounted" /\ UNCHANGED enabled
      BY <1>6, <2>3 DEF Gate!ScanSettles, Gate!Cancelled
    <3>3. v.gate = g /\ v.shown /\ v.verdict = "clean"
      BY <3>2
    <3> HIDE DEF v
    <3>4. QED
      BY <2>1, <3>1, <3>2, <3>3, VisitAdded
  <2>4. QED
    BY <1>6, <2>2, <2>3 DEF Gate!ScanSettles
<1>7. CASE Gate!openWithoutSafetyCheck(g)
  <2>1. GateType' /\ LifeInv'
    BY <1>7 DEF Gate!openWithoutSafetyCheck
  <2>2. CASE UNCHANGED <<redirected, visits>>
    BY <1>7, <2>2, <2>1 DEF Gate!openWithoutSafetyCheck, VisitsInv
  <2>3. CASE g \notin redirected
    <3> DEFINE v == [gate |-> g, verdict |-> scanState[g], chosen |-> g \in chosen',
                     shown |-> life[g] = "mounted", nth |-> Gate!Cardinality(visits) + 1]
    <3>1. redirected' = redirected \cup {g} /\ visits' = visits \cup {v}
      BY <1>7, <2>3 DEF Gate!openWithoutSafetyCheck, Gate!RedirectOnce, Gate!Redirect
    <3>2. v.gate = g /\ v.shown /\ v.verdict /= "threat" /\ v.chosen
      BY <1>7 DEF Gate!openWithoutSafetyCheck, Gate!Shows
    <3> HIDE DEF v
    <3>3. QED
      BY <1>7, <2>1, <2>3, <3>1, <3>2, VisitAdded DEF Gate!openWithoutSafetyCheck
  <2>4. QED
    BY <1>7, <2>2, <2>3 DEF Gate!openWithoutSafetyCheck, Gate!RedirectOnce
<1>8. CASE Gate!OpenDestination(g)
  <2> DEFINE v == [gate |-> g, verdict |-> "none", chosen |-> g \in chosen',
                   shown |-> life[g] = "mounted", nth |-> Gate!Cardinality(visits) + 1]
  <2>1. GateType' /\ LifeInv' /\ UNCHANGED enabled /\ ~enabled
    BY <1>8 DEF Gate!OpenDestination
  <2>2. visits' = visits \cup {v}
    BY <1>8 DEF Gate!OpenDestination, Gate!Redirect
  <2>3. v.shown /\ v.verdict = "none" /\ v.chosen
    BY <1>8 DEF Gate!OpenDestination, Gate!Shows
  <2> HIDE DEF v
  <2>4. QED
    BY <2>1, <2>2, <2>3, VisitAdded
<1>9. QED
  BY <1>1, <1>2, <1>3, <1>4, <1>5, <1>6, <1>7, <1>8 DEF Gate!Work

------------------------------------------------------------------------------
\* The page that opens a link.

PageType ==
    /\ flags \in [captcha: BOOLEAN, password: BOOLEAN, burn: BOOLEAN]
    /\ state \in {"starting", "metadata", "gate", "opening", "shown", "terminal", "left"}
    /\ gate \in {"none", "captcha", "password"}
    /\ jobs \in [Page!Job -> {"idle", "waiting", "running", "done", "failed"}]
    /\ joined \in BOOLEAN
    /\ tries \in Nat

\* The jobs of the start and those of the opening do not overlap, and no job runs at
\* a gate or behind the content: a failed Promise.all ends the page's progress.
JobsInv ==
    /\ state \in {"metadata", "gate", "shown"} => jobs = Page!Idle
    /\ \/ jobs["config"] = "idle" /\ jobs["rootKeys"] = "idle"
       \/ jobs["passwordKey"] = "idle" /\ jobs["envelope"] = "idle"
    /\ jobs["passwordKey"] = "running" /\ jobs["envelope"] = "waiting" => state = "opening"
    /\ state \notin {"terminal", "left"} => joined /\ lost = {}
    /\ state = "gate" <=> gate /= "none"
    /\ gate = "password" => flags.password

\* The page has the link's keys until it is done with them.
MaterialInv ==
    /\ state \in {"starting", "metadata", "gate", "opening"} => id = "live"
    /\ state \in {"metadata", "gate", "opening"} => keyMaterial = "live"
    /\ state = "opening" /\ jobs["envelope"] = "done" => ciphertext = "live"
    /\ ciphertext = "live" /\ flags.captcha => captchaKey = "live"
    /\ state = "shown" => "live" \notin {id, keyMaterial, captchaKey, passwordKey, ciphertext}

\* The envelope of a link with a password is asked for after a password was entered,
\* and a one-time envelope after its key was derived.
TriesInv ==
    /\ state \in {"starting", "metadata"} \/ gate = "captcha" => tries = 0
    /\ flags.password /\ tries = 0 =>
        jobs["passwordKey"] = "idle" /\ jobs["envelope"] = "idle" /\ server /= "gone"
    /\ flags.burn /\ flags.password =>
        /\ jobs["envelope"] = "running" => passwordKey /= "none"
        /\ server = "gone" => passwordKey /= "none" \/ tries > 1
    /\ gate = "password" /\ tries > 0 => ciphertext = "live"

PageInv == PageType /\ JobsInv /\ MaterialInv /\ TriesInv

LEMMA PageInit == Page!Init => PageInv
BY DEF Page!Init, Page!Idle, Page!Job, PageInv, PageType, JobsInv, MaterialInv, TriesInv

\* A job that was running has failed.
LEMMA RejectsInv ==
  ASSUME PageInv, NEW j \in Page!Job, jobs[j] = "running", Page!Rejects(j),
         UNCHANGED <<flags, right, tries>>,
         server' = IF j = "envelope" /\ flags.burn THEN "gone" ELSE server
  PROVE  PageInv'
<1> USE DEF PageInv, PageType, Page!Rejects, Page!fail, Page!clearLinkMaterial, Page!Abandon,
            Page!Wiped, Page!Job
<1>1. PageType'
  OBVIOUS
<1>2. JobsInv'
  BY DEF JobsInv, Page!Idle
<1>3. MaterialInv'
  BY DEF JobsInv, MaterialInv, Page!Idle
<1>4. TriesInv'
  BY DEF JobsInv, TriesInv, Page!Idle
<1>5. QED
  BY <1>1, <1>2, <1>3, <1>4

\* startOpening, from the metadata or from a gate.
LEMMA OpeningInv ==
  ASSUME PageInv, Page!StartOpening, state \in {"metadata", "gate"}, tries' \in Nat,
         flags.password => tries' = tries + 1,
         ~flags.password => tries' = tries,
         passwordKey' \in {"none", passwordKey},
         UNCHANGED <<flags, id, keyMaterial, captchaKey, ciphertext, lost, server>>
  PROVE  PageInv'
<1> USE DEF PageInv, PageType, Page!StartOpening, Page!Starts, Page!Sequential, Page!Job
<1>1. PageType'
  OBVIOUS
<1>2. JobsInv'
  BY DEF JobsInv, Page!Idle
<1>3. MaterialInv'
  BY DEF JobsInv, MaterialInv, Page!Idle
<1>4. TriesInv'
  BY DEF JobsInv, TriesInv, Page!Idle
<1>5. QED
  BY <1>1, <1>2, <1>3, <1>4

LEMMA PageNext == PageInv /\ Page!Next => PageInv'
<1> SUFFICES ASSUME PageInv, Page!Next PROVE PageInv'
  OBVIOUS
<1> USE DEF PageInv, PageType, Page!Running, Page!Job
<1>1. CASE Page!ConfigAnswers
  <2>1. CASE Page!Rejects("config")
    BY <1>1, <2>1, RejectsInv DEF Page!ConfigAnswers
  <2>2. CASE ~Page!Rejects("config")
    BY <1>1, <2>2 DEF Page!ConfigAnswers, JobsInv, MaterialInv, TriesInv, Page!Idle
  <2>3. QED
    BY <2>1, <2>2
<1>2. CASE Page!RootKeysDerived
  <2>1. CASE Page!Rejects("rootKeys")
    BY <1>2, <2>1, RejectsInv DEF Page!RootKeysDerived
  <2>2. CASE ~Page!Rejects("rootKeys")
    BY <1>2, <2>2 DEF Page!RootKeysDerived, JobsInv, MaterialInv, TriesInv, Page!Idle
  <2>3. QED
    BY <2>1, <2>2
<1>3. CASE Page!KeysReady
  BY <1>3 DEF Page!KeysReady, JobsInv, MaterialInv, TriesInv, Page!Idle
<1>4. CASE Page!MetadataAnswers
  <2>1. CASE /\ ~flags.captcha /\ ~flags.password /\ Page!StartOpening
             /\ UNCHANGED <<ciphertext, captchaKey, keyMaterial, id>>
    BY <1>4, <2>1, OpeningInv DEF Page!MetadataAnswers, JobsInv
  <2>2. CASE Page!fail /\ UNCHANGED <<jobs, joined>>
    BY <1>4, <2>2 DEF Page!MetadataAnswers, Page!fail, Page!clearLinkMaterial, Page!Wiped,
       JobsInv, MaterialInv, TriesInv, Page!Idle
  <2>3. CASE /\ flags.captcha \/ flags.password
             /\ state' = "gate"
             /\ gate' = IF flags.captcha THEN "captcha" ELSE "password"
             /\ UNCHANGED <<jobs, joined, ciphertext, captchaKey, keyMaterial, id>>
    BY <1>4, <2>3 DEF Page!MetadataAnswers, JobsInv, MaterialInv, TriesInv, Page!Idle
  <2>4. QED
    BY <1>4, <2>1, <2>2, <2>3 DEF Page!MetadataAnswers
<1>5. CASE Page!captchaVerified
  <2>1. CASE flags.password
    BY <1>5, <2>1 DEF Page!captchaVerified, JobsInv, MaterialInv, TriesInv, Page!Idle
  <2>2. CASE ~flags.password
    BY <1>5, <2>2, OpeningInv DEF Page!captchaVerified, JobsInv
  <2>3. QED
    BY <2>1, <2>2
<1>6. CASE Page!passwordSubmitted
  BY <1>6, OpeningInv DEF Page!passwordSubmitted, JobsInv
<1>7. CASE Page!PasswordKeyDerived
  <2>1. CASE Page!Rejects("passwordKey")
    BY <1>7, <2>1, RejectsInv DEF Page!PasswordKeyDerived
  <2>2. CASE ~Page!Rejects("passwordKey")
    BY <1>7, <2>2 DEF Page!PasswordKeyDerived, JobsInv, MaterialInv, TriesInv, Page!Idle
  <2>3. QED
    BY <2>1, <2>2
<1>8. CASE Page!EnvelopeArrives
  <2>1. CASE Page!Rejects("envelope")
    BY <1>8, <2>1, RejectsInv DEF Page!EnvelopeArrives
  <2>2. CASE ~Page!Rejects("envelope")
    BY <1>8, <2>2 DEF Page!EnvelopeArrives, JobsInv, MaterialInv, TriesInv, Page!Idle
  <2>3. QED
    BY <2>1, <2>2
<1>9. CASE Page!Decrypt
  BY <1>9 DEF Page!Decrypt, Page!Settled, Page!fail, Page!clearLinkMaterial, Page!Wiped,
     Page!retryPassword, JobsInv, MaterialInv, TriesInv, Page!Idle
<1>10. CASE Page!Leave
  BY <1>10 DEF Page!Leave, Page!Settled, Page!clearLinkMaterial, Page!Wiped, Page!Abandon,
     JobsInv, MaterialInv, TriesInv, Page!Idle
<1>11. QED
  BY <1>1, <1>2, <1>3, <1>4, <1>5, <1>6, <1>7, <1>8, <1>9, <1>10 DEF Page!Next, Page!Step

------------------------------------------------------------------------------
\* The page that creates a link.

\* Nothing of this artifact is on the server, and no request for it is still served.
Dead(a) ==
    /\ \A k \in Keys : stored[k] /= a
    /\ \A i \in DOMAIN requests : requests[i].artifact = a => requests[i].phase = "done"

Artifacts == [key: Keys, token: Tokens \cup {NoToken}, submission: Nat]
Requests ==
    [artifact: Nat, phase: {"sent", "verify", "store", "done"},
     answer: {"none", "created", "replayed", "conflict", "captcha_failed", "internal"}]

CreateType ==
    /\ submission \in Nat
    /\ artifacts \in Seq(Artifacts)
    /\ requests \in Seq(Requests)
    /\ stored \in [Keys -> Int]
    /\ token \in Tokens \cup {NoToken}

\* Every request is for an artifact of this page, every artifact of a submission made.
BuiltInv ==
    /\ \A i \in DOMAIN requests : requests[i].artifact \in DOMAIN artifacts
    /\ \A a \in DOMAIN artifacts : artifacts[a].submission <= submission

\* An envelope is under the key of its artifact, and a conflict is final: somebody
\* else's envelope stays where it is.
StoredInv ==
    /\ \A k \in Keys : stored[k] \in DOMAIN artifacts => artifacts[stored[k]].key = k
    /\ \A k \in Keys : stored[k] \in DOMAIN artifacts \cup {0, Create!Other}
    /\ \A i \in DOMAIN requests :
        requests[i].answer = "conflict" =>
            /\ requests[i].phase = "done"
            /\ stored[artifacts[requests[i].artifact].key] \notin {0, requests[i].artifact}

\* The request the browser waits for is the last one sent, for the last artifact; if
\* it was not sent again it is the only one for it.
CurrentInv ==
    creation = "submitting" =>
        /\ requests /= << >>
        /\ requests[Len(requests)].artifact = Len(artifacts)
        /\ artifacts[Len(artifacts)].submission = submission
        /\ ~resubmitted =>
            \A i \in DOMAIN requests : requests[i].artifact = Len(artifacts) => i = Len(requests)

\* An artifact that another one of the same submission has replaced is dead.
DeadInv ==
    /\ \A a, b \in DOMAIN artifacts :
        a < b /\ artifacts[a].submission = artifacts[b].submission => Dead(a)
    /\ creation = "building" =>
        \A a \in DOMAIN artifacts : artifacts[a].submission = submission => Dead(a)

CreateInv == CreateType /\ BuiltInv /\ StoredInv /\ CurrentInv /\ DeadInv

LEMMA CreateInit == Create!Init => CreateInv
BY DEF Create!Init, Create!Other, CreateInv, CreateType, BuiltInv, StoredInv, CurrentInv, DeadInv

LEMMA SequenceFacts ==
  ASSUME CreateType
  PROVE  /\ Len(artifacts) \in Nat /\ DOMAIN artifacts = 1 .. Len(artifacts)
         /\ Len(requests) \in Nat /\ DOMAIN requests = 1 .. Len(requests)
         /\ \A a \in DOMAIN artifacts : artifacts[a].key \in Keys /\ artifacts[a].submission \in Nat
         /\ \A i \in DOMAIN requests : requests[i].artifact \in Nat
<1>1. /\ Len(artifacts) \in Nat /\ DOMAIN artifacts = 1 .. Len(artifacts)
      /\ Len(requests) \in Nat /\ DOMAIN requests = 1 .. Len(requests)
  BY LenProperties DEF CreateType
<1>2. ASSUME NEW a \in DOMAIN artifacts
      PROVE  artifacts[a].key \in Keys /\ artifacts[a].submission \in Nat
  <2>1. artifacts[a] \in Artifacts
    BY <1>1, ElementOfSeq DEF CreateType
  <2>2. QED
    BY <2>1 DEF Artifacts
<1>3. ASSUME NEW i \in DOMAIN requests PROVE requests[i].artifact \in Nat
  <2>1. requests[i] \in Requests
    BY <1>1, ElementOfSeq DEF CreateType
  <2>2. QED
    BY <2>1 DEF Requests
<1>4. QED
  BY <1>1, <1>2, <1>3

\* The browser goes on without sending anything: it may only start building when the
\* artifacts of the submission are dead.
LEMMA QuietInv ==
  ASSUME CreateInv, UNCHANGED <<artifacts, requests, stored>>, submission' \in Nat,
         submission' >= submission, token' \in Tokens \cup {NoToken},
         creation' = "submitting" =>
            creation = "submitting" /\ UNCHANGED <<submission, resubmitted>>,
         creation' = "building" =>
            \A a \in DOMAIN artifacts : artifacts[a].submission = submission' => Dead(a)
  PROVE  CreateInv'
<1>1. CreateType' /\ BuiltInv'
  BY SequenceFacts DEF CreateInv, CreateType, BuiltInv
<1>2. StoredInv'
  BY DEF CreateInv, StoredInv
<1>3. CurrentInv'
  BY DEF CreateInv, CurrentInv
<1>4. DeadInv'
  BY DEF CreateInv, DeadInv, Dead
<1>5. QED
  BY <1>1, <1>2, <1>3, <1>4 DEF CreateInv

\* The server goes on with a request.
LEMMA ServedInv ==
  ASSUME CreateInv, NEW i \in DOMAIN requests, requests[i].phase /= "done",
         NEW phase \in {"verify", "store", "done"},
         NEW answer \in {"none", "created", "replayed", "conflict", "captcha_failed", "internal"},
         requests' = [requests EXCEPT ![i] = [artifact |-> requests[i].artifact,
                                              phase |-> phase, answer |-> answer]],
         answer = "conflict" =>
            /\ phase = "done" /\ UNCHANGED stored
            /\ stored[Create!KeyOf(i)] \notin {0, requests[i].artifact},
         \/ UNCHANGED stored
         \/ /\ stored[Create!KeyOf(i)] = 0
            /\ stored' = [stored EXCEPT ![Create!KeyOf(i)] = requests[i].artifact],
         UNCHANGED Create!page
  PROVE  CreateInv'
<1> USE DEF Create!KeyOf, Create!page
<1> DEFINE a == requests[i].artifact
<1>1. a \in DOMAIN artifacts /\ a \in Nat /\ artifacts[a].key \in Keys /\ i \in 1 .. Len(requests)
  BY SequenceFacts DEF CreateInv, BuiltInv
<1> DEFINE r == [artifact |-> a, phase |-> phase, answer |-> answer]
<1>2. r \in Requests
  BY <1>1 DEF Requests
<1>3. /\ DOMAIN requests' = DOMAIN requests /\ Len(requests') = Len(requests)
      /\ requests' \in Seq(Requests)
      /\ requests'[i] = r /\ \A n \in DOMAIN requests : n /= i => requests'[n] = requests[n]
  <2>1. requests \in Seq(Requests) /\ DOMAIN requests = 1 .. Len(requests)
    BY SequenceFacts DEF CreateInv, CreateType
  <2> HIDE DEF r
  <2>2. requests' = [requests EXCEPT ![i] = r]
    BY DEF r
  <2>3. /\ requests' \in Seq(Requests) /\ Len(requests') = Len(requests)
        /\ \A n \in 1 .. Len(requests) : requests'[n] = IF n = i THEN r ELSE requests[n]
    BY <1>1, <1>2, <2>1, <2>2, ExceptSeq
  <2>4. DOMAIN requests' = 1 .. Len(requests')
    BY <2>3, LenProperties
  <2>5. QED
    BY <1>1, <2>1, <2>3, <2>4
<1>4. CreateType' /\ \A n \in DOMAIN requests : requests'[n].artifact = requests[n].artifact
  BY <1>1, <1>3 DEF CreateInv, CreateType
<1>5. BuiltInv'
  BY <1>3, <1>4 DEF CreateInv, BuiltInv
<1>6. StoredInv'
  <2>1. \A k \in Keys : stored'[k] = stored[k]
                         \/ (stored[k] = 0 /\ stored'[k] = a /\ k = artifacts[a].key)
    BY <1>1 DEF CreateInv, CreateType
  <2>2. /\ \A k \in Keys : stored'[k] \in DOMAIN artifacts => artifacts[stored'[k]].key = k
        /\ \A k \in Keys : stored'[k] \in DOMAIN artifacts \cup {0, Create!Other}
    BY <1>1, <2>1 DEF CreateInv, StoredInv
  <2>3. ASSUME NEW n \in DOMAIN requests, requests'[n].answer = "conflict"
        PROVE  /\ requests'[n].phase = "done"
               /\ stored'[artifacts[requests'[n].artifact].key] \notin {0, requests'[n].artifact}
    <3>1. CASE n = i
      BY <1>1, <1>3, <2>3, <3>1
    <3>2. CASE n /= i
      <4>1. artifacts[requests[n].artifact].key \in Keys
        BY SequenceFacts DEF CreateInv, BuiltInv
      <4>2. QED
        BY <1>1, <1>3, <1>4, <2>1, <2>3, <3>2, <4>1 DEF CreateInv, StoredInv
    <3>3. QED
      BY <3>1, <3>2
  <2>4. QED
    BY <1>3, <1>4, <2>2, <2>3 DEF StoredInv
<1>7. CurrentInv'
  BY <1>3, <1>4, EmptySeq DEF CreateInv, CreateType, CurrentInv
<1>8. ASSUME NEW b, Dead(b) PROVE Dead(b)'
  <2>1. b /= a
    BY <1>8 DEF Dead
  <2>2. QED
    BY <1>1, <1>3, <1>4, <1>8, <2>1 DEF Dead, CreateInv, CreateType
<1>9. DeadInv'
  BY <1>8 DEF CreateInv, DeadInv
<1>10. QED
  BY <1>4, <1>5, <1>6, <1>7, <1>9 DEF CreateInv

LEMMA Appended ==
  ASSUME NEW R, NEW s \in Seq(R), NEW e \in R, NEW t, t = Append(s, e)
  PROVE  /\ t \in Seq(R) /\ t /= << >>
         /\ Len(s) \in Nat /\ Len(t) = Len(s) + 1
         /\ DOMAIN s = 1 .. Len(s) /\ DOMAIN t = 1 .. Len(t)
         /\ DOMAIN t = DOMAIN s \cup {Len(t)} /\ Len(t) \notin DOMAIN s
         /\ \A i \in DOMAIN s : t[i] = s[i]
         /\ t[Len(t)] = e
<1>1. /\ t \in Seq(R) /\ t /= << >> /\ Len(t) = Len(s) + 1
      /\ \A i \in 1 .. Len(s) : t[i] = s[i]
      /\ t[Len(s) + 1] = e
  BY AppendProperties
<1>2. DOMAIN s = 1 .. Len(s) /\ DOMAIN t = 1 .. Len(t) /\ Len(s) \in Nat
  BY <1>1, LenProperties
<1>3. QED
  BY <1>1, <1>2

\* The browser sends a request for its last artifact, new or once more.
LEMMA SentInv ==
  ASSUME CreateInv, NEW new \in BOOLEAN, NEW k,
         creation' = "submitting", resubmitted' = ~new,
         requests' = Append(requests, [artifact |-> Len(artifacts'), phase |-> "sent",
                                       answer |-> "none"]),
         new => /\ creation = "building" /\ k \in Keys
                /\ artifacts' = Append(artifacts, [key |-> k, token |-> token,
                                                   submission |-> submission]),
         ~new => creation = "submitting" /\ UNCHANGED artifacts,
         UNCHANGED <<stored, submission, token>>
  PROVE  CreateInv'
<1> USE DEF CreateInv
<1>0. /\ DOMAIN artifacts = 1 .. Len(artifacts) /\ Len(artifacts) \in Nat
      /\ DOMAIN requests = 1 .. Len(requests) /\ Len(requests) \in Nat
      /\ \A a \in DOMAIN artifacts : artifacts[a].submission \in Nat
      /\ artifacts \in Seq(Artifacts) /\ requests \in Seq(Requests)
  BY SequenceFacts DEF CreateType
<1> DEFINE m == Len(artifacts')
           n == Len(requests')
<1>1. /\ artifacts' \in Seq(Artifacts)
      /\ m \in Nat \ {0} /\ DOMAIN artifacts' = 1 .. m
      /\ \A a \in DOMAIN artifacts : artifacts'[a] = artifacts[a]
      /\ IF new THEN DOMAIN artifacts' = DOMAIN artifacts \cup {m} /\ m \notin DOMAIN artifacts
         ELSE UNCHANGED artifacts
      /\ artifacts'[m].submission = submission
  <2>1. CASE new
    <3> DEFINE e == [key |-> k, token |-> token, submission |-> submission]
    <3>1. e \in Artifacts /\ e.submission = submission
      BY <2>1 DEF CreateType, Artifacts
    <3>2. artifacts' = Append(artifacts, e)
      BY <2>1
    <3> HIDE DEF e
    <3>3. QED
      BY <1>0, <2>1, <3>1, <3>2, Appended
  <2>2. CASE ~new
    BY <1>0, <2>2 DEF CurrentInv, BuiltInv
  <2>3. QED
    BY <2>1, <2>2
<1>2. /\ requests' \in Seq(Requests) /\ requests' /= << >>
      /\ \A i \in DOMAIN requests : requests'[i] = requests[i]
      /\ DOMAIN requests' = DOMAIN requests \cup {n} /\ n \notin DOMAIN requests
      /\ requests'[n].artifact = m /\ requests'[n].answer = "none"
  <2> DEFINE r == [artifact |-> m, phase |-> "sent", answer |-> "none"]
  <2>1. r \in Requests /\ r.artifact = m /\ r.answer = "none"
    BY <1>1 DEF Requests
  <2>2. requests' = Append(requests, r)
    OBVIOUS
  <2> HIDE DEF r
  <2>3. QED
    BY <1>0, <2>1, <2>2, Appended
<1>3. CreateType'
  BY <1>1, <1>2 DEF CreateType
<1> HIDE DEF m, n
<1>4. BuiltInv'
  <2>1. \A i \in DOMAIN requests' : requests'[i].artifact \in DOMAIN artifacts'
    BY <1>1, <1>2 DEF BuiltInv
  <2>2. \A a \in DOMAIN artifacts' : artifacts'[a].submission <= submission
    BY <1>1 DEF BuiltInv, CreateType
  <2>3. QED
    BY <2>1, <2>2 DEF BuiltInv
<1>5. StoredInv'
  <2>1. /\ \A key \in Keys : stored[key] \in DOMAIN artifacts' => artifacts'[stored[key]].key = key
        /\ \A key \in Keys : stored[key] \in DOMAIN artifacts' \cup {0, Create!Other}
    <3>1. 0 \notin DOMAIN artifacts' /\ Create!Other \notin DOMAIN artifacts'
      BY <1>1 DEF Create!Other
    <3>2. QED
      BY <1>1, <3>1 DEF StoredInv
  <2>2. ASSUME NEW i \in DOMAIN requests', requests'[i].answer = "conflict"
        PROVE  /\ requests'[i].phase = "done"
               /\ stored[artifacts'[requests'[i].artifact].key] \notin {0, requests'[i].artifact}
    <3>1. i \in DOMAIN requests /\ requests'[i] = requests[i]
      BY <1>2, <2>2
    <3>2. QED
      BY <1>1, <2>2, <3>1 DEF StoredInv, BuiltInv
  <2>3. QED
    BY <2>1, <2>2 DEF StoredInv
<1>6. CurrentInv'
  <2>1. ASSUME new, NEW i \in DOMAIN requests', requests'[i].artifact = m
        PROVE  i = n
    BY <1>1, <1>2, <2>1 DEF BuiltInv
  <2>2. QED
    BY <1>1, <1>2, <2>1 DEF CurrentInv, m, n
<1>7. ASSUME NEW a \in DOMAIN artifacts, Dead(a), a /= m
      PROVE  Dead(a)'
  BY <1>2, <1>7 DEF Dead
<1>8. DeadInv'
  <2>1. ASSUME NEW a \in DOMAIN artifacts', NEW b \in DOMAIN artifacts', a < b,
               artifacts'[a].submission = artifacts'[b].submission
        PROVE  Dead(a)'
    <3>1. a \in DOMAIN artifacts /\ a /= m
      BY <1>0, <1>1, <2>1
    <3>2. CASE b \in DOMAIN artifacts
      BY <1>1, <1>7, <2>1, <3>1, <3>2 DEF DeadInv
    <3>3. CASE b \notin DOMAIN artifacts
      <4>1. new /\ b = m
        BY <1>1, <3>3
      <4>2. QED
        BY <1>1, <1>7, <2>1, <3>1, <4>1 DEF DeadInv
    <3>4. QED
      BY <3>2, <3>3
  <2>2. QED
    BY <2>1 DEF DeadInv
<1>9. QED
  BY <1>3, <1>4, <1>5, <1>6, <1>8

\* A conflict kills the artifact it is about, unless it was sent twice.
LEMMA ConflictKills ==
  ASSUME CreateInv, creation = "submitting", ~resubmitted,
         requests[Len(requests)].answer = "conflict"
  PROVE  \A a \in DOMAIN artifacts : artifacts[a].submission = submission => Dead(a)
<1> DEFINE m == Len(artifacts)
<1>1. /\ DOMAIN artifacts = 1 .. m /\ m \in Nat
      /\ DOMAIN requests = 1 .. Len(requests) /\ Len(requests) \in Nat
  BY SequenceFacts DEF CreateInv
<1>2. Len(requests) \in DOMAIN requests
  BY <1>1, EmptySeq DEF CreateInv, CurrentInv, CreateType
<1>3. m \in DOMAIN artifacts /\ requests[Len(requests)].artifact = m
  BY <1>2 DEF CreateInv, CurrentInv, BuiltInv
<1>4. Dead(m)
  <2>1. stored[artifacts[m].key] /= m /\ requests[Len(requests)].phase = "done"
    BY <1>2, <1>3 DEF CreateInv, StoredInv
  <2>2. \A k \in Keys : stored[k] /= m
    BY <1>3, <2>1 DEF CreateInv, StoredInv
  <2>3. \A i \in DOMAIN requests : requests[i].artifact = m => requests[i].phase = "done"
    BY <2>1 DEF CreateInv, CurrentInv
  <2>4. QED
    BY <2>2, <2>3 DEF Dead
<1>5. ASSUME NEW a \in DOMAIN artifacts, artifacts[a].submission = submission, a /= m
      PROVE  Dead(a)
  <2>1. a < m /\ artifacts[a].submission = artifacts[m].submission
    BY <1>1, <1>5 DEF CreateInv, CurrentInv
  <2>2. QED
    BY <1>3, <2>1 DEF CreateInv, DeadInv
<1>6. QED
  BY <1>4, <1>5

LEMMA CreateNext == CreateInv /\ Create!Next => CreateInv'
<1> SUFFICES ASSUME CreateInv, Create!Next PROVE CreateInv'
  OBVIOUS
<1>0. /\ submission \in Nat /\ token \in Tokens \cup {NoToken}
      /\ creation = "building" =>
            \A a \in DOMAIN artifacts : artifacts[a].submission = submission => Dead(a)
      /\ creation = "submitting" => requests[Len(requests)].artifact = Len(artifacts)
  BY DEF CreateInv, CreateType, DeadInv, CurrentInv
<1>1. ASSUME NEW t \in Tokens, Create!captchaVerified(t) PROVE CreateInv'
  BY <1>0, <1>1, QuietInv DEF Create!captchaVerified
<1>2. CASE Create!captchaFailed \/ Create!reset
  BY <1>0, <1>2, QuietInv DEF Create!captchaFailed, Create!reset
<1>3. CASE Create!Submit
  <2>1. \A a \in DOMAIN artifacts : artifacts[a].submission /= submission'
    BY <1>0, <1>3, SequenceFacts DEF Create!Submit, CreateInv, BuiltInv
  <2>2. QED
    BY <1>0, <1>3, <2>1, QuietInv DEF Create!Submit
<1>4. ASSUME NEW k \in Keys, Create!BuildAndSend(k) PROVE CreateInv'
  <2> DEFINE e == [key |-> k, token |-> token, submission |-> submission]
  <2>1. artifacts' = Append(artifacts, e) /\ e \in Artifacts
    BY <1>0, <1>4 DEF Create!BuildAndSend, Artifacts
  <2> HIDE DEF e
  <2>2. Len(artifacts') = Len(artifacts) + 1
    BY <2>1, Appended DEF CreateInv, CreateType
  <2>3. QED
    BY <1>4, <2>1, <2>2, SentInv DEF Create!BuildAndSend, Create!Send, e
<1>5. CASE Create!BuildFails
  BY <1>0, <1>5, QuietInv DEF Create!BuildFails, Create!Throw, Create!TokenAfterError
<1>6. CASE Create!Receive
  <2>1. CASE Create!Succeed
    BY <1>0, <1>6, <2>1, QuietInv DEF Create!Receive, Create!Succeed
  <2>2. CASE requests[Len(requests)].answer = "conflict" /\ Create!Conflict
    BY <1>0, <1>6, <2>2, QuietInv, ConflictKills DEF Create!Receive, Create!Conflict,
       Create!Throw, Create!TokenAfterError
  <2>3. CASE Create!Throw(requestStarted)
    BY <1>0, <1>6, <2>3, QuietInv DEF Create!Receive, Create!Throw, Create!TokenAfterError
  <2>4. QED
    BY <1>6, <2>1, <2>2, <2>3 DEF Create!Receive, Create!Current
<1>7. CASE Create!TransportError
  <2>1. CASE resubmitted
    BY <1>0, <1>7, <2>1, QuietInv DEF Create!TransportError, Create!Throw, Create!TokenAfterError
  <2>2. CASE ~resubmitted
    BY <1>0, <1>7, <2>2, SentInv DEF Create!TransportError, Create!Resend, Create!Send,
       Create!Current
  <2>3. QED
    BY <2>1, <2>2
<1>8. ASSUME NEW i \in DOMAIN requests, Create!Serve(i) PROVE CreateInv'
  <2> DEFINE Served(phase, answer) ==
        [requests EXCEPT ![i] = [artifact |-> requests[i].artifact, phase |-> phase,
                                 answer |-> answer]]
  <2>1. requests[i] \in Requests /\ requests \in Seq(Requests)
    BY SequenceFacts, ElementOfSeq DEF CreateInv, CreateType
  <2>2. requests[i].answer \in {"none", "created", "replayed", "conflict", "captcha_failed",
                                "internal"}
    BY <2>1 DEF Requests
  <2>3. requests[i].phase /= "done" => requests[i].answer /= "conflict"
    BY DEF CreateInv, StoredInv
  <2>4. ASSUME NEW phase, Create!Move(i, phase)
        PROVE  requests' = Served(phase, requests[i].answer)
    <3>1. [requests[i] EXCEPT !.phase = phase] =
            [artifact |-> requests[i].artifact, phase |-> phase, answer |-> requests[i].answer]
      BY <2>1 DEF Requests
    <3>2. requests' = [requests EXCEPT ![i] = [requests[i] EXCEPT !.phase = phase]]
      BY <2>4 DEF Create!Move
    <3>3. QED
      BY <3>1, <3>2
  <2>5. ASSUME NEW answer, Create!Reply(i, answer) PROVE requests' = Served("done", answer)
    BY <2>5 DEF Create!Reply
  <2>6. CASE Create!Lookup(i)
    BY <2>2, <2>3, <2>4, <2>5, <2>6, ServedInv DEF Create!Lookup
  <2>7. CASE Create!Verify(i)
    BY <2>2, <2>3, <2>4, <2>5, <2>7, ServedInv DEF Create!Verify
  <2>8. CASE Create!Store(i)
    BY <2>2, <2>3, <2>4, <2>5, <2>8, ServedInv DEF Create!Store
  <2>9. CASE Create!Refuse(i)
    BY <2>2, <2>3, <2>4, <2>5, <2>9, ServedInv DEF Create!Refuse
  <2>10. QED
    BY <1>8, <2>6, <2>7, <2>8, <2>9 DEF Create!Serve
<1>9. QED
  BY <1>1, <1>2, <1>3, <1>4, <1>5, <1>6, <1>7, <1>8 DEF Create!Next, Create!Browse

------------------------------------------------------------------------------
\* The token of the page that creates a link.

\* Where create CAPTCHAs are on: a token the page still holds after it went into an
\* artifact belongs to the submission that is under way, and that submission knows
\* that a request was started, so that its error gives the token up.
TokenInv ==
    CreateCaptchaRequired =>
        /\ Create!TokenOfOneSubmission
        /\ creation = "submitting" => requestStarted
        /\ \A a \in DOMAIN artifacts :
            token /= NoToken /\ artifacts[a].token = token =>
                /\ artifacts[a].submission = submission
                /\ requestStarted
                /\ creation \notin {"idle", "error"}

LEMMA TokenInit == Create!Init => TokenInv
BY DEF Create!Init, TokenInv, Create!TokenOfOneSubmission

LEMMA TokenNext == CreateInv /\ TokenInv /\ Create!Next => TokenInv'
<1> SUFFICES ASSUME CreateInv, TokenInv, Create!Next, CreateCaptchaRequired PROVE TokenInv'
  BY DEF TokenInv
<1> USE DEF TokenInv, Create!TokenOfOneSubmission, Create!Throw, Create!TokenAfterError
<1>1. ASSUME NEW t \in Tokens, Create!captchaVerified(t) PROVE TokenInv'
  BY <1>1 DEF Create!captchaVerified
<1>2. CASE Create!captchaFailed \/ Create!reset
  BY <1>2 DEF Create!captchaFailed, Create!reset
<1>3. CASE Create!Submit
  BY <1>3 DEF Create!Submit
<1>4. ASSUME NEW k \in Keys, Create!BuildAndSend(k) PROVE TokenInv'
  <2> DEFINE e == [key |-> k, token |-> token, submission |-> submission]
  <2>1. artifacts' = Append(artifacts, e) /\ artifacts \in Seq(Artifacts)
    BY <1>4 DEF Create!BuildAndSend, CreateInv, CreateType
  <2>2. e \in Artifacts /\ e.token = token /\ e.submission = submission
    BY DEF CreateInv, CreateType, Artifacts
  <2> HIDE DEF e
  <2>3. /\ DOMAIN artifacts' = DOMAIN artifacts \cup {Len(artifacts')}
        /\ \A a \in DOMAIN artifacts : artifacts'[a] = artifacts[a]
        /\ artifacts'[Len(artifacts')] = e
    BY <2>1, <2>2, Appended
  <2>4. requestStarted' /\ creation' = "submitting" /\ UNCHANGED <<token, submission>>
    BY <1>4 DEF Create!BuildAndSend
  <2>5. ASSUME NEW a \in DOMAIN artifacts'
        PROVE  artifacts'[a] = e \/ (a \in DOMAIN artifacts /\ artifacts'[a] = artifacts[a])
    BY <2>3, Zenon
  <2>6. ASSUME NEW a \in DOMAIN artifacts', artifacts'[a].token = token, token /= NoToken
        PROVE  artifacts'[a].submission = submission
    BY <2>2, <2>5, <2>6
  <2>7. ASSUME NEW a \in DOMAIN artifacts', NEW b \in DOMAIN artifacts',
               artifacts'[a].token = artifacts'[b].token, artifacts'[a].token /= NoToken
        PROVE  artifacts'[a].submission = artifacts'[b].submission
    <3>1. CASE artifacts'[a].token = token
      BY <2>6, <2>7, <3>1
    <3>2. CASE artifacts'[a].token /= token
      <4>1. /\ a \in DOMAIN artifacts /\ artifacts'[a] = artifacts[a]
            /\ b \in DOMAIN artifacts /\ artifacts'[b] = artifacts[b]
        BY <2>2, <2>5, <2>7, <3>2
      <4>2. QED
        BY <2>7, <4>1
    <3>3. QED
      BY <3>1, <3>2
  <2>8. Create!TokenOfOneSubmission'
    BY <2>7
  <2> HIDE DEF Create!TokenOfOneSubmission
  <2>9. QED
    BY <2>4, <2>6, <2>8
<1>5. CASE Create!BuildFails
  BY <1>5 DEF Create!BuildFails
<1>6. CASE Create!Receive
  BY <1>6 DEF Create!Receive, Create!Succeed, Create!Conflict
<1>7. CASE Create!TransportError
  BY <1>7 DEF Create!TransportError, Create!Resend
<1>8. ASSUME NEW i \in DOMAIN requests, Create!Serve(i) PROVE TokenInv'
  BY <1>8 DEF Create!Serve, Create!Lookup, Create!Verify, Create!Store, Create!Refuse, Create!page
<1>9. QED
  BY <1>1, <1>2, <1>3, <1>4, <1>5, <1>6, <1>7, <1>8 DEF Create!Next, Create!Browse

------------------------------------------------------------------------------
\* The parts together: the ones that do not run rest.

BrowserInv == DerivationInv /\ GateInv /\ PageInv /\ CreateInv /\ TokenInv

LEMMA RestInv ==
  /\ DerivationInv /\ UNCHANGED derivationVars => DerivationInv'
  /\ GateInv /\ UNCHANGED gateVars => GateInv'
  /\ PageInv /\ UNCHANGED pageVars => PageInv'
  /\ CreateInv /\ UNCHANGED createVars => CreateInv'
  /\ TokenInv /\ UNCHANGED createVars => TokenInv'
<1>1. DerivationInv /\ UNCHANGED derivationVars => DerivationInv'
  BY DEF derivationVars, DerivationInv, DerivationType, CallInv
<1>2. GateInv /\ UNCHANGED gateVars => GateInv'
  BY DEF gateVars, GateInv, GateType, LifeInv, VisitsInv
<1>3. PageInv /\ UNCHANGED pageVars => PageInv'
  BY DEF pageVars, PageInv, PageType, JobsInv, MaterialInv, TriesInv
<1>4. CreateInv /\ UNCHANGED createVars => CreateInv'
  BY DEF createVars, CreateInv, CreateType, BuiltInv, StoredInv, CurrentInv, DeadInv, Dead
<1>5. TokenInv /\ UNCHANGED createVars => TokenInv'
  BY DEF createVars, TokenInv, Create!TokenOfOneSubmission
<1>6. QED
  BY <1>1, <1>2, <1>3, <1>4, <1>5

\* The inductive invariants of the four parts of the browser hold in every behaviour
\* (worker-client.ts, RedirectGate.svelte, OpenLink.svelte, CreateLink.svelte).
THEOREM Invariance == MCSpec => []BrowserInv
<1>1. MCInit => BrowserInv
  BY DerivationInit, GateInit, PageInit, CreateInit, TokenInit DEF MCInit, BrowserInv
<1>2. BrowserInv /\ [MCNext]_all => BrowserInv'
  BY RestInv, DerivationNext, GateNext, PageNext, CreateNext, TokenNext
  DEF MCNext, all, BrowserInv
<1>3. QED
  BY <1>1, <1>2, PTL DEF MCSpec

\* Every derived key array is handed to the one caller or zero-filled, unless that caller
\* has failed, whatever the order of the worker's message, its failure, the abort, the
\* fallback and the caller's failure, for any number of calls under one signal, and keys
\* of a zero-filled id reach nobody (root-key.ts, OpenLink.svelte's fail); a page that
\* shows the content holds no key, and only one that gave up leaves arrays behind.
THEOREM KeysAccountedAlways == MCSpec => []KeysAccounted
<1>1. DerivationInv => Derivations!KeysAccounted
  BY DEF DerivationInv, CallInv, Derivations!KeysAccounted
<1>2. PageInv => Page!ShownMeansWiped
  BY DEF PageInv, JobsInv, MaterialInv, Page!ShownMeansWiped
<1>3. BrowserInv => KeysAccounted
  BY <1>1, <1>2 DEF BrowserInv, KeysAccounted
<1>4. QED
  BY <1>3, Invariance, PTL

\* However many gates a page mounts one after the other, location.replace is called
\* by the user's choice or by a clean verdict of a gate that is still on the page,
\* and at most once per gate with a safety check.
THEOREM OpensOnlyWhenClearedAlways == MCSpec => []OpensOnlyWhenCleared
<1>1. BrowserInv => OpensOnlyWhenCleared
  BY DEF BrowserInv, GateInv, VisitsInv, OpensOnlyWhenCleared, Gate!OpensOnlyWhenCleared
<1>2. QED
  BY <1>1, Invariance, PTL

\* The page asks for a one-time envelope after it has derived a password key, and
\* keeps the envelope and the keys through every wrong password, for any number of
\* tries.
THEOREM OneTimeLinkSurvivesAlways == MCSpec => []OneTimeLinkSurvives
<1>1. BrowserInv => OneTimeLinkSurvives
  BY DEF BrowserInv, PageInv, PageType, JobsInv, MaterialInv, TriesInv, OneTimeLinkSurvives,
     Page!OneTimeLinkSurvives
<1>2. QED
  BY <1>1, Invariance, PTL

\* One submission leaves at most one envelope on the server, for any number of
\* storage keys, attempts and submissions, although requests are sent again and old
\* ones are served late.
THEOREM OneEnvelopePerSubmissionAlways == MCSpec => []OneEnvelopePerSubmission
<1>1. CreateInv => OneEnvelopePerSubmission
  <2> SUFFICES ASSUME CreateInv, NEW a \in Create!Envelopes, NEW b \in Create!Envelopes,
                      artifacts[a].submission = artifacts[b].submission
               PROVE  a = b
    BY DEF OneEnvelopePerSubmission, Create!OneEnvelopePerSubmission
  <2>1. a \in DOMAIN artifacts /\ b \in DOMAIN artifacts /\ ~Dead(a) /\ ~Dead(b)
    BY DEF Create!Envelopes, Dead, CreateInv, StoredInv
  <2>2. ~(a < b) /\ ~(b < a)
    BY <2>1 DEF CreateInv, DeadInv
  <2>3. a \in Int /\ b \in Int
    BY <2>1, SequenceFacts DEF CreateInv
  <2>4. QED
    BY <2>2, <2>3
<1>2. BrowserInv => OneEnvelopePerSubmission
  BY <1>1 DEF BrowserInv
<1>3. QED
  BY <1>2, Invariance, PTL

\* Where the server asks for create CAPTCHAs, a token that was sent is sent by one
\* submission only, for any number of tokens, attempts and submissions: every error
\* after the first request has started gives the token up, and so does a new link
\* after a success (CreateLink's submit and reset).
THEOREM TokenOfOneSubmissionAlways == MCSpec => []Create!TokenOfOneSubmission
<1>1. BrowserInv => Create!TokenOfOneSubmission
  BY DEF BrowserInv, TokenInv, Create!TokenOfOneSubmission
<1>2. QED
  BY <1>1, Invariance, PTL
==============================================================================
