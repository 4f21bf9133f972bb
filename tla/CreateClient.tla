----------------------------- MODULE CreateClient -----------------------------
(***************************************************************************)
(* The browser that creates a link (CreateLink's submit, submitEnvelope,   *)
(* createWithCollisionRetries), against a network that loses requests and  *)
(* answers and a server that goes on working on a request whose client has *)
(* given up on it.                                                         *)
(*                                                                         *)
(* An artifact is what one call of buildArtifact makes: an identifier with *)
(* the storage key derived from it, the encrypted content, the CAPTCHA     *)
(* token of the page. The server is the one of EnvelopeApi at the grain    *)
(* the browser can tell: lookup, verification, insertion.                  *)
(***************************************************************************)
EXTENDS Integers, Sequences

CONSTANTS
    Keys,                   \* storage keys
    TakenKeys,              \* keys that hold somebody else's envelope
    Tokens,                 \* CAPTCHA tokens the page can be given
    NoToken,
    CreateCaptchaRequired,  \* the server's RuntimeConfig
    MAX_CREATE_ATTEMPTS,
    MaxSubmissions          \* bound on the user's submissions

VARIABLES
    state,          \* "idle", "building", "submitting", "success", "error"
    submission,     \* how often the user has submitted
    attempt,        \* conflicts met by this submission
    resubmitted,    \* this artifact was sent again after a transport error
    requestStarted,
    token,          \* createCaptchaToken
    artifacts,      \* sequence of artifacts built
    requests,       \* sequence of requests sent: artifact, phase and answer
    stored,         \* the server's table: key -> artifact number, 0 nobody's, or Other
    spent,          \* tokens the provider has accepted
    shown           \* the artifact of the link on the page, or 0

vars == <<state, submission, attempt, resubmitted, requestStarted, token, artifacts,
          requests, stored, spent, shown>>
page == <<state, submission, attempt, resubmitted, requestStarted, token, artifacts, shown>>

Other == -1         \* somebody else's artifact

Init ==
    /\ state = "idle"
    /\ submission = 0
    /\ attempt = 0
    /\ resubmitted = FALSE
    /\ requestStarted = FALSE
    /\ token = NoToken
    /\ artifacts = << >>
    /\ requests = << >>
    /\ stored = [k \in Keys |-> IF k \in TakenKeys THEN Other ELSE 0]
    /\ spent = {}
    /\ shown = 0

------------------------------------------------------------------------------
\* The page.

captchaVerified(t) ==
    /\ CreateCaptchaRequired /\ token = NoToken
    /\ \A i \in DOMAIN artifacts : artifacts[i].token /= t
    /\ token' = t
    /\ UNCHANGED <<state, submission, attempt, resubmitted, requestStarted, artifacts,
                   requests, stored, spent, shown>>

\* The widget reports that its token has failed or expired.
captchaFailed ==
    /\ token /= NoToken
    /\ token' = NoToken
    /\ UNCHANGED <<state, submission, attempt, resubmitted, requestStarted, artifacts,
                   requests, stored, spent, shown>>

reset ==
    /\ state = "success"
    /\ state' = "idle"
    /\ token' = NoToken
    /\ shown' = 0
    /\ UNCHANGED <<submission, attempt, resubmitted, requestStarted, artifacts, requests,
                   stored, spent>>

Submit ==
    /\ state \in {"idle", "error"}
    /\ CreateCaptchaRequired => token /= NoToken
    /\ submission < MaxSubmissions
    /\ state' = "building"
    /\ submission' = submission + 1
    /\ attempt' = 0
    /\ requestStarted' = FALSE
    /\ shown' = 0
    /\ UNCHANGED <<resubmitted, token, artifacts, requests, stored, spent>>

Send(a) == requests' = Append(requests, [artifact |-> a, phase |-> "sent", answer |-> "none"])

\* buildArtifact, with the key its random identifier leads to, and the submit.
BuildAndSend(k) ==
    /\ state = "building"
    /\ artifacts' = Append(artifacts, [key |-> k, token |-> token, submission |-> submission])
    /\ Send(Len(artifacts) + 1)
    /\ state' = "submitting"
    /\ requestStarted' = TRUE
    /\ resubmitted' = FALSE
    /\ UNCHANGED <<submission, attempt, token, stored, spent, shown>>

\* Mutated form: the token is kept for the next submission.
TokenAfterErrorKept(started) == token

\* submit's catch: a token that may have reached the server is given up.
TokenAfterError(started) == IF started /\ CreateCaptchaRequired THEN NoToken ELSE token

Throw(started) ==
    /\ state' = "error"
    /\ token' = TokenAfterError(started)

\* The derivation of the keys fails: no request was made for this artifact.
BuildFails ==
    /\ state = "building"
    /\ Throw(requestStarted)
    /\ UNCHANGED <<submission, attempt, resubmitted, requestStarted, artifacts, requests,
                   stored, spent, shown>>

Current == Len(requests)

Succeed ==
    /\ state' = "success"
    /\ shown' = requests[Current].artifact
    /\ UNCHANGED <<attempt, token>>

\* A conflict builds a new artifact, unless the artifact was being sent again.
Conflict ==
    /\ attempt' = attempt + 1
    /\ IF ~resubmitted /\ attempt + 1 < MAX_CREATE_ATTEMPTS
       THEN state' = "building" /\ UNCHANGED token
       ELSE Throw(requestStarted)
    /\ UNCHANGED shown

Receive ==
    LET answer == requests[Current].answer
    IN  /\ state = "submitting"
        /\ answer /= "none"
        /\ CASE answer \in {"created", "replayed"} -> Succeed
             [] answer = "conflict"                -> Conflict
             [] OTHER                              -> /\ Throw(requestStarted)
                                                      /\ UNCHANGED <<attempt, shown>>
        /\ UNCHANGED <<submission, resubmitted, requestStarted, artifacts, requests,
                       stored, spent>>

\* Mutated form: a transport error is treated like a conflict.
ResendRebuilt ==
    /\ state' = "building"
    /\ UNCHANGED <<requests, token, resubmitted>>

\* The same artifact once more.
Resend ==
    /\ Send(requests[Current].artifact)
    /\ resubmitted' = TRUE
    /\ UNCHANGED <<state, token>>

\* Mutated form: the failure of the second request is not handled.
TransportErrorOnce ==
    /\ state = "submitting"
    /\ ~resubmitted
    /\ Resend
    /\ UNCHANGED <<submission, attempt, requestStarted, artifacts, stored, spent, shown>>

\* The connection fails; the request may still be on its way or being served.
TransportError ==
    /\ state = "submitting"
    /\ IF resubmitted THEN Throw(requestStarted) /\ UNCHANGED <<requests, resubmitted>>
                      ELSE Resend
    /\ UNCHANGED <<submission, attempt, requestStarted, artifacts, stored, spent, shown>>

------------------------------------------------------------------------------
\* The server: createEnvelope on request i.

Move(i, phase) == requests' = [requests EXCEPT ![i].phase = phase]
Reply(i, answer) ==
    requests' = [requests EXCEPT ![i] = [artifact |-> requests[i].artifact, phase |-> "done",
                                         answer |-> answer]]

KeyOf(i) == artifacts[requests[i].artifact].key

\* The lookup before anything else: a request already stored is answered.
Lookup(i) ==
    LET there == stored[KeyOf(i)]
    IN  /\ requests[i].phase = "sent"
        /\ IF there = 0 THEN Move(i, IF CreateCaptchaRequired THEN "verify" ELSE "store")
           ELSE Reply(i, IF there = requests[i].artifact THEN "replayed" ELSE "conflict")
        /\ UNCHANGED <<page, stored, spent>>

\* A token is accepted once.
Verify(i) ==
    LET t == artifacts[requests[i].artifact].token
    IN  /\ requests[i].phase = "verify"
        /\ IF t \in spent \cup {NoToken} THEN Reply(i, "captcha_failed") /\ UNCHANGED spent
           ELSE Move(i, "store") /\ spent' = spent \cup {t}
        /\ UNCHANGED <<page, stored>>

\* The repository's Create; the answer of a SQL insert may be lost.
Store(i) ==
    LET there == stored[KeyOf(i)]
    IN  /\ requests[i].phase = "store"
        /\ IF there = 0
           THEN /\ stored' = [stored EXCEPT ![KeyOf(i)] = requests[i].artifact]
                /\ \E answer \in {"created", "internal"} : Reply(i, answer)
           ELSE /\ Reply(i, IF there = requests[i].artifact THEN "replayed" ELSE "conflict")
                /\ UNCHANGED stored
        /\ UNCHANGED <<page, spent>>

\* The request is lost, or refused by a failing dependency.
Refuse(i) ==
    /\ requests[i].phase /= "done"
    /\ \E answer \in {"none", "internal"} : Reply(i, answer)
    /\ UNCHANGED <<page, stored, spent>>

------------------------------------------------------------------------------
Serve(i) == Lookup(i) \/ Verify(i) \/ Store(i) \/ Refuse(i)
Browse == (\E k \in Keys : BuildAndSend(k)) \/ BuildFails \/ Receive \/ TransportError

Next ==
    \/ (\E t \in Tokens : captchaVerified(t)) \/ captchaFailed
    \/ Submit \/ reset
    \/ Browse
    \/ \E i \in DOMAIN requests : Serve(i)

\* The browser goes on and a fetch ends, if only by a timeout of the network.
Spec == Init /\ [][Next]_vars
Fairness == WF_vars(Browse)
------------------------------------------------------------------------------
\* Properties.

Envelopes == {stored[k] : k \in Keys} \ {0, Other}

\* One submission leaves at most one envelope on the server, although requests are
\* repeated and the first one may be served after the browser has given it up.
OneEnvelopePerSubmission ==
    \A a, b \in Envelopes : artifacts[a].submission = artifacts[b].submission => a = b

\* A CAPTCHA token that was sent is not sent by a later submission, whose user
\* would be refused for a token spent on an envelope nobody was shown.
TokenOfOneSubmission ==
    CreateCaptchaRequired =>
        \A i, j \in DOMAIN artifacts :
            artifacts[i].token = artifacts[j].token /\ artifacts[i].token /= NoToken
                => artifacts[i].submission = artifacts[j].submission

\* Every submission ends, with a link or an error.
SubmissionEnds == state \in {"building", "submitting"} ~> state \in {"success", "error"}
==============================================================================
