------------------------------ MODULE MCBrowser -------------------------------
\* The browser for TLC: the page that creates a link (MCProtocol has it with create
\* CAPTCHAs), the page that opens one, the derivation of keys in workers, and the
\* gate before the redirect. They share no variable here: in a behaviour one of them
\* runs, the others rest in an initial state.
EXTENDS Naturals

CONSTANTS
    Calls,                                      \* the key derivations of a page
    Gates,                                      \* gates mounted one after the other
    MaxTries,                                   \* bound on the passwords entered
    Keys, TakenKeys, Tokens, NoToken,           \* of the page that creates a link
    CreateCaptchaRequired, MAX_CREATE_ATTEMPTS, MaxSubmissions

VARIABLES
    signal, promise, worker, event, fallback, secret, fallbackOf, keys, abandoned,
    enabled, life, destination, scan, scanState, aborted, redirected, chosen, visits,
    flags, state, gate, jobs, joined, id, keyMaterial, captchaKey, passwordKey, ciphertext,
    lost, right, tries, server,
    creation, submission, attempt, resubmitted, requestStarted, token, artifacts, requests,
    stored, spent, shown,
    part        \* the one that runs

derivationVars == <<signal, promise, worker, event, fallback, secret, fallbackOf, keys,
                    abandoned>>
gateVars == <<enabled, life, destination, scan, scanState, aborted, redirected, chosen, visits>>
pageVars == <<flags, state, gate, jobs, joined, id, keyMaterial, captchaKey, passwordKey,
              ciphertext, lost, right, tries, server>>
createVars == <<creation, submission, attempt, resubmitted, requestStarted, token, artifacts,
                requests, stored, spent, shown>>
all == <<derivationVars, gateVars, pageVars, createVars, part>>

Derivations == INSTANCE KeyDerivation WITH aborted <- signal
Gate == INSTANCE RedirectGate
Page == INSTANCE OpenLink
Create == INSTANCE CreateClient WITH state <- creation

MCInit ==
    /\ part \in {"derivation", "gate", "page", "create"}
    /\ Derivations!Init
    /\ Gate!Init /\ (part = "gate" \/ enabled)
    /\ Page!Init /\ (part = "page" \/ flags = [captcha |-> FALSE, password |-> FALSE, burn |-> FALSE])
    /\ Create!Init

MCNext ==
    /\ \/ part = "derivation" /\ Derivations!Next /\ UNCHANGED <<gateVars, pageVars, createVars>>
       \/ part = "gate" /\ Gate!Next /\ UNCHANGED <<derivationVars, pageVars, createVars>>
       \/ part = "page" /\ Page!Next /\ UNCHANGED <<derivationVars, gateVars, createVars>>
       \/ part = "create" /\ Create!Next /\ UNCHANGED <<derivationVars, gateVars, pageVars>>
    /\ UNCHANGED part

\* The fairness of the components, each for the one that runs.
MCSpec ==
    /\ MCInit /\ [][MCNext]_all
    /\ \A c \in Calls : WF_derivationVars(part = "derivation" /\ Derivations!Derivation(c))
    /\ \A g \in Gates : WF_gateVars(part = "gate" /\ Gate!Work(g))
    /\ WF_pageVars(part = "page" /\ Page!Step)
    /\ WF_createVars(part = "create" /\ Create!Browse)

------------------------------------------------------------------------------
\* The properties of the parts.

\* Every derived key array is handed to the one caller or zero-filled, and keys derived
\* from a zero-filled input reach nobody; a page that shows the content has zero-filled
\* everything that opened it. Only a page that failed or was left leaves arrays behind.
KeysAccounted == Derivations!KeysAccounted /\ Page!ShownMeansWiped

\* A destination is opened by the user's choice or by a clean verdict of its own gate
\* while that gate is on the page.
OpensOnlyWhenCleared == Gate!OpensOnlyWhenCleared

\* The page does not burn a link it cannot decrypt, and keeps what it needs to try
\* another password.
OneTimeLinkSurvives == Page!OneTimeLinkSurvives

\* One submission leaves at most one envelope on the server, whatever the network does.
OneEnvelopePerSubmission == Create!OneEnvelopePerSubmission

\* Nothing hangs: a derivation settles although workers fail and messages are
\* dropped; a decrypted destination is opened or the page says why not; the page
\* comes to the content, a gate or an error; a submission ends with a link or an error.
PagesConclude ==
    /\ part = "derivation" => Derivations!EveryCallSettles
    /\ part = "gate" => Gate!ScanConcludes
    /\ part = "page" => Page!OpeningEnds
    /\ part = "create" => Create!SubmissionEnds
==============================================================================
