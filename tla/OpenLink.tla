------------------------------- MODULE OpenLink -------------------------------
(***************************************************************************)
(* The page that opens a link (OpenLink.svelte): it derives the link's     *)
(* keys, reads the metadata, passes the CAPTCHA and password gates,        *)
(* retrieves the envelope and decrypts it.                                 *)
(*                                                                         *)
(* What runs at the same time is what Promise.all joins: the runtime       *)
(* configuration and the root keys at the start, the password key and the  *)
(* envelope when opening. Promise.all rejects with the first failure; the  *)
(* other promise goes on and its result is nobody's. A byte array is       *)
(* "none", "live" or "wiped" (zero-filled).                                *)
(***************************************************************************)
EXTENDS Naturals

CONSTANT MaxTries   \* bound on the passwords the user enters

VARIABLES
    flags,      \* the link's features: captcha, password, burn
    state,      \* "starting", "metadata", "gate", "opening", "shown", "terminal", "left"
    gate,       \* "none", "captcha" or "password"
    jobs,       \* what runs: config, rootKeys, passwordKey, envelope -> how far it is
    joined,     \* the Promise.all of the jobs is still awaited
    id, keyMaterial, captchaKey, passwordKey, ciphertext,   \* the page's arrays
    lost,       \* arrays a job produced for a Promise.all that failed
    right,      \* the user's last password is the right one
    tries,
    server      \* "stored", or "gone" once a burn-after-read envelope was handed out

vars == <<flags, state, gate, jobs, joined, id, keyMaterial, captchaKey, passwordKey,
          ciphertext, lost, right, tries, server>>

Job == {"config", "rootKeys", "passwordKey", "envelope"}
Idle == [j \in Job |-> "idle"]
Running(j) == jobs[j] = "running"

Init ==
    /\ flags \in [captcha: BOOLEAN, password: BOOLEAN, burn: BOOLEAN]
    /\ state = "starting"
    /\ gate = "none"
    /\ jobs = [Idle EXCEPT !["config"] = "running", !["rootKeys"] = "running"]
    /\ joined = TRUE
    /\ id = "live"
    /\ keyMaterial = "none"
    /\ captchaKey = "none"
    /\ passwordKey = "none"
    /\ ciphertext = "none"
    /\ lost = {}
    /\ right = FALSE
    /\ tries = 0
    /\ server = "stored"

------------------------------------------------------------------------------
Wiped(array) == IF array = "live" THEN "wiped" ELSE array

\* Mutated form: the keys of the link are left alone.
clearLinkMaterialPartly ==
    /\ ciphertext' = IF ciphertext = "live" THEN "none" ELSE ciphertext
    /\ UNCHANGED <<captchaKey, keyMaterial, id>>

\* Zero-fills what there is and forgets the envelope.
clearLinkMaterial ==
    /\ ciphertext' = Wiped(ciphertext)
    /\ captchaKey' = Wiped(captchaKey)
    /\ keyMaterial' = Wiped(keyMaterial)
    /\ id' = Wiped(id)

fail ==
    /\ state' = "terminal"
    /\ gate' = "none"
    /\ clearLinkMaterial

\* What a rejected Promise.all does with the arrays its jobs have delivered: nobody
\* gets them. Only the sequential path has assigned the password key, so that the
\* finally of retrieveAndDecrypt wipes it.
Abandon ==
    /\ passwordKey' = IF flags.burn THEN Wiped(passwordKey) ELSE passwordKey
    /\ lost' = lost \cup {j \in {"rootKeys", "passwordKey"} :
                            IF j = "rootKeys" THEN jobs[j] = "done"
                            ELSE passwordKey = "live" /\ ~flags.burn}

\* A failed job rejects the Promise.all it is part of, once.
Rejects(j) ==
    /\ jobs' = [jobs EXCEPT ![j] = "failed"]
    /\ joined' = FALSE
    /\ IF joined THEN fail /\ Abandon
       ELSE UNCHANGED <<state, gate, ciphertext, captchaKey, keyMaterial, id, passwordKey, lost>>

\* Both results are there: the continuation runs before any other event.
Settled ==
    joined /\ \/ state = "starting" /\ jobs["config"] = "done" /\ jobs["rootKeys"] = "done"
              \/ state = "opening" /\ jobs["passwordKey"] = "done" /\ jobs["envelope"] = "done"

------------------------------------------------------------------------------
\* onMount: the configuration and the keys, then the metadata.

ConfigAnswers ==
    /\ Running("config")
    /\ \/ /\ jobs' = [jobs EXCEPT !["config"] = "done"]
          /\ UNCHANGED <<joined, state, gate, ciphertext, captchaKey, keyMaterial, id,
                         passwordKey, lost>>
       \/ Rejects("config")
    /\ UNCHANGED <<flags, right, tries, server>>

RootKeysDerived ==
    /\ Running("rootKeys")
    /\ \/ /\ jobs' = [jobs EXCEPT !["rootKeys"] = "done"]
          /\ lost' = IF joined THEN lost ELSE lost \cup {"rootKeys"}
          /\ UNCHANGED <<joined, state, gate, ciphertext, captchaKey, keyMaterial, id,
                         passwordKey>>
       \/ Rejects("rootKeys")
    /\ UNCHANGED <<flags, right, tries, server>>

\* Both are there: the storage key is encoded and wiped, the metadata asked for.
KeysReady ==
    /\ state = "starting" /\ Settled
    /\ keyMaterial' = "live"
    /\ state' = "metadata"
    /\ jobs' = Idle
    /\ UNCHANGED <<flags, gate, joined, id, captchaKey, passwordKey, ciphertext, lost,
                   right, tries, server>>

\* Promise.all of the password key and the envelope, or one after the other.
\* Mutated form: the two always run at the same time.
SequentialNever == FALSE

\* A burn-after-read envelope is asked for only once the password key is there.
Sequential == flags.burn /\ flags.password /\ ciphertext /= "live"

Starts(j) == IF j = "passwordKey" THEN flags.password
             ELSE ciphertext /= "live" /\ ~Sequential

\* startOpening and retrieveAndDecrypt up to their first await.
StartOpening ==
    /\ state' = "opening"
    /\ gate' = "none"
    /\ joined' = TRUE
    /\ jobs' = [j \in Job |-> IF j \in {"config", "rootKeys"} THEN "idle"
                              ELSE IF Starts(j) THEN "running"
                              ELSE IF j = "envelope" /\ Sequential THEN "waiting" ELSE "done"]

MetadataAnswers ==
    /\ state = "metadata"
    /\ \/ /\ flags.captcha \/ flags.password
          /\ state' = "gate"
          /\ gate' = IF flags.captcha THEN "captcha" ELSE "password"
          /\ UNCHANGED <<jobs, joined, ciphertext, captchaKey, keyMaterial, id>>
       \/ /\ ~flags.captcha /\ ~flags.password
          /\ StartOpening
          /\ UNCHANGED <<ciphertext, captchaKey, keyMaterial, id>>
       \/ fail /\ UNCHANGED <<jobs, joined>>
    /\ UNCHANGED <<flags, passwordKey, lost, right, tries, server>>

captchaVerified ==
    /\ gate = "captcha"
    /\ IF flags.password THEN gate' = "password" /\ UNCHANGED <<state, jobs, joined>>
                         ELSE StartOpening
    /\ UNCHANGED <<flags, id, keyMaterial, captchaKey, passwordKey, ciphertext, lost,
                   right, tries, server>>

passwordSubmitted ==
    /\ gate = "password"
    /\ tries < MaxTries
    /\ tries' = tries + 1
    /\ right' \in BOOLEAN
    /\ passwordKey' = "none"
    /\ StartOpening
    /\ UNCHANGED <<flags, id, keyMaterial, captchaKey, ciphertext, lost, server>>

------------------------------------------------------------------------------
\* retrieveAndDecrypt.

\* Mutated form: the sequential path never goes on to the envelope.
PasswordKeyDerivedOnly ==
    /\ Running("passwordKey")
    /\ jobs' = [jobs EXCEPT !["passwordKey"] = "done"]
    /\ passwordKey' = "live"
    /\ UNCHANGED <<flags, state, gate, joined, id, keyMaterial, captchaKey, ciphertext, lost,
                   right, tries, server>>

PasswordKeyDerived ==
    /\ Running("passwordKey")
    /\ \/ /\ jobs' = [jobs EXCEPT !["passwordKey"] = "done",
                                  !["envelope"] = IF @ = "waiting" THEN "running" ELSE @]
          /\ passwordKey' = IF joined THEN "live" ELSE passwordKey
          /\ lost' = IF joined THEN lost ELSE lost \cup {"passwordKey"}
          /\ UNCHANGED <<joined, state, gate, ciphertext, captchaKey, keyMaterial, id>>
       \/ Rejects("passwordKey")
    /\ UNCHANGED <<flags, right, tries, server>>

\* loadEnvelope: an access hands out a burn-after-read envelope once; its answer may
\* be lost on the way. The result is cached whoever still waits for it.
EnvelopeArrives ==
    /\ Running("envelope")
    /\ server' = IF flags.burn THEN "gone" ELSE server
    /\ \/ /\ server = "stored"
          /\ jobs' = [jobs EXCEPT !["envelope"] = "done"]
          /\ ciphertext' = "live"
          /\ captchaKey' = IF flags.captcha THEN "live" ELSE captchaKey
          /\ UNCHANGED <<joined, state, gate, keyMaterial, id, passwordKey, lost>>
       \/ Rejects("envelope")
    /\ UNCHANGED <<flags, right, tries>>

\* Mutated form: a wrong password clears the link's material.
retryPasswordCleared ==
    /\ state' = "gate"
    /\ gate' = "password"
    /\ clearLinkMaterial

retryPassword ==
    /\ state' = "gate"
    /\ gate' = "password"
    /\ UNCHANGED <<ciphertext, captchaKey, keyMaterial, id>>

\* decryptEnvelope, clearLinkMaterial and the finally.
Decrypt ==
    /\ state = "opening" /\ Settled
    /\ passwordKey' = Wiped(passwordKey)
    /\ jobs' = Idle
    /\ \/ /\ flags.password => right
          /\ clearLinkMaterial
          /\ state' = "shown"
          /\ UNCHANGED gate
       \/ flags.password /\ ~right /\ retryPassword
       \/ fail
    /\ UNCHANGED <<flags, joined, lost, right, tries, server>>

\* onDestroy: what runs is aborted, which wipes what it derives.
Leave ==
    /\ state /= "left" /\ ~Settled
    /\ state' = "left"
    /\ gate' = "none"
    /\ jobs' = [j \in Job |-> IF Running(j) THEN "failed" ELSE jobs[j]]
    /\ joined' = FALSE
    /\ clearLinkMaterial
    /\ IF joined THEN Abandon ELSE UNCHANGED <<passwordKey, lost>>
    /\ UNCHANGED <<flags, right, tries, server>>

Step ==
    \/ ConfigAnswers \/ RootKeysDerived \/ KeysReady \/ MetadataAnswers
    \/ PasswordKeyDerived \/ EnvelopeArrives \/ Decrypt

Next == Step \/ captchaVerified \/ passwordSubmitted \/ Leave

Spec == Init /\ [][Next]_vars
Fairness == WF_vars(Step)
------------------------------------------------------------------------------
\* Properties.

\* A one-time link is not lost to its reader by the page. The envelope is asked for
\* after the first key was derived: a browser that cannot derive password keys burns
\* no link. "For one-time links, retries stay in this tab" (PasswordGate.svelte):
\* after a wrong password the page still has all it needs to try another one, and
\* does not go back to a server that no longer has the envelope.
OneTimeLinkSurvives ==
    /\ (flags.burn /\ flags.password /\ server = "gone") => passwordKey /= "none" \/ tries > 1
    /\ (gate = "password" /\ tries > 0) =>
            /\ {ciphertext, keyMaterial, id} = {"live"}
            /\ flags.captcha => captchaKey = "live"

\* A page that shows the content has zero-filled everything that opened it, and no
\* other page that goes on, to a gate or to another password, has left an array of a
\* failed Promise.all behind.
ShownMeansWiped ==
    /\ state = "shown" =>
            "live" \notin {id, keyMaterial, captchaKey, passwordKey, ciphertext}
    /\ lost /= {} => state \in {"terminal", "left"}

\* Opening ends: with the content, at a gate, or with an error.
OpeningEnds == state \in {"starting", "metadata", "opening"} ~>
                    state \in {"shown", "gate", "terminal", "left"}

==============================================================================
