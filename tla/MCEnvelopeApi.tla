---------------------------- MODULE MCEnvelopeApi ----------------------------
\* Small instances of EnvelopeApi for TLC.
EXTENDS EnvelopeApi, TLC

Plain == [content |-> "plain", captcha |-> FALSE, burn |-> FALSE, ttl |-> 1,
          captchaKey |-> FALSE, paste |-> FALSE, size |-> 1]
Burn == [Plain EXCEPT !.content = "burn", !.burn = TRUE, !.ttl = 0]
GatedBurn == [Burn EXCEPT !.content = "gatedBurn", !.captcha = TRUE, !.captchaKey = TRUE]
Gated == [GatedBurn EXCEPT !.content = "gated", !.burn = FALSE, !.ttl = 1]

\* Two envelopes that share a key: only one of them is behind a CAPTCHA.
ForeverBodies == {Burn, GatedBurn}

CreateBodies == {[Plain EXCEPT !.burn = TRUE]}

\* An open link, one to read and one to take behind a CAPTCHA, which all expire, and
\* one that is refused for its size.
LiveBodies == {Plain, Gated, [GatedBurn EXCEPT !.ttl = 1], [Plain EXCEPT !.size = 2]}

Symmetry == Permutations(Reqs) \cup Permutations(Tokens)
==============================================================================
