----------------------------- MODULE MCRequestPath -----------------------------
\* Instances of the request path for TLC.
EXTENDS RequestPath

CONSTANTS c1, c2, alice, bob

Pair == {c1, c2}
People == {alice, bob}
OneSlot == {1}

\* A request of a user, whom another may lock out, and one of Open WebUI.
Callers == [r \in Calls |-> IF r = c1 THEN alice ELSE Internal]
=============================================================================
