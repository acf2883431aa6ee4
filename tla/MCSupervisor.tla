----------------------------- MODULE MCSupervisor -----------------------------
\* Instances of the life of a backend for TLC.
EXTENDS Supervisor

CONSTANT h1

OneHandler == {h1}

Llamacpp == {"llamacpp"}
BothKinds == {"llamacpp", "other"}

Serial == {TRUE}
BothModes == BOOLEAN

\* Actors that take turns go further than actors that race, and never fail.
Starts == [s \in BOOLEAN |-> IF s THEN 3 ELSE 1]
Troubles == [s \in BOOLEAN |-> IF s THEN 3 ELSE 1]
Faults == [s \in BOOLEAN |-> IF s THEN 0 ELSE 1]

Two == [s \in BOOLEAN |-> 2]
One == [s \in BOOLEAN |-> 1]
None == [s \in BOOLEAN |-> 0]
=============================================================================
