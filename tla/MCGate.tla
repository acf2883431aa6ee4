-------------------------------- MODULE MCGate --------------------------------
\* Instances of the concurrency gate for TLC.
EXTENDS GateRefinement

CONSTANTS r1, r2, r3

Three == {r1, r2, r3}
Scores == {1, 2}
OneOrTwoSlots == {1, 2}
=============================================================================
