---------------------------- MODULE MCReservations ----------------------------
\* Instances of the reservation system for TLC.
EXTENDS ReservationRefinement

CONSTANTS a, b, t1, t2

Solo == {a}
Pair == {a, b}
OneTask == {t1}

Serial == {TRUE}
Racing == {FALSE}
BothModes == BOOLEAN

\* Two windows that overlap and one that starts when the first ends.
SomeWindows == {[from |-> 1, to |-> 2], [from |-> 1, to |-> 3], [from |-> 2, to |-> 3]}
=============================================================================
