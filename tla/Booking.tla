-------------------------------- MODULE Booking --------------------------------
(***************************************************************************)
(* What the reservation system promises, with no statements, handlers,     *)
(* ticks or restarts in it: a book of requests, and who holds the system.  *)
(* A request is granted only where it overlaps nothing granted or in       *)
(* force; only a granted one comes into force, when the system is free and *)
(* nothing else is in force; it holds the system before it ends, and the   *)
(* system is let go before anybody else's time begins.                     *)
(*                                                                         *)
(* The promise is one of orderly behaviours: once disorder has set in,     *)
(* nothing is promised.  Reservations implements it                        *)
(* (ReservationRefinement).                                                *)
(***************************************************************************)
EXTENDS Naturals

CONSTANTS Res,        \* the reservations clients may ask for
          Nobody      \* the system is free

VARIABLES book,       \* what has become of each reservation
          holder,     \* the reservation that holds the system
          window,     \* from when to when each is meant
          orderly     \* nothing has gone wrong so far

bvars == <<book, holder, window, orderly>>

InForce == {r \in Res : book[r] = "in force"}
Taken == {r \in Res : book[r] \in {"granted", "in force"}}

Clash(r, q) == window[q].from < window[r].to /\ window[q].to > window[r].from

BInit ==
    /\ book = [r \in Res |-> "absent"]
    /\ holder = Nobody

Enter(r, from, to) ==
    /\ book[r] = from
    /\ book' = [book EXCEPT ![r] = to]

Ask(r) == Enter(r, "absent", "asked") /\ UNCHANGED <<holder, window>>

Grant(r) ==
    /\ Enter(r, "asked", "granted")
    /\ \A q \in Taken : ~Clash(r, q)
    /\ UNCHANGED <<holder, window>>

\* Cancelled, rejected, deleted, or too late: one, or several together.
Withdraw(S) ==
    /\ \A r \in S : book[r] \in {"asked", "granted"}
    /\ book' = [r \in Res |-> IF r \in S THEN "over" ELSE book[r]]
    /\ UNCHANGED <<holder, window>>

Enforce(r) ==
    /\ InForce = {} /\ holder = Nobody
    /\ Enter(r, "granted", "in force")
    /\ UNCHANGED <<holder, window>>

Hold(r) ==
    /\ r \in InForce /\ holder = Nobody
    /\ holder' = r
    /\ UNCHANGED <<book, window>>

End(r) ==
    /\ holder = r
    /\ Enter(r, "in force", "over")
    /\ UNCHANGED <<holder, window>>

LetGo ==
    /\ InForce = {} /\ holder # Nobody
    /\ holder' = Nobody
    /\ UNCHANGED <<book, window>>

Proper ==
    \/ \E r \in Res : Ask(r) \/ Grant(r) \/ Enforce(r) \/ Hold(r) \/ End(r)
    \/ \E S \in SUBSET Res : Withdraw(S)
    \/ LetGo

BNext == orderly' => orderly /\ Proper

BSafety == BInit /\ [][BNext]_bvars
=============================================================================
