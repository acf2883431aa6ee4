------------------------------ MODULE Admission ------------------------------
(***************************************************************************)
(* What the concurrency gate of one model promises its callers, with no    *)
(* queue, no wake-up and no timer in it.  While the gate is open everybody *)
(* is admitted; while it is limited, at most `limit' calls are granted at  *)
(* any time.  A call admitted while it was open, or under a limit that has *)
(* been replaced since, is exempt from the present limit, and gives back a *)
(* slot it never took.  ConcurrencyGate implements it (GateRefinement).    *)
(***************************************************************************)
EXTENDS Naturals, FiniteSets

CONSTANTS Requests,     \* the calls a client may make
          SlotCounts    \* the slot counts a backend may be started with

VARIABLES status,       \* what the caller knows of its call
          open,         \* no backend is registered: no limit applies
          limit         \* how many calls may be granted, 0 while it is open

avars == <<status, open, limit>>

Granted == {r \in Requests : status[r] = "granted"}

AInit ==
    /\ status = [r \in Requests |-> "new"]
    /\ open = TRUE
    /\ limit = 0

Move(r, from, to) ==
    /\ status[r] \in from
    /\ status' = [status EXCEPT ![r] = to]

Ask(r) == Move(r, {"new"}, "asked") /\ UNCHANGED <<open, limit>>

Grant(r) ==
    /\ \/ ~open /\ Cardinality(Granted) < limit /\ Move(r, {"new", "asked"}, "granted")
       \/ open /\ Move(r, {"new", "asked"}, "exempt")
    /\ UNCHANGED <<open, limit>>

Deny(r) == Move(r, {"asked"}, "denied") /\ UNCHANGED <<open, limit>>

Abandon(r) == Move(r, {"asked"}, "abandoned") /\ UNCHANGED <<open, limit>>

Finish(r) == Move(r, {"granted"}, "finished") /\ UNCHANGED <<open, limit>>

FinishExempt(r) ==
    /\ Move(r, {"exempt"}, "finished")
    /\ limit' = IF open THEN limit ELSE limit + 1
    /\ UNCHANGED open

\* A backend is started or stopped: whoever is granted becomes exempt.
Replace(isOpen, slots) ==
    /\ status' = [r \in Requests |-> IF r \in Granted THEN "exempt" ELSE status[r]]
    /\ open' = isOpen
    /\ limit' = slots

ANext ==
    \/ \E r \in Requests :
          Ask(r) \/ Grant(r) \/ Deny(r) \/ Abandon(r) \/ Finish(r) \/ FinishExempt(r)
    \/ Replace(TRUE, 0)
    \/ \E n \in SlotCounts : Replace(FALSE, n)

ASafety == AInit /\ [][ANext]_avars
=============================================================================
