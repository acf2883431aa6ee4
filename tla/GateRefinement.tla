---------------------------- MODULE GateRefinement ----------------------------
(***************************************************************************)
(* The gate implements Admission: a request is granted while its guard has *)
(* not been given back to the gate, and the queue, the wakers and the      *)
(* releasing tasks are stuttering.                                         *)
(***************************************************************************)
EXTENDS ConcurrencyGate

\* The guards the present limit applies to.
Covered == IF registered THEN Counted ELSE {}

StatusOf(r) ==
    CASE pc[r] = "idle" -> "new"
      [] pc[r] \in InCall -> "asked"
      [] r \in Guards -> IF r \in Covered THEN "granted" ELSE "exempt"
      [] pc[r] \in {"waking", "sending", "served"} -> "finished"
      [] pc[r] = "refused" -> "denied"
      [] pc[r] = "gone" -> "abandoned"

\* The refinement mapping.
Seen == [r \in Requests |-> StatusOf(r)]

Allowance == IF registered THEN maxSlots + stale ELSE 0

A == INSTANCE Admission WITH status <- Seen, open <- ~registered, limit <- Allowance

\* The gate never grants beyond its allowance, and each of its steps is one step
\* of the abstract admission or none, whatever is registered or unregistered
\* meanwhile (fast path, queue, wake-up, release, start and stop).
ImplementsAdmission == A!ASafety
=============================================================================
