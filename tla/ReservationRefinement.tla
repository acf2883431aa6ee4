------------------------- MODULE ReservationRefinement -------------------------
(***************************************************************************)
(* The reservation system implements Booking as long as nothing races and  *)
(* no statement fails: a status stands for a page of the book, the cache   *)
(* for the holder, and what reads or waits is stuttering.                  *)
(***************************************************************************)
EXTENDS Reservations

Page(s) ==
    CASE s = "none" -> "absent"
      [] s = "pending" -> "asked"
      [] s = "approved" -> "granted"
      [] s = "active" -> "in force"
      [] s \in {"completed", "rejected", "cancelled", "deleted"} -> "over"

\* The refinement mapping.
Pages == [r \in Res |-> Page(status[r])]

B == INSTANCE Booking WITH book <- Pages, holder <- cache, Nobody <- NoRes,
                           orderly <- Undisturbed

\* One request or tick at a time and no failed statement: every statement of the
\* handlers, the tick and the recovery is one step of the book, or none.  Nothing
\* comes into force while something else is, or while the cache still names what
\* has ended; and nothing ends that has not held the system.
ImplementsBooking == B!BSafety
=============================================================================
