--------------------------- MODULE ReservationProofs ---------------------------
(***************************************************************************)
(* Proofs about Reservations, for every set of reservations, tasks and     *)
(* windows, serial or not, and every bound on time and faults.             *)
(***************************************************************************)
EXTENDS ReservationRefinement, TLAPS

JobRecord == [at : Steps, res : Res \cup {NoRes}]
TickRecord == [at : TickSteps, res : Res \cup {NoRes}]

\* A handler at work is at work on a reservation.
JobsNameRes == \A t \in Tasks : job[t].at # "idle" => job[t].res \in Res

\* Whatever is booked, held, or about to be activated or cached, by a handler or
\* by the tick, has been approved.
Selected == {"activate", "setCache"}
ApprovedFirst ==
    /\ cache # NoRes => cache \in approvedOnce
    /\ \A r \in Res : status[r] \in {"approved", "active"} => r \in approvedOnce
    /\ \A t \in Tasks : job[t].at \in Selected => job[t].res \in approvedOnce
    /\ tick.at \in Selected => tick.res \in approvedOnce

ResInv == TypeOK /\ JobsNameRes /\ ApprovedFirst

-----------------------------------------------------------------------------
(* The operators the steps are built from.                                 *)

LEMMA RestingType ==
    /\ Resting \in JobRecord /\ Resting.at = "idle"
    /\ Asleep \in TickRecord /\ Asleep.at = "sleep"
  BY DEF Resting, Asleep, JobRecord, TickRecord, Steps, TickSteps

LEMMA OutcomeType ==
    ASSUME TypeOK, NEW ok, Outcome(ok)
    PROVE  faults' \in 0 .. MaxFaults
  BY ReservationAssumption DEF Outcome, TypeOK

LEMMA SetStatusType ==
    ASSUME TypeOK, NEW r \in Res, NEW s \in Statuses, SetStatus(r, s)
    PROVE  /\ status' \in [Res -> Statuses]
           /\ status'[r] \in {s, status[r]}
           /\ \A q \in Res \ {r} : status'[q] = status[q]
  BY DEF SetStatus, TypeOK

\* A request begins on a reservation, at a step before the selection.
LEMMA BeginType ==
    ASSUME ResInv, NEW t \in Tasks, NEW r \in Res, NEW at \in Steps \ ({"idle"} \cup Selected),
           Begin(t, r, at)
    PROVE  /\ job' \in [Tasks -> JobRecord]
           /\ job'[t] = [at |-> at, res |-> r]
           /\ \A u \in Tasks \ {t} : job'[u] = job[u]
  BY DEF Begin, ResInv, TypeOK, JobRecord

LEMMA StepType ==
    ASSUME ResInv, NEW t \in Tasks, NEW from \in Steps \ {"idle"}, NEW to \in Steps,
           Step(t, from, to)
    PROVE  /\ job' \in [Tasks -> JobRecord]
           /\ job[t].at = from /\ job[t].res \in Res
           /\ job'[t].at = to /\ (to # "idle" => job'[t].res = job[t].res)
           /\ \A u \in Tasks \ {t} : job'[u] = job[u]
<1>1. job \in [Tasks -> JobRecord] /\ job[t] \in JobRecord
  BY DEF ResInv, TypeOK, JobRecord
<1>2. job[t].at = from /\ job[t].res \in Res
  BY DEF Step, ResInv, JobsNameRes
<1>3. CASE to = "idle"
  BY <1>1, <1>2, <1>3, RestingType DEF Step
<1>4. CASE to # "idle"
  <2>1. [job[t] EXCEPT !.at = to] \in JobRecord
    BY <1>1 DEF JobRecord
  <2>2. job' = [job EXCEPT ![t] = [job[t] EXCEPT !.at = to]]
    BY <1>4 DEF Step
  <2>3. job'[t] = [job[t] EXCEPT !.at = to]
    BY <1>1, <2>2
  <2> QED
    BY <1>1, <1>2, <2>1, <2>2, <2>3 DEF JobRecord
<1> QED
  BY <1>3, <1>4

\* The new type invariant, from the parts a step may change.
LEMMA TypeStep ==
    ASSUME TypeOK, UNCHANGED <<window, serial>>,
           status' \in [Res -> Statuses], cache' \in Res \cup {NoRes},
           now' \in 0 .. MaxTime, job' \in [Tasks -> JobRecord], tick' \in TickRecord,
           tickNow' \in 0 .. MaxTime, faults' \in 0 .. MaxFaults, approvedOnce' \subseteq Res
    PROVE  TypeOK'
  BY DEF TypeOK, JobRecord, TickRecord

-----------------------------------------------------------------------------
(* The requests.                                                           *)

LEMMA BeginStep ==
    ASSUME ResInv, NEW t \in Tasks, NEW r \in Res,
           Create(t, r) \/ Approve(t, r) \/ ForceActivate(t, r) \/ Delete(t, r)
    PROVE  ResInv'
<1> USE DEF ResInv
<1>1. UNCHANGED <<status, cache, now, tick, tickNow, window, serial, approvedOnce>>
  BY DEF Create, Approve, ForceActivate, Delete
<1>2. faults' \in 0 .. MaxFaults
  BY OutcomeType DEF Create, Approve, ForceActivate, Delete, TypeOK
<1>3. PICK at \in {"insert", "checkOverlap", "selectApproved", "delete"} : Begin(t, r, at)
  BY DEF Create, Approve, ForceActivate, Delete
<1>4. /\ job' \in [Tasks -> JobRecord]
      /\ job'[t] = [at |-> at, res |-> r] /\ at \notin Selected
      /\ \A u \in Tasks \ {t} : job'[u] = job[u]
  <2>1. at \in Steps \ ({"idle"} \cup Selected)
    BY DEF Steps, Selected
  <2> QED
    BY <1>3, <2>1, BeginType
<1>5. TypeOK'
  BY <1>1, <1>2, <1>4, TypeStep DEF TypeOK, TickRecord
<1>6. JobsNameRes'
  BY <1>4 DEF JobsNameRes
<1>7. ApprovedFirst'
  BY <1>1, <1>4 DEF ApprovedFirst
<1> QED
  BY <1>5, <1>6, <1>7

LEMMA DeactivateStep ==
    ASSUME ResInv, NEW t \in Tasks, NEW r \in Res, ForceDeactivate(t, r)
    PROVE  ResInv'
<1> USE DEF ResInv
<1>1. UNCHANGED <<cache, now, tick, tickNow, faults, window, serial, approvedOnce>>
  BY DEF ForceDeactivate
<1>2. /\ job' \in [Tasks -> JobRecord]
      /\ job'[t] = [at |-> "clearCache", res |-> r]
      /\ \A u \in Tasks \ {t} : job'[u] = job[u]
  BY BeginType DEF ForceDeactivate, Steps, Selected
<1>3. /\ status' \in [Res -> Statuses] /\ status'[r] \in {"completed", status[r]}
      /\ \A q \in Res \ {r} : status'[q] = status[q]
  BY SetStatusType DEF ForceDeactivate, Statuses
<1>4. TypeOK'
  BY <1>1, <1>2, <1>3, TypeStep DEF TypeOK, TickRecord
<1>5. JobsNameRes'
  BY <1>2 DEF JobsNameRes
<1>6. ApprovedFirst'
  BY <1>1, <1>2, <1>3 DEF ApprovedFirst, Selected
<1> QED
  BY <1>4, <1>5, <1>6

\* cancel_own and reject.
LEMMA RefuseStep ==
    ASSUME ResInv, NEW r \in Res, Cancel(r) \/ Reject(r)
    PROVE  ResInv'
<1> USE DEF ResInv
<1>1. UNCHANGED <<cache, now, job, tick, tickNow, faults, window, serial, approvedOnce>>
  BY DEF Cancel, Reject
<1>2. /\ status' \in [Res -> Statuses] /\ status'[r] \in {"cancelled", "rejected", status[r]}
      /\ \A q \in Res \ {r} : status'[q] = status[q]
  BY SetStatusType DEF Cancel, Reject, Statuses
<1>3. TypeOK'
  BY <1>1, <1>2, TypeStep DEF TypeOK, JobRecord, TickRecord
<1>4. JobsNameRes' /\ ApprovedFirst'
  BY <1>1, <1>2 DEF JobsNameRes, ApprovedFirst
<1> QED
  BY <1>3, <1>4

-----------------------------------------------------------------------------
(* The later steps of a handler.                                           *)

LEMMA ContinueStep ==
    ASSUME ResInv, NEW t \in Tasks, Continue(t)
    PROVE  ResInv'
<1> USE DEF ResInv
<1>1. UNCHANGED <<now, tick, tickNow, window, serial>>
  BY DEF Continue, Insert, CheckOverlap, WriteApproved, SelectApproved, WriteActive,
         SetCache, ClearCache, WriteDeleted
<1>2. PICK from \in Steps \ {"idle"}, to \in Steps : Step(t, from, to)
  BY DEF Continue, Insert, CheckOverlap, WriteApproved, SelectApproved, WriteActive,
         SetCache, ClearCache, WriteDeleted, Steps
<1>3. /\ job' \in [Tasks -> JobRecord]
      /\ job[t].at = from /\ job[t].res \in Res
      /\ job'[t].at = to /\ (to # "idle" => job'[t].res = job[t].res)
      /\ \A u \in Tasks \ {t} : job'[u] = job[u]
  BY <1>2, StepType
<1>4. faults' \in 0 .. MaxFaults
  BY OutcomeType DEF Continue, Insert, CheckOverlap, WriteApproved, SelectApproved, WriteActive,
                     SetCache, ClearCache, WriteDeleted, TypeOK
<1> DEFINE r == job[t].res
<1>5. /\ cache' \in {cache, NoRes} \/ (from = "setCache" /\ cache' = r)
      /\ approvedOnce' = approvedOnce \/ approvedOnce' = approvedOnce \cup {r}
  BY <1>3 DEF Continue, Insert, CheckOverlap, WriteApproved, SelectApproved, WriteActive,
              SetCache, ClearCache, WriteDeleted, Step
<1>6. /\ status' \in [Res -> Statuses]
      /\ \A q \in Res \ {r} : status'[q] = status[q]
      /\ \/ status'[r] \in {status[r], "pending", "deleted"}
         \/ status'[r] = "approved" /\ r \in approvedOnce'
         \/ status'[r] = "active" /\ from = "activate"
  <2>1. CASE Insert(t)
    BY <1>3, <2>1 DEF Insert, TypeOK, Statuses
  <2>2. CASE WriteApproved(t)
    BY <1>3, <2>2, SetStatusType DEF WriteApproved, Statuses
  <2>3. CASE WriteActive(t)
    <3>1. SetStatus(r, "active") \/ UNCHANGED status
      BY <2>3 DEF WriteActive
    <3>2. from = "activate"
      BY <1>3, <2>3 DEF WriteActive, Step
    <3> QED
      BY <1>3, <3>1, <3>2, SetStatusType DEF Statuses, TypeOK
  <2>4. CASE WriteDeleted(t)
    BY <1>3, <2>4, SetStatusType DEF WriteDeleted, Statuses
  <2>5. CASE CheckOverlap(t) \/ SelectApproved(t) \/ SetCache(t) \/ ClearCache(t)
    BY <2>5 DEF CheckOverlap, SelectApproved, SetCache, ClearCache, TypeOK
  <2> QED
    BY <2>1, <2>2, <2>3, <2>4, <2>5 DEF Continue
<1>7. to \in Selected => r \in approvedOnce
  <2>1. CASE SelectApproved(t)
    BY <1>2, <1>3, <2>1 DEF SelectApproved, Step, ApprovedFirst, Selected, Resting
  <2>2. CASE WriteActive(t)
    BY <1>3, <2>2 DEF WriteActive, Step, ApprovedFirst, Selected
  <2>3. CASE \/ Insert(t) \/ CheckOverlap(t) \/ WriteApproved(t) \/ SetCache(t) \/ ClearCache(t)
             \/ WriteDeleted(t)
    <3>1. job'[t].at \in {"idle", "approve"}
      BY <2>3, StepType DEF Insert, CheckOverlap, WriteApproved, SetCache, ClearCache,
                            WriteDeleted, Steps
    <3> QED
      BY <1>3, <3>1 DEF Selected
  <2> QED
    BY <2>1, <2>2, <2>3 DEF Continue
<1>8. TypeOK'
  BY <1>1, <1>3, <1>4, <1>5, <1>6, TypeStep DEF TypeOK, TickRecord
<1>9. JobsNameRes'
  BY <1>3 DEF JobsNameRes
<1>10. ApprovedFirst'
  <2>1. cache' # NoRes => cache' \in approvedOnce'
    BY <1>3, <1>5 DEF ApprovedFirst, Selected
  <2>2. \A q \in Res : status'[q] \in {"approved", "active"} => q \in approvedOnce'
    BY <1>3, <1>5, <1>6 DEF ApprovedFirst, Selected
  <2>3. \A u \in Tasks : job'[u].at \in Selected => job'[u].res \in approvedOnce'
    BY <1>3, <1>5, <1>7 DEF ApprovedFirst, Selected
  <2>4. tick'.at \in Selected => tick'.res \in approvedOnce'
    BY <1>1, <1>5 DEF ApprovedFirst
  <2> QED
    BY <2>1, <2>2, <2>3, <2>4 DEF ApprovedFirst
<1> QED
  BY <1>8, <1>9, <1>10

LEMMA AbandonStep ==
    ASSUME ResInv, NEW t \in Tasks, Abandon(t)
    PROVE  ResInv'
<1> USE DEF ResInv
<1>1. /\ UNCHANGED <<status, cache, now, tick, tickNow, window, serial, approvedOnce>>
      /\ faults' \in 0 .. MaxFaults
  BY OutcomeType DEF Abandon
<1>2. /\ job' \in [Tasks -> JobRecord] /\ job'[t] = Resting
      /\ \A u \in Tasks \ {t} : job'[u] = job[u]
  BY RestingType DEF Abandon, TypeOK, JobRecord
<1>3. TypeOK'
  BY <1>1, <1>2, TypeStep DEF TypeOK, TickRecord
<1>4. JobsNameRes'
  BY <1>2, RestingType DEF JobsNameRes
<1>5. ApprovedFirst'
  BY <1>1, <1>2, RestingType DEF ApprovedFirst, Selected
<1> QED
  BY <1>3, <1>4, <1>5

-----------------------------------------------------------------------------
(* The tick.                                                               *)

\* It completes and cancels, and goes on with nothing selected.
LEMMA TickTableStep ==
    ASSUME ResInv, TickComplete \/ TickCancelStale
    PROVE  ResInv'
<1> USE DEF ResInv
<1>1. UNCHANGED <<cache, now, job, window, serial, approvedOnce>>
  BY DEF TickComplete, TickCancelStale
<1>2. /\ tickNow' \in 0 .. MaxTime /\ faults' \in 0 .. MaxFaults
      /\ tick' \in TickRecord /\ tick'.at \notin Selected
  <2>1. CASE TickComplete
    <3>1. tick \in TickRecord
      BY DEF TypeOK, TickRecord
    <3>2. PICK to \in {"clearCache", "readCache"} : tick' = [tick EXCEPT !.at = to]
      BY <2>1 DEF TickComplete, TickStep
    <3>3. tick' \in TickRecord /\ tick'.at = to
      BY <3>1, <3>2 DEF TickRecord, TickSteps
    <3> QED
      BY <2>1, <3>3, OutcomeType DEF TickComplete, Selected, TypeOK
  <2>2. CASE TickCancelStale
    BY <2>2, OutcomeType, RestingType, ReservationAssumption DEF TickCancelStale, Selected
  <2> QED
    BY <2>1, <2>2
<1>3. /\ status' \in [Res -> Statuses]
      /\ \A r \in Res : status'[r] \in {status[r], "completed", "cancelled"}
  <2>1. CASE TickComplete
    <3>1. \/ UNCHANGED status
          \/ status' = [r \in Res |->
                IF r \in {x \in Res : status[x] = "active" /\ window[x].to <= now}
                THEN "completed" ELSE status[r]]
      BY <2>1 DEF TickComplete
    <3>2. status \in [Res -> Statuses] /\ "completed" \in Statuses
      BY DEF TypeOK, Statuses
    <3> QED
      BY <3>1, <3>2
  <2>2. CASE TickCancelStale
    <3>1. PICK ok \in BOOLEAN :
            status' = [r \in Res |->
                IF ok /\ status[r] = "pending" /\ window[r].from <= tickNow
                THEN "cancelled" ELSE status[r]]
      BY <2>2 DEF TickCancelStale
    <3>2. status \in [Res -> Statuses] /\ "cancelled" \in Statuses
      BY DEF TypeOK, Statuses
    <3> QED
      BY <3>1, <3>2
  <2> QED
    BY <2>1, <2>2
<1>4. TypeOK'
  BY <1>1, <1>2, <1>3, TypeStep DEF TypeOK, JobRecord
<1>5. JobsNameRes' /\ ApprovedFirst'
  BY <1>1, <1>2, <1>3 DEF JobsNameRes, ApprovedFirst
<1> QED
  BY <1>4, <1>5

LEMMA TickCacheStep ==
    ASSUME ResInv, TickClearCache \/ TickReadCache \/ TickSelectDue \/ TickSetCache
    PROVE  ResInv'
<1> USE DEF ResInv
<1>1. /\ UNCHANGED <<status, now, job, tickNow, window, serial, approvedOnce>>
      /\ faults' \in 0 .. MaxFaults
  BY OutcomeType DEF TickClearCache, TickReadCache, TickSelectDue, TickSetCache, TypeOK
<1>2. cache' \in {cache, NoRes} \/ (tick.at = "setCache" /\ cache' = tick.res)
  BY DEF TickClearCache, TickReadCache, TickSelectDue, TickSetCache
<1>3. tick' \in TickRecord /\ (tick'.at \in Selected => tick'.res \in approvedOnce)
  <2>1. CASE TickClearCache \/ TickReadCache
    <3>1. tick \in TickRecord
      BY DEF TypeOK, TickRecord
    <3>2. PICK to \in {"readCache", "selectDue", "cancelStale"} : tick' = [tick EXCEPT !.at = to]
      BY <2>1 DEF TickClearCache, TickReadCache, TickStep
    <3> QED
      BY <3>1, <3>2 DEF TickRecord, TickSteps, Selected
  <2>2. CASE TickSelectDue
    <3>1. CASE tick' = [at |-> "cancelStale", res |-> NoRes]
      BY <3>1 DEF TickRecord, TickSteps, Selected
    <3>2. ASSUME NEW r \in Due, tick' = [at |-> "activate", res |-> r]
          PROVE  tick' \in TickRecord /\ (tick'.at \in Selected => tick'.res \in approvedOnce)
      BY <3>2 DEF Due, TickRecord, TickSteps, ApprovedFirst
    <3> QED
      BY <2>2, <3>1, <3>2 DEF TickSelectDue
  <2>3. CASE TickSetCache
    BY <2>3 DEF TickSetCache, TickRecord, TickSteps, Selected
  <2> QED
    BY <2>1, <2>2, <2>3
<1>4. cache' \in Res \cup {NoRes}
  BY <1>2 DEF TypeOK
<1>5. TypeOK'
  BY <1>1, <1>3, <1>4, TypeStep DEF TypeOK, JobRecord
<1>6. JobsNameRes' /\ ApprovedFirst'
  BY <1>1, <1>2, <1>3 DEF JobsNameRes, ApprovedFirst, Selected
<1> QED
  BY <1>5, <1>6

LEMMA TickActivateStep ==
    ASSUME ResInv, TickActivate
    PROVE  ResInv'
<1> USE DEF ResInv
<1>1. /\ UNCHANGED <<cache, now, job, tickNow, window, serial, approvedOnce>>
      /\ faults' \in 0 .. MaxFaults
  BY OutcomeType DEF TickActivate
<1>2. tick.at = "activate" /\ tick.res \in approvedOnce /\ tick.res \in Res
  BY DEF TickActivate, TickStep, ApprovedFirst, Selected, TypeOK
<1>3. tick' \in TickRecord /\ tick'.res = tick.res
  <2>1. tick \in TickRecord /\ tick' = [tick EXCEPT !.at = "setCache"]
    BY DEF TickActivate, TickStep, TypeOK, TickRecord
  <2> QED
    BY <2>1 DEF TickRecord, TickSteps
<1>4. /\ status' \in [Res -> Statuses]
      /\ \A r \in Res : status'[r] = status[r] \/ r = tick.res
  <2>1. SetStatus(tick.res, "active") \/ UNCHANGED status
    BY DEF TickActivate
  <2> QED
    BY <1>2, <2>1, SetStatusType DEF Statuses, TypeOK
<1>5. TypeOK'
  BY <1>1, <1>3, <1>4, TypeStep DEF TypeOK, JobRecord
<1>6. JobsNameRes' /\ ApprovedFirst'
  BY <1>1, <1>2, <1>3, <1>4 DEF JobsNameRes, ApprovedFirst
<1> QED
  BY <1>5, <1>6

-----------------------------------------------------------------------------
LEMMA RestartStep ==
    ASSUME ResInv, Restart
    PROVE  ResInv'
<1> USE DEF ResInv
<1>1. /\ UNCHANGED <<status, now, window, serial, approvedOnce>>
      /\ faults' \in 0 .. MaxFaults
      /\ job' = [t \in Tasks |-> Resting] /\ tick' = Asleep /\ tickNow' = 0
  BY OutcomeType DEF Restart, TypeOK
<1>2. cache' = NoRes \/ (cache' \in Res /\ status[cache'] = "active")
  BY DEF Restart
<1>3. /\ job' \in [Tasks -> JobRecord] /\ \A t \in Tasks : job'[t].at = "idle"
      /\ tick' \in TickRecord /\ tick'.at = "sleep" /\ tickNow' \in 0 .. MaxTime
  BY <1>1, RestingType, ReservationAssumption
<1>4. TypeOK'
  BY <1>1, <1>2, <1>3, TypeStep DEF TypeOK
<1>5. JobsNameRes' /\ ApprovedFirst'
  BY <1>1, <1>2, <1>3 DEF JobsNameRes, ApprovedFirst, Selected
<1> QED
  BY <1>4, <1>5

LEMMA ClockStep ==
    ASSUME ResInv, Clock
    PROVE  ResInv'
<1> USE DEF ResInv
<1>1. UNCHANGED <<status, cache, job, tick, tickNow, faults, window, serial, approvedOnce>>
  BY DEF Clock
<1>2. now' \in 0 .. MaxTime
  BY ReservationAssumption DEF Clock, TypeOK
<1>3. TypeOK'
  BY <1>1, <1>2, TypeStep DEF TypeOK, JobRecord, TickRecord
<1>4. JobsNameRes' /\ ApprovedFirst'
  BY <1>1 DEF JobsNameRes, ApprovedFirst
<1> QED
  BY <1>3, <1>4

LEMMA ResInit == Init => ResInv
<1> SUFFICES ASSUME Init PROVE ResInv
  OBVIOUS
<1>1. /\ now \in 0 .. MaxTime /\ tickNow \in 0 .. MaxTime /\ faults \in 0 .. MaxFaults
      /\ serial \in BOOLEAN
  BY ReservationAssumption DEF Init
<1>2. /\ job \in [Tasks -> JobRecord] /\ \A t \in Tasks : job[t].at = "idle"
      /\ tick \in TickRecord /\ tick.at = "sleep"
  BY RestingType DEF Init
<1>3. status \in [Res -> Statuses]
  BY DEF Init, Statuses
<1>4. TypeOK
  BY <1>1, <1>2, <1>3 DEF Init, TypeOK, JobRecord, TickRecord
<1>5. JobsNameRes /\ ApprovedFirst
  BY <1>2 DEF Init, JobsNameRes, ApprovedFirst, Selected
<1> QED
  BY <1>4, <1>5 DEF ResInv

LEMMA ResStep == ResInv /\ [Next]_vars => ResInv'
<1> SUFFICES ASSUME ResInv, [Next]_vars
             PROVE  ResInv'
  OBVIOUS
<1>1. CASE UNCHANGED vars
  BY <1>1 DEF ResInv, TypeOK, JobsNameRes, ApprovedFirst, vars
<1>2. CASE \E t \in Tasks : Request(t) \/ Continue(t) \/ Abandon(t)
  BY <1>2, BeginStep, DeactivateStep, ContinueStep, AbandonStep DEF Request
<1>3. CASE \E r \in Res : Cancel(r) \/ Reject(r)
  BY <1>3, RefuseStep
<1>4. CASE Tick
  BY <1>4, TickTableStep, TickCacheStep, TickActivateStep DEF Tick
<1>5. CASE Restart \/ Clock
  BY <1>5, RestartStep, ClockStep
<1> QED
  BY <1>1, <1>2, <1>3, <1>4, <1>5 DEF Next

\* ResInv holds in every reachable state.
THEOREM ReservationInvariant == Spec => []ResInv
<1>1. Init => ResInv
  BY ResInit
<1>2. ResInv /\ [Next]_vars => ResInv'
  BY ResStep
<1> QED
  BY <1>1, <1>2, PTL DEF Spec

\* The variables of the reservations keep their types.
THEOREM ReservationTypes == Spec => []TypeOK
<1>1. ResInv => TypeOK
  BY DEF ResInv
<1> QED
  BY <1>1, ReservationInvariant, PTL

\* However handlers, ticks, failures and restarts interleave, the system is only ever
\* held for a reservation that an admin approved at some point (force_activate, the
\* tick and the recovery at startup).
THEOREM OnlyApprovedEverHold == Spec => []OnlyApprovedHoldSystem
<1>1. ResInv => OnlyApprovedHoldSystem
  BY DEF ResInv, ApprovedFirst, OnlyApprovedHoldSystem
<1> QED
  BY <1>1, ReservationInvariant, PTL

-----------------------------------------------------------------------------
(* Requests and ticks one at a time, and no failed statement.  Then the    *)
(* process at work says what the table and the cache hold: SerialSound has *)
(* one clause for each step a process may be about to take.                *)

ActiveRows == {r \in Res : status[r] = "active"}

Held == IF cache = NoRes THEN {} ELSE {cache}

Agrees == ActiveRows = Held

AtMostOneActive == \A r, q \in ActiveRows : r = q

OneAtWork ==
    /\ tick # Asleep => \A t \in Tasks : job[t] = Resting
    /\ \A t, u \in Tasks : t # u => job[t] = Resting \/ job[u] = Resting

\* What a handler may count on between its statements.
JobSound(t) ==
    LET at == job[t].at
        r == job[t].res
    IN  /\ at \in {"insert", "checkOverlap", "approve", "selectApproved", "activate", "delete"}
              => Agrees
        /\ at = "insert" => status[r] = "none"
        /\ at \in {"checkOverlap", "approve"} => status[r] = "pending"
        /\ at = "approve" => \A q \in Booked \ {r} : ~Overlaps(r, q)
        /\ at \in {"selectApproved", "activate", "setCache"} => cache = NoRes
        /\ at = "activate" => status[r] = "approved"
        /\ at = "setCache" => ActiveRows = {r}
        /\ at = "clearCache" => ActiveRows = {}
        /\ at = "delete" => status[r] \notin {"none", "active"}

\* The same for the tick.
TickSound ==
    /\ tick.at \in {"readCache", "selectDue", "activate", "cancelStale"} => Agrees
    /\ tick.at = "clearCache" => ActiveRows = {}
    /\ tick.at \in {"selectDue", "activate", "setCache"} => cache = NoRes
    /\ tick.at = "activate" => status[tick.res] = "approved"
    /\ tick.at = "setCache" => ActiveRows = {tick.res}

SerialSound ==
    /\ NoOverlap
    /\ AtMostOneActive
    /\ OneAtWork
    /\ \A t \in Tasks : JobSound(t)
    /\ TickSound
    /\ Quiet => Agrees

SerialInv == Undisturbed => SerialSound

\* A step between two undisturbed states, the first of them sound.
SoundBefore == ResInv /\ SerialSound /\ serial /\ faults = 0 /\ serial' /\ faults' = 0

LEMMA NoFault ==
    ASSUME SoundBefore, NEW ok \in BOOLEAN, Outcome(ok)
    PROVE  ok
  BY DEF SoundBefore, Outcome

LEMMA OverlapsSymmetric ==
    ASSUME TypeOK, NEW r \in Res, NEW q \in Res
    PROVE  Overlaps(r, q) <=> Overlaps(q, r)
<1>1. window[r] \in Windows /\ window[q] \in Windows
  BY DEF TypeOK
<1>2. /\ window[r].from \in Nat /\ window[r].to \in Nat
      /\ window[q].from \in Nat /\ window[q].to \in Nat
  BY <1>1, ReservationAssumption
<1> QED
  BY <1>2 DEF Overlaps

\* When rows only leave the booked ones, the bookings stay apart.
LEMMA BookingsStayApart ==
    ASSUME NoOverlap, UNCHANGED window, Booked' \subseteq Booked
    PROVE  NoOverlap'
  BY DEF NoOverlap, Overlaps

\* With one handler at work the new state is sound when that handler is.
LEMMA HandlerAtWork ==
    ASSUME NEW t \in Tasks, tick' = Asleep, \A u \in Tasks \ {t} : job'[u] = Resting,
           NoOverlap', AtMostOneActive', JobSound(t)', job'[t] = Resting => Agrees'
    PROVE  SerialSound'
<1>1. OneAtWork'
  BY DEF OneAtWork
<1>2. ASSUME NEW u \in Tasks PROVE JobSound(u)'
  <2>1. CASE u = t
    BY <2>1
  <2>2. CASE u # t
    BY <2>2, RestingType DEF JobSound
  <2> QED
    BY <2>1, <2>2
<1>3. TickSound'
  BY RestingType DEF TickSound
<1>4. (Quiet => Agrees)'
  BY DEF Quiet
<1> QED
  BY <1>1, <1>2, <1>3, <1>4 DEF SerialSound

\* With no handler at work the new state is sound when the tick is.
LEMMA TickAtWork ==
    ASSUME \A t \in Tasks : job'[t] = Resting, NoOverlap', AtMostOneActive',
           TickSound', tick' = Asleep => Agrees'
    PROVE  SerialSound'
<1>1. OneAtWork' /\ (Quiet => Agrees)'
  BY DEF OneAtWork, Quiet
<1>2. ASSUME NEW u \in Tasks PROVE JobSound(u)'
  BY RestingType DEF JobSound
<1> QED
  BY <1>1, <1>2 DEF SerialSound

\* A request begins only when all is quiet.
LEMMA BeginSound ==
    ASSUME SoundBefore, NEW t \in Tasks, NEW r \in Res,
           NEW at \in Steps \ ({"idle"} \cup Selected), Begin(t, r, at), UNCHANGED tick
    PROVE  /\ Agrees /\ tick' = Asleep
           /\ job'[t].at = at /\ job'[t].res = r /\ job'[t] # Resting
           /\ \A u \in Tasks \ {t} : job'[u] = Resting
<1>1. Quiet /\ Agrees
  BY DEF SoundBefore, SerialSound, Begin, MayBegin
<1>2. /\ job'[t] = [at |-> at, res |-> r]
      /\ \A u \in Tasks \ {t} : job'[u] = job[u]
  BY BeginType DEF SoundBefore
<1> QED
  BY <1>1, <1>2, RestingType DEF Quiet

LEMMA RequestSound ==
    ASSUME SoundBefore, NEW t \in Tasks, NEW r \in Res,
           Create(t, r) \/ Approve(t, r) \/ ForceActivate(t, r) \/ Delete(t, r)
    PROVE  SerialSound'
<1>1. UNCHANGED <<status, cache, tick, window>>
  BY DEF Create, Approve, ForceActivate, Delete
<1>2. PICK at \in {"insert", "checkOverlap", "selectApproved", "delete"} :
         /\ Begin(t, r, at)
         /\ at = "insert" => status[r] = "none"
         /\ at = "checkOverlap" => status[r] = "pending"
         /\ at = "selectApproved" => cache = NoRes
         /\ at = "delete" => status[r] \notin {"none", "active"}
  <2>1. CASE Create(t, r)
    BY <2>1 DEF Create
  <2>2. CASE Approve(t, r)
    BY <2>2 DEF Approve
  <2>3. CASE ForceActivate(t, r)
    BY <2>3 DEF ForceActivate
  <2>4. CASE Delete(t, r)
    <3>1. Begin(t, r, "delete") /\ status[r] # "active" /\ Exists(r)
      BY <2>4, NoFault DEF Delete
    <3> QED
      BY <3>1 DEF Exists
  <2> QED
    BY <2>1, <2>2, <2>3, <2>4
<1>3. at \in Steps \ ({"idle"} \cup Selected)
  BY DEF Steps, Selected
<1>4. /\ Agrees /\ tick' = Asleep
      /\ job'[t].at = at /\ job'[t].res = r /\ job'[t] # Resting
      /\ \A u \in Tasks \ {t} : job'[u] = Resting
  BY <1>1, <1>2, <1>3, BeginSound
<1>5. NoOverlap' /\ AtMostOneActive'
  BY <1>1, BookingsStayApart DEF SoundBefore, SerialSound, Booked, AtMostOneActive, ActiveRows
<1>6. Agrees'
  BY <1>1, <1>4 DEF Agrees, ActiveRows, Held
<1>7. JobSound(t)'
  BY <1>1, <1>2, <1>4, <1>6 DEF JobSound
<1> QED
  BY <1>4, <1>5, <1>7, HandlerAtWork

LEMMA DeactivateSound ==
    ASSUME SoundBefore, NEW t \in Tasks, NEW r \in Res, ForceDeactivate(t, r)
    PROVE  SerialSound'
<1>1. Begin(t, r, "clearCache") /\ UNCHANGED <<tick, window>> /\ status[r] = "active"
  BY DEF ForceDeactivate
<1>2. /\ tick' = Asleep
      /\ job'[t].at = "clearCache" /\ job'[t].res = r /\ job'[t] # Resting
      /\ \A u \in Tasks \ {t} : job'[u] = Resting
  <2>1. "clearCache" \in Steps \ ({"idle"} \cup Selected)
    BY DEF Steps, Selected
  <2> QED
    BY <1>1, <2>1, BeginSound
<1>3. status'[r] = "completed" /\ \A q \in Res \ {r} : status'[q] = status[q]
  BY <1>1, SetStatusType
     DEF ForceDeactivate, SetStatus, Exists, Statuses, SoundBefore, ResInv, TypeOK
<1>4. ActiveRows' = {}
  BY <1>1, <1>3 DEF ActiveRows, AtMostOneActive, SoundBefore, SerialSound
<1>5. NoOverlap' /\ AtMostOneActive'
  BY <1>1, <1>3, <1>4, BookingsStayApart DEF Booked, AtMostOneActive, SoundBefore, SerialSound
<1>6. JobSound(t)'
  BY <1>2, <1>4 DEF JobSound
<1> QED
  BY <1>2, <1>5, <1>6, HandlerAtWork

LEMMA RefuseSound ==
    ASSUME SoundBefore, NEW r \in Res, Cancel(r) \/ Reject(r)
    PROVE  SerialSound'
<1>1. /\ UNCHANGED <<cache, job, tick, window>>
      /\ status[r] \in {"pending", "approved"} /\ Quiet
  BY DEF Cancel, Reject, MayBegin, SoundBefore
<1>2. /\ status'[r] \in {"cancelled", "rejected"}
      /\ \A q \in Res \ {r} : status'[q] = status[q]
  BY <1>1 DEF Cancel, Reject, SetStatus, Exists, SoundBefore, ResInv, TypeOK
<1>3. ActiveRows' = ActiveRows /\ Booked' \subseteq Booked
  BY <1>1, <1>2 DEF ActiveRows, Booked
<1>4. NoOverlap' /\ AtMostOneActive' /\ Agrees'
  BY <1>1, <1>3, BookingsStayApart
     DEF SoundBefore, SerialSound, AtMostOneActive, Agrees, Held
<1>5. tick' = Asleep /\ \A t \in Tasks : job'[t] = Resting
  BY <1>1 DEF Quiet
<1>6. TickSound'
  BY <1>5, RestingType DEF TickSound
<1> QED
  BY <1>4, <1>5, <1>6, TickAtWork

\* A handler that goes on is the only process at work.
LEMMA ContinueAlone ==
    ASSUME SoundBefore, NEW t \in Tasks, NEW from \in Steps \ {"idle"}, NEW to \in Steps,
           Step(t, from, to), UNCHANGED tick
    PROVE  /\ tick' = Asleep /\ \A u \in Tasks \ {t} : job'[u] = Resting
           /\ job[t].at = from /\ job[t].res \in Res /\ JobSound(t)
           /\ job'[t].at = to /\ (to # "idle" => job'[t].res = job[t].res)
           /\ to # "idle" => job'[t] # Resting
<1>1. /\ job[t].at = from /\ job[t].res \in Res
      /\ job'[t].at = to /\ (to # "idle" => job'[t].res = job[t].res)
      /\ \A u \in Tasks \ {t} : job'[u] = job[u]
  BY StepType DEF SoundBefore
<1>2. job[t] # Resting
  BY <1>1, RestingType
<1>3. tick = Asleep /\ \A u \in Tasks \ {t} : job[u] = Resting
  BY <1>2 DEF SoundBefore, SerialSound, OneAtWork
<1>4. to # "idle" => job'[t] # Resting
  BY <1>1, RestingType
<1> QED
  BY <1>1, <1>3, <1>4 DEF SoundBefore, SerialSound

\* The steps that leave the table alone.
LEMMA LookSound ==
    ASSUME SoundBefore, NEW t \in Tasks, CheckOverlap(t) \/ SelectApproved(t)
    PROVE  SerialSound'
<1> DEFINE r == job[t].res
<1>1. UNCHANGED <<status, cache, tick, window>>
  BY DEF CheckOverlap, SelectApproved
<1>2. PICK from \in {"checkOverlap", "selectApproved"}, to \in {"idle", "approve", "activate"} :
         /\ Step(t, from, to)
         /\ to = "approve" => from = "checkOverlap" /\ \A q \in Booked \ {r} : ~Overlaps(r, q)
         /\ to = "activate" => from = "selectApproved" /\ status[r] = "approved"
  <2>1. CASE CheckOverlap(t)
    <3> DEFINE clash == \E q \in Booked \ {r} : Overlaps(r, q)
    <3>1. PICK ok \in BOOLEAN :
             Outcome(ok) /\ Step(t, "checkOverlap", IF ok /\ clash THEN "idle" ELSE "approve")
      BY <2>1 DEF CheckOverlap
    <3>2. ok
      BY <3>1, NoFault
    <3>3. CASE clash
      BY <3>1, <3>2, <3>3
    <3>4. CASE ~clash
      BY <3>1, <3>2, <3>4
    <3> QED
      BY <3>3, <3>4
  <2>2. CASE SelectApproved(t)
    <3>1. CASE status[r] = "approved"
      BY <2>2, <3>1 DEF SelectApproved
    <3>2. CASE status[r] # "approved"
      BY <2>2, <3>2 DEF SelectApproved
    <3> QED
      BY <3>1, <3>2
  <2> QED
    BY <2>1, <2>2
<1>3. from \in Steps \ {"idle"} /\ to \in Steps
  BY DEF Steps
<1>4. /\ tick' = Asleep /\ \A u \in Tasks \ {t} : job'[u] = Resting
      /\ job[t].at = from /\ job[t].res \in Res /\ JobSound(t)
      /\ job'[t].at = to /\ (to # "idle" => job'[t].res = job[t].res)
      /\ to # "idle" => job'[t] # Resting
  BY <1>1, <1>2, <1>3, ContinueAlone
<1>5. NoOverlap' /\ AtMostOneActive'
  BY <1>1, BookingsStayApart DEF SoundBefore, SerialSound, Booked, AtMostOneActive, ActiveRows
<1>6. Agrees'
  <2>1. Agrees
    BY <1>4 DEF JobSound
  <2> QED
    BY <1>1, <2>1 DEF Agrees, ActiveRows, Held
<1>7. JobSound(t)'
  <2>1. CASE to = "idle"
    BY <1>4, <2>1 DEF JobSound
  <2>2. CASE to = "approve"
    BY <1>1, <1>2, <1>4, <1>6, <2>2 DEF JobSound, Booked, Overlaps
  <2>3. CASE to = "activate"
    BY <1>1, <1>2, <1>4, <1>6, <2>3 DEF JobSound
  <2> QED
    BY <2>1, <2>2, <2>3
<1> QED
  BY <1>4, <1>5, <1>6, <1>7, HandlerAtWork

\* The steps that write one row, and only by id: what the row holds by then is
\* what the handler last saw.
LEMMA WriteSound ==
    ASSUME SoundBefore, NEW t \in Tasks,
           Insert(t) \/ WriteApproved(t) \/ WriteActive(t) \/ WriteDeleted(t)
    PROVE  SerialSound'
<1> DEFINE r == job[t].res
<1>1. UNCHANGED <<cache, tick, window>>
  BY DEF Insert, WriteApproved, WriteActive, WriteDeleted
<1>2. PICK from \in {"insert", "approve", "activate", "delete"}, to \in {"idle", "setCache"} :
         /\ Step(t, from, to) /\ (from = "activate" <=> to = "setCache")
         /\ Insert(t) => from = "insert"
         /\ WriteApproved(t) => from = "approve"
         /\ WriteActive(t) => from = "activate"
         /\ WriteDeleted(t) => from = "delete"
  BY DEF Insert, WriteApproved, WriteActive, WriteDeleted, Step
<1>3. from \in Steps \ {"idle"} /\ to \in Steps
  BY DEF Steps
<1>4. /\ tick' = Asleep /\ \A u \in Tasks \ {t} : job'[u] = Resting
      /\ job[t].at = from /\ r \in Res /\ JobSound(t)
      /\ job'[t].at = to /\ (to # "idle" => job'[t].res = r)
      /\ to # "idle" => job'[t] # Resting
  BY <1>1, <1>2, <1>3, ContinueAlone
<1> HIDE DEF r
<1>5. /\ \A q \in Res \ {r} : status'[q] = status[q]
      /\ \/ from = "insert" /\ status[r] = "none" /\ status'[r] = "pending"
         \/ from = "approve" /\ status[r] = "pending" /\ status'[r] = "approved"
         \/ from = "activate" /\ status[r] = "approved" /\ status'[r] = "active"
         \/ from = "delete" /\ status[r] # "active" /\ status'[r] \notin {"approved", "active"}
  <2>1. status \in [Res -> Statuses]
    BY DEF SoundBefore, ResInv, TypeOK
  <2>2. CASE Insert(t)
    BY <1>2, <1>4, <2>1, <2>2 DEF Insert, JobSound, r
  <2>3. CASE WriteApproved(t)
    BY <1>2, <1>4, <2>1, <2>3 DEF WriteApproved, SetStatus, Exists, JobSound, r
  <2>4. CASE WriteActive(t)
    <3>1. SetStatus(r, "active")
      BY <2>4, NoFault DEF WriteActive, r
    <3> QED
      BY <1>2, <1>4, <2>1, <2>4, <3>1 DEF SetStatus, Exists, JobSound, r
  <2>5. CASE WriteDeleted(t)
    BY <1>2, <1>4, <2>1, <2>5 DEF WriteDeleted, SetStatus, Exists, JobSound, r
  <2> QED
    BY <2>2, <2>3, <2>4, <2>5
<1>6. NoOverlap'
  <2>1. CASE from # "approve"
    <3>1. Booked' \subseteq Booked
      BY <1>5, <2>1 DEF Booked
    <3> QED
      BY <1>1, <3>1, BookingsStayApart DEF SoundBefore, SerialSound
  <2>2. CASE from = "approve"
    <3>1. Booked' \subseteq Booked \cup {r}
      BY <1>4, <1>5 DEF Booked
    <3>2. \A q \in Booked \ {r} : ~Overlaps(r, q) /\ ~Overlaps(q, r)
      BY <1>4, <2>2, OverlapsSymmetric DEF JobSound, Booked, SoundBefore, ResInv, r
    <3>3. NoOverlap
      BY DEF SoundBefore, SerialSound
    <3> QED
      BY <1>1, <3>1, <3>2, <3>3 DEF NoOverlap, Overlaps
  <2> QED
    BY <2>1, <2>2
<1>7. CASE from = "activate"
  <2>1. ActiveRows = {} /\ cache = NoRes
    BY <1>4, <1>7 DEF JobSound, Agrees, Held
  <2>2. ActiveRows' = {r}
    BY <1>4, <1>5, <1>7, <2>1 DEF ActiveRows
  <2>3. AtMostOneActive'
    BY <2>2 DEF AtMostOneActive
  <2>4. JobSound(t)'
    BY <1>1, <1>2, <1>4, <1>7, <2>1, <2>2 DEF JobSound
  <2> QED
    BY <1>2, <1>4, <1>6, <1>7, <2>3, <2>4, HandlerAtWork
<1>8. CASE from # "activate"
  <2>1. ActiveRows' = ActiveRows /\ Agrees
    BY <1>4, <1>5, <1>8 DEF ActiveRows, JobSound
  <2>2. AtMostOneActive' /\ Agrees'
    BY <1>1, <2>1 DEF AtMostOneActive, Agrees, Held, SoundBefore, SerialSound
  <2>3. JobSound(t)'
    BY <1>2, <1>4, <1>8 DEF JobSound
  <2> QED
    BY <1>4, <1>6, <2>2, <2>3, HandlerAtWork
<1> QED
  BY <1>7, <1>8

\* The steps that write the cache last.
LEMMA CacheSound ==
    ASSUME SoundBefore, NEW t \in Tasks, SetCache(t) \/ ClearCache(t)
    PROVE  SerialSound'
<1>1. UNCHANGED <<status, tick, window>>
  BY DEF SetCache, ClearCache
<1>2. PICK from \in {"setCache", "clearCache"} :
         /\ Step(t, from, "idle")
         /\ from = "setCache" => cache' = job[t].res
         /\ from = "clearCache" => cache' = NoRes
  BY DEF SetCache, ClearCache
<1>3. from \in Steps \ {"idle"} /\ "idle" \in Steps
  BY DEF Steps
<1>4. /\ tick' = Asleep /\ \A u \in Tasks \ {t} : job'[u] = Resting
      /\ job[t].at = from /\ job[t].res \in Res /\ JobSound(t)
      /\ job'[t].at = "idle"
  BY <1>1, <1>2, <1>3, ContinueAlone
<1>5. NoOverlap' /\ AtMostOneActive'
  BY <1>1, BookingsStayApart DEF SoundBefore, SerialSound, Booked, AtMostOneActive, ActiveRows
<1>6. Agrees'
  BY <1>1, <1>2, <1>4, ReservationAssumption DEF JobSound, Agrees, ActiveRows, Held
<1>7. JobSound(t)'
  BY <1>4 DEF JobSound
<1> QED
  BY <1>4, <1>5, <1>6, <1>7, HandlerAtWork

LEMMA AbandonIsAFault ==
    ASSUME SoundBefore, NEW t \in Tasks, Abandon(t)
    PROVE  FALSE
  BY NoFault DEF Abandon

-----------------------------------------------------------------------------
\* While the tick runs no handler does.
LEMMA TickAlone ==
    ASSUME SoundBefore, UNCHANGED job, tick.at # "sleep"
    PROVE  /\ \A t \in Tasks : job'[t] = Resting
           /\ TickSound
  BY RestingType DEF SoundBefore, SerialSound, OneAtWork

LEMMA TickCompleteSound ==
    ASSUME SoundBefore, TickComplete
    PROVE  SerialSound'
<1> DEFINE ended == {r \in Res : status[r] = "active" /\ window[r].to <= now}
<1>1. UNCHANGED <<cache, job, window>> /\ Quiet /\ Agrees
  BY DEF TickComplete, MayBegin, SoundBefore, SerialSound
<1>2. /\ status' = [r \in Res |-> IF r \in ended THEN "completed" ELSE status[r]]
      /\ tick' = [tick EXCEPT !.at = IF ended # {} THEN "clearCache" ELSE "readCache"]
  BY NoFault DEF TickComplete, TickStep
<1>3. tick' \in TickRecord /\ tick'.at = IF ended # {} THEN "clearCache" ELSE "readCache"
  BY <1>2 DEF SoundBefore, ResInv, TypeOK, TickRecord, TickSteps
<1> HIDE DEF ended
<1>4. ActiveRows' = ActiveRows \ ended /\ Booked' \subseteq Booked /\ ended \subseteq ActiveRows
  <2>1. ended \subseteq Res
    BY DEF ended
  <2>2. \A r \in Res : status'[r] = IF r \in ended THEN "completed" ELSE status[r]
    BY <1>2
  <2> QED
    BY <2>1, <2>2 DEF ActiveRows, Booked, ended
<1>5. NoOverlap' /\ AtMostOneActive'
  BY <1>1, <1>4, BookingsStayApart DEF SoundBefore, SerialSound, AtMostOneActive
<1>6. CASE ended # {}
  <2>1. ActiveRows' = {}
    BY <1>4, <1>6 DEF SoundBefore, SerialSound, AtMostOneActive
  <2>2. TickSound' /\ tick' # Asleep
    BY <1>3, <1>6, <2>1, RestingType DEF TickSound
  <2> QED
    BY <1>1, <1>5, <2>2, TickAtWork DEF Quiet
<1>7. CASE ended = {}
  <2>1. Agrees'
    BY <1>1, <1>4, <1>7 DEF Agrees, Held
  <2>2. TickSound'
    BY <1>3, <1>7, <2>1 DEF TickSound
  <2> QED
    BY <1>1, <1>5, <2>1, <2>2, TickAtWork DEF Quiet
<1> QED
  BY <1>6, <1>7

\* The steps of the tick that leave the table alone.
LEMMA TickLookSound ==
    ASSUME SoundBefore, TickClearCache \/ TickReadCache \/ TickSelectDue \/ TickSetCache
    PROVE  SerialSound'
<1>1. UNCHANGED <<status, job, window>> /\ tick.at # "sleep"
  BY DEF TickClearCache, TickReadCache, TickSelectDue, TickSetCache, TickStep
<1>2. (\A t \in Tasks : job'[t] = Resting) /\ TickSound
  BY <1>1, TickAlone
<1>3. NoOverlap' /\ AtMostOneActive' /\ ActiveRows' = ActiveRows
  BY <1>1, BookingsStayApart DEF SoundBefore, SerialSound, Booked, AtMostOneActive, ActiveRows
<1>4. tick \in TickRecord
  BY DEF SoundBefore, ResInv, TypeOK, TickRecord
<1>5. CASE TickClearCache
  <2>1. tick'.at = "readCache" /\ cache' = NoRes
    BY <1>4, <1>5 DEF TickClearCache, TickStep, TickRecord
  <2>2. ActiveRows' = {}
    BY <1>2, <1>3, <1>5 DEF TickSound, TickClearCache, TickStep
  <2>3. Agrees'
    BY <2>1, <2>2 DEF Agrees, Held
  <2>4. TickSound'
    BY <2>1, <2>3 DEF TickSound
  <2> QED
    BY <1>2, <1>3, <2>3, <2>4, TickAtWork
<1>6. CASE TickReadCache
  <2>1. /\ tick'.at = IF cache = NoRes THEN "selectDue" ELSE "cancelStale"
        /\ UNCHANGED cache
    BY <1>4, <1>6 DEF TickReadCache, TickStep, TickRecord
  <2>2. Agrees'
    BY <1>2, <1>3, <1>6, <2>1 DEF TickSound, TickReadCache, TickStep, Agrees, Held
  <2>3. TickSound'
    BY <2>1, <2>2 DEF TickSound
  <2> QED
    BY <1>2, <1>3, <2>2, <2>3, TickAtWork
<1>7. CASE TickSelectDue
  <2>1. UNCHANGED cache /\ cache = NoRes /\ Agrees'
    BY <1>2, <1>3, <1>7 DEF TickSound, TickSelectDue, Agrees, Held
  <2>2. \/ tick' = [at |-> "cancelStale", res |-> NoRes]
        \/ \E r \in Due : tick' = [at |-> "activate", res |-> r]
    BY <1>7 DEF TickSelectDue
  <2>3. TickSound'
    BY <1>1, <2>1, <2>2 DEF TickSound, Due
  <2> QED
    BY <1>2, <1>3, <2>1, <2>3, TickAtWork
<1>8. CASE TickSetCache
  <2>1. tick'.at = "cancelStale" /\ cache' = tick.res /\ ActiveRows' = {tick.res}
    BY <1>2, <1>3, <1>8 DEF TickSetCache, TickSound
  <2>2. tick.res # NoRes
    BY <2>1, <1>3, ReservationAssumption DEF ActiveRows
  <2>3. Agrees'
    BY <2>1, <2>2 DEF Agrees, Held
  <2>4. TickSound'
    BY <2>1, <2>3 DEF TickSound
  <2> QED
    BY <1>2, <1>3, <2>3, <2>4, TickAtWork
<1> QED
  BY <1>5, <1>6, <1>7, <1>8

LEMMA TickActivateSound ==
    ASSUME SoundBefore, TickActivate
    PROVE  SerialSound'
<1> DEFINE r == tick.res
<1>1. /\ UNCHANGED <<cache, job, window>> /\ tick.at = "activate"
      /\ tick' = [tick EXCEPT !.at = "setCache"] /\ SetStatus(r, "active")
  BY NoFault DEF TickActivate, TickStep
<1>2. (\A t \in Tasks : job'[t] = Resting) /\ TickSound
  BY <1>1, TickAlone
<1>3. tick'.at = "setCache" /\ tick'.res = r
  BY <1>1 DEF SoundBefore, ResInv, TypeOK
<1>4. status[r] = "approved" /\ cache = NoRes /\ ActiveRows = {}
  BY <1>1, <1>2 DEF TickSound, Agrees, Held
<1>5. r \in Res
  BY <1>1 DEF SoundBefore, ResInv, ApprovedFirst, Selected, TypeOK
<1>6. status'[r] = "active" /\ \A q \in Res \ {r} : status'[q] = status[q]
  BY <1>1, <1>4, <1>5 DEF SetStatus, Exists, SoundBefore, ResInv, TypeOK
<1> HIDE DEF r
<1>7. ActiveRows' = {r} /\ Booked' \subseteq Booked
  BY <1>4, <1>5, <1>6 DEF ActiveRows, Booked
<1>8. NoOverlap' /\ AtMostOneActive'
  BY <1>1, <1>7, BookingsStayApart DEF SoundBefore, SerialSound, AtMostOneActive
<1>9. TickSound' /\ tick' # Asleep
  BY <1>1, <1>3, <1>4, <1>7, RestingType DEF TickSound
<1> QED
  BY <1>2, <1>8, <1>9, TickAtWork

LEMMA TickCancelStaleSound ==
    ASSUME SoundBefore, TickCancelStale
    PROVE  SerialSound'
<1>1. UNCHANGED <<cache, job, window>> /\ tick.at = "cancelStale" /\ tick' = Asleep
  BY DEF TickCancelStale
<1>2. (\A t \in Tasks : job'[t] = Resting) /\ TickSound
  BY <1>1, TickAlone
<1>3. \A r \in Res : status'[r] = status[r] \/ (status[r] = "pending" /\ status'[r] = "cancelled")
  BY DEF TickCancelStale
<1>4. ActiveRows' = ActiveRows /\ Booked' \subseteq Booked
  BY <1>3 DEF ActiveRows, Booked
<1>5. NoOverlap' /\ AtMostOneActive' /\ Agrees'
  BY <1>1, <1>2, <1>4, BookingsStayApart
     DEF SoundBefore, SerialSound, AtMostOneActive, TickSound, Agrees, Held
<1>6. TickSound'
  BY <1>1, RestingType DEF TickSound
<1> QED
  BY <1>2, <1>5, <1>6, TickAtWork

\* Startup reads back the one active row, which need not be the one last cached.
LEMMA RestartSound ==
    ASSUME SoundBefore, Restart
    PROVE  SerialSound'
<1>1. /\ UNCHANGED <<status, window>> /\ tick' = Asleep
      /\ job' = [t \in Tasks |-> Resting]
      /\ \/ cache' \in ActiveRows
         \/ ActiveRows = {} /\ cache' = NoRes
  BY NoFault DEF Restart, ActiveRows
<1>2. NoOverlap' /\ AtMostOneActive' /\ ActiveRows' = ActiveRows
  BY <1>1, BookingsStayApart DEF SoundBefore, SerialSound, Booked, AtMostOneActive, ActiveRows
<1>3. NoRes \notin ActiveRows
  BY ReservationAssumption DEF ActiveRows
<1>4. Agrees'
  BY <1>1, <1>2, <1>3 DEF Agrees, Held, AtMostOneActive
<1>5. TickSound'
  BY <1>1, RestingType DEF TickSound
<1> QED
  BY <1>1, <1>2, <1>4, <1>5, TickAtWork

LEMMA ClockSound ==
    ASSUME SoundBefore, UNCHANGED <<status, cache, job, tick, window>>
    PROVE  SerialSound'
<1>1. NoOverlap' /\ AtMostOneActive' /\ ActiveRows' = ActiveRows /\ Booked' = Booked
      /\ Agrees' = Agrees
  BY BookingsStayApart
     DEF SoundBefore, SerialSound, Booked, AtMostOneActive, ActiveRows, Agrees, Held
<1>2. OneAtWork' /\ TickSound' /\ (Quiet => Agrees)'
  BY <1>1 DEF SoundBefore, SerialSound, OneAtWork, TickSound, Quiet
<1>3. ASSUME NEW t \in Tasks PROVE JobSound(t)'
  <2>1. JobSound(t)
    BY DEF SoundBefore, SerialSound
  <2> QED
    BY <1>1, <2>1 DEF JobSound, Overlaps
<1> QED
  BY <1>1, <1>2, <1>3 DEF SerialSound

LEMMA SerialStep ==
    ASSUME SoundBefore, [Next]_vars
    PROVE  SerialSound'
<1>1. CASE UNCHANGED vars \/ Clock
  BY <1>1, ClockSound DEF vars, Clock
<1>2. CASE \E t \in Tasks : Request(t) \/ Continue(t) \/ Abandon(t)
  <2>1. PICK t \in Tasks : Request(t) \/ Continue(t) \/ Abandon(t)
    BY <1>2
  <2>2. CASE Request(t)
    BY <2>2, RequestSound, DeactivateSound DEF Request
  <2>3. CASE Continue(t)
    BY <2>3, LookSound, WriteSound, CacheSound DEF Continue
  <2>4. CASE Abandon(t)
    BY <2>4, AbandonIsAFault
  <2> QED
    BY <2>1, <2>2, <2>3, <2>4
<1>3. CASE \E r \in Res : Cancel(r) \/ Reject(r)
  BY <1>3, RefuseSound
<1>4. CASE Tick
  BY <1>4, TickCompleteSound, TickLookSound, TickActivateSound, TickCancelStaleSound DEF Tick
<1>5. CASE Restart
  BY <1>5, RestartSound
<1> QED
  BY <1>1, <1>2, <1>3, <1>4, <1>5 DEF Next

\* A behaviour that is undisturbed now has been undisturbed all along.
LEMMA UndisturbedBefore ==
    ASSUME ResInv, [Next]_vars, Undisturbed'
    PROVE  Undisturbed
<1>1. serial' = serial
  BY DEF Next, Request, Create, Approve, ForceActivate, ForceDeactivate, Delete, Continue, Insert,
         CheckOverlap, WriteApproved, SelectApproved, WriteActive, SetCache, ClearCache,
         WriteDeleted, Abandon, Cancel, Reject, Tick, TickComplete, TickClearCache, TickReadCache,
         TickSelectDue, TickActivate, TickSetCache, TickCancelStale, Restart, Clock, vars
<1>2. faults' = faults \/ faults' = faults + 1
  BY DEF Next, Request, Create, Approve, ForceActivate, ForceDeactivate, Delete, Continue, Insert,
         CheckOverlap, WriteApproved, SelectApproved, WriteActive, SetCache, ClearCache,
         WriteDeleted, Abandon, Cancel, Reject, Tick, TickComplete, TickClearCache, TickReadCache,
         TickSelectDue, TickActivate, TickSetCache, TickCancelStale, Restart, Clock, Outcome, vars
<1>3. faults \in Nat
  BY ReservationAssumption DEF ResInv, TypeOK
<1> QED
  BY <1>1, <1>2, <1>3 DEF Undisturbed

LEMMA SerialInit == Init => SerialInv
<1> SUFFICES ASSUME Init PROVE SerialSound
  BY DEF SerialInv
<1>1. /\ \A t \in Tasks : job[t] = Resting
      /\ tick = Asleep /\ cache = NoRes /\ \A r \in Res : status[r] = "none"
  BY DEF Init
<1>2. Booked = {} /\ ActiveRows = {}
  BY <1>1 DEF Booked, ActiveRows
<1>3. NoOverlap /\ AtMostOneActive /\ Agrees
  BY <1>1, <1>2 DEF NoOverlap, AtMostOneActive, Agrees, Held
<1>4. OneAtWork /\ TickSound /\ \A t \in Tasks : JobSound(t)
  BY <1>1, RestingType DEF OneAtWork, TickSound, JobSound
<1> QED
  BY <1>3, <1>4 DEF SerialSound

\* ResInv and SerialInv hold in every reachable state.
THEOREM SerialReservations == Spec => [](ResInv /\ SerialInv)
<1>1. Init => ResInv /\ SerialInv
  BY ResInit, SerialInit
<1>2. (ResInv /\ SerialInv) /\ [Next]_vars => (ResInv /\ SerialInv)'
  <2> SUFFICES ASSUME ResInv, SerialInv, [Next]_vars
               PROVE  ResInv' /\ SerialInv'
    OBVIOUS
  <2>1. ResInv'
    BY ResStep
  <2>2. ASSUME Undisturbed' PROVE SerialSound'
    <3>1. Undisturbed
      BY <2>2, UndisturbedBefore
    <3>2. SoundBefore
      BY <2>2, <3>1 DEF Undisturbed, SerialInv, SoundBefore
    <3> QED
      BY <3>2, SerialStep
  <2> QED
    BY <2>1, <2>2 DEF SerialInv
<1> QED
  BY <1>1, <1>2, PTL DEF Spec

\* One request or tick at a time and no failed statement: two bookings never overlap
\* (the overlap checks of create and approve, and every later change of a status).
THEOREM SerialBookingsApart == Spec => []SerialNoOverlap
<1>1. SerialInv => SerialNoOverlap
  BY DEF SerialInv, SerialSound, SerialNoOverlap
<1> QED
  BY <1>1, SerialReservations, PTL

\* Under the same conditions, whenever nothing is under way, the cache names the one
\* active reservation of the table or none (force_activate, force_deactivate, delete,
\* the tick and the recovery at startup).
THEOREM SerialCacheRight == Spec => []SerialCacheAgrees
<1>1. SerialInv => SerialCacheAgrees
  BY DEF SerialInv, SerialSound, SerialCacheAgrees, Agrees, ActiveRows, Held
<1> QED
  BY <1>1, SerialReservations, PTL

-----------------------------------------------------------------------------
(* The state machine of a reservation.                                     *)

LEMMA RequestFollows ==
    ASSUME ResInv, SerialSound, serial, NEW t \in Tasks, Request(t), NEW q \in Res
    PROVE  FollowsStateMachine(q)
<1>1. PICK r \in Res : \/ Create(t, r) \/ Approve(t, r) \/ ForceActivate(t, r)
                       \/ ForceDeactivate(t, r) \/ Delete(t, r)
  BY DEF Request
<1>2. CASE ForceDeactivate(t, r)
  BY <1>2 DEF ForceDeactivate, SetStatus, Exists, ResInv, TypeOK, FollowsStateMachine, Edges
<1>3. CASE Create(t, r) \/ Approve(t, r) \/ ForceActivate(t, r) \/ Delete(t, r)
  BY <1>3 DEF Create, Approve, ForceActivate, Delete, FollowsStateMachine
<1> QED
  BY <1>1, <1>2, <1>3

\* A write by id finds the row as the handler last saw it.
LEMMA ContinueFollows ==
    ASSUME ResInv, SerialSound, NEW t \in Tasks, Continue(t), NEW q \in Res
    PROVE  FollowsStateMachine(q)
<1> DEFINE r == job[t].res
<1>1. JobSound(t) /\ status \in [Res -> Statuses] /\ (job[t].at # "idle" => r \in Res)
  BY DEF SerialSound, ResInv, TypeOK, JobsNameRes
<1>2. CASE Insert(t)
  BY <1>1, <1>2 DEF Insert, Step, JobSound, FollowsStateMachine, Edges
<1>3. CASE WriteApproved(t)
  BY <1>1, <1>3 DEF WriteApproved, SetStatus, Step, JobSound, FollowsStateMachine, Edges
<1>4. CASE WriteActive(t)
  <2>1. job[t].at = "activate" /\ (SetStatus(r, "active") \/ UNCHANGED status)
    BY <1>4 DEF WriteActive, Step
  <2> QED
    BY <1>1, <2>1 DEF SetStatus, JobSound, FollowsStateMachine, Edges
<1>5. CASE WriteDeleted(t)
  <2>1. job[t].at = "delete" /\ SetStatus(r, "deleted")
    BY <1>5 DEF WriteDeleted, Step
  <2>2. status[r] \in Statuses \ {"none", "active"}
    BY <1>1, <2>1 DEF JobSound, Statuses
  <2> QED
    BY <1>1, <2>1, <2>2 DEF SetStatus, Exists, FollowsStateMachine, Edges
<1>6. CASE CheckOverlap(t) \/ SelectApproved(t) \/ SetCache(t) \/ ClearCache(t)
  BY <1>6 DEF CheckOverlap, SelectApproved, SetCache, ClearCache, FollowsStateMachine
<1> QED
  BY <1>2, <1>3, <1>4, <1>5, <1>6 DEF Continue

LEMMA TickFollows ==
    ASSUME ResInv, SerialSound, Tick, NEW q \in Res
    PROVE  FollowsStateMachine(q)
<1>1. CASE TickComplete
  <2>1. status'[q] = status[q] \/ (status[q] = "active" /\ status'[q] = "completed")
    BY <1>1 DEF TickComplete
  <2> QED
    BY <2>1 DEF FollowsStateMachine, Edges
<1>2. CASE TickActivate
  <2>1. /\ tick.at = "activate" /\ (SetStatus(tick.res, "active") \/ UNCHANGED status)
        /\ status[tick.res] = "approved"
    BY <1>2 DEF TickActivate, TickStep, SerialSound, TickSound
  <2> QED
    BY <2>1 DEF SetStatus, ResInv, TypeOK, FollowsStateMachine, Edges
<1>3. CASE TickCancelStale
  <2>1. status'[q] = status[q] \/ (status[q] = "pending" /\ status'[q] = "cancelled")
    BY <1>3 DEF TickCancelStale
  <2> QED
    BY <2>1 DEF FollowsStateMachine, Edges
<1>4. CASE TickClearCache \/ TickReadCache \/ TickSelectDue \/ TickSetCache
  BY <1>4 DEF TickClearCache, TickReadCache, TickSelectDue, TickSetCache, FollowsStateMachine
<1> QED
  BY <1>1, <1>2, <1>3, <1>4 DEF Tick

\* Under the same conditions every change of a status is an edge of the state machine;
\* in particular no UPDATE by id revives a cancelled or rejected reservation.
THEOREM SerialFollowsStateMachine == Spec => SerialStateMachine
<1>1. SerialInv /\ ResInv /\ [Next]_vars =>
         [Undisturbed => \A r \in Res : FollowsStateMachine(r)]_status
  <2> SUFFICES ASSUME SerialInv, ResInv, Next, Undisturbed, NEW r \in Res
               PROVE  FollowsStateMachine(r)
    BY DEF vars
  <2>1. SerialSound /\ serial
    BY DEF SerialInv, Undisturbed
  <2>2. CASE \E t \in Tasks : Request(t) \/ Continue(t) \/ Abandon(t)
    BY <2>1, <2>2, RequestFollows, ContinueFollows DEF Abandon, FollowsStateMachine
  <2>3. CASE \E q \in Res : Cancel(q) \/ Reject(q)
    BY <2>3 DEF Cancel, Reject, SetStatus, ResInv, TypeOK, FollowsStateMachine, Edges
  <2>4. CASE Tick
    BY <2>1, <2>4, TickFollows
  <2>5. CASE Restart \/ Clock
    BY <2>5 DEF Restart, Clock, FollowsStateMachine
  <2> QED
    BY <2>2, <2>3, <2>4, <2>5 DEF Next
<1> QED
  BY <1>1, SerialReservations, PTL DEF Spec, SerialStateMachine

-----------------------------------------------------------------------------
(* The book.                                                               *)

LEMMA PagesDiffer ==
    ASSUME NEW s \in Statuses
    PROVE  /\ Page(s) = "absent" <=> s = "none"
           /\ Page(s) = "asked" <=> s = "pending"
           /\ Page(s) = "granted" <=> s = "approved"
           /\ Page(s) = "in force" <=> s = "active"
           /\ Page(s) = "over" <=> s \in {"completed", "rejected", "cancelled", "deleted"}
  BY DEF Page, Statuses

LEMMA BookReads ==
    ASSUME TypeOK
    PROVE  /\ B!InForce = ActiveRows
           /\ B!Taken = Booked
           /\ \A r \in Res : Pages[r] = Page(status[r])
<1>1. \A r \in Res : status[r] \in Statuses /\ Pages[r] = Page(status[r])
  BY DEF TypeOK, Pages
<1>2. ASSUME NEW r \in Res
      PROVE  /\ Pages[r] = "in force" <=> status[r] = "active"
             /\ Pages[r] = "granted" <=> status[r] = "approved"
  <2>1. Pages[r] = Page(status[r]) /\ status[r] \in Statuses
    BY <1>1
  <2>2. /\ Page(status[r]) = "in force" <=> status[r] = "active"
        /\ Page(status[r]) = "granted" <=> status[r] = "approved"
    BY ONLY <2>1, PagesDiffer
  <2> QED
    BY ONLY <2>1, <2>2
<1>3. \A r \in Res : r \in B!InForce <=> r \in ActiveRows
  BY <1>2, Zenon DEF B!InForce, ActiveRows
<1>4. \A r \in Res : r \in B!Taken <=> Pages[r] = "granted" \/ Pages[r] = "in force"
  BY Zenon DEF B!Taken
<1>5. \A r \in Res : r \in Booked <=> status[r] = "approved" \/ status[r] = "active"
  BY Zenon DEF Booked
<1>6. /\ B!InForce \subseteq Res /\ ActiveRows \subseteq Res
      /\ B!Taken \subseteq Res /\ Booked \subseteq Res
  BY Zenon DEF B!InForce, ActiveRows, B!Taken, Booked
<1>7. B!InForce = ActiveRows
  BY <1>3, <1>6, Zenon
<1>8. B!Taken = Booked
  <2>1. \A r \in Res : r \in B!Taken <=> r \in Booked
    BY <1>2, <1>4, <1>5, Zenon
  <2> QED
    BY <1>6, <2>1, Zenon
<1> QED
  BY <1>1, <1>7, <1>8, Zenon

\* A statement that writes one row turns one page.
LEMMA PageTurned ==
    ASSUME TypeOK, status' \in [Res -> Statuses], NEW r \in Res,
           \A q \in Res \ {r} : status'[q] = status[q]
    PROVE  B!Enter(r, Page(status[r]), Page(status'[r]))
<1>1. Pages[r] = Page(status[r])
  BY DEF Pages
<1>2. Pages' = [q \in Res |-> Page(status'[q])]
  BY DEF Pages
<1>3. \A q \in Res : Pages'[q] = IF q = r THEN Page(status'[r]) ELSE Pages[q]
  BY <1>2 DEF Pages
<1>4. Pages' = [Pages EXCEPT ![r] = Page(status'[r])]
  BY <1>2, <1>3 DEF Pages
<1> QED
  BY <1>1, <1>4 DEF B!Enter

\* What is asked for or granted may leave the book; several rows together.
LEMMA PagesWithdrawn ==
    ASSUME TypeOK, status' \in [Res -> Statuses], UNCHANGED <<cache, window>>, NEW S \in SUBSET Res,
           \A r \in S : /\ status[r] \in {"pending", "approved"}
                        /\ status'[r] \in {"completed", "rejected", "cancelled", "deleted"},
           \A r \in Res \ S : status'[r] = status[r]
    PROVE  B!Proper
<1>1. \A r \in Res : Pages[r] = Page(status[r]) /\ status[r] \in Statuses
  BY BookReads DEF TypeOK
<1>2. ASSUME NEW r \in S PROVE Pages[r] \in {"asked", "granted"}
  <2>1. /\ Pages[r] = Page(status[r]) /\ status[r] \in Statuses
        /\ status[r] = "pending" \/ status[r] = "approved"
    BY <1>1
  <2> QED
    BY <2>1, PagesDiffer, Zenon
<1>3. Pages' = [r \in Res |-> Page(status'[r])]
  BY DEF Pages
<1>4. \A r \in S : Page(status'[r]) = "over"
  BY PagesDiffer
<1>5. Pages' = [r \in Res |-> IF r \in S THEN "over" ELSE Pages[r]]
  BY <1>1, <1>3, <1>4
<1>6. B!Withdraw(S)
  BY <1>2, <1>5 DEF B!Withdraw
<1> QED
  BY <1>6 DEF B!Proper

\* A step of the book, or none.
Turn == B!Proper \/ UNCHANGED <<Pages, cache, window>>

LEMMA NoPageTurned ==
    ASSUME UNCHANGED <<status, cache, window>>
    PROVE  Turn
  BY DEF Turn, Pages

LEMMA RequestTurns ==
    ASSUME SoundBefore, TypeOK', NEW t \in Tasks, Request(t)
    PROVE  Turn
<1>1. PICK r \in Res : \/ Create(t, r) \/ Approve(t, r) \/ ForceActivate(t, r)
                       \/ ForceDeactivate(t, r) \/ Delete(t, r)
  BY DEF Request
<1>2. CASE ForceDeactivate(t, r)
  <2>1. TypeOK /\ Quiet /\ Agrees
    BY <1>2 DEF SoundBefore, SerialSound, ResInv, ForceDeactivate, Begin, MayBegin
  <2>2. /\ status[r] = "active" /\ SetStatus(r, "completed") /\ Exists(r)
        /\ UNCHANGED <<cache, window>>
    BY <1>2 DEF ForceDeactivate, Exists
  <2>3. cache = r
    BY <2>1, <2>2 DEF Agrees, ActiveRows, Held
  <2>4. status'[r] = "completed" /\ \A q \in Res \ {r} : status'[q] = status[q]
    BY <2>1, <2>2 DEF SetStatus, TypeOK
  <2>5. B!Enter(r, Page("active"), Page("completed"))
    BY <2>1, <2>2, <2>4, PageTurned DEF TypeOK
  <2>6. B!End(r)
    BY <2>2, <2>3, <2>5 DEF Page, B!End
  <2> QED
    BY <2>6 DEF B!Proper, Turn
<1>3. CASE Create(t, r) \/ Approve(t, r) \/ ForceActivate(t, r) \/ Delete(t, r)
  BY <1>3, NoPageTurned DEF Create, Approve, ForceActivate, Delete
<1> QED
  BY <1>1, <1>2, <1>3

\* A handler's write by id turns the page it means to: the row is as it was read.
LEMMA WriteTurns ==
    ASSUME SoundBefore, TypeOK', NEW t \in Tasks,
           Insert(t) \/ WriteApproved(t) \/ WriteActive(t) \/ WriteDeleted(t)
    PROVE  Turn
<1> DEFINE r == job[t].res
<1>1. /\ TypeOK /\ status' \in [Res -> Statuses] /\ JobSound(t)
      /\ job[t].at # "idle" => r \in Res
  BY DEF SoundBefore, ResInv, SerialSound, JobsNameRes, TypeOK
<1>2. UNCHANGED <<cache, window>>
  BY DEF Insert, WriteApproved, WriteActive, WriteDeleted
<1>3. CASE Insert(t)
  <2>1. /\ r \in Res /\ status[r] = "none" /\ status'[r] = "pending"
        /\ \A q \in Res \ {r} : status'[q] = status[q]
    BY <1>1, <1>3 DEF Insert, Step, JobSound, TypeOK
  <2>2. B!Enter(r, "absent", "asked")
    BY <1>1, <2>1, PageTurned DEF Page
  <2> QED
    BY <1>2, <2>1, <2>2 DEF B!Ask, B!Proper, Turn
<1>4. CASE WriteApproved(t)
  <2>1. /\ r \in Res /\ status[r] = "pending" /\ \A q \in Booked \ {r} : ~Overlaps(r, q)
        /\ SetStatus(r, "approved")
    BY <1>1, <1>4 DEF WriteApproved, Step, JobSound
  <2>2. status'[r] = "approved" /\ \A q \in Res \ {r} : status'[q] = status[q]
    BY <1>1, <2>1 DEF SetStatus, Exists, TypeOK
  <2>3. B!Enter(r, "asked", "granted")
    BY <1>1, <2>1, <2>2, PageTurned DEF Page
  <2>4. \A q \in B!Taken : ~B!Clash(r, q)
    BY <1>1, <2>1, BookReads DEF Booked, Overlaps, B!Clash
  <2> QED
    BY <1>2, <2>1, <2>3, <2>4 DEF B!Grant, B!Proper, Turn
<1>5. CASE WriteActive(t)
  <2>1. job[t].at = "activate" /\ SetStatus(r, "active")
    BY <1>5, NoFault DEF WriteActive, Step
  <2>2. r \in Res /\ status[r] = "approved" /\ cache = NoRes /\ ActiveRows = {}
    BY <1>1, <2>1 DEF JobSound, Agrees, Held
  <2>3. status'[r] = "active" /\ \A q \in Res \ {r} : status'[q] = status[q]
    BY <1>1, <2>1, <2>2 DEF SetStatus, Exists, TypeOK
  <2>4. B!Enter(r, "granted", "in force")
    BY <1>1, <2>2, <2>3, PageTurned DEF Page
  <2>5. B!InForce = {}
    BY <1>1, <2>2, BookReads
  <2> QED
    BY <1>2, <2>2, <2>4, <2>5 DEF B!Enforce, B!Proper, Turn
<1>6. CASE WriteDeleted(t)
  <2>1. job[t].at = "delete" /\ SetStatus(r, "deleted")
    BY <1>6 DEF WriteDeleted, Step
  <2>2. r \in Res /\ status[r] \in Statuses \ {"none", "active"}
    BY <1>1, <2>1 DEF JobSound, TypeOK
  <2>3. \A q \in Res \ {r} : status'[q] = status[q]
    BY <1>1, <2>1 DEF SetStatus, TypeOK
  <2>4. status'[r] = status[r] \/ status'[r] = "deleted"
    BY <1>1, <2>1, <2>2 DEF SetStatus, TypeOK
  <2>5. CASE status[r] \in {"pending", "approved"}
    <3>1. status'[r] = "deleted"
      BY <1>1, <2>1, <2>2, <2>5 DEF SetStatus, Exists, TypeOK
    <3>2. {r} \in SUBSET Res /\ \A q \in {r} : status'[q] = "deleted" /\ status[q] = status[r]
      BY <2>2, <3>1
    <3>3. B!Proper
      BY <1>1, <1>2, <2>3, <2>5, <3>2, PagesWithdrawn
    <3> QED
      BY <3>3 DEF Turn
  <2>6. CASE status[r] \notin {"pending", "approved"}
    <3>1. Page(status[r]) = "over" /\ Page(status'[r]) = "over"
      BY <2>2, <2>4, <2>6, PagesDiffer DEF Statuses
    <3>2. \A q \in Res : Page(status'[q]) = Page(status[q])
      BY <2>3, <3>1
    <3> QED
      BY <1>2, <3>2 DEF Pages, Turn
  <2> QED
    BY <2>5, <2>6
<1> QED
  BY <1>3, <1>4, <1>5, <1>6

\* The cache follows the book: it is set for what has come into force, emptied of
\* what has ended.
LEMMA CacheTurns ==
    ASSUME SoundBefore, NEW t \in Tasks, SetCache(t) \/ ClearCache(t)
    PROVE  Turn
<1>1. TypeOK /\ JobSound(t) /\ UNCHANGED <<status, window>>
  BY DEF SoundBefore, ResInv, SerialSound, SetCache, ClearCache
<1>2. Pages' = Pages
  BY <1>1 DEF Pages
<1>3. CASE SetCache(t)
  <2>1. cache = NoRes /\ ActiveRows = {job[t].res} /\ cache' = job[t].res
    BY <1>1, <1>3 DEF SetCache, Step, JobSound
  <2>2. job[t].res \in B!InForce /\ job[t].res \in Res
    BY <1>1, <2>1, BookReads DEF ActiveRows
  <2> QED
    BY <1>1, <1>2, <2>1, <2>2 DEF B!Hold, B!Proper, Turn
<1>4. CASE ClearCache(t)
  <2>1. ActiveRows = {} /\ cache' = NoRes
    BY <1>1, <1>4 DEF ClearCache, Step, JobSound
  <2>2. B!InForce = {}
    BY <1>1, <2>1, BookReads
  <2> QED
    BY <1>1, <1>2, <2>1, <2>2 DEF B!LetGo, B!Proper, Turn
<1> QED
  BY <1>3, <1>4

LEMMA RefuseTurns ==
    ASSUME SoundBefore, TypeOK', NEW r \in Res, Cancel(r) \/ Reject(r)
    PROVE  Turn
<1>1. /\ TypeOK /\ status' \in [Res -> Statuses] /\ UNCHANGED <<cache, window>>
      /\ status[r] \in {"pending", "approved"}
  BY DEF SoundBefore, ResInv, TypeOK, Cancel, Reject
<1>2. /\ status'[r] \in {"cancelled", "rejected"}
      /\ \A q \in Res \ {r} : status'[q] = status[q]
  BY <1>1 DEF Cancel, Reject, SetStatus, Exists, TypeOK
<1>3. /\ {r} \in SUBSET Res
      /\ \A q \in {r} : /\ status[q] \in {"pending", "approved"}
                        /\ status'[q] \in {"completed", "rejected", "cancelled", "deleted"}
  BY <1>1, <1>2
<1>4. B!Proper
  BY <1>1, <1>2, <1>3, PagesWithdrawn
<1> QED
  BY <1>4 DEF Turn

-----------------------------------------------------------------------------
\* In a quiet state at most one row is active, and it is the cached one: so the tick
\* completes that one or none.
LEMMA TickCompleteTurns ==
    ASSUME SoundBefore, TypeOK', TickComplete
    PROVE  Turn
<1> DEFINE ended == {r \in Res : status[r] = "active" /\ window[r].to <= now}
<1>1. /\ TypeOK /\ status' \in [Res -> Statuses] /\ UNCHANGED <<cache, window>> /\ Agrees
      /\ AtMostOneActive
  BY DEF TickComplete, MayBegin, SoundBefore, SerialSound, ResInv, TypeOK
<1>2. status' = [r \in Res |-> IF r \in ended THEN "completed" ELSE status[r]]
  BY NoFault DEF TickComplete
<1>3. ended \subseteq ActiveRows /\ ended \subseteq Res
  BY DEF ActiveRows
<1> HIDE DEF ended
<1>4. CASE ended = {}
  BY <1>1, <1>2, <1>4, NoPageTurned DEF TypeOK
<1>5. ASSUME NEW r \in ended
      PROVE  Turn
  <2>1. r \in Res /\ status[r] = "active" /\ cache = r
    BY <1>1, <1>3 DEF ActiveRows, Agrees, Held
  <2>2. ended = {r}
    BY <1>1, <1>3 DEF AtMostOneActive
  <2>3. status'[r] = "completed" /\ \A q \in Res \ {r} : status'[q] = status[q]
    BY <1>2, <2>1, <2>2
  <2>4. B!Enter(r, "in force", "over")
    BY <1>1, <2>1, <2>3, PageTurned DEF Page
  <2>5. B!End(r)
    BY <1>1, <2>1, <2>4 DEF B!End
  <2> QED
    BY <2>1, <2>5 DEF B!Proper, Turn
<1> QED
  BY <1>4, <1>5

LEMMA TickLookTurns ==
    ASSUME SoundBefore, TickClearCache \/ TickReadCache \/ TickSelectDue \/ TickSetCache
    PROVE  Turn
<1>1. TypeOK /\ TickSound /\ UNCHANGED <<status, window>>
  BY DEF SoundBefore, SerialSound, ResInv, TickClearCache, TickReadCache, TickSelectDue, TickSetCache
<1>2. Pages' = Pages
  BY <1>1 DEF Pages
<1>3. CASE TickClearCache
  <2>1. ActiveRows = {} /\ cache' = NoRes
    BY <1>1, <1>3 DEF TickClearCache, TickStep, TickSound
  <2>2. B!InForce = {}
    BY <1>1, <2>1, BookReads
  <2> QED
    BY <1>1, <1>2, <2>1, <2>2 DEF B!LetGo, B!Proper, Turn
<1>4. CASE TickSetCache
  <2>1. cache = NoRes /\ ActiveRows = {tick.res} /\ cache' = tick.res
    BY <1>1, <1>4 DEF TickSetCache, TickSound
  <2>2. tick.res \in B!InForce /\ tick.res \in Res
    BY <1>1, <2>1, BookReads DEF ActiveRows
  <2> QED
    BY <1>1, <1>2, <2>1, <2>2 DEF B!Hold, B!Proper, Turn
<1>5. CASE TickReadCache \/ TickSelectDue
  BY <1>5, NoPageTurned DEF TickReadCache, TickSelectDue
<1> QED
  BY <1>3, <1>4, <1>5

LEMMA TickActivateTurns ==
    ASSUME SoundBefore, TypeOK', TickActivate
    PROVE  Turn
<1> DEFINE r == tick.res
<1>1. /\ TypeOK /\ status' \in [Res -> Statuses] /\ TickSound /\ UNCHANGED <<cache, window>>
      /\ tick.at = "activate" /\ SetStatus(r, "active")
  BY NoFault DEF SoundBefore, SerialSound, ResInv, TypeOK, TickActivate, TickStep
<1>2. r \in Res
  BY <1>1 DEF SoundBefore, ResInv, ApprovedFirst, Selected, TypeOK
<1>3. status[r] = "approved" /\ cache = NoRes /\ ActiveRows = {}
  BY <1>1 DEF TickSound, Agrees, Held
<1>4. status'[r] = "active" /\ \A q \in Res \ {r} : status'[q] = status[q]
  BY <1>1, <1>2, <1>3 DEF SetStatus, Exists, TypeOK
<1>5. B!Enter(r, "granted", "in force")
  BY <1>1, <1>2, <1>3, <1>4, PageTurned DEF Page
<1>6. B!InForce = {}
  BY <1>1, <1>3, BookReads
<1> QED
  BY <1>1, <1>2, <1>3, <1>5, <1>6 DEF B!Enforce, B!Proper, Turn

LEMMA TickCancelStaleTurns ==
    ASSUME SoundBefore, TypeOK', TickCancelStale
    PROVE  Turn
<1> DEFINE stale == {r \in Res : status[r] = "pending" /\ window[r].from <= tickNow}
<1>1. TypeOK /\ status' \in [Res -> Statuses] /\ UNCHANGED <<cache, window>>
  BY DEF SoundBefore, ResInv, TypeOK, TickCancelStale
<1>2. \A r \in Res : status'[r] = IF r \in stale THEN "cancelled" ELSE status[r]
  BY NoFault DEF TickCancelStale
<1>3. stale \in SUBSET Res /\ \A r \in stale : status[r] = "pending"
  OBVIOUS
<1> HIDE DEF stale
<1>4. /\ \A r \in stale : /\ status[r] \in {"pending", "approved"}
                          /\ status'[r] \in {"completed", "rejected", "cancelled", "deleted"}
      /\ \A r \in Res \ stale : status'[r] = status[r]
  BY <1>2, <1>3
<1>5. B!Proper
  BY <1>1, <1>3, <1>4, PagesWithdrawn
<1> QED
  BY <1>5 DEF Turn

\* Who is not at work has nothing in hand.
AtRest ==
    /\ tick.at = "sleep" => tick = Asleep
    /\ \A t \in Tasks : job[t].at = "idle" => job[t] = Resting

LEMMA JobsAtRest ==
    ASSUME ResInv, AtRest, NEW t \in Tasks, Request(t) \/ Continue(t) \/ Abandon(t)
    PROVE  AtRest'
<1>1. job \in [Tasks -> JobRecord] /\ UNCHANGED tick
  BY DEF ResInv, TypeOK, JobRecord, Request, Create, Approve, ForceActivate, ForceDeactivate, Delete,
         Continue, Insert, CheckOverlap, WriteApproved, SelectApproved, WriteActive, SetCache,
         ClearCache, WriteDeleted, Abandon
<1>2. CASE Request(t)
  <2>1. PICK r \in Res, at \in {"insert", "checkOverlap", "selectApproved", "clearCache", "delete"} :
           Begin(t, r, at)
    BY <1>2 DEF Request, Create, Approve, ForceActivate, ForceDeactivate, Delete
  <2> QED
    BY <1>1, <2>1 DEF Begin, AtRest
<1>3. CASE Continue(t)
  <2>1. PICK from \in Steps \ {"idle"}, to \in Steps : Step(t, from, to)
    BY <1>3 DEF Continue, Insert, CheckOverlap, WriteApproved, SelectApproved, WriteActive,
                SetCache, ClearCache, WriteDeleted, Steps
  <2>2. job'[t].at = to /\ \A u \in Tasks \ {t} : job'[u] = job[u]
    BY <2>1, StepType
  <2>3. to = "idle" => job'[t] = Resting
    BY <1>1, <2>1 DEF Step
  <2> QED
    BY <1>1, <2>2, <2>3 DEF AtRest
<1>4. CASE Abandon(t)
  BY <1>1, <1>4 DEF Abandon, AtRest
<1> QED
  BY <1>2, <1>3, <1>4

LEMMA TickAtRest ==
    ASSUME ResInv, AtRest, Tick
    PROVE  AtRest'
<1>1. tick \in TickRecord /\ UNCHANGED job
  BY DEF ResInv, TypeOK, TickRecord, Tick, TickComplete, TickClearCache, TickReadCache,
         TickSelectDue, TickActivate, TickSetCache, TickCancelStale
<1>2. tick'.at # "sleep" \/ tick' = Asleep
  <2>1. CASE TickComplete \/ TickClearCache \/ TickReadCache \/ TickActivate
    <3>1. PICK to \in TickSteps \ {"sleep"} : tick' = [tick EXCEPT !.at = to]
      BY <2>1 DEF TickComplete, TickClearCache, TickReadCache, TickActivate, TickStep, TickSteps
    <3>2. tick'.at = to
      BY <1>1, <3>1 DEF TickRecord
    <3> QED
      BY <3>1, <3>2, Zenon
  <2>2. CASE TickSelectDue
    <3>1. \/ tick' = [at |-> "cancelStale", res |-> NoRes]
          \/ \E r \in Due : tick' = [at |-> "activate", res |-> r]
      BY <2>2 DEF TickSelectDue
    <3> QED
      BY <3>1
  <2>3. CASE TickSetCache \/ TickCancelStale
    <3>1. tick' = [at |-> "cancelStale", res |-> NoRes] \/ tick' = Asleep
      BY <2>3 DEF TickSetCache, TickCancelStale
    <3> QED
      BY <3>1
  <2> QED
    BY <2>1, <2>2, <2>3 DEF Tick
<1> QED
  BY <1>1, <1>2 DEF AtRest

LEMMA AtRestNext == ResInv /\ AtRest /\ [Next]_vars => AtRest'
<1> SUFFICES ASSUME ResInv, AtRest, [Next]_vars PROVE AtRest'
  OBVIOUS
<1>1. CASE UNCHANGED vars \/ Clock \/ \E r \in Res : Cancel(r) \/ Reject(r)
  BY <1>1 DEF vars, Clock, Cancel, Reject, AtRest
<1>2. CASE Restart
  BY <1>2 DEF Restart, AtRest
<1> QED
  BY <1>1, <1>2, JobsAtRest, TickAtRest DEF Next

\* The cache names the one active row, or nothing, or nothing is active.
LEMMA CacheIsNear ==
    ASSUME ResInv, SerialSound, AtRest
    PROVE  ActiveRows = {} \/ cache = NoRes \/ Agrees
<1>1. CASE Quiet
  BY <1>1 DEF SerialSound
<1>2. CASE tick # Asleep
  <2>1. TickSound /\ tick.at \in TickSteps \ {"sleep"}
    BY <1>2 DEF SerialSound, ResInv, TypeOK, AtRest
  <2> QED
    BY <2>1 DEF TickSound, TickSteps
<1>3. ASSUME NEW t \in Tasks, job[t] # Resting
      PROVE  ActiveRows = {} \/ cache = NoRes \/ Agrees
  <2>1. JobSound(t) /\ job[t].at \in Steps \ {"idle"}
    BY <1>3 DEF SerialSound, ResInv, TypeOK, AtRest
  <2> QED
    BY <2>1 DEF JobSound, Steps
<1> QED
  BY <1>1, <1>2, <1>3 DEF Quiet

\* A restart in the middle of something takes up what is in force, or lets it go.
LEMMA RestartTurns ==
    ASSUME SoundBefore, AtRest, Restart
    PROVE  Turn
<1>1. /\ TypeOK /\ AtMostOneActive /\ UNCHANGED <<status, window>>
      /\ \/ cache' \in ActiveRows
         \/ ActiveRows = {} /\ cache' = NoRes
  BY NoFault DEF SoundBefore, SerialSound, ResInv, Restart, ActiveRows
<1>2. Pages' = Pages /\ B!InForce = ActiveRows
  BY <1>1, BookReads DEF Pages
<1>3. ActiveRows = {} \/ cache = NoRes \/ Agrees
  BY CacheIsNear DEF SoundBefore
<1>4. CASE cache' = cache
  BY <1>1, <1>2, <1>4 DEF Turn
<1>5. CASE cache' # cache /\ cache' \in ActiveRows
  <2>1. cache = NoRes
    BY <1>1, <1>3, <1>5 DEF Agrees, Held, AtMostOneActive
  <2>2. cache' \in Res
    BY <1>5 DEF ActiveRows
  <2>3. B!Hold(cache')
    BY <1>1, <1>2, <1>5, <2>1 DEF B!Hold
  <2> QED
    BY <2>2, <2>3 DEF B!Proper, Turn
<1>6. CASE cache' # cache /\ ActiveRows = {} /\ cache' = NoRes
  BY <1>1, <1>2, <1>6 DEF B!LetGo, B!Proper, Turn
<1> QED
  BY <1>1, <1>4, <1>5, <1>6

LEMMA StepTurns ==
    ASSUME SoundBefore, AtRest, TypeOK', [Next]_vars
    PROVE  Turn
<1>1. CASE UNCHANGED vars \/ Clock
  BY <1>1, NoPageTurned DEF vars, Clock
<1>2. ASSUME NEW t \in Tasks, Request(t) \/ Continue(t) \/ Abandon(t)
      PROVE  Turn
  <2>1. CASE Request(t)
    BY <2>1, RequestTurns
  <2>2. CASE CheckOverlap(t) \/ SelectApproved(t)
    BY <2>2, NoPageTurned DEF CheckOverlap, SelectApproved
  <2>3. CASE Insert(t) \/ WriteApproved(t) \/ WriteActive(t) \/ WriteDeleted(t)
    BY <2>3, WriteTurns
  <2>4. CASE SetCache(t) \/ ClearCache(t)
    BY <2>4, CacheTurns
  <2>5. CASE Abandon(t)
    BY <2>5, AbandonIsAFault
  <2> QED
    BY <1>2, <2>1, <2>2, <2>3, <2>4, <2>5 DEF Continue
<1>3. CASE \E r \in Res : Cancel(r) \/ Reject(r)
  BY <1>3, RefuseTurns
<1>4. CASE Tick
  BY <1>4, TickCompleteTurns, TickLookTurns, TickActivateTurns, TickCancelStaleTurns DEF Tick
<1>5. CASE Restart
  BY <1>5, RestartTurns
<1> QED
  BY <1>1, <1>2, <1>3, <1>4, <1>5 DEF Next

\* One request or tick at a time and no failed statement: the reservation system
\* implements the book.  Every statement of the handlers, the tick and the recovery
\* is one step of it or none, and what was undisturbed is never so again once it was
\* disturbed (create, approve, cancel, reject, delete, force_activate,
\* force_deactivate, tick_reservations).
THEOREM ReservationsImplementBooking == Spec => ImplementsBooking
<1>1. Init => B!BInit
  BY DEF Init, B!BInit, Pages, Page
<1>2. Init => AtRest
  BY DEF Init, AtRest
<1>3. ResInv /\ ResInv' /\ SerialInv /\ AtRest /\ [Next]_vars => [B!BNext]_(B!bvars)
  <2> SUFFICES ASSUME ResInv, ResInv', SerialInv, AtRest, [Next]_vars
               PROVE  B!BNext \/ UNCHANGED B!bvars
    BY Zenon
  <2>1. CASE ~Undisturbed'
    BY <2>1 DEF B!BNext
  <2>2. CASE Undisturbed'
    <3>1. Undisturbed
      BY <2>2, UndisturbedBefore
    <3>2. SoundBefore
      BY <2>2, <3>1 DEF Undisturbed, SerialInv, SoundBefore
    <3>3. B!Proper \/ UNCHANGED <<Pages, cache, window>>
      BY <3>2, StepTurns DEF Turn, ResInv
    <3>4. Undisturbed' = Undisturbed
      BY <2>2, <3>1 DEF Undisturbed
    <3> QED
      BY <3>1, <3>3, <3>4 DEF B!BNext, B!bvars
  <2> QED
    BY <2>1, <2>2
<1>4. ResInv /\ AtRest /\ [Next]_vars => AtRest'
  BY AtRestNext
<1> QED
  BY <1>1, <1>2, <1>3, <1>4, SerialReservations, PTL DEF Spec, ImplementsBooking, B!BSafety
=============================================================================
