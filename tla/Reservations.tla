----------------------------- MODULE Reservations -----------------------------
(***************************************************************************)
(* The reservation table, the in-memory cache of the active reservation,   *)
(* the background tick (scheduler/reservation.rs) and the user and admin   *)
(* handlers (api/reservation.rs).                                          *)
(*                                                                         *)
(* One SQL statement, or one access to the cache, is one action; a handler *)
(* that awaits several of them is several actions, with whatever it read   *)
(* kept in its job.  Requests that the handlers refuse at their first      *)
(* check change nothing and are left out.  Times are half-hour slots, and  *)
(* the window a client asks for is fixed with the reservation's id.        *)
(***************************************************************************)
EXTENDS Naturals, FiniteSets

CONSTANTS
    Res,          \* reservation ids (fresh UUIDs, never reused)
    Tasks,        \* requests the server handles at a time
    NoRes,        \* an empty cache, or no reservation found
    Windows,      \* the [from, to] windows clients ask for
    Modes,        \* whether requests come one at a time (TRUE), freely (FALSE)
    MaxTime,      \* bound: the clock stops there
    MaxFaults     \* bound: failing SQL statements and disconnecting clients

ASSUME ReservationAssumption ==
    /\ NoRes \notin Res
    /\ Modes \subseteq BOOLEAN
    /\ MaxTime \in Nat /\ MaxFaults \in Nat
    /\ Windows \subseteq {w \in [from : 1 .. MaxTime, to : 1 .. MaxTime] : w.from < w.to}

VARIABLES
    status,       \* the status column, "none" before INSERT, "deleted" after DELETE
    cache,        \* Scheduler.active_reservation
    now,          \* the clock
    job,          \* what each request handler is about to do, and to which row
    tick,         \* the same for the background tick
    tickNow,      \* the time the running tick read when it started, or 0
    faults,       \* statements that failed and handlers dropped so far
    window,       \* the start_time and end_time columns
    serial,       \* whether requests and ticks happen to come one at a time
    approvedOnce  \* auxiliary: the reservations an admin has approved

vars == <<status, cache, now, job, tick, tickNow, faults, window, serial, approvedOnce>>

Statuses == {"none", "pending", "approved", "active", "completed", "rejected",
             "cancelled", "deleted"}

Steps == {"idle", "insert", "checkOverlap", "approve", "selectApproved",
          "activate", "setCache", "clearCache", "delete"}

TickSteps == {"sleep", "clearCache", "readCache", "selectDue", "activate",
              "setCache", "cancelStale"}

TypeOK ==
    /\ status \in [Res -> Statuses]
    /\ cache \in Res \cup {NoRes}
    /\ now \in 0 .. MaxTime
    /\ job \in [Tasks -> [at : Steps, res : Res \cup {NoRes}]]
    /\ tick \in [at : TickSteps, res : Res \cup {NoRes}]
    /\ tickNow \in 0 .. MaxTime
    /\ faults \in 0 .. MaxFaults
    /\ window \in [Res -> Windows]
    /\ serial \in BOOLEAN
    /\ approvedOnce \subseteq Res

-----------------------------------------------------------------------------

Resting == [at |-> "idle", res |-> NoRes]
Asleep == [at |-> "sleep", res |-> NoRes]

Quiet == tick = Asleep /\ \A t \in Tasks : job[t] = Resting

\* A new request or tick may begin: any time, or only when all is quiet.
MayBegin == serial => Quiet

Exists(r) == status[r] \notin {"none", "deleted"}

Booked == {r \in Res : status[r] \in {"approved", "active"}}

Overlaps(r, q) == window[q].from < window[r].to /\ window[q].to > window[r].from

\* What a statement did: it succeeded, or one more has failed.
Outcome(ok) ==
    \/ ok /\ UNCHANGED faults
    \/ ~ok /\ faults < MaxFaults /\ faults' = faults + 1

Init ==
    /\ status = [r \in Res |-> "none"]
    /\ cache = NoRes
    /\ now = 0
    /\ job = [t \in Tasks |-> Resting]
    /\ tick = Asleep
    /\ tickNow = 0
    /\ faults = 0
    /\ window \in [Res -> Windows]
    /\ serial \in Modes
    /\ approvedOnce = {}

Begin(t, r, at) ==
    /\ MayBegin
    /\ job[t] = Resting
    /\ job' = [job EXCEPT ![t] = [at |-> at, res |-> r]]

Step(t, from, to) ==
    /\ job[t].at = from
    /\ job' = [job EXCEPT ![t] = IF to = "idle" THEN Resting ELSE [@ EXCEPT !.at = to]]

SetStatus(r, s) == status' = IF Exists(r) THEN [status EXCEPT ![r] = s] ELSE status

-----------------------------------------------------------------------------
(* create: the overlap check reads a failed query as "no overlap".         *)

Create(t, r) ==
    /\ status[r] = "none" /\ \A u \in Tasks : job[u].res # r
    /\ window[r].from > now
    /\ \E ok \in BOOLEAN :
          /\ Outcome(ok)
          /\ ok => \A q \in Booked : ~Overlaps(r, q)
    /\ Begin(t, r, "insert")
    /\ UNCHANGED <<status, cache, now, tick, tickNow, window, serial, approvedOnce>>

Insert(t) ==
    /\ Step(t, "insert", "idle")
    /\ status' = [status EXCEPT ![job[t].res] = "pending"]
    /\ UNCHANGED <<cache, now, tick, tickNow, faults, window, serial, approvedOnce>>

\* cancel_own and reject are one guarded UPDATE each.
Cancel(r) ==
    /\ MayBegin
    /\ status[r] \in {"pending", "approved"}
    /\ SetStatus(r, "cancelled")
    /\ UNCHANGED <<cache, now, job, tick, tickNow, faults, window, serial, approvedOnce>>

Reject(r) ==
    /\ MayBegin
    /\ status[r] = "pending"
    /\ SetStatus(r, "rejected")
    /\ UNCHANGED <<cache, now, job, tick, tickNow, faults, window, serial, approvedOnce>>

-----------------------------------------------------------------------------
(* approve: the status, the overlap and the UPDATE by id are three         *)
(* statements, and the UPDATE asks for nothing but the id.                 *)

Approve(t, r) ==
    /\ status[r] = "pending"
    /\ Begin(t, r, "checkOverlap")
    /\ UNCHANGED <<status, cache, now, tick, tickNow, faults, window, serial, approvedOnce>>

\* Mutant of CheckOverlap: only reservations that are active block an approval.
CheckOverlapActiveOnly(t) ==
    LET r == job[t].res
        clash == \E q \in Booked \ {r} : status[q] = "active" /\ Overlaps(r, q)
    IN  /\ \E ok \in BOOLEAN :
              /\ Outcome(ok)
              /\ Step(t, "checkOverlap", IF ok /\ clash THEN "idle" ELSE "approve")
        /\ UNCHANGED <<status, cache, now, tick, tickNow, window, serial, approvedOnce>>

\* Reading the times and the overlap query; either may fail and none of it then
\* stops the approval.  The times never change, so they are read in one action.
CheckOverlap(t) ==
    LET r == job[t].res
        clash == \E q \in Booked \ {r} : Overlaps(r, q)
    IN  /\ \E ok \in BOOLEAN :
              /\ Outcome(ok)
              /\ Step(t, "checkOverlap", IF ok /\ clash THEN "idle" ELSE "approve")
        /\ UNCHANGED <<status, cache, now, tick, tickNow, window, serial, approvedOnce>>

WriteApproved(t) ==
    /\ Step(t, "approve", "idle")
    /\ SetStatus(job[t].res, "approved")
    /\ approvedOnce' = approvedOnce \cup {job[t].res}
    /\ UNCHANGED <<cache, now, tick, tickNow, faults, window, serial>>

-----------------------------------------------------------------------------
(* force_activate: the cache is checked first and set last.                *)

ForceActivate(t, r) ==
    /\ cache = NoRes
    /\ Exists(r)
    /\ Begin(t, r, "selectApproved")
    /\ UNCHANGED <<status, cache, now, tick, tickNow, faults, window, serial, approvedOnce>>

\* Mutant of SelectApproved: the lookup forgets the status.
SelectAny(t) ==
    /\ Step(t, "selectApproved", "activate")
    /\ UNCHANGED <<status, cache, now, tick, tickNow, faults, window, serial, approvedOnce>>

SelectApproved(t) ==
    /\ Step(t, "selectApproved",
            IF status[job[t].res] = "approved" THEN "activate" ELSE "idle")
    /\ UNCHANGED <<status, cache, now, tick, tickNow, faults, window, serial, approvedOnce>>

\* An error of this UPDATE is ignored.
WriteActive(t) ==
    /\ Step(t, "activate", "setCache")
    /\ \E ok \in BOOLEAN :
          /\ Outcome(ok)
          /\ IF ok THEN SetStatus(job[t].res, "active") ELSE UNCHANGED status
    /\ UNCHANGED <<cache, now, tick, tickNow, window, serial, approvedOnce>>

SetCache(t) ==
    /\ Step(t, "setCache", "idle")
    /\ cache' = job[t].res
    /\ UNCHANGED <<status, now, tick, tickNow, faults, window, serial, approvedOnce>>

\* force_deactivate empties the cache whatever it holds by then.
ForceDeactivate(t, r) ==
    /\ status[r] = "active"
    /\ SetStatus(r, "completed")
    /\ Begin(t, r, "clearCache")
    /\ UNCHANGED <<cache, now, tick, tickNow, faults, window, serial, approvedOnce>>

\* Mutant of ClearCache: the handler returns after the UPDATE.
KeepCache(t) ==
    /\ Step(t, "clearCache", "idle")
    /\ UNCHANGED <<status, cache, now, tick, tickNow, faults, window, serial, approvedOnce>>

ClearCache(t) ==
    /\ Step(t, "clearCache", "idle")
    /\ cache' = NoRes
    /\ UNCHANGED <<status, now, tick, tickNow, faults, window, serial, approvedOnce>>

\* Mutant of Delete: the check that the reservation is not active is missing.
DeleteAny(t, r) ==
    /\ Exists(r)
    /\ Begin(t, r, "delete")
    /\ UNCHANGED <<status, cache, now, tick, tickNow, faults, window, serial, approvedOnce>>

\* A lookup that fails is taken for a row that is not active.
Delete(t, r) ==
    /\ Exists(r)
    /\ \E ok \in BOOLEAN :
          /\ Outcome(ok)
          /\ ok => status[r] # "active"
    /\ Begin(t, r, "delete")
    /\ UNCHANGED <<status, cache, now, tick, tickNow, window, serial, approvedOnce>>

WriteDeleted(t) ==
    /\ Step(t, "delete", "idle")
    /\ SetStatus(job[t].res, "deleted")
    /\ UNCHANGED <<cache, now, tick, tickNow, faults, window, serial, approvedOnce>>

\* The client disconnects: the handler is dropped at its next await.  An error
\* of the last statement of create, approve or delete ends the same way.
Abandon(t) ==
    /\ job[t] # Resting
    /\ job' = [job EXCEPT ![t] = Resting]
    /\ Outcome(FALSE)
    /\ UNCHANGED <<status, cache, now, tick, tickNow, window, serial, approvedOnce>>

-----------------------------------------------------------------------------
(* tick_reservations                                                       *)

TickStep(from, to) ==
    /\ tick.at = from
    /\ tick' = [tick EXCEPT !.at = to]

\* The UPDATE completes every active row that has ended, cached or not.
TickComplete ==
    LET ended == {r \in Res : status[r] = "active" /\ window[r].to <= now}
    IN  /\ MayBegin
        /\ \/ /\ Outcome(TRUE)
              /\ status' = [r \in Res |-> IF r \in ended THEN "completed" ELSE status[r]]
              /\ TickStep("sleep", IF ended # {} THEN "clearCache" ELSE "readCache")
           \/ /\ Outcome(FALSE)
              /\ UNCHANGED status
              /\ TickStep("sleep", "readCache")
        /\ tickNow' = now
        /\ UNCHANGED <<cache, now, job, window, serial, approvedOnce>>

TickClearCache ==
    /\ TickStep("clearCache", "readCache")
    /\ cache' = NoRes
    /\ UNCHANGED <<status, now, job, tickNow, faults, window, serial, approvedOnce>>

\* Mutant of TickReadCache: the tick selects whoever is due, cached or not.
TickSkipsCache ==
    /\ TickStep("readCache", "selectDue")
    /\ UNCHANGED <<status, cache, now, job, tickNow, faults, window, serial, approvedOnce>>

TickReadCache ==
    /\ TickStep("readCache", IF cache = NoRes THEN "selectDue" ELSE "cancelStale")
    /\ UNCHANGED <<status, cache, now, job, tickNow, faults, window, serial, approvedOnce>>

Due == {r \in Res : status[r] = "approved" /\ window[r].from <= tickNow}

\* The earliest approved reservation that has started; equal starts in any order.
TickSelectDue ==
    /\ tick.at = "selectDue"
    /\ \/ /\ Due = {}
          /\ tick' = [at |-> "cancelStale", res |-> NoRes]
          /\ UNCHANGED faults
       \/ \E r \in Due :
             /\ \A q \in Due : window[r].from <= window[q].from
             /\ tick' = [at |-> "activate", res |-> r]
             /\ UNCHANGED faults
       \/ /\ Outcome(FALSE)
          /\ tick' = [at |-> "cancelStale", res |-> NoRes]
    /\ UNCHANGED <<status, cache, now, job, tickNow, window, serial, approvedOnce>>

\* By id, with the status it had when it was selected; an error is ignored.
TickActivate ==
    /\ TickStep("activate", "setCache")
    /\ \E ok \in BOOLEAN :
          /\ Outcome(ok)
          /\ IF ok THEN SetStatus(tick.res, "active") ELSE UNCHANGED status
    /\ UNCHANGED <<cache, now, job, tickNow, window, serial, approvedOnce>>

TickSetCache ==
    /\ tick.at = "setCache"
    /\ tick' = [at |-> "cancelStale", res |-> NoRes]
    /\ cache' = tick.res
    /\ UNCHANGED <<status, now, job, tickNow, faults, window, serial, approvedOnce>>

\* Pending requests whose start has passed are cancelled; an error is logged.
TickCancelStale ==
    /\ tick.at = "cancelStale"
    /\ tick' = Asleep /\ tickNow' = 0
    /\ \E ok \in BOOLEAN :
          /\ Outcome(ok)
          /\ status' = [r \in Res |->
                           IF ok /\ status[r] = "pending" /\ window[r].from <= tickNow
                           THEN "cancelled" ELSE status[r]]
    /\ UNCHANGED <<cache, now, job, window, serial, approvedOnce>>

-----------------------------------------------------------------------------
(* A restart loses every task and the cache, and startup reads the cache   *)
(* back before it serves anybody: some active row, if there is one.        *)

Restart ==
    /\ job' = [t \in Tasks |-> Resting]
    /\ tick' = Asleep /\ tickNow' = 0
    /\ \/ /\ \E r \in Res : status[r] = "active" /\ cache' = r
          /\ UNCHANGED faults
       \/ /\ \A r \in Res : status[r] # "active"
          /\ cache' = NoRes
          /\ UNCHANGED faults
       \/ /\ Outcome(FALSE)
          /\ cache' = NoRes
    /\ UNCHANGED <<status, now, window, serial, approvedOnce>>

Clock ==
    /\ now < MaxTime
    /\ now' = now + 1
    /\ UNCHANGED <<status, cache, job, tick, tickNow, faults, window, serial, approvedOnce>>

-----------------------------------------------------------------------------
Request(t) ==
    \E r \in Res :
        \/ Create(t, r) \/ Approve(t, r) \/ ForceActivate(t, r)
        \/ ForceDeactivate(t, r) \/ Delete(t, r)

Continue(t) ==
    \/ Insert(t) \/ CheckOverlap(t) \/ WriteApproved(t) \/ SelectApproved(t)
    \/ WriteActive(t) \/ SetCache(t) \/ ClearCache(t) \/ WriteDeleted(t)

Tick ==
    \/ TickComplete \/ TickClearCache \/ TickReadCache \/ TickSelectDue
    \/ TickActivate \/ TickSetCache \/ TickCancelStale

Next ==
    \/ \E t \in Tasks : Request(t) \/ Continue(t) \/ Abandon(t)
    \/ \E r \in Res : Cancel(r) \/ Reject(r)
    \/ Tick \/ Restart \/ Clock

\* Time passes, accepted requests run on, and the interval timer keeps firing
\* (strongly, since in serial behaviours it waits its turn).
Fairness ==
    /\ WF_vars(Clock)
    /\ \A t \in Tasks : WF_vars(Continue(t))
    /\ SF_vars(Tick)

Spec == Init /\ [][Next]_vars
FairSpec == Spec /\ Fairness

-----------------------------------------------------------------------------
(* What the documents promise of every behaviour.                          *)

\* RESERVATIONS.md: "No overlap allowed between approved/active reservations"
\* (the overlap checks of create and approve, and every later status change).
NoOverlap == \A r, q \in Booked : r # q => ~Overlaps(r, q)

\* RESERVATIONS.md: when end_time has passed, the tick completes the reservation
\* and clears the cache; so nobody holds the system for ever.
ReservationEnds == \A r \in Res : cache = r ~> cache # r

\* The state machine of ADR 018, with its terminal states.
Edges ==
    {<<"none", "pending">>, <<"pending", "approved">>, <<"pending", "rejected">>,
     <<"pending", "cancelled">>, <<"approved", "active">>, <<"approved", "cancelled">>,
     <<"active", "completed">>}
        \cup {<<s, "deleted">> : s \in Statuses \ {"none", "active", "deleted"}}

FollowsStateMachine(r) == status'[r] = status[r] \/ <<status[r], status'[r]>> \in Edges

-----------------------------------------------------------------------------
(* What the code keeps of it.                                              *)

Undisturbed == serial /\ faults = 0

\* One request or tick at a time, and no failed statement: bookings never overlap,
\* across approvals, forced and timed activations, early ends and restarts.
SerialNoOverlap == Undisturbed => NoOverlap

\* Under the same conditions every reservation follows the state machine; in
\* particular an UPDATE by id never revives one that was cancelled or rejected.
SerialStateMachine ==
    [][Undisturbed => \A r \in Res : FollowsStateMachine(r)]_status

\* Under the same conditions, whenever nothing is under way, the cache names the
\* one active reservation of the table, or is empty when there is none: so there
\* are never two, and the fast check of the request path agrees with the table.
SerialCacheAgrees ==
    Undisturbed /\ Quiet =>
        {r \in Res : status[r] = "active"} = (IF cache = NoRes THEN {} ELSE {cache})

\* One request or tick at a time, and no failed statement for ever: a reservation
\* that holds the system lets go of it, by the tick, an early end or a restart.
SerialReservationEnds == serial /\ [](faults = 0) => ReservationEnds

\* However handlers, ticks, failures and restarts interleave, the system is only
\* ever held for a reservation that an admin approved at some point.
OnlyApprovedHoldSystem ==
    /\ cache # NoRes => cache \in approvedOnce
    /\ \A r \in Res : status[r] = "active" => r \in approvedOnce
=============================================================================
