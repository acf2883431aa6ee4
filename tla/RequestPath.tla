------------------------------ MODULE RequestPath ------------------------------
(***************************************************************************)
(* An inference request on its way through the proxy: proxy_completion     *)
(* (api/openai.rs), messages (api/anthropic.rs) and proxy_to_backend       *)
(* (proxy/streaming.rs), against the reservation in force, the gate of the *)
(* model and a backend that is started and stopped meanwhile.              *)
(*                                                                         *)
(* The gate is the abstract Admission, which ConcurrencyGate implements.   *)
(* What Supervisor and Reservations do to the model and to the cached      *)
(* reservation is the environment here: any change at any time.  A handler *)
(* is cut at its awaits; an await whose result decides nothing below (the  *)
(* key, the user to bill, the usage log) is left out.                      *)
(***************************************************************************)
EXTENDS Naturals, FiniteSets

CONSTANTS
    Calls,        \* requests, each made once
    Users,
    Nobody,       \* no reservation is active
    Internal,     \* the tokens of Open WebUI, exempt from reservations
    Who,          \* who makes each request
    SlotCounts,
    MaxChanges    \* bound: changes of reservation, model and gate

ASSUME RequestAssumption ==
    /\ Who \in [Calls -> Users \cup {Internal}]
    /\ {Nobody, Internal} \cap Users = {} /\ Nobody # Internal
    /\ IsFiniteSet(Calls) /\ SlotCounts \subseteq Nat
    /\ MaxChanges \in Nat

VARIABLES
    status, open, limit,    \* the gate of the model
    at,          \* where the handler of each request is
    streams,     \* fixed: the requests that ask for a stream
    work,        \* the requests the backend is working on
    reserved,    \* Scheduler.active_reservation
    loaded,      \* models.loaded
    running,     \* the backend accepts connections
    changes,     \* how often the environment has changed, for the bound
    earlier      \* auxiliary: the calls past the check when reserved was set

gateVars == <<status, open, limit>>
world == <<reserved, loaded, running, changes, earlier>>
vars == <<gateVars, at, streams, work, world>>

Gate == INSTANCE Admission WITH Requests <- Calls

Places == {"new", "resolved", "allowed", "queued", "holding", "sent", "reading",
           "returned", "refused", "gone"}

TypeOK ==
    /\ status \in [Calls -> {"new", "asked", "granted", "exempt", "denied",
                             "abandoned", "finished"}]
    /\ open \in BOOLEAN /\ limit \in Nat
    /\ at \in [Calls -> Places]
    /\ streams \subseteq Calls /\ work \subseteq Calls /\ earlier \subseteq Calls
    /\ reserved \in Users \cup {Nobody}
    /\ loaded \in BOOLEAN /\ running \in BOOLEAN
    /\ changes \in 0 .. MaxChanges

\* The proxy has started, and has found the backend stopped or running.
Init ==
    /\ status = [r \in Calls |-> "new"]
    /\ \/ open = TRUE /\ limit = 0 /\ loaded = FALSE
       \/ open = FALSE /\ limit \in SlotCounts /\ loaded = TRUE
    /\ running = loaded
    /\ at = [r \in Calls |-> "new"]
    /\ streams \in SUBSET Calls
    /\ work = {} /\ earlier = {}
    /\ reserved = Nobody
    /\ changes = 0

Goto(r, from, to) ==
    /\ at[r] = from
    /\ at' = [at EXCEPT ![r] = to]

-----------------------------------------------------------------------------
(* The handler.                                                            *)

Resolve(r) ==
    /\ \E found \in BOOLEAN :
          Goto(r, "new", IF found /\ loaded THEN "resolved" ELSE "refused")
    /\ UNCHANGED <<gateVars, streams, work, world>>

Welcome(r) == Who[r] = Internal \/ reserved \in {Nobody, Who[r]}

\* Mutant of CheckReservation: the cached reservation is not looked at.
CheckNothing(r) ==
    /\ Goto(r, "resolved", "allowed")
    /\ UNCHANGED <<gateVars, streams, work, world>>

CheckReservation(r) ==
    /\ Goto(r, "resolved", IF Welcome(r) THEN "allowed" ELSE "refused")
    /\ UNCHANGED <<gateVars, streams, work, world>>

\* acquire_with_timeout: at once, or after a wait that may end in a refusal.
Acquire(r) ==
    /\ \/ Goto(r, "allowed", "holding") /\ Gate!Grant(r)
       \/ Goto(r, "allowed", "queued") /\ Gate!Ask(r)
    /\ UNCHANGED <<streams, work, world>>

Dequeue(r) ==
    /\ Goto(r, "queued", "holding") /\ Gate!Grant(r)
    /\ UNCHANGED <<streams, work, world>>

QueueTimeout(r) ==
    /\ Goto(r, "queued", "refused") /\ Gate!Deny(r)
    /\ UNCHANGED <<streams, work, world>>

\* Mutant of Send: `let _ = acquire(...)' drops the guard where it stands.
SendUnguarded(r) ==
    /\ Goto(r, "holding", IF running THEN "sent" ELSE "returned")
    /\ Gate!Finish(r) \/ Gate!FinishExempt(r)
    /\ work' = IF running THEN work \cup {r} ELSE work
    /\ UNCHANGED <<streams, world>>

\* A connection that fails is a 502, after a kick of the supervisor.
Send(r) ==
    /\ Goto(r, "holding", IF running THEN "sent" ELSE "returned")
    /\ work' = IF running THEN work \cup {r} ELSE work
    /\ UNCHANGED <<gateVars, streams, world>>

\* The head of the answer has come: a stream is handed to the client as it is
\* and the handler returns; anything else is read to its end first.
Answer(r) ==
    /\ r \in work
    /\ Goto(r, "sent", IF r \in streams THEN "returned" ELSE "reading")
    /\ UNCHANGED <<gateVars, streams, work, world>>

\* Mutant of Collect: a connection that breaks before the head is waited on.
CollectBodies(r) ==
    /\ r \notin work
    /\ Goto(r, "reading", "returned")
    /\ UNCHANGED <<gateVars, streams, work, world>>

\* The body is complete, or the connection has broken before or after the head.
Collect(r) ==
    /\ r \notin work
    /\ \E from \in {"sent", "reading"} : Goto(r, from, "returned")
    /\ UNCHANGED <<gateVars, streams, work, world>>

\* The guard goes out of scope with the handler, and its task gives it back.
GiveBack(r) ==
    /\ at[r] \in {"returned", "gone"}
    /\ Gate!Finish(r) \/ Gate!FinishExempt(r)
    /\ UNCHANGED <<at, streams, work, world>>

\* The client goes away: the handler, or the body it has returned, is dropped
\* with the connection to the backend.
Disconnect(r) ==
    /\ \/ /\ \E from \in {"resolved", "allowed", "holding", "sent", "reading"} :
                Goto(r, from, "gone")
          /\ UNCHANGED gateVars
       \/ Goto(r, "queued", "gone") /\ Gate!Abandon(r)
       \/ Goto(r, "returned", "gone") /\ r \in work /\ UNCHANGED gateVars
    /\ work' = work \ {r}
    /\ UNCHANGED <<streams, world>>

-----------------------------------------------------------------------------
(* The backend and the rest of the proxy.                                  *)

\* The last token is generated, or the backend gives up on the request.
BackendDone(r) ==
    /\ r \in work /\ work' = work \ {r}
    /\ UNCHANGED <<gateVars, at, streams, world>>

Change == changes < MaxChanges /\ changes' = changes + 1

\* The cache is set or emptied by the tick or an admin.
Reserve(u) ==
    /\ Change
    /\ reserved' = u /\ u # reserved
    /\ earlier' = {r \in Calls : at[r] \in {"allowed", "queued", "holding"}}
    /\ UNCHANGED <<gateVars, at, streams, work, loaded, running>>

\* The column, the container and the gate's entry change in the orders that
\* start, stop, reconciliation and recovery use, which are several.
SetLoaded ==
    /\ Change /\ loaded' = ~loaded
    /\ UNCHANGED <<gateVars, at, streams, work, reserved, running, earlier>>

SetRunning ==
    /\ Change /\ running' = ~running
    /\ work' = IF running THEN {} ELSE work
    /\ UNCHANGED <<gateVars, at, streams, reserved, loaded, earlier>>

Register ==
    /\ Change
    /\ Gate!Replace(TRUE, 0) \/ \E n \in SlotCounts : Gate!Replace(FALSE, n)
    /\ UNCHANGED <<at, streams, work, reserved, loaded, running, earlier>>

-----------------------------------------------------------------------------
Handler(r) ==
    \/ Resolve(r) \/ CheckReservation(r) \/ Acquire(r) \/ QueueTimeout(r)
    \/ Send(r) \/ Collect(r) \/ GiveBack(r)

Environment == SetLoaded \/ SetRunning \/ Register \/ \E u \in Users \cup {Nobody} : Reserve(u)

Next ==
    \/ \E r \in Calls :
          Handler(r) \/ Dequeue(r) \/ Answer(r) \/ Disconnect(r) \/ BackendDone(r)
    \/ Environment

\* The runtime polls the handlers and the queue's timer fires; the backend, the
\* client and everybody else owe nothing.
Fairness == \A r \in Calls : WF_vars(Handler(r))

Spec == Init /\ [][Next]_vars
FairSpec == Spec /\ Fairness

-----------------------------------------------------------------------------
(* What the documents promise.                                             *)

\* ADR 017: "Handlers hold the guard for the lifetime of the backend request".
\* So whoever the backend works for has a slot, streams included.
WorkHoldsSlot == \A r \in work : status[r] \in {"granted", "exempt"}

\* THREAT_MODEL.md: "during a reservation window, only the reservation holder can
\* access inference"; so no request of somebody else is sent to the backend.
ExclusiveUse == [][\A r \in Calls : r \in work' \ work => Welcome(r)]_vars

-----------------------------------------------------------------------------
(* What the code keeps of it.                                              *)

\* Answers that are read to their end never overload the backend: each of them
\* has a slot while the backend works for it, and those under the present limit
\* are no more than it allows (the guard's scope in both handlers).
BufferedWithinLimit ==
    /\ \A r \in work \ streams : status[r] \in {"granted", "exempt"}
    /\ ~open => Cardinality({r \in work \ streams : status[r] = "granted"}) <= limit

\* A request of somebody else that is on its way to the backend, or waits to be,
\* while the system is reserved had passed the check before it was reserved.
OnlyEarlierPass ==
    \A r \in Calls :
        at[r] \in {"allowed", "queued", "holding"} /\ ~Welcome(r) => r \in earlier

\* Whatever breaks (no connection, a backend that dies half way, a client that
\* leaves), a slot comes back, unless the backend is still at work for it.
SlotsComeBack ==
    \A r \in Calls :
        status[r] \in {"granted", "exempt"} ~> (status[r] = "finished" \/ r \in work)
=============================================================================
