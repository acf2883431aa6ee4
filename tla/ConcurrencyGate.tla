--------------------------- MODULE ConcurrencyGate ---------------------------
(***************************************************************************)
(* The per-model concurrency gate (scheduler/gate.rs) together with the    *)
(* request queue it wakes (scheduler/queue.rs) and the priority it         *)
(* enqueues with (scheduler/fairness.rs).                                  *)
(*                                                                         *)
(* Both maps of the code are keyed by model and no operation touches two   *)
(* keys, so the module describes one key.  A request is one call of        *)
(* acquire_with_timeout; after it was granted, the same process stands for *)
(* the guard it holds and for the task that dropping the guard spawns.     *)
(*                                                                         *)
(* Every lock is held within one action and every await outside a lock is  *)
(* a boundary between two actions: releasing a slot takes three            *)
(* (decrement, dequeue, send), waiting takes up to three (wake or expiry,  *)
(* then a second lock).  A client may disconnect at any of these awaits,   *)
(* which drops the future of the call.                                     *)
(***************************************************************************)
EXTENDS Integers, Sequences, FiniteSets, SequencesExt

CONSTANTS
    Requests,         \* the calls of acquire_with_timeout
    Priorities,       \* the fair-use scores the calls may be enqueued with
    SlotCounts,       \* the values of parallel_slots (start clamps them to >= 1)
    MaxGenerations    \* bound: how often the model is registered

ASSUME GateAssumption ==
    /\ IsFiniteSet(Requests)
    /\ Priorities \subseteq Int
    /\ SlotCounts \subseteq Nat \ {0}
    /\ MaxGenerations \in Nat

VARIABLES
    registered,    \* the model has an entry in the gate's map
    maxSlots,      \* GateState.max_slots, 0 while there is no entry
    inFlight,      \* GateState.in_flight, 0 while there is no entry
    queue,         \* the waiting entries, in order of arrival
    pc,            \* where each call is
    target,        \* the call whose waker a releasing task has dequeued
    \* Auxiliary: read by the properties only, no guard depends on them.
    gen,           \* how many times the model has been registered
    epoch,         \* the registration a guard was counted under, 0: none
    stale          \* releases by guards of no or an earlier registration
                   \* since the last one

gateVars == <<registered, maxSlots, inFlight>>
auxVars == <<gen, epoch, stale>>
vars == <<gateVars, queue, pc, target, auxVars>>

PC == {"idle",        \* not called yet
       "enqueueing",  \* the fast path failed, computing the priority
       "waiting",     \* in the queue, awaiting the oneshot or the timer
       "woken",       \* the oneshot resolved, about to try again
       "expired",     \* the timer resolved, about to leave the queue
       "holding",     \* Ok(AcquiredSlot)
       "releasing",   \* the guard was dropped, its task is spawned
       "waking",      \* the task has decremented in_flight
       "sending",     \* the task has dequeued a waker, not sent on it yet
       "served",      \* the task is done
       "refused",     \* Err(QueueTimeout)
       "gone"}        \* the client disconnected before an answer

Entry == [req : Requests, priority : Priorities]

Queued == {queue[i].req : i \in DOMAIN queue}

\* The calls that own an AcquiredSlot the gate has not got back.
Guards == {r \in Requests : pc[r] \in {"holding", "releasing"}}

\* Those of them that the present registration counted.
Counted == {r \in Guards : epoch[r] = gen}

TypeOK ==
    /\ registered \in BOOLEAN
    /\ maxSlots \in SlotCounts \cup {0}
    /\ inFlight \in Nat
    /\ queue \in Seq(Entry)
    /\ pc \in [Requests -> PC]
    /\ target \in [Requests -> Requests]
    /\ gen \in Nat
    /\ epoch \in [Requests -> Nat]
    /\ stale \in Nat

-----------------------------------------------------------------------------
(* The proxy starts with an empty map and an empty queue.                  *)

Idle ==
    /\ queue = <<>>
    /\ pc = [r \in Requests |-> "idle"]
    /\ target = [r \in Requests |-> r]
    /\ epoch = [r \in Requests |-> 0]
    /\ stale = 0

Init ==
    /\ Idle
    /\ registered = FALSE /\ maxSlots = 0 /\ inFlight = 0
    /\ gen = 0

Goto(r, from, to) ==
    /\ pc[r] = from
    /\ pc' = [pc EXCEPT ![r] = to]

-----------------------------------------------------------------------------
(* Registration, by container start and stop and by the supervisor.        *)

\* register inserts: an entry that exists is replaced and its count is lost.
Register(n) ==
    /\ gen < MaxGenerations
    /\ registered' = TRUE
    /\ maxSlots' = n
    /\ inFlight' = 0
    /\ gen' = gen + 1
    /\ stale' = 0
    /\ UNCHANGED <<queue, pc, target, epoch>>

\* unregister leaves the queue alone.
Unregister ==
    /\ registered
    /\ registered' = FALSE
    /\ maxSlots' = 0
    /\ inFlight' = 0
    /\ UNCHANGED <<queue, pc, target, auxVars>>

-----------------------------------------------------------------------------
(* acquire_with_timeout                                                    *)

\* Mutant of SlotFree: the limit is inclusive.
SlotFreeInclusive == registered => inFlight <= maxSlots

\* try_acquire lets everything through while the model is not registered.
SlotFree == registered => inFlight < maxSlots

TakeSlot(r) ==
    /\ SlotFree
    /\ inFlight' = IF registered THEN inFlight + 1 ELSE inFlight
    /\ epoch' = [epoch EXCEPT ![r] = IF registered THEN gen ELSE 0]
    /\ UNCHANGED <<registered, maxSlots, gen, stale>>

FastPath(r) ==
    /\ Goto(r, "idle", "holding")
    /\ TakeSlot(r)
    /\ UNCHANGED <<queue, target>>

Contended(r) ==
    /\ Goto(r, "idle", "enqueueing")
    /\ ~SlotFree
    /\ UNCHANGED <<gateVars, queue, target, auxVars>>

\* The priority is whatever the usage log says (or the base priority when it
\* cannot be read), computed for a wait of 0.0 seconds and never again.
Enqueue(r, p) ==
    /\ Goto(r, "enqueueing", "waiting")
    /\ queue' = Append(queue, [req |-> r, priority |-> p])
    /\ UNCHANGED <<gateVars, target, auxVars>>

\* Mutant of ReAcquire: the releaser is believed to have kept the slot for it.
ReAcquireUncounted(r) ==
    /\ Goto(r, "woken", "holding")
    /\ UNCHANGED <<gateVars, queue, target, auxVars>>

\* A woken call has no claim on the slot that woke it: it tries again and is
\* refused, without going back to the queue, when the slot is taken.
ReAcquire(r) ==
    /\ Goto(r, "woken", "holding")
    /\ TakeSlot(r)
    /\ UNCHANGED <<queue, target>>

WokenTooLate(r) ==
    /\ Goto(r, "woken", "refused")
    /\ ~SlotFree
    /\ UNCHANGED <<gateVars, queue, target, auxVars>>

\* Mutant of Expire: the timer is not armed while a slot looks free.
ExpireUnderLoad(r) ==
    /\ Goto(r, "waiting", "expired")
    /\ ~SlotFree
    /\ UNCHANGED <<gateVars, queue, target, auxVars>>

\* The timer may fire at any moment before the oneshot has a value.
Expire(r) ==
    /\ Goto(r, "waiting", "expired")
    /\ UNCHANGED <<gateVars, queue, target, auxVars>>

\* Mutant of RemoveExpired: no retain.
ExpireWithoutRemoval(r) ==
    /\ Goto(r, "expired", "refused")
    /\ UNCHANGED <<gateVars, queue, target, auxVars>>

\* retain drops the entry of this call, if no release has dequeued it; there
\* is at most one (WakerOwnership).
RemoveExpired(r) ==
    /\ Goto(r, "expired", "refused")
    /\ \/ \E i \in DOMAIN queue : queue[i].req = r /\ queue' = RemoveAt(queue, i)
       \/ r \notin Queued /\ UNCHANGED queue
    /\ UNCHANGED <<gateVars, target, auxVars>>

\* Dropping the future runs no code of the gate: an entry stays in the queue
\* with a dead receiver, and a wake-up that had arrived is lost.
Disconnect(r) ==
    /\ \E at \in {"enqueueing", "waiting", "woken", "expired"} : Goto(r, at, "gone")
    /\ UNCHANGED <<gateVars, queue, target, auxVars>>

-----------------------------------------------------------------------------
(* AcquiredSlot::drop and release_and_wake                                 *)

\* The handler returned, failed or was cancelled: drop spawns the task.
DropGuard(r) ==
    /\ Goto(r, "holding", "releasing")
    /\ UNCHANGED <<gateVars, queue, target, auxVars>>

\* Mutant of Release: a slot kept for whoever waits.
ReleaseHandsOver(r) ==
    /\ Goto(r, "releasing", "waking")
    /\ inFlight' = IF registered /\ inFlight > 0 /\ queue = <<>>
                     THEN inFlight - 1 ELSE inFlight
    /\ stale' = IF registered /\ epoch[r] # gen THEN stale + 1 ELSE stale
    /\ UNCHANGED <<registered, maxSlots, queue, target, gen, epoch>>

\* The guard does not know under which registration it was counted.
Release(r) ==
    /\ Goto(r, "releasing", "waking")
    /\ inFlight' = IF registered /\ inFlight > 0 THEN inFlight - 1 ELSE inFlight
    /\ stale' = IF registered /\ epoch[r] # gen THEN stale + 1 ELSE stale
    /\ UNCHANGED <<registered, maxSlots, queue, target, gen, epoch>>

\* max_by returns the last of several maximal elements.
IsBest(q, i) ==
    \A j \in DOMAIN q :
        /\ q[j].priority <= q[i].priority
        /\ j > i => q[j].priority < q[i].priority

DequeueBest(r) ==
    \E i \in DOMAIN queue :
        /\ IsBest(queue, i)
        /\ Goto(r, "waking", "sending")
        /\ target' = [target EXCEPT ![r] = queue[i].req]
        /\ queue' = RemoveAt(queue, i)
        /\ UNCHANGED <<gateVars, auxVars>>

NobodyWaiting(r) ==
    /\ queue = <<>>
    /\ Goto(r, "waking", "served")
    /\ UNCHANGED <<gateVars, queue, target, auxVars>>

\* Sending to a receiver that was dropped is a no-op: the wake-up is lost.
SendWake(r) ==
    /\ pc[r] = "sending"
    /\ pc' = [q \in Requests |->
                 CASE q = r -> "served"
                   [] q = target[r] /\ pc[q] = "waiting" -> "woken"
                   [] OTHER -> pc[q]]
    /\ UNCHANGED <<gateVars, queue, target, auxVars>>

-----------------------------------------------------------------------------
\* What the runtime does by itself once a call or a release has begun.
Progress(r) ==
    \/ \E p \in Priorities : Enqueue(r, p)
    \/ ReAcquire(r)
    \/ WokenTooLate(r)
    \/ Expire(r)
    \/ RemoveExpired(r)
    \/ Release(r)
    \/ DequeueBest(r)
    \/ NobodyWaiting(r)
    \/ SendWake(r)

\* What clients and the handlers they talk to do.
Client(r) ==
    \/ FastPath(r)
    \/ Contended(r)
    \/ Disconnect(r)
    \/ DropGuard(r)

Serve == \E r \in Requests : Client(r) \/ Progress(r)

Lifecycle == Unregister \/ \E n \in SlotCounts : Register(n)

Next == Serve \/ Lifecycle

\* The tasks of the runtime are polled and timers fire; clients owe nothing.
Fairness == \A r \in Requests : WF_vars(Progress(r))

Spec == Init /\ [][Next]_vars
FairSpec == Spec /\ Fairness

\* The life of one started backend: registered once, not stopped meanwhile.
SteadyInit ==
    /\ Idle
    /\ registered = TRUE
    /\ maxSlots \in SlotCounts
    /\ inFlight = 0
    /\ gen = 1

SteadySpec == SteadyInit /\ [][Serve]_vars

-----------------------------------------------------------------------------
(* Safety.                                                                 *)

\* A slot is never lost: what the gate counts as in flight is owned by a guard
\* that will give it back, whatever was registered or unregistered meanwhile
\* (release_and_wake against register, unregister and the spawned tasks).
NoSlotLeak == registered => inFlight <= Cardinality(Counted)

\* The limit holds up to the releases of guards this registration never
\* counted: register resets in_flight, and a guard older than the reset
\* decrements a counter it never incremented.
OvershootBounded == registered => Cardinality(Counted) <= maxSlots + stale

\* A waker has one owner.  A call has at most one entry; an entry or a dequeued
\* waker belongs to a call that still waits, has timed out or was dropped,
\* never to one that was answered, and no two releases hold the same one.
WakerOwnership ==
    /\ \A i, j \in DOMAIN queue : queue[i].req = queue[j].req => i = j
    /\ \A r \in Queued : pc[r] \in {"waiting", "expired", "gone"}
    /\ \A t \in Requests : pc[t] = "sending" =>
          /\ target[t] \notin Queued
          /\ pc[target[t]] \in {"waiting", "expired", "refused", "gone"}
          /\ \A u \in Requests \ {t} : pc[u] = "sending" => target[u] # target[t]

\* No call waits without a waker somebody can use: its sender is in the queue
\* or in the hands of a task about to send on it, so the receiver of
\* acquire_with_timeout never resolves with a closed channel.
WaiterHasWaker ==
    \A r \in Requests : pc[r] = "waiting" =>
        \/ r \in Queued
        \/ \E t \in Requests : pc[t] = "sending" /\ target[t] = r

\* Between enqueueing and answer every call has one waker, with one owner that
\* may still use it (acquire_with_timeout and release_and_wake, whatever a
\* timeout or a disconnect does in between).
OneWakerEach == WakerOwnership /\ WaiterHasWaker

-----------------------------------------------------------------------------
(* Liveness.                                                               *)

InCall == {"enqueueing", "waiting", "woken", "expired"}

\* Every call of acquire_with_timeout returns (or is dropped by its client),
\* even when the wake-up meant for it is lost.
EveryCallReturns == \A r \in Requests : pc[r] \in InCall ~> pc[r] \notin InCall

-----------------------------------------------------------------------------
(* What comments and documents say and the code does not do.               *)

\* THREAT_MODEL.md, F2: "Priority increases with wait time".  So, of two calls
\* with the same usage penalty, the one that has waited longer goes first.
LongerWaitFirst ==
    [][\A i, j \in DOMAIN queue :
          (i < j /\ queue[i].priority = queue[j].priority)
              => ~\E r \in Requests : DequeueBest(r) /\ target'[r] = queue[j].req]_vars
=============================================================================
