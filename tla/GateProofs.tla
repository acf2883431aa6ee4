------------------------------ MODULE GateProofs ------------------------------
(***************************************************************************)
(* Proofs about the concurrency gate for every set of requests, of         *)
(* priorities and of slot counts, and for any number of registrations.     *)
(*                                                                         *)
(* The limit is not inductive by itself: a guard of an earlier             *)
(* registration may decrement the counter of the present one.  GateInv     *)
(* relates the counter to the set of guards that it counted, from both     *)
(* sides, with the stale releases as the only slack.                       *)
(***************************************************************************)
EXTENDS GateRefinement, FiniteSetTheorems, SequenceTheorems, TLAPS

\* A guard remembers a registration that has happened.
EpochsPast == \A r \in Requests : epoch[r] <= gen

\* The gate's own bound, and its counter against the guards it counted.
CounterSound ==
    registered =>
        /\ inFlight <= maxSlots
        /\ inFlight <= Cardinality(Counted)
        /\ Cardinality(Counted) <= inFlight + stale

GateInv == TypeOK /\ EpochsPast /\ CounterSound

-----------------------------------------------------------------------------
\* Removing an element of a sequence leaves a sequence over the same set.
LEMMA RemoveAtType ==
    ASSUME NEW S, NEW s \in Seq(S), NEW i \in DOMAIN s
    PROVE  RemoveAt(s, i) \in Seq(S)
  BY DEF RemoveAt

\* The queue holds entries of requests.
LEMMA QueuedAreRequests ==
    ASSUME queue \in Seq(Entry), NEW i \in DOMAIN queue
    PROVE  queue[i].req \in Requests
<1>1. queue[i] \in Entry
  OBVIOUS
<1>. QED
  BY <1>1 DEF Entry

\* The counted guards are a finite set and have a natural cardinality.
LEMMA CountedFinite ==
    IsFiniteSet(Counted) /\ Cardinality(Counted) \in Nat
<1>1. Counted \subseteq Requests
  BY DEF Counted, Guards
<1>. QED
  BY <1>1, GateAssumption, FS_Subset, FS_CardinalityType

-----------------------------------------------------------------------------
\* Every variable keeps its type, whoever steps.
LEMMA TypeStep == TypeOK /\ [Next]_vars => TypeOK'
<1> SUFFICES ASSUME TypeOK, [Next]_vars PROVE TypeOK'
  OBVIOUS
<1> USE GateAssumption DEF TypeOK, gateVars, auxVars, Goto, PC
<1>1. ASSUME NEW r \in Requests, FastPath(r) PROVE TypeOK'
  BY <1>1 DEF FastPath, TakeSlot
<1>2. ASSUME NEW r \in Requests, Contended(r) PROVE TypeOK'
  BY <1>2 DEF Contended
<1>3. ASSUME NEW r \in Requests, Disconnect(r) PROVE TypeOK'
  BY <1>3 DEF Disconnect
<1>4. ASSUME NEW r \in Requests, DropGuard(r) PROVE TypeOK'
  BY <1>4 DEF DropGuard
<1>5. ASSUME NEW r \in Requests, NEW p \in Priorities, Enqueue(r, p) PROVE TypeOK'
  <2>1. [req |-> r, priority |-> p] \in Entry
    BY DEF Entry
  <2>. QED
    BY <2>1, <1>5 DEF Enqueue
<1>6. ASSUME NEW r \in Requests, ReAcquire(r) PROVE TypeOK'
  BY <1>6 DEF ReAcquire, TakeSlot
<1>7. ASSUME NEW r \in Requests, WokenTooLate(r) PROVE TypeOK'
  BY <1>7 DEF WokenTooLate
<1>8. ASSUME NEW r \in Requests, Expire(r) PROVE TypeOK'
  BY <1>8 DEF Expire
<1>9. ASSUME NEW r \in Requests, RemoveExpired(r) PROVE TypeOK'
  <2>1. queue' \in Seq(Entry)
    BY <1>9, RemoveAtType DEF RemoveExpired
  <2>. QED
    BY <2>1, <1>9 DEF RemoveExpired
<1>10. ASSUME NEW r \in Requests, Release(r) PROVE TypeOK'
  BY <1>10 DEF Release
<1>11. ASSUME NEW r \in Requests, DequeueBest(r) PROVE TypeOK'
  <2>1. PICK i \in DOMAIN queue :
            /\ Goto(r, "waking", "sending")
            /\ target' = [target EXCEPT ![r] = queue[i].req]
            /\ queue' = RemoveAt(queue, i)
            /\ UNCHANGED <<gateVars, auxVars>>
    BY <1>11 DEF DequeueBest
  <2>2. queue' \in Seq(Entry)
    BY <2>1, RemoveAtType
  <2>3. queue[i].req \in Requests
    BY QueuedAreRequests
  <2>. QED
    BY <2>1, <2>2, <2>3
<1>12. ASSUME NEW r \in Requests, NobodyWaiting(r) PROVE TypeOK'
  BY <1>12 DEF NobodyWaiting
<1>13. ASSUME NEW r \in Requests, SendWake(r) PROVE TypeOK'
  BY <1>13 DEF SendWake
<1>14. ASSUME NEW n \in SlotCounts, Register(n) PROVE TypeOK'
  BY <1>14 DEF Register
<1>15. CASE Unregister
  BY <1>15 DEF Unregister
<1>16. CASE UNCHANGED vars
  BY <1>16 DEF vars
<1>. QED
  BY <1>1, <1>2, <1>3, <1>4, <1>5, <1>6, <1>7, <1>8, <1>9, <1>10, <1>11,
     <1>12, <1>13, <1>14, <1>15, <1>16
     DEF Next, Serve, Lifecycle, Client, Progress

-----------------------------------------------------------------------------
\* A step that moves no call in or out of the counted guards and leaves the
\* gate's own variables alone preserves the relation between the two.
LEMMA QuietStep ==
    ASSUME CounterSound, EpochsPast, UNCHANGED <<registered, maxSlots, inFlight, gen, epoch, stale>>,
           Guards' = Guards
    PROVE  CounterSound' /\ EpochsPast'
<1>1. Counted' = Counted
  BY DEF Counted
<1>. QED
  BY <1>1 DEF CounterSound, EpochsPast

\* Moving a call that owns no guard to a place where it owns none.
LEMMA NoGuardMoves ==
    ASSUME TypeOK, NEW r \in Requests, NEW from, NEW to, Goto(r, from, to),
           (from \in {"holding", "releasing"}) = (to \in {"holding", "releasing"})
    PROVE  Guards' = Guards
  BY DEF Guards, Goto, TypeOK

\* Taking a slot makes the caller a counted guard, if the model is registered.
LEMMA TakeSlotStep ==
    ASSUME GateInv, NEW r \in Requests, NEW from \in {"idle", "woken"},
           Goto(r, from, "holding"), TakeSlot(r)
    PROVE  CounterSound' /\ EpochsPast'
<1> USE DEF GateInv, TypeOK, Goto, TakeSlot, SlotFree
<1>1. EpochsPast'
  BY DEF EpochsPast
<1>2. CASE registered
  <2>1. Counted' = Counted \cup {r} /\ r \notin Counted
    BY <1>2 DEF Counted, Guards
  <2>2. Cardinality(Counted') = Cardinality(Counted) + 1
    BY <2>1, CountedFinite, FS_AddElement
  <2>3. Cardinality(Counted) \in Nat /\ maxSlots \in Nat
    BY CountedFinite, GateAssumption
  <2>. QED
    BY <1>1, <1>2, <2>2, <2>3 DEF CounterSound
<1>3. CASE ~registered
  BY <1>1, <1>3 DEF CounterSound
<1>. QED
  BY <1>2, <1>3

\* A release moves the counter by at most one towards zero, and either takes
\* one guard out of those it counted or is one more stale release.
LEMMA ReleaseStep ==
    ASSUME GateInv, NEW r \in Requests, Release(r)
    PROVE  CounterSound' /\ EpochsPast'
<1> USE DEF GateInv, TypeOK, Goto, Release
<1>1. EpochsPast'
  BY DEF EpochsPast
<1>2. Cardinality(Counted) \in Nat /\ maxSlots \in Nat
  BY CountedFinite, GateAssumption
<1>3. CASE epoch[r] = gen
  <2>1. Counted' = Counted \ {r} /\ r \in Counted
    BY <1>3 DEF Counted, Guards
  <2>2. Cardinality(Counted') = Cardinality(Counted) - 1
    BY <2>1, CountedFinite, FS_RemoveElement
  <2>3. Cardinality(Counted) >= 1
    BY <1>2, <2>1, CountedFinite, FS_EmptySet
  <2>. QED
    BY <1>1, <1>2, <1>3, <2>2, <2>3 DEF CounterSound
<1>4. CASE epoch[r] # gen
  <2>1. Counted' = Counted
    BY <1>4 DEF Counted, Guards
  <2>. QED
    BY <1>1, <1>2, <1>4, <2>1 DEF CounterSound
<1>. QED
  BY <1>3, <1>4

\* A new registration has counted nobody yet.
LEMMA RegisterStep ==
    ASSUME GateInv, NEW n \in SlotCounts, Register(n)
    PROVE  CounterSound' /\ EpochsPast'
<1> USE DEF GateInv, TypeOK, Register
<1>1. EpochsPast'
  BY DEF EpochsPast
<1>2. Counted' = {}
  BY DEF Counted, EpochsPast, Guards
<1>3. Cardinality(Counted') = 0
  BY <1>2, FS_EmptySet
<1>. QED
  BY <1>1, <1>3, GateAssumption DEF CounterSound

-----------------------------------------------------------------------------
\* One step of anybody preserves the invariant.
LEMMA GateStep == GateInv /\ [Next]_vars => GateInv'
<1> SUFFICES ASSUME GateInv, [Next]_vars PROVE GateInv'
  OBVIOUS
<1>0. TypeOK'
  BY TypeStep DEF GateInv
<1> SUFFICES CounterSound' /\ EpochsPast'
  BY <1>0 DEF GateInv
<1> USE DEF GateInv, gateVars, auxVars
<1>1. ASSUME NEW r \in Requests, FastPath(r) PROVE CounterSound' /\ EpochsPast'
  BY <1>1, TakeSlotStep DEF FastPath
<1>2. ASSUME NEW r \in Requests, ReAcquire(r) PROVE CounterSound' /\ EpochsPast'
  BY <1>2, TakeSlotStep DEF ReAcquire
<1>3. ASSUME NEW r \in Requests, Release(r) PROVE CounterSound' /\ EpochsPast'
  BY <1>3, ReleaseStep
<1>4. ASSUME NEW n \in SlotCounts, Register(n) PROVE CounterSound' /\ EpochsPast'
  BY <1>4, RegisterStep
<1>5. CASE Unregister
  BY <1>5 DEF Unregister, CounterSound, EpochsPast
<1>6. ASSUME NEW r \in Requests, Contended(r) PROVE CounterSound' /\ EpochsPast'
  BY <1>6, NoGuardMoves, QuietStep DEF Contended
<1>7. ASSUME NEW r \in Requests, Disconnect(r) PROVE CounterSound' /\ EpochsPast'
  BY <1>7, NoGuardMoves, QuietStep DEF Disconnect
<1>8. ASSUME NEW r \in Requests, DropGuard(r) PROVE CounterSound' /\ EpochsPast'
  BY <1>8, NoGuardMoves, QuietStep DEF DropGuard
<1>9. ASSUME NEW r \in Requests, NEW p \in Priorities, Enqueue(r, p)
      PROVE  CounterSound' /\ EpochsPast'
  BY <1>9, NoGuardMoves, QuietStep DEF Enqueue
<1>10. ASSUME NEW r \in Requests, WokenTooLate(r) PROVE CounterSound' /\ EpochsPast'
  BY <1>10, NoGuardMoves, QuietStep DEF WokenTooLate
<1>11. ASSUME NEW r \in Requests, Expire(r) PROVE CounterSound' /\ EpochsPast'
  BY <1>11, NoGuardMoves, QuietStep DEF Expire
<1>12. ASSUME NEW r \in Requests, RemoveExpired(r) PROVE CounterSound' /\ EpochsPast'
  BY <1>12, NoGuardMoves, QuietStep DEF RemoveExpired
<1>13. ASSUME NEW r \in Requests, DequeueBest(r) PROVE CounterSound' /\ EpochsPast'
  BY <1>13, NoGuardMoves, QuietStep DEF DequeueBest
<1>14. ASSUME NEW r \in Requests, NobodyWaiting(r) PROVE CounterSound' /\ EpochsPast'
  BY <1>14, NoGuardMoves, QuietStep DEF NobodyWaiting
<1>15. ASSUME NEW r \in Requests, SendWake(r) PROVE CounterSound' /\ EpochsPast'
  <2>1. Guards' = Guards
    BY <1>15 DEF SendWake, Guards, TypeOK
  <2>. QED
    BY <1>15, <2>1, QuietStep DEF SendWake
<1>16. CASE UNCHANGED vars
  <2>1. Guards' = Guards
    BY <1>16 DEF vars, Guards
  <2>. QED
    BY <1>16, <2>1, QuietStep DEF vars
<1>. QED
  BY <1>1, <1>2, <1>3, <1>4, <1>5, <1>6, <1>7, <1>8, <1>9, <1>10, <1>11,
     <1>12, <1>13, <1>14, <1>15, <1>16
     DEF Next, Serve, Lifecycle, Client, Progress

LEMMA InitGateInv == Init => GateInv
<1> SUFFICES ASSUME Init PROVE GateInv
  OBVIOUS
<1>1. TypeOK
  <2>1. queue \in Seq(Entry)
    BY DEF Init, Idle
  <2>2. /\ pc \in [Requests -> PC]
        /\ target \in [Requests -> Requests]
        /\ epoch \in [Requests -> Nat]
    BY DEF Init, Idle, PC
  <2>. QED
    BY <2>1, <2>2 DEF Init, Idle, TypeOK
<1>. QED
  BY <1>1 DEF Init, Idle, GateInv, EpochsPast, CounterSound

\* The gate's invariant holds of every behaviour, for any number of calls,
\* registrations and slots.
THEOREM GateInvariant == Spec => []GateInv
  BY InitGateInv, GateStep, PTL DEF Spec

\* Type correctness of the gate, its queue and its calls.
THEOREM GateTypes == Spec => []TypeOK
<1>1. GateInv => TypeOK
  BY DEF GateInv
<1>. QED
  BY <1>1, GateInvariant, PTL

\* What is counted in flight is owned by a guard that will be released, so no
\* sequence of starts, stops, wake-ups and disconnects loses a slot for good.
THEOREM GateLosesNoSlot == Spec => []NoSlotLeak
<1>1. GateInv => NoSlotLeak
  BY DEF GateInv, CounterSound, NoSlotLeak
<1>. QED
  BY <1>1, GateInvariant, PTL

\* The backend's limit is exceeded by at most as many guards as there have
\* been stale releases since it was registered.
THEOREM GateOvershoot == Spec => []OvershootBounded
<1>1. GateInv => OvershootBounded
  <2> SUFFICES ASSUME GateInv, registered
               PROVE  Cardinality(Counted) <= maxSlots + stale
    BY DEF OvershootBounded
  <2>1. Cardinality(Counted) \in Nat /\ maxSlots \in Nat /\ stale \in Nat /\ inFlight \in Nat
    BY CountedFinite, GateAssumption DEF GateInv, TypeOK
  <2>. QED
    BY <2>1 DEF GateInv, CounterSound
<1>. QED
  BY <1>1, GateInvariant, PTL

-----------------------------------------------------------------------------
(* Wakers.  OneWakerEach is inductive once the types are known: a waker is *)
(* in the queue or with one releasing task, never in two places.           *)

\* An entry of the shortened queue is an entry of the old one, in order.
LEMMA RemoveAtElements ==
    ASSUME NEW S, NEW s \in Seq(S), NEW i \in DOMAIN s
    PROVE  /\ DOMAIN RemoveAt(s, i) = 1 .. (Len(s) - 1)
           /\ \A k \in 1 .. (Len(s) - 1) :
                 RemoveAt(s, i)[k] = IF k < i THEN s[k] ELSE s[k + 1]
<1> DEFINE n == Len(s)
           left == SubSeq(s, 1, i - 1)
           right == SubSeq(s, i + 1, n)
<1>1. n \in Nat /\ i \in 1 .. n /\ \A k \in 1 .. n : s[k] \in S
  OBVIOUS
<1>2. /\ left \in Seq(S) /\ Len(left) = i - 1
      /\ \A k \in 1 .. (i - 1) : left[k] = s[k]
  BY <1>1
<1>3. /\ right \in Seq(S) /\ Len(right) = n - i
      /\ \A k \in 1 .. (n - i) : right[k] = s[i + k]
  <2>1. i + 1 \in Int /\ n \in Int /\ \A k \in (i + 1) .. n : s[k] \in S
    BY <1>1
  <2>2. /\ right \in Seq(S)
        /\ Len(right) = IF i + 1 <= n THEN n - (i + 1) + 1 ELSE 0
        /\ \A k \in 1 .. (n - (i + 1) + 1) : right[k] = s[(i + 1) + k - 1]
    BY <2>1, SubSeqProperties
  <2>. QED
    BY <1>1, <2>2
<1>4. RemoveAt(s, i) = left \o right
  BY DEF RemoveAt
<1>5. /\ left \o right \in Seq(S)
      /\ Len(left \o right) = Len(left) + Len(right)
      /\ \A k \in 1 .. (Len(left) + Len(right)) :
            (left \o right)[k]
               = IF k <= Len(left) THEN left[k] ELSE right[k - Len(left)]
  BY <1>2, <1>3, ConcatProperties
<1> HIDE DEF n, left, right
<1>6. Len(left) + Len(right) = n - 1
  BY <1>1, <1>2, <1>3
<1>7. ASSUME NEW k \in 1 .. (n - 1)
      PROVE  (left \o right)[k] = IF k < i THEN s[k] ELSE s[k + 1]
  <2>1. CASE k < i
    <3>1. k \in 1 .. (Len(left) + Len(right)) /\ k <= Len(left) /\ k \in 1 .. (i - 1)
      BY <1>1, <1>2, <1>6, <2>1
    <3>2. (left \o right)[k] = left[k] /\ left[k] = s[k]
      BY ONLY <1>2, <1>5, <3>1
    <3>. QED
      BY <2>1, <3>2
  <2>2. CASE k >= i
    <3>1. k - (i - 1) \in 1 .. (n - i) /\ i + (k - (i - 1)) = k + 1
      BY <1>1, <2>2
    <3>2. (left \o right)[k] = right[k - (i - 1)]
      <4>1. /\ k \in 1 .. (Len(left) + Len(right)) /\ ~(k <= Len(left))
            /\ k - Len(left) = k - (i - 1)
        BY <1>1, <1>2, <1>6, <2>2
      <4>. QED
        BY ONLY <1>5, <4>1
    <3>3. right[k - (i - 1)] = s[i + (k - (i - 1))]
      BY ONLY <1>3, <3>1
    <3>4. (left \o right)[k] = s[k + 1]
      BY ONLY <3>1, <3>2, <3>3
    <3>5. ~(k < i)
      BY ONLY <1>1, <2>2, k \in 1 .. (n - 1)
    <3>. QED
      BY <3>4, <3>5
  <2>3. k < i \/ k >= i
    BY <1>1
  <2>. QED
    BY <2>1, <2>2, <2>3
<1>8. DOMAIN (left \o right) = 1 .. (n - 1)
  BY <1>5, <1>6
<1>. QED
  BY <1>4, <1>7, <1>8 DEF n

OneEntry == \A i, j \in DOMAIN queue : queue[i].req = queue[j].req => i = j

\* Removing the only entry of a call leaves exactly the other calls queued.
LEMMA QueueShrinks ==
    ASSUME TypeOK, OneEntry, NEW i \in DOMAIN queue, queue' = RemoveAt(queue, i)
    PROVE  OneEntry' /\ Queued' = Queued \ {queue[i].req}
<1> DEFINE n == Len(queue)
<1>1. queue \in Seq(Entry) /\ n \in Nat /\ DOMAIN queue = 1 .. n /\ i \in 1 .. n
  BY DEF TypeOK
<1>2. /\ DOMAIN queue' = 1 .. (n - 1)
      /\ \A k \in 1 .. (n - 1) : queue'[k] = IF k < i THEN queue[k] ELSE queue[k + 1]
  BY <1>1, RemoveAtElements
<1>3. \A k \in 1 .. (n - 1) : \E m \in 1 .. n : m # i /\ queue'[k] = queue[m]
  BY <1>1, <1>2
<1>4. \A m \in 1 .. n : m # i => \E k \in 1 .. (n - 1) : queue'[k] = queue[m]
  <2> SUFFICES ASSUME NEW m \in 1 .. n, m # i
               PROVE  \E k \in 1 .. (n - 1) : queue'[k] = queue[m]
    OBVIOUS
  <2>1. CASE m < i
    BY <1>1, <1>2, <2>1
  <2>2. CASE m > i
    <3>1. m - 1 \in 1 .. (n - 1) /\ ~(m - 1 < i) /\ (m - 1) + 1 = m
      BY <1>1, <2>2
    <3> QED
      BY <1>2, <3>1
  <2> QED
    BY <1>1, <2>1, <2>2
<1>5. OneEntry'
  <2> SUFFICES ASSUME NEW k \in 1 .. (n - 1), NEW m \in 1 .. (n - 1), queue'[k].req = queue'[m].req
               PROVE  k = m
    BY <1>2 DEF OneEntry
  <2> DEFINE At(j) == IF j < i THEN j ELSE j + 1
  <2>1. At(k) \in 1 .. n /\ At(m) \in 1 .. n /\ queue'[k] = queue[At(k)] /\ queue'[m] = queue[At(m)]
    BY <1>1, <1>2
  <2>2. At(k) = At(m)
    BY <1>1, <2>1 DEF OneEntry
  <2> QED
    BY <1>1, <2>2
<1>6. Queued' = Queued \ {queue[i].req}
  <2>1. ASSUME NEW r PROVE r \in Queued' <=> r \in Queued \ {queue[i].req}
    <3>1. r \in Queued' <=> \E k \in 1 .. (n - 1) : queue'[k].req = r
      BY <1>2 DEF Queued
    <3>2. r \in Queued <=> \E k \in 1 .. n : queue[k].req = r
      BY <1>1 DEF Queued
    <3>3. \A k \in 1 .. n : k # i => queue[k].req # queue[i].req
      BY <1>1 DEF OneEntry
    <3>4. ASSUME r \in Queued' PROVE r \in Queued /\ r # queue[i].req
      BY <1>3, <3>1, <3>2, <3>3, <3>4
    <3>5. ASSUME r \in Queued, r # queue[i].req PROVE r \in Queued'
      BY <1>4, <3>1, <3>2, <3>5
    <3>. QED
      BY <3>4, <3>5
  <2>. QED
    BY <2>1
<1>. QED
  BY <1>5, <1>6

LEMMA QueuedRequests == TypeOK => Queued \subseteq Requests
  BY QueuedAreRequests DEF TypeOK, Queued

WakerInv == GateInv /\ OneWakerEach

\* A move between places that have nothing to do with wakers.
LEMMA WakersUntouched ==
    ASSUME WakerInv, UNCHANGED <<queue, target>>, NEW r \in Requests, NEW from, NEW to,
           Goto(r, from, to),
           \/ from \in {"idle", "holding", "releasing", "enqueueing"}
           \/ from = "waking" /\ to = "served"
           \/ from = "woken"
           \/ from = "waiting" /\ to \in {"expired", "gone"}
           \/ from = "expired" /\ to = "gone",
           from # "sending", to \notin {"waiting", "sending"}
    PROVE  OneWakerEach'
<1>1. /\ pc[r] = from /\ pc'[r] = to /\ \A q \in Requests \ {r} : pc'[q] = pc[q]
      /\ target \in [Requests -> Requests]
  BY DEF Goto, WakerInv, GateInv, TypeOK
<1>2. Queued' = Queued /\ Queued \subseteq Requests
  BY QueuedRequests DEF Queued, WakerInv, GateInv
<1>3. \A t \in Requests : pc'[t] = "sending" <=> pc[t] = "sending"
  BY <1>1
<1>4. WakerOwnership'
  BY <1>1, <1>2, <1>3 DEF WakerInv, OneWakerEach, WakerOwnership
<1>5. WaiterHasWaker'
  BY <1>1, <1>2, <1>3 DEF WakerInv, OneWakerEach, WaiterHasWaker
<1>. QED
  BY <1>4, <1>5 DEF OneWakerEach

LEMMA EnqueueStep ==
    ASSUME WakerInv, NEW r \in Requests, NEW p \in Priorities, Enqueue(r, p)
    PROVE  OneWakerEach'
<1> DEFINE e == [req |-> r, priority |-> p]
<1>1. /\ pc[r] = "enqueueing" /\ pc'[r] = "waiting" /\ \A q \in Requests \ {r} : pc'[q] = pc[q]
      /\ target \in [Requests -> Requests] /\ target' = target
      /\ queue \in Seq(Entry) /\ queue' = Append(queue, e) /\ e \in Entry
  BY DEF Enqueue, Goto, WakerInv, GateInv, TypeOK, Entry
<1>2. Queued \subseteq Requests /\ r \notin Queued
  BY <1>1, QueuedRequests DEF WakerInv, GateInv, OneWakerEach, WakerOwnership
<1>3. /\ DOMAIN queue' = 1 .. (Len(queue) + 1) /\ queue'[Len(queue) + 1] = e
      /\ \A k \in 1 .. Len(queue) : queue'[k] = queue[k]
      /\ Len(queue) \in Nat /\ DOMAIN queue = 1 .. Len(queue)
  BY <1>1
<1>4. Queued' = Queued \cup {r}
  <2>1. \A q : q \in Queued' <=> (q \in Queued \/ q = r)
    BY <1>3 DEF Queued
  <2>. QED
    BY <2>1
<1>5. OneEntry'
  <2>1. OneEntry /\ \A k \in 1 .. Len(queue) : queue[k].req # r
    BY <1>2, <1>3 DEF WakerInv, OneWakerEach, WakerOwnership, OneEntry, Queued
  <2>. QED
    BY <1>3, <2>1 DEF OneEntry
<1>6. WakerOwnership'
  BY <1>1, <1>2, <1>4, <1>5 DEF WakerInv, OneWakerEach, WakerOwnership, OneEntry
<1>7. WaiterHasWaker'
  BY <1>1, <1>4 DEF WakerInv, OneWakerEach, WaiterHasWaker
<1>. QED
  BY <1>6, <1>7 DEF OneWakerEach

LEMMA RemoveExpiredStep ==
    ASSUME WakerInv, NEW r \in Requests, RemoveExpired(r)
    PROVE  OneWakerEach'
<1>1. /\ pc[r] = "expired" /\ pc'[r] = "refused" /\ \A q \in Requests \ {r} : pc'[q] = pc[q]
      /\ target \in [Requests -> Requests] /\ target' = target
  BY DEF RemoveExpired, Goto, WakerInv, GateInv, TypeOK
<1>2. OneEntry' /\ Queued' = Queued \ {r}
  <2>1. CASE \E i \in DOMAIN queue : queue[i].req = r /\ queue' = RemoveAt(queue, i)
    BY <2>1, QueueShrinks DEF WakerInv, GateInv, OneWakerEach, WakerOwnership, OneEntry
  <2>2. CASE r \notin Queued /\ UNCHANGED queue
    BY <2>2 DEF WakerInv, OneWakerEach, WakerOwnership, OneEntry, Queued
  <2>. QED
    BY <2>1, <2>2 DEF RemoveExpired
<1>3. Queued \subseteq Requests
  BY QueuedRequests DEF WakerInv, GateInv
<1>4. WakerOwnership'
  BY <1>1, <1>2, <1>3 DEF WakerInv, OneWakerEach, WakerOwnership, OneEntry
<1>5. WaiterHasWaker'
  BY <1>1, <1>2 DEF WakerInv, OneWakerEach, WaiterHasWaker
<1>. QED
  BY <1>4, <1>5 DEF OneWakerEach

\* The waker leaves the queue and is in the hands of one task.
LEMMA DequeueStep ==
    ASSUME WakerInv, NEW r \in Requests, DequeueBest(r)
    PROVE  OneWakerEach'
<1>1. PICK i \in DOMAIN queue :
          /\ Goto(r, "waking", "sending")
          /\ target' = [target EXCEPT ![r] = queue[i].req]
          /\ queue' = RemoveAt(queue, i)
  BY DEF DequeueBest
<1> DEFINE q == queue[i].req
<1>2. q \in Requests /\ q \in Queued
  BY QueuedAreRequests DEF WakerInv, GateInv, TypeOK, Queued
<1>3. /\ pc[r] = "waking" /\ pc'[r] = "sending" /\ target'[r] = q
      /\ \A u \in Requests \ {r} : pc'[u] = pc[u] /\ target'[u] = target[u]
  BY <1>1 DEF Goto, WakerInv, GateInv, TypeOK
<1>4. OneEntry' /\ Queued' = Queued \ {q}
  BY <1>1, QueueShrinks DEF WakerInv, GateInv, OneWakerEach, WakerOwnership, OneEntry
<1>5. Queued \subseteq Requests /\ target \in [Requests -> Requests]
  BY QueuedRequests DEF WakerInv, GateInv, TypeOK
<1>6. pc[q] \in {"waiting", "expired", "gone"} /\ q # r
  BY <1>2, <1>3 DEF WakerInv, OneWakerEach, WakerOwnership
<1>7. \A t \in Requests \ {r} : pc'[t] = "sending" => target'[t] # q /\ target'[t] \notin Queued
  BY <1>2, <1>3 DEF WakerInv, OneWakerEach, WakerOwnership
<1>8. WakerOwnership'
  <2>1. \A x \in Queued' : pc'[x] \in {"waiting", "expired", "gone"}
    BY <1>3, <1>4, <1>5 DEF WakerInv, OneWakerEach, WakerOwnership
  <2>2. \A t \in Requests : pc'[t] = "sending" =>
            /\ target'[t] \notin Queued'
            /\ pc'[target'[t]] \in {"waiting", "expired", "refused", "gone"}
    <3>2. ASSUME NEW t \in Requests, pc'[t] = "sending"
          PROVE  pc'[target'[t]] \in {"waiting", "expired", "refused", "gone"}
      <4>1. CASE t = r
        BY <1>2, <1>3, <1>6, <4>1
      <4>2. CASE t # r
        BY <1>3, <1>5, <3>2, <4>2 DEF WakerInv, OneWakerEach, WakerOwnership
      <4>. QED
        BY <4>1, <4>2
    <3>. QED
      BY <1>3, <1>4, <1>7, <3>2
  <2>3. \A t, u \in Requests : t # u /\ pc'[t] = "sending" /\ pc'[u] = "sending"
                                => target'[u] # target'[t]
    BY <1>3, <1>7 DEF WakerInv, OneWakerEach, WakerOwnership
  <2>. QED
    BY <1>4, <2>1, <2>2, <2>3 DEF WakerOwnership, OneEntry
<1>9. WaiterHasWaker'
  BY <1>3, <1>4 DEF WakerInv, OneWakerEach, WaiterHasWaker
<1>. QED
  BY <1>8, <1>9 DEF OneWakerEach

\* The task is done; the call it woke has no waker left, and needs none.
LEMMA SendStep ==
    ASSUME WakerInv, NEW r \in Requests, SendWake(r)
    PROVE  OneWakerEach'
<1>1. /\ pc[r] = "sending" /\ pc'[r] = "served" /\ UNCHANGED <<queue, target>>
      /\ \A q \in Requests \ {r} :
            pc'[q] = IF q = target[r] /\ pc[q] = "waiting" THEN "woken" ELSE pc[q]
      /\ target \in [Requests -> Requests]
  BY DEF SendWake, WakerInv, GateInv, TypeOK
<1>2. Queued' = Queued /\ Queued \subseteq Requests /\ target[r] \notin Queued /\ r \notin Queued
  BY <1>1, QueuedRequests DEF Queued, WakerInv, GateInv, OneWakerEach, WakerOwnership
<1>3. \A t \in Requests : pc'[t] = "sending" <=> pc[t] = "sending" /\ t # r
  BY <1>1
<1>4. WakerOwnership'
  BY <1>1, <1>2, <1>3 DEF WakerInv, OneWakerEach, WakerOwnership
<1>5. WaiterHasWaker'
  BY <1>1, <1>2, <1>3 DEF WakerInv, OneWakerEach, WaiterHasWaker
<1>. QED
  BY <1>4, <1>5 DEF OneWakerEach

LEMMA WakerStep == WakerInv /\ [Next]_vars => WakerInv'
<1> SUFFICES ASSUME WakerInv, [Next]_vars PROVE OneWakerEach'
  BY GateStep DEF WakerInv
<1>1. ASSUME NEW r \in Requests, Client(r) PROVE OneWakerEach'
  BY <1>1, WakersUntouched DEF Client, FastPath, Contended, Disconnect, DropGuard
<1>2. ASSUME NEW r \in Requests, Progress(r) PROVE OneWakerEach'
  <2>1. CASE ReAcquire(r) \/ WokenTooLate(r) \/ Expire(r) \/ Release(r) \/ NobodyWaiting(r)
    BY <2>1, WakersUntouched DEF ReAcquire, WokenTooLate, Expire, Release, NobodyWaiting
  <2>. QED
    BY <1>2, <2>1, EnqueueStep, RemoveExpiredStep, DequeueStep, SendStep DEF Progress
<1>3. CASE Lifecycle \/ UNCHANGED vars
  <2>1. UNCHANGED <<queue, pc, target>>
    BY <1>3 DEF Lifecycle, Register, Unregister, vars
  <2>. QED
    BY <2>1 DEF WakerInv, OneWakerEach, WakerOwnership, WaiterHasWaker, Queued
<1>. QED
  BY <1>1, <1>2, <1>3 DEF Next, Serve

LEMMA InitWakers == Init => WakerInv
<1> SUFFICES ASSUME Init PROVE OneWakerEach
  BY InitGateInv DEF WakerInv
<1>1. queue = <<>> /\ \A r \in Requests : pc[r] = "idle"
  BY DEF Init, Idle
<1>2. Queued = {} /\ DOMAIN queue = {}
  BY <1>1 DEF Queued
<1>. QED
  BY <1>1, <1>2 DEF OneWakerEach, WakerOwnership, WaiterHasWaker

\* A call that has been enqueued is woken by one release at most, and waits only
\* while a waker for it exists, whatever timeouts and disconnects do to the queue
\* (enqueue, retain and dequeue of scheduler/queue.rs, release_and_wake).
THEOREM GateWakersOwned == Spec => []OneWakerEach
<1>1. WakerInv => OneWakerEach
  BY DEF WakerInv
<1>. QED
  BY <1>1, InitWakers, WakerStep, PTL DEF Spec

-----------------------------------------------------------------------------
(* One started backend: no registration is lost, so nothing is stale.      *)

\* Every guard is one the present registration counted.
SteadyInv ==
    /\ GateInv
    /\ registered
    /\ maxSlots \in SlotCounts
    /\ stale = 0
    /\ \A r \in Guards : epoch[r] = gen

\* No more guards than the backend has slots.
GuardsWithinSlots == Cardinality(Guards) <= maxSlots

LEMMA SteadyBound == SteadyInv => Cardinality(Guards) <= inFlight /\ GuardsWithinSlots
<1> SUFFICES ASSUME SteadyInv PROVE Cardinality(Guards) <= inFlight /\ GuardsWithinSlots
  OBVIOUS
<1>1. Counted = Guards
  BY DEF SteadyInv, Counted
<1>2. /\ Cardinality(Counted) \in Nat /\ maxSlots \in Nat /\ inFlight \in Nat
      /\ Cardinality(Counted) <= inFlight /\ inFlight <= maxSlots
  BY CountedFinite, GateAssumption DEF SteadyInv, GateInv, CounterSound, TypeOK
<1>. QED
  BY <1>1, <1>2 DEF GuardsWithinSlots

LEMMA SteadyStep == SteadyInv /\ [Serve]_vars => SteadyInv'
<1> SUFFICES ASSUME SteadyInv, [Serve]_vars PROVE SteadyInv'
  OBVIOUS
<1>1. GateInv'
  BY GateStep DEF SteadyInv, Next
<1> SUFFICES registered' /\ maxSlots' \in SlotCounts /\ stale' = 0
             /\ \A r \in Guards' : epoch'[r] = gen'
  BY <1>1 DEF SteadyInv
<1> USE DEF SteadyInv, GateInv, TypeOK, gateVars, auxVars, Goto, Guards
<1>2. ASSUME NEW r \in Requests, Client(r)
      PROVE  registered' /\ maxSlots' \in SlotCounts /\ stale' = 0
             /\ \A q \in Guards' : epoch'[q] = gen'
  <2>1. CASE FastPath(r)
    BY <2>1 DEF FastPath, TakeSlot
  <2>2. CASE Contended(r)
    BY <2>2 DEF Contended
  <2>3. CASE Disconnect(r)
    BY <2>3 DEF Disconnect
  <2>4. CASE DropGuard(r)
    BY <2>4 DEF DropGuard
  <2>. QED
    BY <1>2, <2>1, <2>2, <2>3, <2>4 DEF Client
<1>3. ASSUME NEW r \in Requests, Progress(r)
      PROVE  registered' /\ maxSlots' \in SlotCounts /\ stale' = 0
             /\ \A q \in Guards' : epoch'[q] = gen'
  <2>1. ASSUME NEW p \in Priorities, Enqueue(r, p)
        PROVE  registered' /\ maxSlots' \in SlotCounts /\ stale' = 0
               /\ \A q \in Guards' : epoch'[q] = gen'
    BY <2>1 DEF Enqueue
  <2>2. CASE ReAcquire(r)
    BY <2>2 DEF ReAcquire, TakeSlot
  <2>3. CASE WokenTooLate(r)
    BY <2>3 DEF WokenTooLate
  <2>4. CASE Expire(r)
    BY <2>4 DEF Expire
  <2>5. CASE RemoveExpired(r)
    BY <2>5 DEF RemoveExpired
  <2>6. CASE Release(r)
    BY <2>6 DEF Release
  <2>7. CASE DequeueBest(r)
    BY <2>7 DEF DequeueBest
  <2>8. CASE NobodyWaiting(r)
    BY <2>8 DEF NobodyWaiting
  <2>9. CASE SendWake(r)
    BY <2>9 DEF SendWake
  <2>. QED
    BY <1>3, <2>1, <2>2, <2>3, <2>4, <2>5, <2>6, <2>7, <2>8, <2>9 DEF Progress
<1>4. CASE UNCHANGED vars
  BY <1>4 DEF vars
<1>. QED
  BY <1>2, <1>3, <1>4 DEF Serve

LEMMA SteadyInitInv == SteadyInit => SteadyInv
<1> SUFFICES ASSUME SteadyInit PROVE SteadyInv
  OBVIOUS
<1>1. queue \in Seq(Entry)
  BY DEF SteadyInit, Idle
<1>2. /\ pc \in [Requests -> PC]
      /\ target \in [Requests -> Requests]
      /\ epoch \in [Requests -> Nat]
  BY DEF SteadyInit, Idle, PC
<1>3. TypeOK
  BY <1>1, <1>2 DEF SteadyInit, Idle, TypeOK
<1>4. Guards = {} /\ Counted = {}
  BY DEF SteadyInit, Idle, Guards, Counted
<1>5. Cardinality(Counted) = 0
  BY <1>4, FS_EmptySet
<1>. QED
  BY <1>3, <1>4, <1>5, GateAssumption
     DEF SteadyInit, Idle, SteadyInv, GateInv, EpochsPast, CounterSound

\* While a backend runs, at most max_slots guards exist at any time.
THEOREM SteadyLimit == SteadySpec => []GuardsWithinSlots
  BY SteadyInitInv, SteadyStep, SteadyBound, PTL DEF SteadySpec

-----------------------------------------------------------------------------
(* The gate implements Admission, whatever is registered meanwhile.        *)

\* What the abstract admission calls granted are the covered guards.
LEMMA GrantedAreCovered == TypeOK => A!Granted = Covered
<1> SUFFICES ASSUME TypeOK PROVE A!Granted = Covered
  OBVIOUS
<1>1. Covered \subseteq Guards
  BY DEF Covered, Counted
<1>2. ASSUME NEW r \in Requests PROVE (Seen[r] = "granted") <=> (r \in Guards /\ r \in Covered)
  <2>1. pc[r] \in PC
    BY DEF TypeOK
  <2>. QED
    BY <2>1 DEF Seen, StatusOf, PC, InCall, Guards
<1>. QED
  BY <1>1, <1>2 DEF A!Granted, Guards

\* The abstract module counts with the same operator.
LEMMA SameCount == ASSUME NEW S PROVE A!Cardinality(S) = Cardinality(S)
  BY DEF A!Cardinality, Cardinality

\* A call that moves, while no registration and no other guard's epoch changes,
\* changes what its own client sees and nothing else.
LEMMA SeenMove ==
    ASSUME TypeOK, NEW r \in Requests, NEW from, NEW to, Goto(r, from, to),
           UNCHANGED <<registered, gen>>, \A q \in Requests \ {r} : epoch'[q] = epoch[q]
    PROVE  Seen' = [Seen EXCEPT ![r] = StatusOf(r)']
<1>1. ASSUME NEW q \in Requests, q # r PROVE StatusOf(q)' = StatusOf(q)
  <2>1. pc'[q] = pc[q]
    BY <1>1 DEF Goto, TypeOK
  <2>2. (q \in Guards)' <=> q \in Guards
    BY <2>1 DEF Guards
  <2>3. (q \in Covered)' <=> q \in Covered
    BY <1>1, <2>2 DEF Covered, Counted
  <2>. QED
    BY <2>1, <2>2, <2>3 DEF StatusOf, InCall
<1>. QED
  BY <1>1 DEF Seen

\* What the abstract module sees of the limit depends on these variables only.
LEMMA AllowanceKept ==
    ASSUME UNCHANGED <<registered, maxSlots, stale>>
    PROVE  Allowance' = Allowance /\ (~registered)' = ~registered
  BY DEF Allowance

\* A move between two places the client cannot tell apart.
LEMMA InvisibleMove ==
    ASSUME TypeOK, NEW r \in Requests, NEW from, NEW to, Goto(r, from, to),
           UNCHANGED <<gateVars, auxVars>>,
           \/ from \in InCall /\ to \in InCall
           \/ from \in {"holding", "releasing"} /\ to \in {"holding", "releasing"}
           \/ from \in {"waking", "sending", "served"} /\ to \in {"waking", "sending", "served"}
    PROVE  UNCHANGED A!avars
<1> USE DEF gateVars, auxVars
<1>1. pc[r] = from /\ pc'[r] = to
  BY DEF Goto, TypeOK
<1>2. (r \in Guards)' <=> r \in Guards
  BY <1>1 DEF Guards, InCall
<1>3. (r \in Covered)' <=> r \in Covered
  BY <1>2 DEF Covered, Counted
<1>4. StatusOf(r)' = StatusOf(r)
  BY <1>1, <1>2, <1>3 DEF StatusOf, InCall, Guards
<1>5. Seen' = Seen
  BY <1>4, SeenMove DEF Seen
<1>. QED
  BY <1>5, AllowanceKept DEF A!avars

\* A call that asked is answered, or a new one asks: one abstract move.
LEMMA VisibleMove ==
    ASSUME TypeOK, NEW r \in Requests, NEW from, NEW to, Goto(r, from, to),
           UNCHANGED <<gateVars, auxVars>>,
           \/ from = "idle" /\ to = "enqueueing"
           \/ from \in InCall /\ to \in {"refused", "gone"}
    PROVE  A!ANext
<1> USE DEF gateVars, auxVars
<1>1. pc[r] = from /\ pc'[r] = to
  BY DEF Goto, TypeOK
<1>2. Seen' = [Seen EXCEPT ![r] = StatusOf(r)'] /\ Seen[r] = StatusOf(r)
  BY SeenMove DEF Seen
<1>3. CASE from = "idle" /\ to = "enqueueing"
  <2>1. StatusOf(r) = "new" /\ StatusOf(r)' = "asked"
    BY <1>1, <1>3 DEF StatusOf, InCall, Guards
  <2>. QED
    BY <1>2, <2>1, AllowanceKept DEF A!ANext, A!Ask, A!Move
<1>4. CASE from \in InCall /\ to = "refused"
  <2>1. StatusOf(r) = "asked" /\ StatusOf(r)' = "denied"
    BY <1>1, <1>4 DEF StatusOf, InCall, Guards
  <2>. QED
    BY <1>2, <2>1, AllowanceKept DEF A!ANext, A!Deny, A!Move
<1>5. CASE from \in InCall /\ to = "gone"
  <2>1. StatusOf(r) = "asked" /\ StatusOf(r)' = "abandoned"
    BY <1>1, <1>5 DEF StatusOf, InCall, Guards
  <2>. QED
    BY <1>2, <2>1, AllowanceKept DEF A!ANext, A!Abandon, A!Move
<1>. QED
  BY <1>3, <1>4, <1>5

\* Taking a slot is the abstract grant, under the limit or exempt from it.
LEMMA TakeSlotGrants ==
    ASSUME GateInv, NEW r \in Requests, NEW from \in {"idle", "woken"},
           Goto(r, from, "holding"), TakeSlot(r)
    PROVE  A!ANext
<1> USE DEF GateInv, TypeOK, TakeSlot
<1>1. pc[r] = from /\ pc'[r] = "holding"
  BY DEF Goto
<1>2. Seen' = [Seen EXCEPT ![r] = StatusOf(r)'] /\ Seen[r] = StatusOf(r)
  BY SeenMove DEF Seen
<1>3. StatusOf(r) \in {"new", "asked"}
  BY <1>1 DEF StatusOf, InCall, Guards
<1>4. Allowance' = Allowance /\ (~registered)' = ~registered
  BY AllowanceKept
<1>5. CASE registered
  <2>1. epoch'[r] = gen /\ gen' = gen /\ registered'
    BY <1>5
  <2>2. StatusOf(r)' = "granted"
    BY <1>1, <2>1 DEF StatusOf, InCall, Guards, Covered, Counted
  <2>3. Cardinality(A!Granted) < Allowance
    <3>1. Cardinality(Counted) \in Nat /\ maxSlots \in Nat /\ stale \in Nat /\ inFlight \in Nat
      BY CountedFinite, GateAssumption
    <3>2. Cardinality(Counted) <= inFlight + stale /\ inFlight < maxSlots
      BY <1>5 DEF CounterSound, SlotFree
    <3>3. A!Granted = Counted
      BY <1>5, GrantedAreCovered DEF Covered
    <3>. QED
      BY <1>5, <3>1, <3>2, <3>3 DEF Allowance
  <2>. QED
    BY <1>2, <1>3, <1>4, <1>5, <2>2, <2>3, SameCount DEF A!ANext, A!Grant, A!Move
<1>6. CASE ~registered
  <2>1. StatusOf(r)' = "exempt"
    BY <1>1, <1>6 DEF StatusOf, InCall, Guards, Covered
  <2>. QED
    BY <1>2, <1>3, <1>4, <1>6, <2>1 DEF A!ANext, A!Grant, A!Move
<1>. QED
  BY <1>5, <1>6

\* A release finishes a granted call, or an exempt one whose slot is given back
\* to a limit it never counted against.
LEMMA ReleaseFinishes ==
    ASSUME GateInv, NEW r \in Requests, Release(r)
    PROVE  A!ANext
<1> USE DEF GateInv, TypeOK, Release
<1>1. pc[r] = "releasing" /\ pc'[r] = "waking"
  BY DEF Goto
<1>2. Seen' = [Seen EXCEPT ![r] = StatusOf(r)'] /\ Seen[r] = StatusOf(r)
  BY SeenMove DEF Seen
<1>3. StatusOf(r)' = "finished"
  BY <1>1 DEF StatusOf, InCall, Guards
<1>4. CASE r \in Covered
  <2>1. StatusOf(r) = "granted"
    BY <1>1, <1>4 DEF StatusOf, InCall, Guards
  <2>2. stale' = stale
    BY <1>4 DEF Covered, Counted
  <2>. QED
    BY <1>2, <1>3, <2>1, <2>2, AllowanceKept DEF A!ANext, A!Finish, A!Move
<1>5. CASE r \notin Covered
  <2>1. StatusOf(r) = "exempt"
    BY <1>1, <1>5 DEF StatusOf, InCall, Guards
  <2>2. Allowance' = IF ~registered THEN Allowance ELSE Allowance + 1
    <3>1. CASE registered
      <4>1. epoch[r] # gen
        BY <1>1, <1>5, <3>1 DEF Covered, Counted, Guards
      <4>2. maxSlots \in Nat
        BY GateAssumption
      <4>. QED
        BY <3>1, <4>1, <4>2 DEF Allowance
    <3>2. CASE ~registered
      BY <3>2 DEF Allowance
    <3>. QED
      BY <3>1, <3>2
  <2>3. A!FinishExempt(r)
    BY <1>2, <1>3, <2>1, <2>2 DEF A!FinishExempt, A!Move
  <2>. QED
    BY <2>3 DEF A!ANext
<1>. QED
  BY <1>4, <1>5

\* When a step leaves every call where it is and covers nobody afterwards, all
\* that was granted becomes exempt.
LEMMA NobodyCovered ==
    ASSUME TypeOK, UNCHANGED pc, Covered' = {}
    PROVE  Seen' = [r \in Requests |-> IF r \in A!Granted THEN "exempt" ELSE Seen[r]]
<1>1. ASSUME NEW r \in Requests
      PROVE  StatusOf(r)' = IF r \in A!Granted THEN "exempt" ELSE Seen[r]
  <2>1. pc[r] \in PC /\ Seen[r] = StatusOf(r) /\ A!Granted = Covered
    BY GrantedAreCovered DEF TypeOK, Seen
  <2>2. (r \in Guards)' <=> r \in Guards
    BY DEF Guards
  <2>3. r \in Covered => r \in Guards
    BY DEF Covered, Counted
  <2>. QED
    BY <2>1, <2>2, <2>3 DEF StatusOf, InCall, PC, Guards
<1>. QED
  BY <1>1 DEF Seen

LEMMA LifecycleReplaces == GateInv /\ Lifecycle => A!ANext
<1> SUFFICES ASSUME GateInv, Lifecycle PROVE A!ANext
  OBVIOUS
<1> USE DEF GateInv
<1>1. CASE Unregister
  <2>1. Covered' = {}
    BY <1>1 DEF Unregister, Covered
  <2>2. Allowance' = 0 /\ (~registered)' = TRUE
    BY <1>1 DEF Unregister, Allowance
  <2>3. A!Replace(TRUE, 0)
    BY <1>1, <2>1, <2>2, NobodyCovered DEF Unregister, A!Replace
  <2>. QED
    BY <2>3 DEF A!ANext
<1>2. ASSUME NEW n \in SlotCounts, Register(n) PROVE A!ANext
  <2>1. Counted' = {}
    BY <1>2 DEF Register, Counted, EpochsPast, Guards, TypeOK
  <2>2. Covered' = {}
    BY <2>1 DEF Covered
  <2>3. Allowance' = n /\ (~registered)' = FALSE
    BY <1>2, GateAssumption DEF Register, Allowance
  <2>4. A!Replace(FALSE, n)
    BY <1>2, <2>2, <2>3, NobodyCovered DEF Register, A!Replace
  <2>. QED
    BY <2>4 DEF A!ANext
<1>. QED
  BY <1>1, <1>2 DEF Lifecycle

LEMMA RefinementStep == GateInv /\ [Next]_vars => [A!ANext]_(A!avars)
<1> SUFFICES ASSUME GateInv, [Next]_vars PROVE A!ANext \/ UNCHANGED A!avars
  OBVIOUS
<1>0. TypeOK
  BY DEF GateInv
<1> USE <1>0 DEF InCall
<1>1. ASSUME NEW r \in Requests, Client(r) PROVE A!ANext \/ UNCHANGED A!avars
  <2>1. CASE FastPath(r)
    BY <2>1, TakeSlotGrants DEF FastPath
  <2>2. CASE Contended(r)
    BY <2>2, VisibleMove DEF Contended
  <2>3. CASE Disconnect(r)
    BY <2>3, VisibleMove DEF Disconnect
  <2>4. CASE DropGuard(r)
    BY <2>4, InvisibleMove DEF DropGuard
  <2>. QED
    BY <1>1, <2>1, <2>2, <2>3, <2>4 DEF Client
<1>2. ASSUME NEW r \in Requests, Progress(r) PROVE A!ANext \/ UNCHANGED A!avars
  <2>1. ASSUME NEW p \in Priorities, Enqueue(r, p) PROVE UNCHANGED A!avars
    BY <2>1, InvisibleMove DEF Enqueue
  <2>2. CASE ReAcquire(r)
    BY <2>2, TakeSlotGrants DEF ReAcquire
  <2>3. CASE WokenTooLate(r)
    BY <2>3, VisibleMove DEF WokenTooLate
  <2>4. CASE Expire(r)
    BY <2>4, InvisibleMove DEF Expire
  <2>5. CASE RemoveExpired(r)
    BY <2>5, VisibleMove DEF RemoveExpired
  <2>6. CASE Release(r)
    BY <2>6, ReleaseFinishes
  <2>7. CASE DequeueBest(r)
    BY <2>7, InvisibleMove DEF DequeueBest
  <2>8. CASE NobodyWaiting(r)
    BY <2>8, InvisibleMove DEF NobodyWaiting
  <2>9. CASE SendWake(r)
    <3>1. Guards' = Guards
      BY <2>9 DEF SendWake, Guards, TypeOK
    <3>2. Covered' = Covered
      BY <2>9, <3>1 DEF SendWake, Covered, Counted, gateVars, auxVars
    <3>3. ASSUME NEW q \in Requests PROVE StatusOf(q)' = StatusOf(q)
      BY <2>9, <3>1, <3>2 DEF SendWake, StatusOf, Guards, TypeOK
    <3>4. Seen' = Seen
      BY <3>3 DEF Seen
    <3>. QED
      BY <2>9, <3>4, AllowanceKept DEF SendWake, A!avars, gateVars, auxVars
  <2>. QED
    BY <1>2, <2>1, <2>2, <2>3, <2>4, <2>5, <2>6, <2>7, <2>8, <2>9 DEF Progress
<1>3. CASE Lifecycle
  BY <1>3, LifecycleReplaces
<1>4. CASE UNCHANGED vars
  BY <1>4 DEF vars, gateVars, auxVars, A!avars, Seen, StatusOf, Guards, Covered, Counted,
              Allowance
<1>. QED
  BY <1>1, <1>2, <1>3, <1>4 DEF Next, Serve

LEMMA RefinementInit == Init => A!AInit
<1> SUFFICES ASSUME Init PROVE A!AInit
  OBVIOUS
<1>1. \A r \in Requests : pc[r] = "idle"
  BY DEF Init, Idle
<1>2. Seen = [r \in Requests |-> "new"]
  BY <1>1 DEF Seen, StatusOf, InCall, Guards
<1>. QED
  BY <1>2 DEF Init, A!AInit, Allowance

\* Queue, wakers, timers and releasing tasks together behave like the plain
\* admission of at most so many calls as the present limit allows, through every
\* start and stop of the backend.
THEOREM GateImplementsAdmission == Spec => ImplementsAdmission
  BY InitGateInv, GateStep, RefinementInit, RefinementStep, PTL
     DEF Spec, ImplementsAdmission, A!ASafety
=============================================================================
