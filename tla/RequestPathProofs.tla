--------------------------- MODULE RequestPathProofs ---------------------------
(***************************************************************************)
(* Proofs about RequestPath, for every set of calls and users and every    *)
(* number of changes of the environment.                                   *)
(***************************************************************************)
EXTENDS RequestPath, FiniteSetTheorems, TLAPS

Held == {"granted", "exempt"}

\* Where a handler is decides what the gate has told it.
PlaceAndStatus ==
    \A r \in Calls :
        /\ at[r] \in {"new", "resolved", "allowed"} => status[r] = "new"
        /\ at[r] = "queued" => status[r] = "asked"
        /\ at[r] \in {"holding", "sent", "reading"} => status[r] \in Held

\* The backend works for nobody whose handler is not waiting for it, except for
\* streams that have been handed to their client.
WorkIsAwaited ==
    \A r \in work : at[r] \in {"sent", "reading"} \/ (r \in streams /\ at[r] = "returned")

LimitKept == ~open => Cardinality(Gate!Granted) <= limit

RequestInv == TypeOK /\ PlaceAndStatus /\ WorkIsAwaited /\ LimitKept /\ OnlyEarlierPass

\* A set of calls is finite, and no larger than one that contains it.
LEMMA FewerCalls ==
    ASSUME NEW S, NEW T, S \subseteq T, T \subseteq Calls
    PROVE  /\ IsFiniteSet(S) /\ Cardinality(S) \in Nat
           /\ Cardinality(T) \in Nat /\ Cardinality(S) <= Cardinality(T)
<1>1. IsFiniteSet(Calls)
  BY RequestAssumption
<1>2. IsFiniteSet(T)
  BY <1>1, FS_Subset
<1>3. IsFiniteSet(S) /\ Cardinality(S) <= Cardinality(T)
  BY <1>2, FS_Subset
<1>4. Cardinality(S) \in Nat /\ Cardinality(T) \in Nat
  BY <1>2, <1>3, FS_CardinalityType
<1> QED
  BY <1>3, <1>4

\* One more call counts one more at most.
LEMMA OneMoreCall ==
    ASSUME NEW S, NEW T, NEW r \in Calls, S \subseteq Calls, T \subseteq S \cup {r}
    PROVE  Cardinality(T) <= Cardinality(S) + 1
<1>1. IsFiniteSet(S) /\ Cardinality(S) \in Nat
  BY FewerCalls
<1>2. /\ Cardinality(S \cup {r}) \in Nat
      /\ Cardinality(S \cup {r}) <= Cardinality(S) + 1
  <2>1. Cardinality(S \cup {r}) = IF r \in S THEN Cardinality(S) ELSE Cardinality(S) + 1
    BY <1>1, FS_AddElement
  <2> QED
    BY <1>1, <2>1
<1>3. Cardinality(T) \in Nat /\ Cardinality(T) <= Cardinality(S \cup {r})
  BY FewerCalls
<1> QED
  BY <1>1, <1>2, <1>3

\* The abstract gate counts with the same operator.
LEMMA SameCount == ASSUME NEW S PROVE Gate!Cardinality(S) = Cardinality(S)
  BY DEF Gate!Cardinality, Cardinality

\* A step in which nobody is granted, under a limit that is not lowered, keeps
\* within it.
LEMMA NobodyEnters ==
    ASSUME LimitKept, limit \in Nat, limit' \in Nat, open' = open, limit <= limit',
           Gate!Granted' \subseteq Gate!Granted
    PROVE  LimitKept'
<1>1. Gate!Granted \subseteq Calls
  BY DEF Gate!Granted
<1>2. /\ Cardinality(Gate!Granted') \in Nat /\ Cardinality(Gate!Granted) \in Nat
      /\ Cardinality(Gate!Granted') <= Cardinality(Gate!Granted)
  BY <1>1, FewerCalls
<1> QED
  BY <1>2 DEF LimitKept

\* What the gate's steps do to one call's status.
LEMMA GateMove ==
    ASSUME TypeOK, NEW r \in Calls, NEW from, NEW to,
           Gate!Move(r, from, to),
           to \in {"asked", "granted", "exempt", "denied", "abandoned", "finished"}
    PROVE  /\ status' \in [Calls -> {"new", "asked", "granted", "exempt", "denied",
                                     "abandoned", "finished"}]
           /\ status[r] \in from /\ status'[r] = to
           /\ \A s \in Calls \ {r} : status'[s] = status[s]
  BY DEF TypeOK, Gate!Move

\* What moving a handler does to the places.
LEMMA PlaceMove ==
    ASSUME TypeOK, NEW r \in Calls, NEW from, NEW to \in Places, Goto(r, from, to)
    PROVE  /\ at' \in [Calls -> Places]
           /\ at[r] = from /\ at'[r] = to
           /\ \A s \in Calls \ {r} : at'[s] = at[s]
  BY DEF TypeOK, Goto

LEMMA RequestInit == Init => RequestInv
<1> SUFFICES ASSUME Init PROVE RequestInv
  OBVIOUS
<1>1. TypeOK
  <2>1. open \in BOOLEAN /\ limit \in Nat /\ loaded \in BOOLEAN /\ running \in BOOLEAN
    <3>1. CASE open = TRUE /\ limit = 0 /\ loaded = FALSE
      BY <3>1 DEF Init
    <3>2. CASE open = FALSE /\ limit \in SlotCounts /\ loaded = TRUE
      BY <3>2, RequestAssumption DEF Init
    <3> QED
      BY <3>1, <3>2 DEF Init
  <2>2. /\ status \in [Calls -> {"new", "asked", "granted", "exempt", "denied",
                                  "abandoned", "finished"}]
        /\ at \in [Calls -> Places]
    BY DEF Init, Places
  <2>3. changes \in 0 .. MaxChanges
    BY RequestAssumption DEF Init
  <2> QED
    BY <2>1, <2>2, <2>3 DEF Init, TypeOK
<1>2. PlaceAndStatus /\ WorkIsAwaited /\ OnlyEarlierPass
  BY DEF Init, PlaceAndStatus, WorkIsAwaited, OnlyEarlierPass
<1>3. LimitKept
  <2>1. Gate!Granted = {}
    BY DEF Init, Gate!Granted
  <2> QED
    BY <2>1, FS_EmptySet, <1>1 DEF LimitKept, TypeOK
<1> QED
  BY <1>1, <1>2, <1>3 DEF RequestInv

-----------------------------------------------------------------------------
(* The steps of the handler.  Those that leave the gate alone come first:  *)
(* a call that keeps its status keeps the limit, and the conjuncts about   *)
(* places are checked where the call goes.                                 *)

LEMMA GateAlone ==
    ASSUME RequestInv, UNCHANGED gateVars
    PROVE  LimitKept'
<1>1. Gate!Granted' = Gate!Granted
  BY DEF gateVars, Gate!Granted
<1> QED
  BY <1>1 DEF RequestInv, LimitKept, gateVars

\* Resolve, CheckReservation, Answer and Collect.
LEMMA QuietHandler ==
    ASSUME RequestInv, NEW r \in Calls,
           Resolve(r) \/ CheckReservation(r) \/ Answer(r) \/ Collect(r)
    PROVE  RequestInv'
<1> USE DEF RequestInv
<1>1. /\ UNCHANGED <<gateVars, streams, work, world>>
      /\ \A s \in Calls \ {r} : at'[s] = at[s]
      /\ at' \in [Calls -> Places]
  BY DEF Resolve, CheckReservation, Answer, Collect, Goto, TypeOK, Places
<1>2. \/ at[r] = "new" /\ at'[r] \in {"resolved", "refused"}
      \/ at[r] = "resolved" /\ at'[r] = "allowed" /\ Welcome(r)
      \/ at[r] = "resolved" /\ at'[r] = "refused"
      \/ at[r] = "sent" /\ at'[r] = "returned" /\ r \in streams
      \/ at[r] = "sent" /\ at'[r] = "reading"
      \/ at[r] \in {"sent", "reading"} /\ at'[r] = "returned" /\ r \notin work
  BY DEF Resolve, CheckReservation, Answer, Collect, Goto, TypeOK
<1>3. TypeOK'
  BY <1>1 DEF TypeOK, gateVars, world
<1>4. PlaceAndStatus'
  BY <1>1, <1>2 DEF PlaceAndStatus, gateVars
<1>5. WorkIsAwaited'
  <2> SUFFICES ASSUME NEW s \in work'
               PROVE  at'[s] \in {"sent", "reading"} \/ (s \in streams' /\ at'[s] = "returned")
    BY DEF WorkIsAwaited
  <2>1. s \in Calls /\ s \in work /\ streams' = streams
    BY <1>1 DEF TypeOK
  <2> QED
    BY <1>1, <1>2, <2>1 DEF WorkIsAwaited
<1>6. LimitKept'
  BY <1>1, GateAlone
<1>7. OnlyEarlierPass'
  BY <1>1, <1>2 DEF OnlyEarlierPass, Welcome, world
<1> QED
  BY <1>3, <1>4, <1>5, <1>6, <1>7

\* Acquire, Dequeue and QueueTimeout: a call that is not yet at the backend.
LEMMA QueueStep ==
    ASSUME RequestInv, NEW r \in Calls,
           Acquire(r) \/ Dequeue(r) \/ QueueTimeout(r)
    PROVE  RequestInv'
<1> USE DEF RequestInv
<1>1. UNCHANGED <<open, limit, streams, work, world>>
  BY DEF Acquire, Dequeue, QueueTimeout, Gate!Grant, Gate!Ask, Gate!Deny
<1>2. /\ at' \in [Calls -> Places]
      /\ \A s \in Calls \ {r} : at'[s] = at[s]
      /\ at[r] \in {"allowed", "queued"}
  BY DEF Acquire, Dequeue, QueueTimeout, Goto, TypeOK, Places
<1>3. \/ at'[r] = "holding" /\ Gate!Grant(r)
      \/ at'[r] = "queued" /\ Gate!Ask(r)
      \/ at'[r] = "refused" /\ Gate!Deny(r)
  BY DEF Acquire, Dequeue, QueueTimeout, Goto, TypeOK
<1>4. /\ status' \in [Calls -> {"new", "asked", "granted", "exempt", "denied",
                                "abandoned", "finished"}]
      /\ \A s \in Calls \ {r} : status'[s] = status[s]
      /\ at'[r] = "holding" => status'[r] \in Held
      /\ at'[r] = "queued" => status'[r] = "asked"
  BY <1>3 DEF Gate!Grant, Gate!Ask, Gate!Deny, Gate!Move, TypeOK, Held
<1>5. TypeOK'
  BY <1>1, <1>2, <1>4 DEF TypeOK, world
<1>6. PlaceAndStatus'
  BY <1>2, <1>3, <1>4 DEF PlaceAndStatus
<1>7. WorkIsAwaited'
  <2> SUFFICES ASSUME NEW s \in work'
               PROVE  at'[s] \in {"sent", "reading"} \/ (s \in streams' /\ at'[s] = "returned")
    BY DEF WorkIsAwaited
  <2>1. s \in Calls /\ s \in work /\ streams' = streams
    BY <1>1 DEF TypeOK
  <2> QED
    BY <1>2, <2>1 DEF WorkIsAwaited
<1>8. LimitKept'
  <2>1. CASE status'[r] = "granted" /\ ~open
    <3>1. Cardinality(Gate!Granted) < limit
      <4>1. ~Gate!Ask(r) /\ ~Gate!Deny(r)
        BY <2>1 DEF Gate!Ask, Gate!Deny, Gate!Move, TypeOK
      <4>2. Gate!Grant(r)
        BY <1>3, <4>1
      <4>3. ~open
        BY <2>1
      <4> QED
        BY <4>2, <4>3, SameCount DEF Gate!Grant
    <3>2. Gate!Granted \subseteq Calls /\ Gate!Granted' \subseteq Gate!Granted \cup {r}
      BY <1>4 DEF Gate!Granted
    <3>3. /\ Cardinality(Gate!Granted') \in Nat /\ Cardinality(Gate!Granted) \in Nat
          /\ Cardinality(Gate!Granted') <= Cardinality(Gate!Granted) + 1
      <4>1. Cardinality(Gate!Granted') <= Cardinality(Gate!Granted) + 1
        BY <3>2, OneMoreCall
      <4>2. Gate!Granted' \subseteq Calls
        BY <3>2
      <4> QED
        BY <3>2, <4>1, <4>2, FewerCalls
    <3> QED
      BY <1>1, <3>1, <3>3 DEF LimitKept, TypeOK
  <2>2. CASE status'[r] # "granted"
    <3>1. Gate!Granted' \subseteq Gate!Granted
      BY <1>4, <2>2 DEF Gate!Granted
    <3> QED
      BY <1>1, <3>1, NobodyEnters DEF TypeOK
  <2>3. CASE open
    BY <1>1, <2>3 DEF LimitKept
  <2> QED
    BY <2>1, <2>2, <2>3
<1>9. OnlyEarlierPass'
  BY <1>1, <1>2 DEF OnlyEarlierPass, Welcome, world
<1> QED
  BY <1>5, <1>6, <1>7, <1>8, <1>9

LEMMA SendStep ==
    ASSUME RequestInv, NEW r \in Calls, Send(r)
    PROVE  RequestInv'
<1> USE DEF RequestInv
<1>1. /\ UNCHANGED <<gateVars, streams, world>>
      /\ at[r] = "holding"
      /\ at' \in [Calls -> Places]
      /\ \A s \in Calls \ {r} : at'[s] = at[s]
      /\ IF running THEN at'[r] = "sent" /\ work' = work \cup {r}
                    ELSE at'[r] = "returned" /\ work' = work
  BY DEF Send, Goto, TypeOK, Places
<1>2. r \notin work
  BY <1>1 DEF WorkIsAwaited
<1>3. TypeOK'
  BY <1>1 DEF TypeOK, gateVars, world
<1>4. PlaceAndStatus'
  BY <1>1 DEF PlaceAndStatus, gateVars
<1>5. WorkIsAwaited'
  <2> SUFFICES ASSUME NEW s \in work'
               PROVE  at'[s] \in {"sent", "reading"} \/ (s \in streams' /\ at'[s] = "returned")
    BY DEF WorkIsAwaited
  <2>1. CASE s = r
    BY <1>1, <1>2, <2>1
  <2>2. CASE s # r
    BY <1>1, <2>2 DEF WorkIsAwaited, TypeOK
  <2> QED
    BY <2>1, <2>2
<1>6. LimitKept'
  BY <1>1, GateAlone
<1>7. OnlyEarlierPass'
  BY <1>1 DEF OnlyEarlierPass, Welcome, world
<1> QED
  BY <1>3, <1>4, <1>5, <1>6, <1>7

LEMMA GiveBackStep ==
    ASSUME RequestInv, NEW r \in Calls, GiveBack(r)
    PROVE  RequestInv'
<1> USE DEF RequestInv
<1>1. UNCHANGED <<open, at, streams, work, world>> /\ at[r] \in {"returned", "gone"}
  BY DEF GiveBack, Gate!Finish, Gate!FinishExempt
<1>2. /\ status' \in [Calls -> {"new", "asked", "granted", "exempt", "denied",
                                "abandoned", "finished"}]
      /\ \A s \in Calls \ {r} : status'[s] = status[s]
      /\ status'[r] = "finished"
      /\ limit' \in Nat /\ limit <= limit'
  BY DEF GiveBack, Gate!Finish, Gate!FinishExempt, Gate!Move, TypeOK
<1>3. TypeOK'
  BY <1>1, <1>2 DEF TypeOK, world
<1>4. PlaceAndStatus'
  BY <1>1, <1>2 DEF PlaceAndStatus
<1>5. WorkIsAwaited'
  BY <1>1 DEF WorkIsAwaited
<1>6. LimitKept'
  <2>1. Gate!Granted' \subseteq Gate!Granted
    BY <1>2 DEF Gate!Granted
  <2> QED
    BY <1>1, <1>2, <2>1, NobodyEnters DEF TypeOK
<1>7. OnlyEarlierPass'
  BY <1>1 DEF OnlyEarlierPass, Welcome, world
<1> QED
  BY <1>3, <1>4, <1>5, <1>6, <1>7

LEMMA DisconnectStep ==
    ASSUME RequestInv, NEW r \in Calls, Disconnect(r)
    PROVE  RequestInv'
<1> USE DEF RequestInv
<1>1. /\ UNCHANGED <<open, limit, streams, world>> /\ work' = work \ {r}
      /\ at' \in [Calls -> Places] /\ at'[r] = "gone"
      /\ \A s \in Calls \ {r} : at'[s] = at[s]
  BY DEF Disconnect, Gate!Abandon, Goto, TypeOK, Places, gateVars
<1>2. /\ status' \in [Calls -> {"new", "asked", "granted", "exempt", "denied",
                                "abandoned", "finished"}]
      /\ \A s \in Calls \ {r} : status'[s] = status[s]
      /\ status'[r] \in {status[r], "abandoned"}
  BY DEF Disconnect, Gate!Abandon, Gate!Move, TypeOK, gateVars
<1>3. TypeOK'
  BY <1>1, <1>2 DEF TypeOK, world
<1>4. PlaceAndStatus'
  BY <1>1, <1>2 DEF PlaceAndStatus
<1>5. WorkIsAwaited'
  BY <1>1 DEF WorkIsAwaited, TypeOK
<1>6. LimitKept'
  <2>1. Gate!Granted' \subseteq Gate!Granted
    BY <1>2 DEF Gate!Granted
  <2> QED
    BY <1>1, <2>1, NobodyEnters DEF TypeOK
<1>7. OnlyEarlierPass'
  BY <1>1 DEF OnlyEarlierPass, Welcome, world
<1> QED
  BY <1>3, <1>4, <1>5, <1>6, <1>7

-----------------------------------------------------------------------------
(* The backend and the rest of the proxy: nobody's handler moves.          *)

\* BackendDone, SetLoaded and SetRunning only take work away.
LEMMA BackendStep ==
    ASSUME RequestInv,
           (\E r \in Calls : BackendDone(r)) \/ SetLoaded \/ SetRunning
    PROVE  RequestInv'
<1> USE DEF RequestInv
<1>1. /\ UNCHANGED <<gateVars, at, streams, reserved, earlier>>
      /\ work' \subseteq work
      /\ loaded' \in BOOLEAN /\ running' \in BOOLEAN
      /\ changes' \in 0 .. MaxChanges
  <2>1. CASE \E r \in Calls : BackendDone(r)
    BY <2>1 DEF BackendDone, world, TypeOK
  <2>2. CASE SetLoaded
    BY <2>2, RequestAssumption DEF SetLoaded, Change, TypeOK
  <2>3. CASE SetRunning
    BY <2>3, RequestAssumption DEF SetRunning, Change, TypeOK
  <2> QED
    BY <2>1, <2>2, <2>3
<1>2. TypeOK'
  BY <1>1 DEF TypeOK, gateVars
<1>3. PlaceAndStatus'
  BY <1>1 DEF PlaceAndStatus, gateVars
<1>4. WorkIsAwaited'
  BY <1>1 DEF WorkIsAwaited
<1>5. LimitKept'
  BY <1>1, GateAlone
<1>6. OnlyEarlierPass'
  BY <1>1 DEF OnlyEarlierPass, Welcome
<1> QED
  BY <1>2, <1>3, <1>4, <1>5, <1>6

LEMMA ReserveStep ==
    ASSUME RequestInv, NEW u \in Users \cup {Nobody}, Reserve(u)
    PROVE  RequestInv'
<1> USE DEF RequestInv
<1>1. /\ UNCHANGED <<gateVars, at, streams, work, loaded, running>>
      /\ reserved' = u /\ changes' \in 0 .. MaxChanges
      /\ earlier' = {r \in Calls : at[r] \in {"allowed", "queued", "holding"}}
  BY RequestAssumption DEF Reserve, Change, TypeOK
<1>2. TypeOK'
  BY <1>1 DEF TypeOK, gateVars
<1>3. PlaceAndStatus' /\ WorkIsAwaited'
  BY <1>1 DEF PlaceAndStatus, WorkIsAwaited, gateVars
<1>4. LimitKept'
  BY <1>1, GateAlone
<1>5. OnlyEarlierPass'
  BY <1>1 DEF OnlyEarlierPass
<1> QED
  BY <1>2, <1>3, <1>4, <1>5

LEMMA RegisterStep ==
    ASSUME RequestInv, Register
    PROVE  RequestInv'
<1> USE DEF RequestInv
<1>1. /\ UNCHANGED <<at, streams, work, reserved, loaded, running, earlier>>
      /\ changes' \in 0 .. MaxChanges
  BY RequestAssumption DEF Register, Change, TypeOK
<1>2. PICK b \in BOOLEAN, n \in Nat : Gate!Replace(b, n)
  BY RequestAssumption DEF Register
<1>3. /\ open' = b /\ limit' = n
      /\ status' = [r \in Calls |-> IF r \in Gate!Granted THEN "exempt" ELSE status[r]]
  BY <1>2 DEF Gate!Replace
<1>4. \A s \in Calls : status'[s] = IF status[s] = "granted" THEN "exempt" ELSE status[s]
  <2>1. \A s \in Calls : s \in Gate!Granted <=> status[s] = "granted"
    BY DEF Gate!Granted
  <2> QED
    BY <1>3, <2>1
<1>5. TypeOK'
  <2>1. status \in [Calls -> {"new", "asked", "granted", "exempt", "denied",
                              "abandoned", "finished"}]
    BY DEF TypeOK
  <2>2. status' \in [Calls -> {"new", "asked", "granted", "exempt", "denied",
                               "abandoned", "finished"}]
    BY <1>3, <2>1
  <2>3. open' \in BOOLEAN /\ limit' \in Nat
    BY <1>3
  <2> QED
    BY <1>1, <2>2, <2>3 DEF TypeOK
<1>6. PlaceAndStatus'
  BY <1>1, <1>4 DEF PlaceAndStatus, Held
<1>7. WorkIsAwaited'
  BY <1>1 DEF WorkIsAwaited
<1>8. LimitKept'
  <2>1. Gate!Granted' = {}
    BY <1>4 DEF Gate!Granted
  <2> QED
    BY <1>3, <2>1, FS_EmptySet DEF LimitKept
<1>9. OnlyEarlierPass'
  BY <1>1 DEF OnlyEarlierPass, Welcome
<1> QED
  BY <1>5, <1>6, <1>7, <1>8, <1>9

-----------------------------------------------------------------------------
LEMMA RequestStep == RequestInv /\ [Next]_vars => RequestInv'
<1> SUFFICES ASSUME RequestInv, [Next]_vars
             PROVE  RequestInv'
  OBVIOUS
<1>1. CASE UNCHANGED vars
  BY <1>1, GateAlone DEF RequestInv, TypeOK, PlaceAndStatus, WorkIsAwaited, OnlyEarlierPass,
                         Welcome, vars, gateVars, world
<1>2. CASE \E r \in Calls : Handler(r)
  BY <1>2, QuietHandler, QueueStep, SendStep, GiveBackStep DEF Handler
<1>3. CASE \E r \in Calls : Dequeue(r) \/ Answer(r) \/ Disconnect(r) \/ BackendDone(r)
  BY <1>3, QuietHandler, QueueStep, DisconnectStep, BackendStep
<1>4. CASE Environment
  BY <1>4, BackendStep, RegisterStep, ReserveStep DEF Environment
<1> QED
  BY <1>1, <1>2, <1>3, <1>4 DEF Next

\* RequestInv holds in every reachable state.
THEOREM RequestInvariant == Spec => []RequestInv
<1>1. Init => RequestInv
  BY RequestInit
<1>2. RequestInv /\ [Next]_vars => RequestInv'
  BY RequestStep
<1> QED
  BY <1>1, <1>2, PTL DEF Spec

\* The variables of the request path keep their types.
THEOREM RequestTypes == Spec => []TypeOK
<1>1. RequestInv => TypeOK
  BY DEF RequestInv
<1> QED
  BY <1>1, RequestInvariant, PTL

\* Answers that are read to their end have a slot each while the backend works for
\* them, and those under the present limit are no more than it allows (the scope of
\* the guard in proxy_completion and messages).
THEOREM BufferedStayWithinLimit == Spec => []BufferedWithinLimit
<1>1. RequestInv => BufferedWithinLimit
  <2> SUFFICES ASSUME RequestInv PROVE BufferedWithinLimit
    OBVIOUS
  <2>1. \A r \in work \ streams : status[r] \in {"granted", "exempt"}
    BY DEF RequestInv, WorkIsAwaited, PlaceAndStatus, Held, TypeOK
  <2>2. ASSUME ~open
        PROVE  Cardinality({r \in work \ streams : status[r] = "granted"}) <= limit
    <3> DEFINE Busy == {r \in work \ streams : status[r] = "granted"}
    <3>1. Busy \subseteq Gate!Granted /\ Gate!Granted \subseteq Calls
      BY DEF Gate!Granted, RequestInv, TypeOK
    <3>2. /\ Cardinality(Busy) \in Nat /\ Cardinality(Gate!Granted) \in Nat
          /\ Cardinality(Busy) <= Cardinality(Gate!Granted)
      BY <3>1, FewerCalls
    <3>3. Cardinality(Gate!Granted) <= limit /\ limit \in Nat
      BY <2>2 DEF RequestInv, LimitKept, TypeOK
    <3> QED
      BY <3>2, <3>3
  <2> QED
    BY <2>1, <2>2 DEF BufferedWithinLimit
<1> QED
  BY <1>1, RequestInvariant, PTL

\* A request of somebody else that is on its way while the system is reserved had
\* passed the check before it was reserved (the check at the head of both handlers).
THEOREM OnlyEarlierRequestsPass == Spec => []OnlyEarlierPass
<1>1. RequestInv => OnlyEarlierPass
  BY DEF RequestInv
<1> QED
  BY <1>1, RequestInvariant, PTL
=============================================================================
