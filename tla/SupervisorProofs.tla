--------------------------- MODULE SupervisorProofs ---------------------------
(***************************************************************************)
(* Proofs about Supervisor, for any set of handlers, both kinds of rows,   *)
(* serial or not, and every bound on starts, troubles and faults.          *)
(***************************************************************************)
EXTENDS Supervisor, TLAPS

SupRecord == [at : SupSteps, prev : BackendState \cup {NoEntry},
              seen : ProbeOutcomes \cup {"none"}, key : Keys]
HandRecord == [at : HandSteps, key : Keys]

\* A kick under way has copied an entry.
KickHasCopy == sup.at \in {"probe", "inspect"} => sup.prev \in BackendState

\* An entry is only Crashed while the kick that found the crash is being followed
\* up, by reconciliation, restart or quarantine.
FollowUp == SupSteps \ {"idle", "dead", "probe", "inspect"}
CrashIsFollowedUp == entry # NoEntry /\ entry.fsm = "Crashed" => sup.at \in FollowUp

SupInv == TypeOK /\ KickHasCopy /\ CrashIsFollowedUp

-----------------------------------------------------------------------------
(* The operators the steps are built from.                                 *)

LEMMA FreshType ==
    ASSUME NEW fsm \in {"Starting", "Healthy"}
    PROVE  Fresh(fsm) \in BackendState /\ Fresh(fsm).fsm # "Crashed"
  BY DEF Fresh, BackendState, Fsm, Threshold

\* A state whose first three fields are replaced.
LEMMA ReplacedType ==
    ASSUME NEW prev \in BackendState, NEW f \in Fsm, NEW g \in BOOLEAN, NEW n \in 0 .. Threshold
    PROVE  /\ [prev EXCEPT !.fsm = f, !.grace = g, !.failures = n] \in BackendState
           /\ [prev EXCEPT !.fsm = f, !.grace = g, !.failures = n].fsm = f
<1> DEFINE p == [prev EXCEPT !.fsm = f]
           q == [p EXCEPT !.grace = g]
           s == [q EXCEPT !.failures = n]
<1>1. p \in BackendState /\ p.fsm = f
  BY DEF BackendState
<1>2. q \in BackendState /\ q.fsm = p.fsm
  <2> HIDE DEF p
  <2> QED
    BY <1>1 DEF BackendState
<1>3. s \in BackendState /\ s.fsm = q.fsm
  <2> HIDE DEF q
  <2> QED
    BY <1>2 DEF BackendState
<1>4. [prev EXCEPT !.fsm = f, !.grace = g, !.failures = n] = s
  BY Zenon
<1> HIDE DEF p, q, s
<1> QED
  BY <1>1, <1>2, <1>3, <1>4, Zenon

LEMMA FailedType ==
    ASSUME NEW prev \in BackendState, NEW fsm \in Fsm
    PROVE  Failed(prev, fsm) \in BackendState
<1> DEFINE n == IF prev.failures < Threshold THEN prev.failures + 1 ELSE prev.failures
           FailedWith(g) == [prev EXCEPT !.fsm = fsm, !.grace = g, !.failures = n]
<1>1. n \in 0 .. Threshold
  BY DEF BackendState, Threshold
<1>2. Failed(prev, fsm) = FailedWith(prev.grace /\ fsm = "Starting")
  BY Zenon DEF Failed
<1>3. ASSUME NEW g \in BOOLEAN PROVE FailedWith(g) \in BackendState
  <2> HIDE DEF n
  <2> QED
    BY <1>1, ReplacedType
<1>4. (prev.grace /\ fsm = "Starting") \in BOOLEAN
  OBVIOUS
<1> HIDE DEF FailedWith
<1> QED
  BY <1>2, <1>3, <1>4, Zenon

LEMMA TransitionType ==
    ASSUME NEW prev \in BackendState, NEW outcome
    PROVE  /\ Transition(prev, outcome) \in BackendState
           /\ Transition(prev, "ok").fsm # "Crashed"
<1>1. /\ Failed(prev, "Crashed") \in BackendState
      /\ Failed(prev, "Starting") \in BackendState
      /\ Failed(prev, IF prev.failures + 1 >= Threshold THEN "Crashed" ELSE "Suspect")
            \in BackendState
  BY FailedType DEF Fsm
<1>2. /\ [prev EXCEPT !.fsm = "Healthy", !.grace = FALSE, !.failures = 0] \in BackendState
      /\ [prev EXCEPT !.fsm = "Healthy", !.grace = FALSE, !.failures = 0].fsm = "Healthy"
  <2>1. "Healthy" \in Fsm /\ FALSE \in BOOLEAN /\ 0 \in 0 .. Threshold
    BY DEF Fsm, Threshold
  <2> QED
    BY <2>1, ReplacedType, Zenon
<1>3. [prev EXCEPT !.failures = 0] \in BackendState
  BY DEF BackendState, Threshold
<1>4. Transition(prev, outcome) \in BackendState
  BY <1>1, <1>2, <1>3 DEF Transition
<1>5. Transition(prev, "ok").fsm # "Crashed"
  <2>1. Transition(prev, "ok")
          = [prev EXCEPT !.fsm = "Healthy", !.grace = FALSE, !.failures = 0]
    BY DEF Transition
  <2> QED
    BY <1>2, <2>1
<1> QED
  BY <1>4, <1>5

LEMMA OutcomeType ==
    ASSUME TypeOK, NEW ok \in BOOLEAN, Outcome(ok)
    PROVE  faults' \in 0 .. MaxFaults[serial]
<1>1. MaxFaults[serial] \in Nat
  BY SupervisorAssumption DEF TypeOK
<1> QED
  BY <1>1 DEF Outcome, TypeOK

LEMMA IdleType == TypeOK => SupIdle \in SupRecord /\ HandIdle \in HandRecord
<1> SUFFICES ASSUME TypeOK PROVE SupIdle \in SupRecord /\ HandIdle \in HandRecord
  OBVIOUS
<1>1. 0 \in Keys
  <2>1. MaxStarts[serial] \in Nat
    BY SupervisorAssumption DEF TypeOK
  <2> QED
    BY <2>1 DEF Keys
<1> QED
  BY <1>1 DEF SupIdle, SupRecord, SupSteps, HandIdle, HandRecord, HandSteps

\* The type of the model and the manners of the actors never change.
LEMMA FixedType ==
    ASSUME TypeOK, UNCHANGED fixed
    PROVE  /\ Keys' = Keys /\ kind' \in Kinds /\ serial' \in Modes
           /\ MaxFaults[serial'] = MaxFaults[serial]
           /\ MaxTroubles[serial'] = MaxTroubles[serial]
           /\ MaxStarts[serial'] = MaxStarts[serial]
  BY DEF TypeOK, Keys, fixed

LEMMA SupGotoType ==
    ASSUME TypeOK, NEW from, NEW to \in SupSteps, SupGoto(from, to)
    PROVE  sup' \in SupRecord /\ sup.at = from /\ sup'.at = to
<1>1. CASE to = "idle"
  BY <1>1, IdleType DEF SupGoto, SupIdle
<1>2. CASE to # "idle"
  BY <1>2 DEF SupGoto, TypeOK, SupRecord
<1> QED
  BY <1>1, <1>2

LEMMA HandGotoType ==
    ASSUME TypeOK, NEW h \in Handlers, NEW from, NEW to \in HandSteps, HandGoto(h, from, to)
    PROVE  hand' \in [Handlers -> HandRecord]
<1>1. HandIdle \in HandRecord /\ hand \in [Handlers -> HandRecord]
  BY IdleType DEF TypeOK, HandRecord
<1>2. [hand[h] EXCEPT !.at = to] \in HandRecord
  BY <1>1 DEF HandRecord
<1> DEFINE new == IF to = "idle" THEN HandIdle ELSE [hand[h] EXCEPT !.at = to]
<1>3. new \in HandRecord
  BY <1>1, <1>2
<1>4. hand' = [hand EXCEPT ![h] = new]
  BY DEF HandGoto
<1> HIDE DEF new
<1> QED
  BY <1>1, <1>3, <1>4

\* The new type invariant, from the parts a step may change.
LEMMA TypeStep ==
    ASSUME TypeOK, UNCHANGED fixed,
           box' \in [state : BoxStates, key : Keys],
           loaded' \in BOOLEAN, workedCol' \in BOOLEAN,
           quarantine' \in Reasons \cup {"none"}, secret' \in Keys,
           gate' \in BOOLEAN, entry' \in BackendState \cup {NoEntry},
           workedMap' \in {"absent", "no", "yes"},
           sup' \in SupRecord, hand' \in [Handlers -> HandRecord],
           answered' \in BOOLEAN, writing' \in BOOLEAN,
           starts' \in 0 .. MaxStarts[serial],
           troubles' \in 0 .. MaxTroubles[serial],
           faults' \in 0 .. MaxFaults[serial],
           served' \in {"no", "yes", "overlooked"}
    PROVE  TypeOK'
  BY FixedType DEF TypeOK, SupRecord, HandRecord, fixed

\* Who leaves the supervisor and its map alone keeps what they say of each other.
LEMMA SupAlone ==
    ASSUME SupInv, UNCHANGED <<sup, entry>>
    PROVE  KickHasCopy' /\ CrashIsFollowedUp'
  BY DEF SupInv, KickHasCopy, CrashIsFollowedUp

-----------------------------------------------------------------------------
(* The container and the requests.                                         *)

LEMMA BoxStep ==
    ASSUME SupInv, Container
    PROVE  SupInv'
<1> USE DEF SupInv
<1>1. UNCHANGED <<dbVars, memVars, sup, hand, reqVars, fixed, starts, faults, served>>
  BY DEF Container, BoxLoads, BoxRecovers, BoxFails
<1>2. box' \in [state : BoxStates, key : Keys]
  BY DEF Container, BoxLoads, BoxRecovers, BoxFails, TypeOK, BoxStates
<1>3. troubles' \in 0 .. MaxTroubles[serial]
  <2>1. MaxTroubles[serial] \in Nat
    BY SupervisorAssumption DEF TypeOK
  <2> QED
    BY <2>1 DEF Container, BoxLoads, BoxRecovers, BoxFails, TypeOK
<1>4. TypeOK'
  BY <1>1, <1>2, <1>3, TypeStep
     DEF TypeOK, SupRecord, HandRecord, dbVars, memVars, reqVars, fixed
<1>5. KickHasCopy' /\ CrashIsFollowedUp'
  BY <1>1, SupAlone DEF memVars
<1> QED
  BY <1>4, <1>5

LEMMA RequestStep ==
    ASSUME SupInv, Answer \/ RecordWorked \/ WriteWorked
    PROVE  SupInv'
<1> USE DEF SupInv
<1>1. /\ UNCHANGED <<boxVars, loaded, quarantine, secret, gate, entry, sup, hand, fixed, starts>>
      /\ workedMap' \in {"absent", "no", "yes"}
      /\ served' \in {"no", "yes", "overlooked"} /\ answered' \in BOOLEAN
  <2>1. CASE Answer
    BY <2>1, SupervisorAssumption DEF Answer, TypeOK, boxVars, dbVars, memVars
  <2>2. CASE RecordWorked
    BY <2>2 DEF RecordWorked, TypeOK, boxVars, dbVars
  <2>3. CASE WriteWorked
    BY <2>3 DEF WriteWorked, TypeOK, boxVars, memVars
  <2> QED
    BY <2>1, <2>2, <2>3
<1>2. workedCol' \in BOOLEAN /\ writing' \in BOOLEAN /\ faults' \in 0 .. MaxFaults[serial]
  <2>1. CASE Answer
    BY <2>1 DEF Answer, TypeOK, dbVars
  <2>2. CASE RecordWorked
    BY <2>2 DEF RecordWorked, TypeOK, dbVars
  <2>3. CASE WriteWorked
    <3>1. PICK ok \in BOOLEAN : Outcome(ok) /\ workedCol' = (ok \/ workedCol)
      BY <2>3 DEF WriteWorked
    <3> QED
      BY <2>3, <3>1, OutcomeType DEF WriteWorked
  <2> QED
    BY <2>1, <2>2, <2>3
<1>3. TypeOK'
  BY <1>1, <1>2, TypeStep DEF TypeOK, SupRecord, HandRecord, boxVars
<1>4. KickHasCopy' /\ CrashIsFollowedUp'
  BY <1>1, SupAlone
<1> QED
  BY <1>3, <1>4

-----------------------------------------------------------------------------
(* The kick.                                                               *)

LEMMA KickStep ==
    ASSUME SupInv, Kick
    PROVE  SupInv'
<1> USE DEF SupInv
<1>1. /\ UNCHANGED <<boxVars, dbVars, memVars, hand, reqVars, fixed, starts, served>>
      /\ sup.at = "idle" /\ entry \in BackendState
  BY DEF Kick, TypeOK
<1>2. PICK ok \in BOOLEAN :
        /\ Outcome(ok)
        /\ sup' = IF ok /\ kind = "other" THEN [SupIdle EXCEPT !.at = "dead"]
                  ELSE [SupIdle EXCEPT !.at = "probe", !.prev = entry]
  BY DEF Kick
<1>3. SupIdle \in SupRecord
  BY IdleType
<1>4. /\ [SupIdle EXCEPT !.at = "dead"] \in SupRecord
      /\ [SupIdle EXCEPT !.at = "dead"].at = "dead"
  BY <1>3 DEF SupRecord, SupSteps
<1>5. /\ [SupIdle EXCEPT !.at = "probe", !.prev = entry] \in SupRecord
      /\ [SupIdle EXCEPT !.at = "probe", !.prev = entry].prev = entry
  BY <1>1, <1>3 DEF SupRecord, SupSteps
<1>6. sup' \in SupRecord /\ (sup'.at = "dead" \/ sup'.prev = entry)
  BY <1>2, <1>4, <1>5
<1>7. TypeOK'
  BY <1>1, <1>2, <1>6, OutcomeType, TypeStep
     DEF TypeOK, HandRecord, boxVars, dbVars, memVars, reqVars
<1>8. KickHasCopy'
  BY <1>1, <1>6 DEF KickHasCopy
<1>9. CrashIsFollowedUp'
  BY <1>1 DEF CrashIsFollowedUp, FollowUp, memVars, Kick
<1> QED
  BY <1>7, <1>8, <1>9

LEMMA ProbeStep ==
    ASSUME SupInv, Probe
    PROVE  SupInv'
<1> USE DEF SupInv
<1>1. /\ UNCHANGED <<boxVars, dbVars, gate, workedMap, hand, reqVars, fixed, starts, faults, served>>
      /\ sup.at = "probe" /\ sup.prev \in BackendState
  BY DEF Probe, KickHasCopy
<1>2. PICK outcome \in {"ok", "loading", "transport", "other"} :
          IF outcome = "ok"
          THEN sup' = SupIdle /\ entry' = Transition(sup.prev, outcome)
          ELSE sup' = [sup EXCEPT !.at = "inspect", !.seen = outcome] /\ UNCHANGED entry
  BY DEF Probe, HealthAnswers
<1>3. CASE outcome = "ok"
  <2>1. sup' \in SupRecord /\ sup'.at = "idle"
    BY <1>2, <1>3, IdleType DEF SupIdle
  <2>2. entry' \in BackendState /\ entry'.fsm # "Crashed"
    BY <1>1, <1>2, <1>3, TransitionType
  <2>3. TypeOK'
    BY <1>1, <2>1, <2>2, TypeStep DEF TypeOK, HandRecord, boxVars, dbVars, reqVars
  <2> QED
    BY <2>1, <2>2, <2>3 DEF KickHasCopy, CrashIsFollowedUp
<1>4. CASE outcome # "ok"
  <2>1. sup \in SupRecord
    BY DEF TypeOK, SupRecord
  <2>2. sup' \in SupRecord /\ sup'.at = "inspect" /\ sup'.prev = sup.prev
    BY <1>2, <1>4, <2>1 DEF SupRecord, SupSteps, ProbeOutcomes
  <2>3. UNCHANGED entry
    BY <1>2, <1>4
  <2>4. TypeOK'
    BY <1>1, <2>2, <2>3, TypeStep DEF TypeOK, HandRecord, boxVars, dbVars, reqVars
  <2> QED
    BY <1>1, <2>2, <2>3, <2>4 DEF KickHasCopy, CrashIsFollowedUp, FollowUp
<1> QED
  BY <1>3, <1>4

LEMMA InspectStep ==
    ASSUME SupInv, Inspect
    PROVE  SupInv'
<1> USE DEF SupInv
<1>1. /\ UNCHANGED <<boxVars, dbVars, gate, workedMap, hand, reqVars, fixed, starts, served>>
      /\ sup.at = "inspect" /\ sup.prev \in BackendState
  BY DEF Inspect, KickHasCopy
<1>2. PICK ok \in BOOLEAN, outcome \in ProbeOutcomes \cup {"none"} :
          /\ Outcome(ok)
          /\ entry' = Transition(sup.prev, outcome)
          /\ sup' = IF Transition(sup.prev, outcome).fsm = "Crashed"
                    THEN [SupIdle EXCEPT !.at = "unload"] ELSE SupIdle
  BY DEF Inspect, TypeOK, ProbeOutcomes
<1>3. Transition(sup.prev, outcome) \in BackendState
  BY <1>1, TransitionType
<1>4. /\ SupIdle \in SupRecord /\ SupIdle.at = "idle"
      /\ [SupIdle EXCEPT !.at = "unload"] \in SupRecord
      /\ [SupIdle EXCEPT !.at = "unload"].at = "unload"
  BY IdleType DEF SupIdle, SupRecord, SupSteps
<1>5. sup' \in SupRecord /\ entry' \in BackendState
  BY <1>2, <1>3, <1>4
<1>6. TypeOK'
  BY <1>1, <1>2, <1>5, OutcomeType, TypeStep DEF TypeOK, HandRecord, boxVars, dbVars, reqVars
<1>7. KickHasCopy' /\ CrashIsFollowedUp'
  BY <1>2, <1>4 DEF KickHasCopy, CrashIsFollowedUp, FollowUp, SupSteps
<1> QED
  BY <1>6, <1>7

-----------------------------------------------------------------------------
(* After the crash.  Every step but the last leaves the entry alone and    *)
(* goes on to another of the follow-up.                                    *)

LEMMA GoesOn ==
    ASSUME SupInv, UNCHANGED entry, sup'.at \in FollowUp
    PROVE  KickHasCopy' /\ CrashIsFollowedUp'
  BY DEF SupInv, KickHasCopy, CrashIsFollowedUp, FollowUp

LEMMA ReconcileStep ==
    ASSUME SupInv, Unload \/ Drop \/ LogCrash \/ ResetWorked \/ Register
    PROVE  SupInv'
<1> USE DEF SupInv
<1>1. /\ sup' \in SupRecord /\ sup'.at \in FollowUp
  <2>1. /\ {"drop", "log", "decide", "register", "markLoaded"} \subseteq SupSteps
        /\ {"drop", "log", "decide", "register", "markLoaded"} \subseteq FollowUp
    BY DEF SupSteps, FollowUp
  <2> QED
    BY <2>1, SupGotoType DEF Unload, Drop, LogCrash, ResetWorked, Register
<1>2. /\ UNCHANGED <<boxVars, quarantine, secret, entry, hand, reqVars, fixed, starts, served>>
      /\ gate' \in BOOLEAN /\ workedMap' \in {"absent", "no", "yes"}
  BY DEF Unload, Drop, LogCrash, ResetWorked, Register, TypeOK, memVars, dbVars
<1>3. loaded' \in BOOLEAN /\ workedCol' \in BOOLEAN /\ faults' \in 0 .. MaxFaults[serial]
  <2>1. CASE Unload
    <3>1. PICK ok \in BOOLEAN : Outcome(ok) /\ loaded' = (loaded /\ ~ok)
      BY <2>1 DEF Unload
    <3> QED
      BY <2>1, <3>1, OutcomeType DEF Unload, TypeOK
  <2>2. CASE ResetWorked
    <3>1. PICK ok \in BOOLEAN : Outcome(ok) /\ workedCol' = (workedCol /\ ~ok)
      BY <2>2 DEF ResetWorked
    <3> QED
      BY <2>2, <3>1, OutcomeType DEF ResetWorked, TypeOK
  <2>3. CASE Drop \/ LogCrash \/ Register
    BY <2>3 DEF Drop, LogCrash, Register, TypeOK, dbVars
  <2> QED
    BY <2>1, <2>2, <2>3
<1>4. TypeOK'
  BY <1>1, <1>2, <1>3, TypeStep DEF TypeOK, HandRecord, boxVars, reqVars
<1>5. KickHasCopy' /\ CrashIsFollowedUp'
  BY <1>1, <1>2, GoesOn
<1> QED
  BY <1>4, <1>5

LEMMA DecideStep ==
    ASSUME SupInv, Decide \/ Lookup
    PROVE  SupInv'
<1> USE DEF SupInv
<1>1. UNCHANGED <<boxVars, dbVars, memVars, hand, reqVars, fixed, starts, served>>
  BY DEF Decide, Lookup
<1>2. /\ {"lookup", "giveUp", "launch", "quarantine"} \subseteq SupSteps
      /\ {"lookup", "giveUp", "launch", "quarantine"} \subseteq FollowUp
  BY DEF SupSteps, FollowUp
<1>3. sup' \in SupRecord /\ sup'.at \in FollowUp /\ faults' \in 0 .. MaxFaults[serial]
  <2>1. CASE Decide
    <3>1. PICK ok \in BOOLEAN, to \in {"lookup", "giveUp"} : Outcome(ok) /\ SupGoto("decide", to)
      BY <2>1 DEF Decide
    <3> QED
      BY <1>2, <3>1, OutcomeType, SupGotoType
  <2>2. CASE Lookup /\ SupGoto("lookup", "quarantine")
    <3>1. faults' \in 0 .. MaxFaults[serial]
      BY <2>2, OutcomeType DEF Lookup, TypeOK
    <3> QED
      BY <1>2, <2>2, <3>1, SupGotoType
  <2>3. CASE sup' = [sup EXCEPT !.at = "launch", !.key = secret] /\ UNCHANGED faults
    <3>1. sup \in SupRecord /\ secret \in Keys
      BY DEF TypeOK, SupRecord
    <3>2. sup' \in SupRecord /\ sup'.at = "launch"
      BY <1>2, <2>3, <3>1 DEF SupRecord
    <3> QED
      BY <1>2, <2>3, <3>2 DEF TypeOK
  <2> QED
    BY <2>1, <2>2, <2>3 DEF Lookup
<1>4. TypeOK'
  BY <1>1, <1>3, TypeStep DEF TypeOK, HandRecord, boxVars, dbVars, memVars, reqVars
<1>5. KickHasCopy' /\ CrashIsFollowedUp'
  BY <1>1, <1>3, GoesOn DEF memVars
<1> QED
  BY <1>4, <1>5

\* What a launch does to the container, whoever asked for it.
LEMMA LaunchType ==
    ASSUME TypeOK, NEW key \in Keys, Launched(key) \/ LaunchFailed
    PROVE  /\ box' \in [state : BoxStates, key : Keys]
           /\ UNCHANGED troubles /\ served' \in {"no", "yes", "overlooked"}
<1>1. [state |-> "absent", key |-> 0] \in [state : BoxStates, key : Keys]
  BY IdleType DEF BoxStates, HandIdle, HandRecord
<1>2. box \in [state : BoxStates, key : Keys] /\ served \in {"no", "yes", "overlooked"}
  BY DEF TypeOK
<1>3. CASE Launched(key)
  BY <1>2, <1>3 DEF Launched, BoxStates
<1>4. CASE LaunchFailed
  BY <1>1, <1>2, <1>4 DEF LaunchFailed
<1> QED
  BY <1>3, <1>4

LEMMA SupLaunchStep ==
    ASSUME SupInv, SupLaunch
    PROVE  SupInv'
<1> USE DEF SupInv
<1>1. UNCHANGED <<dbVars, gate, entry, hand, reqVars, fixed, starts>>
  BY DEF SupLaunch
<1>2. sup.key \in Keys
  BY DEF TypeOK
<1>3. /\ box' \in [state : BoxStates, key : Keys]
      /\ UNCHANGED troubles /\ served' \in {"no", "yes", "overlooked"}
  BY <1>2, LaunchType DEF SupLaunch
<1>4. /\ sup' \in SupRecord /\ sup'.at \in FollowUp
      /\ workedMap' \in {"absent", "no", "yes"} /\ faults' \in 0 .. MaxFaults[serial]
  <2>1. CASE /\ sup' = [SupIdle EXCEPT !.at = "resetWorked"]
             /\ workedMap' = "no" /\ UNCHANGED faults
    BY <2>1, IdleType DEF SupRecord, SupSteps, FollowUp, TypeOK
  <2>2. CASE Outcome(FALSE) /\ SupGoto("launch", "quarantine") /\ UNCHANGED workedMap
    <3>1. "quarantine" \in SupSteps /\ "quarantine" \in FollowUp
      BY DEF SupSteps, FollowUp
    <3> QED
      BY <2>2, <3>1, OutcomeType, SupGotoType DEF TypeOK
  <2> QED
    BY <2>1, <2>2 DEF SupLaunch
<1>5. TypeOK'
  BY <1>1, <1>3, <1>4, TypeStep DEF TypeOK, HandRecord, dbVars, reqVars
<1>6. KickHasCopy' /\ CrashIsFollowedUp'
  BY <1>1, <1>4, GoesOn
<1> QED
  BY <1>5, <1>6

\* The last step settles the entry.
LEMMA SettleStep ==
    ASSUME SupInv, MarkLoaded \/ Quarantine
    PROVE  SupInv'
<1> USE DEF SupInv
<1>1. sup' \in SupRecord /\ sup'.at = "idle"
  BY SupGotoType DEF MarkLoaded, Quarantine, SupSteps
<1>2. UNCHANGED <<boxVars, workedCol, secret, gate, workedMap, hand, reqVars, fixed, starts, served>>
  BY DEF MarkLoaded, Quarantine
<1>3. /\ entry' \in BackendState \cup {NoEntry}
      /\ entry' # NoEntry => entry'.fsm # "Crashed"
  <2>1. CASE MarkLoaded
    BY <2>1, FreshType DEF MarkLoaded
  <2>2. CASE Quarantine /\ entry = NoEntry
    BY <2>2 DEF Quarantine
  <2>3. CASE Quarantine /\ entry # NoEntry
    <3>1. entry \in BackendState /\ entry' = [entry EXCEPT !.fsm = "Quarantined", !.grace = FALSE]
      BY <2>3 DEF Quarantine, TypeOK
    <3> QED
      BY <3>1 DEF BackendState, Fsm
  <2> QED
    BY <2>1, <2>2, <2>3
<1>4. /\ loaded' \in BOOLEAN /\ quarantine' \in Reasons \cup {"none"}
      /\ faults' \in 0 .. MaxFaults[serial]
  <2>1. CASE MarkLoaded
    <3>1. PICK ok \in BOOLEAN : Outcome(ok) /\ loaded' = (loaded \/ ok)
      BY <2>1 DEF MarkLoaded
    <3> QED
      BY <2>1, <3>1, OutcomeType DEF MarkLoaded, TypeOK
  <2>2. CASE Quarantine
    <3>1. PICK ok \in BOOLEAN :
            /\ Outcome(ok)
            /\ quarantine' \in {"neverWorked", "restartFailed", quarantine}
      BY <2>2 DEF Quarantine
    <3> QED
      BY <2>2, <3>1, OutcomeType DEF Quarantine, TypeOK, Reasons
  <2> QED
    BY <2>1, <2>2
<1>5. TypeOK'
  BY <1>1, <1>2, <1>3, <1>4, TypeStep DEF TypeOK, HandRecord, boxVars, reqVars
<1>6. KickHasCopy' /\ CrashIsFollowedUp'
  BY <1>1, <1>3 DEF KickHasCopy, CrashIsFollowedUp
<1> QED
  BY <1>5, <1>6

-----------------------------------------------------------------------------
(* The handlers.  They replace or remove the entry at any time, but never  *)
(* make it Crashed.                                                        *)

LEMMA EntryReplaced ==
    ASSUME SupInv, UNCHANGED sup,
           entry' \in BackendState => (entry'.fsm = "Crashed" => entry # NoEntry /\ entry.fsm = "Crashed"),
           entry' \in BackendState \cup {NoEntry}
    PROVE  KickHasCopy' /\ CrashIsFollowedUp'
  BY DEF SupInv, KickHasCopy, CrashIsFollowedUp

LEMMA StartStep ==
    ASSUME SupInv, NEW h \in Handlers, Start(h)
    PROVE  SupInv'
<1> USE DEF SupInv
<1> DEFINE old == IF entry = NoEntry THEN Fresh("Starting") ELSE entry
<1>1. /\ UNCHANGED <<boxVars, dbVars, gate, workedMap, sup, reqVars, fixed, faults, served>>
      /\ starts < MaxStarts[serial] /\ starts' = starts + 1
      /\ entry' = [old EXCEPT !.paused = TRUE]
  BY DEF Start
<1>2. old \in BackendState /\ (entry = NoEntry => old.fsm # "Crashed")
  BY FreshType DEF TypeOK
<1>3. entry' \in BackendState /\ entry'.fsm = old.fsm
  <2> HIDE DEF old
  <2> QED
    BY <1>1, <1>2 DEF BackendState
<1>4. /\ MaxStarts[serial] \in Nat /\ starts \in Nat
      /\ starts' \in 0 .. MaxStarts[serial] /\ starts + 1 \in Keys
  BY <1>1, SupervisorAssumption DEF TypeOK, Keys
<1>5. hand' \in [Handlers -> HandRecord]
  <2>1. [at |-> "launch", key |-> starts + 1] \in HandRecord
    BY <1>4 DEF HandRecord, HandSteps
  <2>2. hand \in [Handlers -> HandRecord]
    BY DEF TypeOK, HandRecord
  <2>3. \/ hand' = [hand EXCEPT ![h] = [at |-> "launch", key |-> starts + 1]]
        \/ hand' = hand
    BY DEF Start
  <2> QED
    BY <2>1, <2>2, <2>3
<1>6. TypeOK'
  BY <1>1, <1>3, <1>4, <1>5, TypeStep DEF TypeOK, SupRecord, boxVars, dbVars, reqVars
<1>7. KickHasCopy' /\ CrashIsFollowedUp'
  BY <1>1, <1>2, <1>3, EntryReplaced
<1> QED
  BY <1>6, <1>7

\* The steps of a handler that leave the supervisor's map alone.
LEMMA HandQuietStep ==
    ASSUME SupInv, NEW h \in Handlers,
           \/ Launch(h) \/ SaveKey(h) \/ StartRegister(h) \/ StartMarkLoaded(h)
           \/ StartResetWorked(h) \/ Stop(h) \/ Halt(h) \/ Remove(h) \/ DropKey(h)
           \/ StopUnload(h) \/ Abandon(h)
    PROVE  SupInv'
<1> USE DEF SupInv
<1>1. UNCHANGED <<quarantine, entry, sup, reqVars, fixed, starts>>
  BY DEF Launch, SaveKey, StartRegister, StartMarkLoaded, StartResetWorked, Stop, Halt,
         Remove, DropKey, StopUnload, Abandon, dbVars, memVars
<1>2. hand \in [Handlers -> HandRecord] /\ hand[h].key \in Keys /\ 0 \in Keys
      /\ HandIdle \in HandRecord
  BY IdleType DEF TypeOK, HandRecord, HandIdle
<1>3. hand' \in [Handlers -> HandRecord]
  <2>1. CASE SaveKey(h)
    <3>1. [HandIdle EXCEPT !.at = "register"] \in HandRecord
      BY <1>2 DEF HandRecord, HandSteps
    <3> QED
      BY <1>2, <2>1, <3>1 DEF SaveKey
  <2>2. CASE Stop(h)
    <3>1. [hand[h] EXCEPT !.at = "halt"] \in HandRecord
      BY <1>2 DEF HandRecord, HandSteps
    <3> QED
      BY <1>2, <2>2, <3>1 DEF Stop
  <2>3. CASE Abandon(h)
    BY <1>2, <2>3 DEF Abandon
  <2>4. CASE \/ Launch(h) \/ StartRegister(h) \/ StartMarkLoaded(h) \/ StartResetWorked(h)
             \/ Halt(h) \/ Remove(h) \/ DropKey(h) \/ StopUnload(h)
    <3>1. PICK from \in HandSteps, to \in HandSteps : HandGoto(h, from, to)
      BY <2>4 DEF Launch, StartRegister, StartMarkLoaded, StartResetWorked, Halt, Remove,
                  DropKey, StopUnload, HandSteps
    <3> QED
      BY <3>1, HandGotoType
  <2> QED
    BY <2>1, <2>2, <2>3, <2>4
<1>4. /\ box' \in [state : BoxStates, key : Keys]
      /\ UNCHANGED troubles /\ served' \in {"no", "yes", "overlooked"}
  <2>1. CASE Launch(h)
    BY <1>2, <2>1, LaunchType DEF Launch
  <2>2. CASE Halt(h) \/ Remove(h)
    <3>1. /\ box' \in {box, [box EXCEPT !.state = "exited"], [state |-> "absent", key |-> 0]}
          /\ UNCHANGED <<troubles, served>>
      BY <2>2 DEF Halt, Remove
    <3>2. box \in [state : BoxStates, key : Keys] /\ served \in {"no", "yes", "overlooked"}
      BY DEF TypeOK
    <3>3. /\ [box EXCEPT !.state = "exited"] \in [state : BoxStates, key : Keys]
          /\ [state |-> "absent", key |-> 0] \in [state : BoxStates, key : Keys]
      BY <1>2, <3>2 DEF BoxStates
    <3> QED
      BY <3>1, <3>2, <3>3
  <2>3. CASE ~(Launch(h) \/ Halt(h) \/ Remove(h))
    BY <2>3 DEF SaveKey, StartRegister, StartMarkLoaded, StartResetWorked, Stop, DropKey,
                StopUnload, Abandon, TypeOK, boxVars
  <2> QED
    BY <2>1, <2>2, <2>3
<1>5. gate' \in BOOLEAN /\ workedMap' \in {"absent", "no", "yes"}
  BY DEF Launch, SaveKey, StartRegister, StartMarkLoaded, StartResetWorked, Stop, Halt,
         Remove, DropKey, StopUnload, Abandon, TypeOK, memVars
<1>6. faults' \in 0 .. MaxFaults[serial]
  <2>1. UNCHANGED faults \/ \E ok \in BOOLEAN : Outcome(ok)
    BY DEF Launch, SaveKey, StartRegister, StartMarkLoaded, StartResetWorked, Stop, Halt,
           Remove, DropKey, StopUnload, Abandon
  <2> QED
    BY <2>1, OutcomeType DEF TypeOK
<1>7. loaded' \in BOOLEAN /\ workedCol' \in BOOLEAN /\ secret' \in Keys
  <2>1. CASE SaveKey(h) \/ DropKey(h)
    BY <1>2, <2>1 DEF SaveKey, DropKey, TypeOK
  <2>2. CASE StartMarkLoaded(h) \/ StopUnload(h)
    BY <2>2 DEF StartMarkLoaded, StopUnload, TypeOK
  <2>3. CASE StartResetWorked(h)
    BY <2>3 DEF StartResetWorked, TypeOK
  <2>4. CASE Launch(h) \/ StartRegister(h) \/ Stop(h) \/ Halt(h) \/ Remove(h) \/ Abandon(h)
    BY <2>4 DEF Launch, StartRegister, Stop, Halt, Remove, Abandon, TypeOK, dbVars
  <2> QED
    BY <2>1, <2>2, <2>3, <2>4
<1>8. TypeOK'
  BY <1>1, <1>3, <1>4, <1>5, <1>6, <1>7, TypeStep DEF TypeOK, SupRecord, reqVars
<1>9. KickHasCopy' /\ CrashIsFollowedUp'
  BY <1>1, SupAlone
<1> QED
  BY <1>8, <1>9

LEMMA HandEntryStep ==
    ASSUME SupInv, NEW h \in Handlers, Unquarantine(h) \/ CleanUp(h)
    PROVE  SupInv'
<1> USE DEF SupInv
<1>1. UNCHANGED <<boxVars, loaded, workedCol, secret, sup, reqVars, fixed, starts, served>>
  BY DEF Unquarantine, CleanUp, dbVars
<1>2. hand' \in [Handlers -> HandRecord]
  BY HandGotoType DEF Unquarantine, CleanUp, HandSteps
<1>3. /\ gate' \in BOOLEAN /\ workedMap' \in {"absent", "no", "yes"}
      /\ faults' \in 0 .. MaxFaults[serial] /\ quarantine' \in Reasons \cup {"none"}
  BY OutcomeType DEF Unquarantine, CleanUp, TypeOK, dbVars
<1>4. \/ entry' = NoEntry
      \/ entry' = Fresh("Starting")
  BY DEF Unquarantine, CleanUp
<1>5. Fresh("Starting") \in BackendState /\ Fresh("Starting").fsm # "Crashed"
  BY FreshType
<1>6. TypeOK'
  BY <1>1, <1>2, <1>3, <1>4, <1>5, TypeStep DEF TypeOK, SupRecord, boxVars, reqVars
<1>7. KickHasCopy' /\ CrashIsFollowedUp'
  BY <1>1, <1>4, <1>5 DEF KickHasCopy, CrashIsFollowedUp
<1> QED
  BY <1>6, <1>7

-----------------------------------------------------------------------------
(* Restarts, and time.                                                     *)

LEMMA RestartStep ==
    ASSUME SupInv, ProxyRestart
    PROVE  SupInv'
<1> USE DEF SupInv
<1>1. /\ UNCHANGED <<boxVars, workedCol, quarantine, secret, fixed, starts, served>>
      /\ answered' = FALSE /\ writing' = FALSE /\ workedMap' = "absent"
      /\ hand' = [h \in Handlers |-> HandIdle] /\ sup' = SupIdle
  BY DEF ProxyRestart
<1>2. hand' \in [Handlers -> HandRecord] /\ sup' \in SupRecord /\ sup'.at = "idle"
  BY <1>1, IdleType DEF SupIdle
<1>3. PICK inspect \in BOOLEAN, update \in BOOLEAN :
          LET listed == loaded /\ secret # 0
              alive == listed /\ inspect /\ Running
          IN  /\ Outcome(Quiet /\ inspect /\ update)
              /\ gate' = alive
              /\ entry' = IF alive THEN Fresh("Healthy") ELSE NoEntry
              /\ loaded' = (loaded /\ (~listed \/ alive \/ ~update))
  BY DEF ProxyRestart
<1>4. gate' \in BOOLEAN /\ loaded' \in BOOLEAN /\ faults' \in 0 .. MaxFaults[serial]
  <2>1. (Quiet /\ inspect /\ update) \in BOOLEAN
    OBVIOUS
  <2>2. faults' \in 0 .. MaxFaults[serial]
    BY <1>3, <2>1, OutcomeType
  <2> QED
    BY <1>3, <2>2
<1>5. entry' = NoEntry \/ (entry' \in BackendState /\ entry'.fsm # "Crashed")
  BY <1>3, FreshType
<1>6. TypeOK'
  BY <1>1, <1>2, <1>4, <1>5, TypeStep DEF TypeOK, boxVars
<1>7. KickHasCopy' /\ CrashIsFollowedUp'
  BY <1>2, <1>5 DEF KickHasCopy, CrashIsFollowedUp
<1> QED
  BY <1>6, <1>7

LEMMA TimeStep ==
    ASSUME SupInv, Age \/ AgeCopy \/ PauseEnds
    PROVE  SupInv'
<1> USE DEF SupInv
<1>1. UNCHANGED <<boxVars, dbVars, gate, workedMap, hand, reqVars, fixed, starts, faults, served>>
  BY DEF Age, AgeCopy, PauseEnds, memVars
<1>2. CASE Age \/ PauseEnds
  <2>1. /\ UNCHANGED sup /\ entry # NoEntry /\ entry \in BackendState
        /\ entry' \in {[entry EXCEPT !.grace = FALSE], [entry EXCEPT !.paused = FALSE]}
    BY <1>2 DEF Age, PauseEnds, TypeOK
  <2>2. entry' \in BackendState /\ entry'.fsm = entry.fsm
    BY <2>1 DEF BackendState
  <2>3. TypeOK'
    BY <1>1, <2>1, <2>2, TypeStep
       DEF TypeOK, SupRecord, HandRecord, boxVars, dbVars, reqVars
  <2> QED
    BY <2>1, <2>2, <2>3, EntryReplaced
<1>3. CASE AgeCopy
  <2>1. /\ UNCHANGED entry /\ sup.prev \in BackendState /\ sup \in SupRecord
        /\ sup' = [sup EXCEPT !.prev = [sup.prev EXCEPT !.grace = FALSE]]
    BY <1>3 DEF AgeCopy, TypeOK, SupRecord, memVars
  <2>2. [sup.prev EXCEPT !.grace = FALSE] \in BackendState
    BY <2>1 DEF BackendState
  <2>3. sup' \in SupRecord /\ sup'.at = sup.at /\ sup'.prev \in BackendState
    BY <2>1, <2>2 DEF SupRecord
  <2>4. TypeOK'
    BY <1>1, <2>1, <2>3, TypeStep DEF TypeOK, HandRecord, boxVars, dbVars, reqVars
  <2> QED
    BY <2>1, <2>3, <2>4 DEF KickHasCopy, CrashIsFollowedUp
<1> QED
  BY <1>2, <1>3

-----------------------------------------------------------------------------
LEMMA SupInit == Init => SupInv
<1> SUFFICES ASSUME Init PROVE SupInv
  OBVIOUS
<1>1. /\ MaxStarts[serial] \in Nat /\ MaxTroubles[serial] \in Nat /\ MaxFaults[serial] \in Nat
      /\ kind \in Kinds /\ serial \in Modes
  BY SupervisorAssumption DEF Init
<1>2. 0 \in Keys
  BY <1>1 DEF Keys
<1>3. sup \in SupRecord /\ sup.at = "idle"
  BY <1>2 DEF Init, SupIdle, SupRecord, SupSteps
<1>4. hand \in [Handlers -> HandRecord]
  BY <1>2 DEF Init, HandIdle, HandRecord, HandSteps
<1>5. TypeOK
  <2>1. box \in [state : BoxStates, key : Keys]
    BY <1>2 DEF Init, BoxStates
  <2>2. /\ starts \in 0 .. MaxStarts[serial] /\ troubles \in 0 .. MaxTroubles[serial]
        /\ faults \in 0 .. MaxFaults[serial]
    BY <1>1 DEF Init
  <2>3. /\ loaded \in BOOLEAN /\ workedCol \in BOOLEAN /\ gate \in BOOLEAN
        /\ answered \in BOOLEAN /\ writing \in BOOLEAN /\ served \in {"no", "yes", "overlooked"}
    BY DEF Init
  <2> QED
    BY <1>1, <1>2, <1>3, <1>4, <2>1, <2>2, <2>3 DEF Init, TypeOK, SupRecord, HandRecord
<1> QED
  BY <1>3, <1>5 DEF Init, SupInv, KickHasCopy, CrashIsFollowedUp

LEMMA SupStepKeeps == SupInv /\ [Next]_vars => SupInv'
<1> SUFFICES ASSUME SupInv, [Next]_vars
             PROVE  SupInv'
  OBVIOUS
<1>1. CASE UNCHANGED vars
  <2>1. TypeOK'
    BY <1>1, TypeStep DEF SupInv, TypeOK, SupRecord, HandRecord, vars, boxVars, dbVars,
                          memVars, reqVars, fixed
  <2> QED
    BY <1>1, <2>1, SupAlone DEF SupInv, vars, memVars
<1>2. CASE Container
  BY <1>2, BoxStep
<1>3. CASE Answer \/ RecordWorked \/ WriteWorked
  BY <1>3, RequestStep
<1>4. CASE Kick \/ SupStep
  BY <1>4, KickStep, ProbeStep, InspectStep, ReconcileStep, DecideStep, SupLaunchStep, SettleStep
     DEF SupStep
<1>5. CASE \E h \in Handlers : Start(h) \/ Stop(h) \/ HandStep(h) \/ Abandon(h)
  BY <1>5, StartStep, HandQuietStep, HandEntryStep DEF HandStep
<1>6. CASE ProxyRestart \/ Age \/ AgeCopy \/ PauseEnds
  BY <1>6, RestartStep, TimeStep
<1> QED
  BY <1>1, <1>2, <1>3, <1>4, <1>5, <1>6 DEF Next

\* SupInv holds in every reachable state.
THEOREM SupervisorInvariant == Spec => []SupInv
<1>1. Init => SupInv
  BY SupInit
<1>2. SupInv /\ [Next]_vars => SupInv'
  BY SupStepKeeps
<1> QED
  BY <1>1, <1>2, PTL DEF Spec

\* The variables of a model's backend keep their types.
THEOREM SupervisorTypes == Spec => []TypeOK
<1>1. SupInv => TypeOK
  BY DEF SupInv
<1> QED
  BY <1>1, SupervisorInvariant, PTL

\* However many handlers, kicks, failures and restarts of the proxy interleave, no
\* entry is left Crashed once the kick that found the crash is over (handle_kick
\* passes over Crashed entries, so it would never be looked at again).
THEOREM NoCrashIsForgotten == Spec => []NoDeadEnd
<1>1. SupInv => NoDeadEnd
  BY DEF SupInv, CrashIsFollowedUp, FollowUp, NoDeadEnd
<1> QED
  BY <1>1, SupervisorInvariant, PTL

-----------------------------------------------------------------------------
(* One actor at a time and no failure: what each of them knows while it is *)
(* at work.                                                                *)

\* A model at rest: what SerialConsistent says, without its condition.
AtRest ==
    /\ loaded <=> gate
    /\ loaded => /\ secret # 0 /\ quarantine = "none"
                 /\ entry # NoEntry /\ entry.fsm \notin {"Crashed", "Quarantined"}

\* Handlers, kicks and requests take turns.
Turns ==
    /\ ~NoKick => NoRequest /\ NoHandler
    /\ \A h \in Handlers : hand[h] # HandIdle =>
          NoRequest /\ \A g \in Handlers \ {h} : hand[g] = HandIdle

\* The steps of a start, and of a restart, that follow the new key or container.
KeySaved == {"register", "markLoaded", "resetWorked", "unquarantine"}
Relaunched == {"resetWorked", "register", "markLoaded"}
Unsettled == {"markLoaded", "resetWorked", "unquarantine", "dropKey", "unload"}

Rested ==
    /\ sup.at \in {"idle", "dead", "probe", "inspect"}
    /\ \A h \in Handlers : hand[h].at \notin Unsettled
    => AtRest

HandlerKnows(h) ==
    LET at == hand[h].at
    IN  /\ at \in {"launch", "saveKey"} => hand[h].key # 0
        /\ at \in KeySaved => secret # 0
        /\ at \in KeySaved \cup {"saveKey"} => served # "yes"
        /\ at \in {"markLoaded", "resetWorked", "unquarantine"} => gate
        /\ at \in {"resetWorked", "unquarantine"} => loaded
        /\ at = "resetWorked" => workedMap = "no"
        /\ at \in {"dropKey", "unload"} => ~gate

KickKnows ==
    LET at == sup.at
    IN  /\ ~NoKick => kind = "llamacpp"
        /\ at \in {"probe", "inspect"} => sup.prev.fsm \notin {"Crashed", "Quarantined"}
        /\ at \in FollowUp \ {"unload"} => ~loaded
        /\ at \in FollowUp \ {"unload", "drop", "markLoaded"} => ~gate
        /\ at \in {"log", "decide"} => workedMap = "absent"
        /\ at = "giveUp" => ~workedCol
        /\ at = "quarantine" => secret = 0
        /\ at = "lookup" => quarantine # "neverWorked"
        /\ at \in Relaunched \cup {"launch"} => secret # 0 /\ quarantine = "none"
        /\ at \in Relaunched => served # "yes"
        /\ at = "resetWorked" => workedMap = "no"
        /\ at = "markLoaded" => gate

\* The reasons of a quarantine hold as long as it does, until a start that is
\* about to lift it.
ReasonsHold ==
    /\ quarantine = "neverWorked" => ~workedCol
    /\ quarantine = "restartFailed" => secret = 0 \/ \E h \in Handlers : hand[h].at \in KeySaved

\* An answer is on its way to the column, or there.
AnswerKept ==
    /\ ~NoRequest => loaded
    /\ served = "yes" => workedCol \/ ~NoRequest
    /\ workedMap = "yes" => workedCol \/ writing

Orderly ==
    /\ Turns /\ Rested /\ KickKnows /\ ReasonsHold /\ AnswerKept
    /\ \A h \in Handlers : HandlerKnows(h)

SerialInv == Undisturbed => Orderly

-----------------------------------------------------------------------------
(* A statement or call that must not fail, does not.                       *)

LEMMA NoFailure ==
    ASSUME TypeOK, NEW ok \in BOOLEAN, Outcome(ok), faults' = 0
    PROVE  ok
<1>1. MaxFaults[serial] \in Nat /\ faults \in Nat
  BY SupervisorAssumption DEF TypeOK
<1> QED
  BY <1>1 DEF Outcome

LEMMA NeverFails == ASSUME TypeOK, faults' = 0 PROVE ~Outcome(FALSE)
  BY NoFailure

\* What a kick under way sees of the model, and what a handler sees.
Facts ==
    /\ quarantine = "neverWorked" => ~workedCol
    /\ served = "yes" => workedCol
    /\ workedMap = "yes" => workedCol

KickView ==
    /\ sup.at \in {"idle", "dead", "probe", "inspect"} => AtRest
    /\ Facts /\ KickKnows
    /\ quarantine = "restartFailed" => secret = 0

HandView(h) ==
    /\ hand[h].at \notin Unsettled => AtRest
    /\ Facts /\ HandlerKnows(h)
    /\ quarantine = "restartFailed" => secret = 0 \/ hand[h].at \in KeySaved

LEMMA IdlePlace == HandIdle.at = "idle" /\ SupIdle.at = "idle"
  BY DEF HandIdle, SupIdle

LEMMA IdleKnows ==
    ASSUME NEW h, hand[h] = HandIdle
    PROVE  HandlerKnows(h) /\ hand[h].at \notin Unsettled \cup KeySaved
  BY IdlePlace DEF HandlerKnows, KeySaved, Unsettled

LEMMA NoKickKnows == NoKick => KickKnows
  BY DEF NoKick, KickKnows, FollowUp, Relaunched

LEMMA KickSees ==
    ASSUME Orderly, NoRequest, NoHandler PROVE KickView
<1>1. \A h \in Handlers : hand[h].at \notin Unsettled \cup KeySaved
  BY IdleKnows DEF NoHandler
<1> QED
  BY <1>1 DEF Orderly, Rested, ReasonsHold, AnswerKept, NoRequest, KickView, Facts

LEMMA KickShows ==
    ASSUME NoRequest, NoHandler, KickView PROVE Orderly
<1>1. \A h \in Handlers : HandlerKnows(h) /\ hand[h].at \notin Unsettled \cup KeySaved
  BY IdleKnows DEF NoHandler
<1>2. Turns
  BY DEF Turns, NoHandler
<1>3. Rested
  BY DEF KickView, Rested
<1> QED
  BY <1>1, <1>2, <1>3 DEF Orderly, ReasonsHold, AnswerKept, NoRequest, KickView, Facts

LEMMA KickShowsPrime ==
    (NoRequest /\ NoHandler /\ KickView => Orderly)' 
  BY KickShows, PTL

\* Handler h is at work, or about to be.
Alone(h) == NoRequest /\ NoKick /\ \A g \in Handlers \ {h} : hand[g] = HandIdle

LEMMA HandAlone ==
    ASSUME Orderly, NEW h \in Handlers, hand[h] # HandIdle \/ Quiet PROVE Alone(h)
<1>1. CASE Quiet
  BY <1>1 DEF Quiet, NoHandler, Alone
<1>2. CASE hand[h] # HandIdle
  <2>1. ~NoHandler
    BY <1>2 DEF NoHandler
  <2> QED
    BY <1>2, <2>1 DEF Orderly, Turns, Alone
<1> QED
  BY <1>1, <1>2

LEMMA HandSees ==
    ASSUME Orderly, NEW h \in Handlers, Alone(h) PROVE HandView(h)
<1>1. \A g \in Handlers \ {h} : hand[g].at \notin Unsettled \cup KeySaved
  BY IdleKnows DEF Alone
<1>2. sup.at \in {"idle", "dead"}
  BY DEF Alone, NoKick
<1> QED
  BY <1>1, <1>2 DEF Orderly, Rested, ReasonsHold, AnswerKept, Alone, NoRequest, HandView, Facts

LEMMA HandShows ==
    ASSUME NEW h \in Handlers, Alone(h), HandView(h) PROVE Orderly
<1>1. \A g \in Handlers \ {h} : HandlerKnows(g) /\ hand[g].at \notin Unsettled \cup KeySaved
  BY IdleKnows DEF Alone
<1>2. Turns
  BY DEF Turns, Alone
<1>3. Rested
  BY DEF HandView, Rested
<1>4. KickKnows
  BY NoKickKnows DEF Alone
<1> QED
  BY <1>1, <1>2, <1>3, <1>4 DEF Orderly, ReasonsHold, AnswerKept, Alone, NoRequest, HandView, Facts

LEMMA HandShowsPrime ==
    (\A h \in Handlers : Alone(h) /\ HandView(h) => Orderly)'
<1>1. \A h \in Handlers : Alone(h) /\ HandView(h) => Orderly
  BY HandShows
<1> QED
  BY <1>1, PTL

-----------------------------------------------------------------------------
(* The kick, one actor at a time.                                          *)

\* A step under way has the model to itself, and so has the next.
LEMMA KickAlone ==
    ASSUME Orderly, ~NoKick, UNCHANGED <<hand, reqVars>>
    PROVE  /\ KickView /\ (KickView' => Orderly')
<1>1. NoRequest /\ NoHandler
  BY DEF Orderly, Turns
<1>2. NoRequest' /\ NoHandler'
  BY <1>1 DEF NoRequest, NoHandler, reqVars
<1> QED
  BY <1>1, <1>2, KickSees, KickShowsPrime

LEMMA RestSame == ASSUME UNCHANGED <<loaded, quarantine, secret, gate, entry>>, AtRest PROVE AtRest'
  BY DEF AtRest

LEMMA OrderlyKick ==
    ASSUME SupInv, Orderly, Undisturbed, faults' = 0, Kick PROVE Orderly'
<1>1. /\ NoRequest /\ NoHandler /\ sup.at = "idle"
      /\ entry \in BackendState /\ entry.fsm \notin {"Crashed", "Quarantined"}
      /\ UNCHANGED <<loaded, workedCol, quarantine, secret, gate, entry, workedMap, hand,
                     answered, writing, kind, serial, served>>
  BY DEF Kick, Undisturbed, SupInv, TypeOK, dbVars, memVars, reqVars, fixed
<1>2. sup' = IF kind = "other" THEN [SupIdle EXCEPT !.at = "dead"]
             ELSE [SupIdle EXCEPT !.at = "probe", !.prev = entry]
  BY NoFailure DEF Kick, SupInv
<1>3. /\ [SupIdle EXCEPT !.at = "dead"].at = "dead"
      /\ [SupIdle EXCEPT !.at = "probe", !.prev = entry].at = "probe"
      /\ [SupIdle EXCEPT !.at = "probe", !.prev = entry].prev = entry
  BY DEF SupIdle
<1>4. kind \in {"llamacpp", "other"}
  BY SupervisorAssumption DEF SupInv, TypeOK
<1>5. \/ sup'.at = "dead"
      \/ sup'.at = "probe" /\ sup'.prev = entry /\ kind = "llamacpp"
  BY <1>2, <1>3, <1>4
<1>6. KickView
  BY <1>1, KickSees
<1>7. KickKnows'
  BY <1>1, <1>5 DEF KickKnows, NoKick, FollowUp, Relaunched
<1>8. KickView'
  BY <1>1, <1>6, <1>7, RestSame DEF KickView, Facts
<1>9. NoRequest' /\ NoHandler'
  BY <1>1 DEF NoRequest, NoHandler
<1> QED
  BY <1>8, <1>9, KickShowsPrime

LEMMA FailedState ==
    ASSUME NEW prev \in BackendState, NEW fsm \in Fsm PROVE Failed(prev, fsm).fsm = fsm
<1> DEFINE n == IF prev.failures < Threshold THEN prev.failures + 1 ELSE prev.failures
           g == prev.grace /\ fsm = "Starting"
           p == [prev EXCEPT !.fsm = fsm]
           q == [p EXCEPT !.grace = g]
           s == [q EXCEPT !.failures = n]
<1>1. p \in BackendState /\ p.fsm = fsm
  BY DEF BackendState
<1>2. q \in BackendState /\ q.fsm = p.fsm
  <2>1. g \in BOOLEAN
    OBVIOUS
  <2> HIDE DEF p, g
  <2> QED
    BY <1>1, <2>1 DEF BackendState
<1>3. s.fsm = q.fsm
  <2> HIDE DEF q, n
  <2> QED
    BY <1>2 DEF BackendState
<1>4. Failed(prev, fsm) = s
  BY Zenon DEF Failed
<1> HIDE DEF p, q, s, n, g
<1> QED
  BY <1>1, <1>2, <1>3, <1>4, Zenon

LEMMA SucceededState ==
    ASSUME NEW prev \in BackendState
    PROVE  /\ [prev EXCEPT !.fsm = "Healthy", !.grace = FALSE, !.failures = 0] \in BackendState
           /\ [prev EXCEPT !.fsm = "Healthy", !.grace = FALSE, !.failures = 0].fsm = "Healthy"
<1>1. "Healthy" \in Fsm /\ FALSE \in BOOLEAN /\ 0 \in 0 .. Threshold
  BY DEF Fsm, Threshold
<1> QED
  BY <1>1, ReplacedType, Zenon

\* The transition never quarantines.
LEMMA TransitionSound ==
    ASSUME NEW prev \in BackendState, NEW outcome, prev.fsm # "Quarantined"
    PROVE  Transition(prev, outcome).fsm # "Quarantined"
<1>1. /\ Failed(prev, "Crashed").fsm = "Crashed" /\ Failed(prev, "Starting").fsm = "Starting"
      /\ Failed(prev, IF prev.failures + 1 >= Threshold THEN "Crashed" ELSE "Suspect").fsm
            \in {"Crashed", "Suspect"}
  BY FailedState DEF Fsm
<1>2. [prev EXCEPT !.failures = 0].fsm = prev.fsm
  BY DEF BackendState
<1> QED
  BY <1>1, <1>2, SucceededState DEF Transition

LEMMA RestEntry ==
    ASSUME UNCHANGED <<loaded, quarantine, secret, gate>>, AtRest,
           entry' \in BackendState, entry'.fsm \notin {"Crashed", "Quarantined"}
    PROVE  AtRest'
  BY NoEntryIsNoState DEF AtRest

LEMMA OrderlyProbe ==
    ASSUME SupInv, Orderly, Probe PROVE Orderly'
<1>1. /\ sup.at = "probe" /\ sup.prev \in BackendState
      /\ UNCHANGED <<loaded, workedCol, quarantine, secret, gate, workedMap, hand,
                     answered, writing, kind, serial, served>>
  BY DEF Probe, SupInv, KickHasCopy, dbVars, reqVars, fixed
<1>2. KickView /\ (KickView' => Orderly')
  BY <1>1, KickAlone DEF NoKick, reqVars
<1>3. PICK outcome \in {"ok", "loading", "transport", "other"} :
          IF outcome = "ok"
          THEN sup' = SupIdle /\ entry' = Transition(sup.prev, outcome)
          ELSE sup' = [sup EXCEPT !.at = "inspect", !.seen = outcome] /\ UNCHANGED entry
  BY DEF Probe, HealthAnswers
<1>4. CASE outcome = "ok"
  <2>1. sup'.at = "idle"
    BY <1>3, <1>4 DEF SupIdle
  <2>2. /\ entry' \in BackendState /\ entry'.fsm # "Crashed" /\ entry'.fsm # "Quarantined"
    BY <1>1, <1>2, <1>3, <1>4, TransitionType, TransitionSound DEF KickView, KickKnows
  <2>3. KickKnows'
    BY <2>1 DEF KickKnows, NoKick, FollowUp, Relaunched
  <2>4. AtRest'
    BY <1>1, <1>2, <2>2, RestEntry DEF KickView
  <2> QED
    BY <1>1, <1>2, <2>3, <2>4 DEF KickView, Facts
<1>5. CASE outcome # "ok"
  <2>1. sup \in SupRecord /\ sup' = [sup EXCEPT !.at = "inspect", !.seen = outcome]
    BY <1>3, <1>5 DEF SupInv, TypeOK, SupRecord
  <2>2. sup'.at = "inspect" /\ sup'.prev = sup.prev
    BY <2>1 DEF SupRecord
  <2>3. KickKnows'
    BY <1>1, <1>2, <2>2 DEF KickView, KickKnows, NoKick, FollowUp, Relaunched
  <2>4. AtRest'
    BY <1>1, <1>2, <1>3, <1>5, RestSame DEF KickView
  <2> QED
    BY <1>1, <1>2, <2>3, <2>4 DEF KickView, Facts
<1> QED
  BY <1>4, <1>5

LEMMA OrderlyInspect ==
    ASSUME SupInv, Orderly, Inspect PROVE Orderly'
<1>1. /\ sup.at = "inspect" /\ sup.prev \in BackendState
      /\ UNCHANGED <<loaded, workedCol, quarantine, secret, gate, workedMap, hand,
                     answered, writing, kind, serial, served>>
  BY DEF Inspect, SupInv, KickHasCopy, dbVars, reqVars, fixed
<1>2. KickView /\ (KickView' => Orderly')
  BY <1>1, KickAlone DEF NoKick, reqVars
<1>3. PICK outcome \in ProbeOutcomes \cup {"none"} :
          /\ entry' = Transition(sup.prev, outcome)
          /\ sup' = IF Transition(sup.prev, outcome).fsm = "Crashed"
                    THEN [SupIdle EXCEPT !.at = "unload"] ELSE SupIdle
  BY DEF Inspect, SupInv, TypeOK, ProbeOutcomes
<1>4. entry' \in BackendState /\ entry'.fsm # "Quarantined"
  BY <1>1, <1>2, <1>3, TransitionType, TransitionSound DEF KickView, KickKnows
<1>5. SupIdle.at = "idle" /\ [SupIdle EXCEPT !.at = "unload"].at = "unload"
  BY DEF SupIdle
<1>6. CASE entry'.fsm = "Crashed"
  <2>1. sup'.at = "unload"
    BY <1>3, <1>5, <1>6
  <2>2. KickKnows'
    BY <1>1, <1>2, <2>1 DEF KickView, KickKnows, NoKick, FollowUp, Relaunched
  <2> QED
    BY <1>1, <1>2, <2>1, <2>2 DEF KickView, Facts
<1>7. CASE entry'.fsm # "Crashed"
  <2>1. sup'.at = "idle"
    BY <1>3, <1>5, <1>7
  <2>2. KickKnows'
    BY <2>1 DEF KickKnows, NoKick, FollowUp, Relaunched
  <2>3. AtRest'
    BY <1>1, <1>2, <1>4, <1>7, RestEntry DEF KickView
  <2> QED
    BY <1>1, <1>2, <2>2, <2>3 DEF KickView, Facts
<1> QED
  BY <1>6, <1>7

LEMMA OrderlyReconcile ==
    ASSUME SupInv, Orderly, faults' = 0, Unload \/ Drop \/ LogCrash PROVE Orderly'
<1>1. /\ UNCHANGED <<workedCol, quarantine, secret, entry, hand, answered, writing, kind, served>>
      /\ sup.at \in {"unload", "drop", "log"}
  BY DEF Unload, Drop, LogCrash, SupGoto, dbVars, memVars, reqVars, fixed
<1>2. KickView /\ (KickView' => Orderly')
  BY <1>1, KickAlone DEF NoKick, reqVars
<1> USE DEF SupInv
<1>3. CASE Unload
  <2>1. sup.at = "unload" /\ sup'.at = "drop" /\ ~loaded' /\ UNCHANGED <<gate, workedMap>>
    BY <1>3, SupGotoType, NoFailure DEF Unload, SupSteps, memVars
  <2>2. KickKnows'
    BY <1>1, <1>2, <2>1 DEF KickView, Facts, KickKnows, NoKick, FollowUp, Relaunched, SupSteps
  <2> QED
    BY <1>1, <1>2, <2>1, <2>2 DEF KickView, Facts, KickKnows
<1>4. CASE Drop
  <2>1. /\ sup.at = "drop" /\ sup'.at = "log" /\ ~gate' /\ workedMap' = "absent"
        /\ UNCHANGED loaded
    BY <1>4, SupGotoType DEF Drop, SupSteps, dbVars
  <2>2. KickKnows'
    BY <1>1, <1>2, <2>1 DEF KickView, Facts, KickKnows, NoKick, FollowUp, Relaunched, SupSteps
  <2> QED
    BY <1>1, <1>2, <2>1, <2>2 DEF KickView, Facts, KickKnows
<1>5. CASE LogCrash
  <2>1. /\ sup.at = "log" /\ sup'.at = "decide" /\ UNCHANGED <<loaded, gate, workedMap>>
    BY <1>5, SupGotoType DEF LogCrash, SupSteps, dbVars, memVars
  <2>2. KickKnows'
    BY <1>1, <1>2, <2>1 DEF KickView, Facts, KickKnows, NoKick, FollowUp, Relaunched, SupSteps
  <2> QED
    BY <1>1, <1>2, <2>1, <2>2 DEF KickView, Facts, KickKnows
<1> QED
  BY <1>3, <1>4, <1>5

LEMMA OrderlyDecide ==
    ASSUME SupInv, Orderly, faults' = 0, Decide \/ Lookup PROVE Orderly'
<1>1. /\ UNCHANGED <<loaded, workedCol, quarantine, secret, gate, entry, workedMap, hand,
                     answered, writing, kind, served>>
      /\ sup.at \in {"decide", "lookup"}
  BY DEF Decide, Lookup, SupGoto, dbVars, memVars, reqVars, fixed
<1>2. KickView /\ (KickView' => Orderly')
  BY <1>1, KickAlone DEF NoKick, reqVars
<1> USE DEF SupInv
<1>3. CASE Decide
  <2>1. /\ sup.at = "decide" /\ workedMap = "absent"
        /\ SupGoto("decide", IF workedCol THEN "lookup" ELSE "giveUp")
    <3>1. sup.at = "decide"
      BY <1>3 DEF Decide, SupGoto
    <3>2. workedMap = "absent"
      BY <1>2, <3>1 DEF KickView, KickKnows
    <3> QED
      BY <1>3, <3>1, <3>2, NoFailure DEF Decide
  <2>2. sup'.at = IF workedCol THEN "lookup" ELSE "giveUp"
    BY <2>1, SupGotoType DEF SupSteps
  <2>3. KickKnows'
    BY <1>1, <1>2, <2>1, <2>2 DEF KickView, Facts, KickKnows, NoKick, FollowUp, Relaunched, SupSteps
  <2> QED
    BY <1>1, <1>2, <2>1, <2>2, <2>3 DEF KickView, Facts, KickKnows
<1>4. CASE Lookup
  <2>1. sup.at = "lookup" /\ kind = "llamacpp" /\ quarantine # "neverWorked"
    <3>1. sup.at = "lookup"
      BY <1>4 DEF Lookup
    <3> QED
      BY <1>2, <3>1 DEF KickView, KickKnows, NoKick
  <2>2. \/ secret # 0 /\ sup'.at = "launch"
        \/ secret = 0 /\ sup'.at = "quarantine"
    <3>1. CASE secret # 0 /\ sup' = [sup EXCEPT !.at = "launch", !.key = secret]
      BY <3>1 DEF TypeOK
    <3>2. CASE secret = 0 /\ SupGoto("lookup", "quarantine")
      BY <3>2, SupGotoType DEF SupSteps
    <3> QED
      BY <1>4, <2>1, <3>1, <3>2, NeverFails DEF Lookup
  <2>3. quarantine \in {"neverWorked", "restartFailed", "none"}
    BY DEF TypeOK, Reasons
  <2>4. sup'.at = "launch" => quarantine = "none"
    BY <1>2, <2>1, <2>2, <2>3 DEF KickView
  <2>5. sup'.at \in {"launch", "quarantine"}
    BY <2>2
  <2>6. KickKnows'
    BY <1>1, <1>2, <2>1, <2>2, <2>4, <2>5
       DEF KickView, Facts, KickKnows, NoKick, FollowUp, Relaunched, SupSteps
  <2> QED
    BY <1>1, <1>2, <2>5, <2>6 DEF KickView, Facts
<1> QED
  BY <1>3, <1>4

LEMMA OrderlyRelaunch ==
    ASSUME SupInv, Orderly, faults' = 0, SupLaunch \/ ResetWorked \/ Register PROVE Orderly'
<1>1. /\ UNCHANGED <<loaded, quarantine, secret, entry, hand, answered, writing, kind>>
      /\ sup.at \in {"launch", "resetWorked", "register"}
  BY DEF SupLaunch, ResetWorked, Register, SupGoto, dbVars, memVars, reqVars, fixed
<1>2. KickView /\ (KickView' => Orderly')
  BY <1>1, KickAlone DEF NoKick, reqVars
<1> USE DEF SupInv
<1>3. CASE SupLaunch
  <2>1. /\ sup.at = "launch" /\ sup' = [SupIdle EXCEPT !.at = "resetWorked"]
        /\ served' # "yes" /\ workedMap' = "no" /\ UNCHANGED <<workedCol, gate>>
    BY <1>3, NeverFails DEF SupLaunch, Launched, dbVars
  <2>2. sup'.at = "resetWorked"
    BY <2>1 DEF SupIdle
  <2>3. KickKnows'
    BY <1>1, <1>2, <2>1, <2>2 DEF KickView, Facts, KickKnows, NoKick, FollowUp, Relaunched, SupSteps
  <2> QED
    BY <1>1, <1>2, <2>1, <2>2, <2>3 DEF KickView, Facts, KickKnows
<1>4. CASE ResetWorked
  <2>1. /\ sup.at = "resetWorked" /\ sup'.at = "register" /\ UNCHANGED <<gate, workedMap, served>>
    BY <1>4, SupGotoType DEF ResetWorked, SupSteps, memVars
  <2>2. KickKnows'
    BY <1>1, <1>2, <2>1 DEF KickView, Facts, KickKnows, NoKick, FollowUp, Relaunched, SupSteps
  <2>3. quarantine = "none" /\ served # "yes" /\ workedMap = "no"
    BY <1>2, <2>1 DEF KickView, KickKnows, Relaunched
  <2> QED
    BY <1>1, <1>2, <2>1, <2>2, <2>3 DEF KickView, Facts
<1>5. CASE Register
  <2>1. /\ sup.at = "register" /\ sup'.at = "markLoaded" /\ gate'
        /\ UNCHANGED <<workedCol, workedMap, served>>
    BY <1>5, SupGotoType DEF Register, SupSteps, dbVars
  <2>2. KickKnows'
    BY <1>1, <1>2, <2>1 DEF KickView, Facts, KickKnows, NoKick, FollowUp, Relaunched, SupSteps
  <2> QED
    BY <1>1, <1>2, <2>1, <2>2 DEF KickView, Facts, KickKnows
<1> QED
  BY <1>3, <1>4, <1>5

LEMMA OrderlySettle ==
    ASSUME SupInv, Orderly, faults' = 0, MarkLoaded \/ Quarantine PROVE Orderly'
<1>1. /\ UNCHANGED <<workedCol, secret, gate, workedMap, hand, answered, writing, kind, served>>
      /\ sup.at \in {"markLoaded", "giveUp", "quarantine"}
  BY DEF MarkLoaded, Quarantine, SupGoto, dbVars, memVars, reqVars, fixed
<1>2. KickView /\ (KickView' => Orderly')
  BY <1>1, KickAlone DEF NoKick, reqVars
<1> USE DEF SupInv
<1>3. sup'.at = "idle"
  BY SupGotoType DEF MarkLoaded, Quarantine, SupSteps
<1>4. KickKnows'
  BY <1>3 DEF KickKnows, NoKick, FollowUp, Relaunched
<1>5. CASE MarkLoaded
  <2>1. sup.at = "markLoaded" /\ loaded' /\ entry' = Fresh("Healthy") /\ UNCHANGED quarantine
    BY <1>5, SupGotoType, NoFailure DEF MarkLoaded, SupSteps
  <2>2. gate /\ secret # 0 /\ quarantine = "none"
    BY <1>2, <2>1 DEF KickView, KickKnows, Relaunched
  <2>3. Fresh("Healthy") \in BackendState /\ Fresh("Healthy").fsm = "Healthy"
    BY FreshType DEF Fresh
  <2>4. AtRest'
    BY <1>1, <2>1, <2>2, <2>3, NoEntryIsNoState DEF AtRest
  <2> QED
    BY <1>1, <1>2, <1>4, <2>1, <2>4 DEF KickView, Facts
<1>6. CASE Quarantine
  <2>1. /\ UNCHANGED loaded
        /\ \/ sup.at = "giveUp" /\ quarantine' = "neverWorked"
           \/ sup.at = "quarantine" /\ quarantine' = "restartFailed"
    <3>1. PICK ok \in BOOLEAN :
            /\ Outcome(ok)
            /\ \/ sup.at = "giveUp" /\ quarantine' = (IF ok THEN "neverWorked" ELSE quarantine)
               \/ sup.at = "quarantine" /\ quarantine' = (IF ok THEN "restartFailed" ELSE quarantine)
      BY <1>6 DEF Quarantine
    <3>2. ok
      BY <3>1, NoFailure
    <3> QED
      BY <1>6, <3>1, <3>2 DEF Quarantine
  <2>2. ~loaded /\ ~gate
    BY <1>2, <2>1 DEF KickView, KickKnows, FollowUp, SupSteps
  <2>3. AtRest'
    BY <1>1, <2>1, <2>2 DEF AtRest
  <2> QED
    BY <1>1, <1>2, <1>4, <2>1, <2>3 DEF KickView, Facts, KickKnows
<1> QED
  BY <1>5, <1>6

-----------------------------------------------------------------------------
(* The handlers, one actor at a time.                                      *)

LEMMA HandGotoPlace ==
    ASSUME TypeOK, NEW h \in Handlers, NEW from, NEW to \in HandSteps, HandGoto(h, from, to)
    PROVE  /\ hand[h].at = from /\ hand'[h].at = to
           /\ to # "idle" => hand'[h].key = hand[h].key
           /\ \A g \in Handlers \ {h} : hand'[g] = hand[g]
<1> DEFINE new == IF to = "idle" THEN HandIdle ELSE [hand[h] EXCEPT !.at = to]
<1>1. hand \in [Handlers -> HandRecord]
  BY DEF TypeOK, HandRecord
<1>2. new.at = to /\ (to # "idle" => new.key = hand[h].key)
  <2>1. CASE to = "idle"
    BY <2>1 DEF HandIdle
  <2>2. CASE to # "idle"
    BY <1>1, <2>2 DEF HandRecord
  <2> QED
    BY <2>1, <2>2
<1>3. hand' = [hand EXCEPT ![h] = new] /\ hand[h].at = from
  BY DEF HandGoto
<1> HIDE DEF new
<1> QED
  BY <1>1, <1>2, <1>3

\* A handler at work, or the first to begin, has the model to itself.
LEMMA HandStays ==
    ASSUME Orderly, NEW h \in Handlers, hand[h].at # "idle" \/ Quiet,
           UNCHANGED <<sup, answered, writing>>,
           \A g \in Handlers \ {h} : hand'[g] = hand[g]
    PROVE  HandView(h) /\ (HandView(h)' => Orderly')
<1>1. Alone(h)
  BY IdlePlace, HandAlone
<1>2. Alone(h)'
  BY <1>1 DEF Alone, NoRequest, NoKick
<1> QED
  BY <1>1, <1>2, HandSees, HandShowsPrime

\* A handler before its clean-up or its first write of a row leaves what it sees.
LEMMA HandSame ==
    ASSUME NEW h \in Handlers, HandView(h), hand[h].at \notin Unsettled \cup KeySaved,
           hand'[h].at \in {"idle", "launch", "saveKey", "halt", "remove", "cleanup"},
           hand'[h].at \in {"launch", "saveKey"} => hand'[h].key # 0,
           hand'[h].at = "saveKey" => served' # "yes", served' = "yes" => served = "yes",
           UNCHANGED <<loaded, workedCol, quarantine, secret, gate, entry, workedMap>>
    PROVE  HandView(h)'
<1>1. HandlerKnows(h)'
  BY DEF HandlerKnows, KeySaved
<1>2. AtRest'
  BY RestSame DEF HandView
<1> QED
  BY <1>1, <1>2 DEF HandView, Facts, KeySaved

LEMMA OrderlyStart ==
    ASSUME SupInv, Orderly, Undisturbed, NEW h \in Handlers, Start(h) PROVE Orderly'
<1> DEFINE old == IF entry = NoEntry THEN Fresh("Starting") ELSE entry
<1>1. /\ UNCHANGED <<loaded, workedCol, quarantine, secret, gate, workedMap, sup, answered,
                     writing, served>>
      /\ Quiet /\ hand[h] = HandIdle /\ entry' = [old EXCEPT !.paused = TRUE]
  BY DEF Start, Undisturbed, dbVars, reqVars
<1>2. /\ hand'[h].at \in {"idle", "launch"}
      /\ hand'[h].at = "launch" => hand'[h].key # 0
      /\ \A g \in Handlers \ {h} : hand'[g] = hand[g]
  <2>1. hand \in [Handlers -> HandRecord] /\ starts \in Nat
    BY SupervisorAssumption DEF SupInv, TypeOK, HandRecord
  <2>2. \/ hand' = [hand EXCEPT ![h] = [at |-> "launch", key |-> starts + 1]]
        \/ hand' = hand
    BY DEF Start
  <2>3. starts + 1 # 0
    BY <2>1
  <2>4. CASE hand' = hand
    BY <1>1, <2>4, IdlePlace
  <2>5. CASE hand' = [hand EXCEPT ![h] = [at |-> "launch", key |-> starts + 1]]
    <3>1. hand'[h] = [at |-> "launch", key |-> starts + 1] /\ \A g \in Handlers \ {h} : hand'[g] = hand[g]
      BY <2>1, <2>5
    <3> QED
      BY <2>3, <3>1
  <2> QED
    BY <2>2, <2>4, <2>5
<1>3. HandView(h) /\ (HandView(h)' => Orderly')
  BY <1>1, <1>2, HandStays
<1>4. old \in BackendState /\ (entry # NoEntry => old = entry)
  BY FreshType DEF SupInv, TypeOK
<1>5. entry' \in BackendState /\ entry'.fsm = old.fsm
  <2> HIDE DEF old
  <2> QED
    BY <1>1, <1>4 DEF BackendState
<1>6. hand[h].at = "idle"
  BY <1>1, IdlePlace
<1>7. AtRest'
  <2> HIDE DEF old
  <2> QED
    BY <1>1, <1>3, <1>4, <1>5, <1>6, NoEntryIsNoState DEF HandView, AtRest, Unsettled
<1>8. HandlerKnows(h)'
  BY <1>2 DEF HandlerKnows, KeySaved
<1>9. HandView(h)'
  BY <1>1, <1>2, <1>3, <1>6, <1>7, <1>8 DEF HandView, Facts, KeySaved
<1> QED
  BY <1>3, <1>9

LEMMA OrderlyQuiet ==
    ASSUME SupInv, Orderly, Undisturbed, faults' = 0, NEW h \in Handlers,
           Stop(h) \/ Launch(h) \/ Halt(h) \/ Remove(h)
    PROVE  Orderly'
<1> USE DEF SupInv
<1>1. UNCHANGED <<loaded, workedCol, quarantine, secret, gate, entry, workedMap, sup, answered, writing>>
  BY DEF Stop, Launch, Halt, Remove, dbVars, memVars, reqVars
<1>2. /\ hand[h].at \in {"idle", "launch", "halt", "remove"}
      /\ hand[h].at # "idle" \/ Quiet
      /\ hand'[h].at \in {"idle", "saveKey", "halt", "remove", "cleanup"}
      /\ hand'[h].at = "saveKey" => hand[h].at = "launch" /\ hand'[h].key = hand[h].key /\ served' # "yes"
      /\ \A g \in Handlers \ {h} : hand'[g] = hand[g]
      /\ served' = "yes" => served = "yes"
  <2>1. CASE Stop(h)
    <3>1. hand \in [Handlers -> HandRecord] /\ hand' = [hand EXCEPT ![h].at = "halt"]
      BY <2>1 DEF Stop, TypeOK, HandRecord
    <3>2. hand'[h].at = "halt" /\ \A g \in Handlers \ {h} : hand'[g] = hand[g]
      BY <3>1 DEF HandRecord
    <3> QED
      BY <2>1, <3>2, IdlePlace DEF Stop, Undisturbed
  <2>2. CASE Launch(h)
    <3>1. HandGoto(h, "launch", "saveKey") /\ served' # "yes"
      BY <2>2, NeverFails DEF Launch, Launched
    <3> QED
      BY <3>1, HandGotoPlace DEF HandSteps
  <2>3. CASE Halt(h)
    <3>1. PICK to \in {"remove", "cleanup", "idle"} : HandGoto(h, "halt", to)
      BY <2>3 DEF Halt
    <3>2. UNCHANGED served
      BY <2>3 DEF Halt
    <3> QED
      BY <3>1, <3>2, HandGotoPlace DEF HandSteps
  <2>4. CASE Remove(h)
    <3>1. PICK to \in {"cleanup", "idle"} : HandGoto(h, "remove", to)
      BY <2>4 DEF Remove
    <3>2. UNCHANGED served
      BY <2>4 DEF Remove
    <3> QED
      BY <3>1, <3>2, HandGotoPlace DEF HandSteps
  <2> QED
    BY <2>1, <2>2, <2>3, <2>4
<1>3. HandView(h) /\ (HandView(h)' => Orderly')
  BY <1>1, <1>2, HandStays
<1>4. hand[h].at = "launch" => hand[h].key # 0
  BY <1>3 DEF HandView, HandlerKnows
<1>5. hand[h].at \notin Unsettled \cup KeySaved
  BY <1>2 DEF Unsettled, KeySaved
<1>6. HandView(h)'
  BY <1>1, <1>2, <1>3, <1>4, <1>5, HandSame
<1> QED
  BY <1>3, <1>6

LEMMA OrderlyKeySaved ==
    ASSUME SupInv, Orderly, faults' = 0, NEW h \in Handlers, SaveKey(h) \/ StartRegister(h)
    PROVE  Orderly'
<1> USE DEF SupInv
<1>1. UNCHANGED <<loaded, workedCol, quarantine, entry, workedMap, sup, answered, writing, served>>
  BY DEF SaveKey, StartRegister, dbVars, memVars, reqVars
<1>2. CASE SaveKey(h)
  <2>1. hand \in [Handlers -> HandRecord]
    BY DEF TypeOK, HandRecord
  <2>2. /\ hand[h].at = "saveKey" /\ hand' = [hand EXCEPT ![h] = [HandIdle EXCEPT !.at = "register"]]
        /\ secret' = hand[h].key /\ UNCHANGED gate
    BY <1>2, NoFailure DEF SaveKey, memVars
  <2>3. [HandIdle EXCEPT !.at = "register"].at = "register"
    BY DEF HandIdle
  <2>4. hand'[h].at = "register" /\ \A g \in Handlers \ {h} : hand'[g] = hand[g]
    BY <2>1, <2>2, <2>3
  <2>5. HandView(h) /\ (HandView(h)' => Orderly')
    BY <1>1, <2>2, <2>4, HandStays
  <2>6. /\ AtRest /\ secret' # 0 /\ served # "yes" /\ Facts
    BY <2>2, <2>5 DEF HandView, HandlerKnows, Unsettled
  <2>7. AtRest'
    BY <1>1, <2>2, <2>6 DEF AtRest
  <2>8. HandlerKnows(h)'
    BY <1>1, <2>4, <2>6 DEF HandlerKnows
  <2>9. HandView(h)'
    BY <1>1, <2>4, <2>6, <2>7, <2>8 DEF HandView, Facts, KeySaved
  <2> QED
    BY <2>5, <2>9
<1>3. CASE StartRegister(h)
  <2>1. HandGoto(h, "register", "markLoaded") /\ gate' /\ UNCHANGED secret
    BY <1>3 DEF StartRegister, dbVars
  <2>2. /\ hand[h].at = "register" /\ hand'[h].at = "markLoaded"
        /\ \A g \in Handlers \ {h} : hand'[g] = hand[g]
    BY <2>1, HandGotoPlace DEF HandSteps
  <2>3. HandView(h) /\ (HandView(h)' => Orderly')
    BY <1>1, <2>2, HandStays
  <2>4. secret # 0 /\ served # "yes" /\ Facts
    BY <2>2, <2>3 DEF HandView, HandlerKnows, KeySaved
  <2>5. HandlerKnows(h)'
    BY <1>1, <2>1, <2>2, <2>4 DEF HandlerKnows
  <2>6. HandView(h)'
    BY <1>1, <2>1, <2>2, <2>4, <2>5 DEF HandView, Facts, KeySaved, Unsettled
  <2> QED
    BY <2>3, <2>6
<1> QED
  BY <1>2, <1>3

LEMMA OrderlyStarted ==
    ASSUME SupInv, Orderly, faults' = 0, NEW h \in Handlers,
           StartMarkLoaded(h) \/ StartResetWorked(h) \/ Unquarantine(h)
    PROVE  Orderly'
<1> USE DEF SupInv
<1>1. UNCHANGED <<secret, gate, sup, answered, writing, served>>
  BY DEF StartMarkLoaded, StartResetWorked, Unquarantine, memVars, reqVars
<1>2. CASE StartMarkLoaded(h)
  <2>1. /\ HandGoto(h, "markLoaded", "resetWorked") /\ loaded' /\ workedMap' = "no"
        /\ UNCHANGED <<workedCol, quarantine>>
    BY <1>2, NoFailure DEF StartMarkLoaded
  <2>2. /\ hand[h].at = "markLoaded" /\ hand'[h].at = "resetWorked"
        /\ \A g \in Handlers \ {h} : hand'[g] = hand[g]
    BY <2>1, HandGotoPlace DEF HandSteps
  <2>3. HandView(h) /\ (HandView(h)' => Orderly')
    BY <1>1, <2>2, HandStays
  <2>4. secret # 0 /\ served # "yes" /\ gate /\ Facts
    BY <2>2, <2>3 DEF HandView, HandlerKnows, KeySaved
  <2>5. HandlerKnows(h)'
    BY <1>1, <2>1, <2>2, <2>4 DEF HandlerKnows
  <2>6. HandView(h)'
    BY <1>1, <2>1, <2>2, <2>4, <2>5 DEF HandView, Facts, KeySaved, Unsettled
  <2> QED
    BY <2>3, <2>6
<1>3. CASE StartResetWorked(h)
  <2>1. /\ HandGoto(h, "resetWorked", "unquarantine") /\ ~workedCol'
        /\ UNCHANGED <<loaded, quarantine, workedMap>>
    BY <1>3, NoFailure DEF StartResetWorked, memVars
  <2>2. /\ hand[h].at = "resetWorked" /\ hand'[h].at = "unquarantine"
        /\ \A g \in Handlers \ {h} : hand'[g] = hand[g]
    BY <2>1, HandGotoPlace DEF HandSteps
  <2>3. HandView(h) /\ (HandView(h)' => Orderly')
    BY <1>1, <2>2, HandStays
  <2>4. secret # 0 /\ served # "yes" /\ gate /\ loaded /\ workedMap = "no"
    BY <2>2, <2>3 DEF HandView, HandlerKnows, KeySaved
  <2>5. HandlerKnows(h)'
    BY <1>1, <2>1, <2>2, <2>4 DEF HandlerKnows
  <2>6. HandView(h)'
    BY <1>1, <2>1, <2>2, <2>4, <2>5 DEF HandView, Facts, KeySaved, Unsettled
  <2> QED
    BY <2>3, <2>6
<1>4. CASE Unquarantine(h)
  <2>1. /\ HandGoto(h, "unquarantine", "idle") /\ quarantine' = "none"
        /\ entry' = Fresh("Starting") /\ UNCHANGED <<loaded, workedCol, workedMap>>
    BY <1>4, NoFailure DEF Unquarantine
  <2>2. /\ hand[h].at = "unquarantine" /\ hand'[h].at = "idle"
        /\ \A g \in Handlers \ {h} : hand'[g] = hand[g]
    BY <2>1, HandGotoPlace DEF HandSteps
  <2>3. HandView(h) /\ (HandView(h)' => Orderly')
    BY <1>1, <2>2, HandStays
  <2>4. secret # 0 /\ gate /\ loaded /\ Facts
    BY <2>2, <2>3 DEF HandView, HandlerKnows, KeySaved
  <2>5. Fresh("Starting") \in BackendState /\ Fresh("Starting").fsm = "Starting"
    BY FreshType DEF Fresh
  <2>6. AtRest'
    BY <1>1, <2>1, <2>4, <2>5, NoEntryIsNoState DEF AtRest
  <2>7. HandlerKnows(h)'
    BY <2>2 DEF HandlerKnows, KeySaved
  <2>8. HandView(h)'
    BY <1>1, <2>1, <2>4, <2>6, <2>7 DEF HandView, Facts
  <2> QED
    BY <2>3, <2>8
<1> QED
  BY <1>2, <1>3, <1>4

LEMMA OrderlyCleanUp ==
    ASSUME SupInv, Orderly, faults' = 0, NEW h \in Handlers,
           CleanUp(h) \/ DropKey(h) \/ StopUnload(h)
    PROVE  Orderly'
<1> USE DEF SupInv
<1>1. UNCHANGED <<workedCol, quarantine, sup, answered, writing, served>>
  BY DEF CleanUp, DropKey, StopUnload, dbVars, reqVars
<1>2. CASE CleanUp(h)
  <2>1. /\ HandGoto(h, "cleanup", "dropKey") /\ ~gate' /\ workedMap' = "absent"
        /\ UNCHANGED secret
    BY <1>2 DEF CleanUp, dbVars
  <2>2. /\ hand[h].at = "cleanup" /\ hand'[h].at = "dropKey"
        /\ \A g \in Handlers \ {h} : hand'[g] = hand[g]
    BY <2>1, HandGotoPlace DEF HandSteps
  <2>3. HandView(h) /\ (HandView(h)' => Orderly')
    BY <1>1, <2>2, HandStays
  <2>4. HandlerKnows(h)'
    BY <2>1, <2>2 DEF HandlerKnows, KeySaved
  <2>5. HandView(h)'
    BY <1>1, <2>1, <2>2, <2>3, <2>4 DEF HandView, Facts, KeySaved, Unsettled
  <2> QED
    BY <2>3, <2>5
<1>3. CASE DropKey(h)
  <2>1. HandGoto(h, "dropKey", "unload") /\ secret' = 0 /\ UNCHANGED <<gate, workedMap>>
    BY <1>3, NoFailure DEF DropKey, memVars
  <2>2. /\ hand[h].at = "dropKey" /\ hand'[h].at = "unload"
        /\ \A g \in Handlers \ {h} : hand'[g] = hand[g]
    BY <2>1, HandGotoPlace DEF HandSteps
  <2>3. HandView(h) /\ (HandView(h)' => Orderly')
    BY <1>1, <2>2, HandStays
  <2>4. ~gate /\ Facts
    BY <2>2, <2>3 DEF HandView, HandlerKnows
  <2>5. HandlerKnows(h)'
    BY <2>1, <2>2, <2>4 DEF HandlerKnows, KeySaved
  <2>6. HandView(h)'
    BY <1>1, <2>1, <2>2, <2>4, <2>5 DEF HandView, Facts, Unsettled
  <2> QED
    BY <2>3, <2>6
<1>4. CASE StopUnload(h)
  <2>1. /\ HandGoto(h, "unload", "idle") /\ ~loaded' /\ UNCHANGED <<secret, gate, workedMap>>
    BY <1>4, NoFailure DEF StopUnload, memVars
  <2>2. /\ hand[h].at = "unload" /\ hand'[h].at = "idle"
        /\ \A g \in Handlers \ {h} : hand'[g] = hand[g]
    BY <2>1, HandGotoPlace DEF HandSteps
  <2>3. HandView(h) /\ (HandView(h)' => Orderly')
    BY <1>1, <2>2, HandStays
  <2>4. ~gate /\ Facts
    BY <2>2, <2>3 DEF HandView, HandlerKnows
  <2>5. AtRest'
    BY <2>1, <2>4 DEF AtRest
  <2>6. HandlerKnows(h)'
    BY <2>2 DEF HandlerKnows, KeySaved
  <2>7. HandView(h)'
    BY <1>1, <2>1, <2>2, <2>3, <2>4, <2>5, <2>6 DEF HandView, Facts, KeySaved
  <2> QED
    BY <2>3, <2>7
<1> QED
  BY <1>2, <1>3, <1>4

-----------------------------------------------------------------------------
(* Requests, restarts of the proxy, the container and time.                *)

RestView ==
    /\ AtRest /\ AnswerKept
    /\ quarantine = "neverWorked" => ~workedCol
    /\ quarantine = "restartFailed" => secret = 0

LEMMA RestSees ==
    ASSUME Orderly, NoKick, NoHandler PROVE RestView
<1>1. \A h \in Handlers : hand[h].at \notin Unsettled \cup KeySaved
  BY IdleKnows DEF NoHandler
<1> QED
  BY <1>1 DEF Orderly, Rested, ReasonsHold, NoKick, RestView

LEMMA RestShows ==
    ASSUME NoKick, NoHandler, RestView PROVE Orderly
<1>1. \A h \in Handlers : HandlerKnows(h) /\ hand[h].at \notin Unsettled \cup KeySaved
  BY IdleKnows DEF NoHandler
<1>2. Turns
  BY DEF Turns, NoHandler
<1>3. Rested /\ ReasonsHold
  BY DEF RestView, Rested, ReasonsHold
<1> QED
  BY <1>1, <1>2, <1>3, NoKickKnows DEF Orderly, RestView

LEMMA RestShowsPrime ==
    (NoKick /\ NoHandler /\ RestView => Orderly)'
  BY RestShows, PTL

LEMMA OrderlyRequest ==
    ASSUME SupInv, Orderly, Undisturbed, faults' = 0, Answer \/ RecordWorked \/ WriteWorked
    PROVE  Orderly'
<1>1. /\ UNCHANGED <<loaded, quarantine, secret, gate, entry, sup, hand>>
      /\ answered \in BOOLEAN /\ writing \in BOOLEAN /\ served \in {"no", "yes", "overlooked"} /\ serial
  BY DEF Answer, RecordWorked, WriteWorked, dbVars, memVars, SupInv, TypeOK, Undisturbed
<1>2. NoKick /\ NoHandler
  <2>1. CASE Answer
    BY <2>1 DEF Answer, Undisturbed
  <2>2. CASE RecordWorked \/ WriteWorked
    <3>1. ~NoRequest
      BY <2>2 DEF RecordWorked, WriteWorked, NoRequest
    <3> QED
      BY <3>1, IdlePlace DEF Orderly, Turns, NoHandler
  <2> QED
    BY <2>1, <2>2
<1>3. RestView
  BY <1>2, RestSees
<1>4. NoKick' /\ NoHandler'
  BY <1>1, <1>2 DEF NoKick, NoHandler
<1>5. loaded
  BY <1>3 DEF Answer, RecordWorked, WriteWorked, RestView, AnswerKept, NoRequest
<1>6. quarantine = "none"
  BY <1>3, <1>5 DEF RestView, AtRest
<1>7. AtRest'
  BY <1>1, <1>3, RestSame DEF RestView
<1>8. AnswerKept'
  <2>1. CASE Answer
    BY <1>1, <1>3, <1>5, <2>1 DEF Answer, RestView, AnswerKept, NoRequest, dbVars, memVars
  <2>2. CASE RecordWorked
    <3>1. /\ ~answered' /\ writing' = (writing \/ workedMap # "yes")
          /\ UNCHANGED <<workedCol, served>>
      BY <2>2 DEF RecordWorked, dbVars
    <3>2. workedMap = "yes" => workedCol \/ writing
      BY <1>3 DEF RestView, AnswerKept
    <3>3. workedCol \/ writing'
      BY <3>1, <3>2
    <3> QED
      BY <1>1, <1>5, <3>1, <3>3 DEF AnswerKept, NoRequest
  <2>3. CASE WriteWorked
    <3>1. workedCol'
      BY <2>3, NoFailure DEF WriteWorked, SupInv
    <3> QED
      BY <1>1, <1>5, <3>1 DEF AnswerKept
  <2> QED
    BY <2>1, <2>2, <2>3
<1>9. RestView'
  BY <1>1, <1>6, <1>7, <1>8 DEF RestView
<1> QED
  BY <1>4, <1>9, RestShowsPrime

LEMMA OrderlyRestart ==
    ASSUME SupInv, Orderly, faults' = 0, ProxyRestart PROVE Orderly'
<1>1. /\ UNCHANGED <<workedCol, quarantine, secret, served>>
      /\ ~answered' /\ ~writing' /\ workedMap' = "absent"
      /\ hand' = [h \in Handlers |-> HandIdle] /\ sup' = SupIdle
  BY DEF ProxyRestart
<1>2. PICK inspect \in BOOLEAN, update \in BOOLEAN :
          LET listed == loaded /\ secret # 0
              alive == listed /\ inspect /\ Running
          IN  /\ Outcome(Quiet /\ inspect /\ update)
              /\ gate' = alive
              /\ entry' = IF alive THEN Fresh("Healthy") ELSE NoEntry
              /\ loaded' = (loaded /\ (~listed \/ alive \/ ~update))
  BY DEF ProxyRestart
<1>3. Quiet /\ inspect /\ update
  <2>1. (Quiet /\ inspect /\ update) \in BOOLEAN
    OBVIOUS
  <2> QED
    BY <1>2, <2>1, NoFailure DEF SupInv
<1>4. RestView
  BY <1>3, RestSees DEF Quiet
<1>5. NoKick' /\ NoHandler'
  BY <1>1, IdlePlace DEF NoKick, NoHandler
<1>6. /\ gate' = (loaded /\ Running) /\ loaded' = (loaded /\ Running)
      /\ loaded /\ Running => entry' = Fresh("Healthy")
  BY <1>2, <1>3, <1>4 DEF RestView, AtRest
<1>7. AtRest'
  <2>1. Fresh("Healthy") \in BackendState /\ Fresh("Healthy").fsm = "Healthy"
    BY FreshType DEF Fresh
  <2> QED
    BY <1>1, <1>4, <1>6, <2>1, NoEntryIsNoState DEF RestView, AtRest
<1>8. AnswerKept'
  BY <1>1, <1>3, <1>4 DEF RestView, AnswerKept, Quiet, NoRequest
<1>9. RestView'
  BY <1>1, <1>4, <1>7, <1>8 DEF RestView
<1> QED
  BY <1>5, <1>9, RestShowsPrime

\* What no part of Orderly looks at: the container, the counters, the flags of an entry.
LEMMA OrderlySame ==
    ASSUME Orderly,
           UNCHANGED <<loaded, workedCol, quarantine, secret, gate, workedMap, hand, answered,
                       writing, kind, served>>,
           sup'.at = sup.at, sup'.prev.fsm = sup.prev.fsm, AtRest => AtRest'
    PROVE  Orderly'
<1>1. NoRequest' = NoRequest /\ NoHandler' = NoHandler /\ NoKick' = NoKick
  BY DEF NoRequest, NoHandler, NoKick
<1>2. Turns'
  BY <1>1 DEF Orderly, Turns
<1>3. Rested'
  BY DEF Orderly, Rested
<1>4. KickKnows'
  BY <1>1 DEF Orderly, KickKnows
<1>5. ReasonsHold' /\ AnswerKept'
  BY <1>1 DEF Orderly, ReasonsHold, AnswerKept
<1>6. \A h \in Handlers : HandlerKnows(h)'
  BY DEF Orderly, HandlerKnows
<1> QED
  BY <1>2, <1>3, <1>4, <1>5, <1>6 DEF Orderly

LEMMA OrderlyContainer ==
    ASSUME Orderly, Container \/ UNCHANGED vars PROVE Orderly'
<1>1. UNCHANGED <<loaded, workedCol, quarantine, secret, gate, entry, workedMap, sup, hand,
                  answered, writing, kind, served>>
  BY DEF Container, BoxLoads, BoxRecovers, BoxFails, vars, dbVars, memVars, reqVars, fixed
<1> QED
  BY <1>1, RestSame, OrderlySame

LEMMA OrderlyTime ==
    ASSUME SupInv, Orderly, Age \/ AgeCopy \/ PauseEnds PROVE Orderly'
<1>1. UNCHANGED <<loaded, workedCol, quarantine, secret, gate, workedMap, hand, answered,
                  writing, kind, served>>
  BY DEF Age, AgeCopy, PauseEnds, dbVars, memVars, reqVars, fixed
<1>2. CASE Age \/ PauseEnds
  <2>1. /\ UNCHANGED sup /\ entry \in BackendState
        /\ entry' \in {[entry EXCEPT !.grace = FALSE], [entry EXCEPT !.paused = FALSE]}
    BY <1>2 DEF Age, PauseEnds, SupInv, TypeOK
  <2>2. entry' \in BackendState /\ entry'.fsm = entry.fsm
    BY <2>1 DEF BackendState
  <2>3. AtRest => AtRest'
    BY <1>1, <2>2, NoEntryIsNoState DEF AtRest
  <2> QED
    BY <1>1, <2>1, <2>3, OrderlySame
<1>3. CASE AgeCopy
  <2>1. /\ UNCHANGED entry /\ sup.prev \in BackendState /\ sup \in SupRecord
        /\ sup' = [sup EXCEPT !.prev = [sup.prev EXCEPT !.grace = FALSE]]
    BY <1>3 DEF AgeCopy, SupInv, TypeOK, SupRecord, memVars
  <2>2. [sup.prev EXCEPT !.grace = FALSE].fsm = sup.prev.fsm
    BY <2>1 DEF BackendState
  <2>3. sup'.at = sup.at /\ sup'.prev.fsm = sup.prev.fsm
    BY <2>1, <2>2 DEF SupRecord
  <2> QED
    BY <1>1, <2>1, <2>3, RestSame, OrderlySame
<1> QED
  BY <1>2, <1>3

-----------------------------------------------------------------------------
(* The invariant.                                                          *)

\* A behaviour that is undisturbed was undisturbed before.
LEMMA StaysUndisturbed ==
    ASSUME SupInv, [Next]_vars, Undisturbed'
    PROVE  Undisturbed /\ faults' = 0
<1>1. faults \in Nat /\ faults' = 0 /\ serial'
  BY SupervisorAssumption DEF SupInv, TypeOK, Undisturbed
<1>2. UNCHANGED fixed /\ (UNCHANGED faults \/ \E ok : Outcome(ok))
  <2>1. CASE Container \/ UNCHANGED vars
    BY <2>1 DEF Container, BoxLoads, BoxRecovers, BoxFails, vars
  <2>2. CASE Answer \/ RecordWorked \/ WriteWorked
    BY <2>2 DEF Answer, RecordWorked, WriteWorked
  <2>3. CASE Kick \/ Probe \/ Inspect
    BY <2>3 DEF Kick, Probe, Inspect
  <2>4. CASE Unload \/ Drop \/ LogCrash \/ Decide \/ Lookup
    BY <2>4 DEF Unload, Drop, LogCrash, Decide, Lookup
  <2>5. CASE SupLaunch \/ ResetWorked \/ Register \/ MarkLoaded \/ Quarantine
    BY <2>5 DEF SupLaunch, ResetWorked, Register, MarkLoaded, Quarantine
  <2>6. ASSUME NEW h \in Handlers,
               Start(h) \/ Stop(h) \/ Abandon(h) \/ Launch(h) \/ SaveKey(h) \/ StartRegister(h)
        PROVE  UNCHANGED fixed /\ (UNCHANGED faults \/ \E ok : Outcome(ok))
    BY <2>6 DEF Start, Stop, Abandon, Launch, SaveKey, StartRegister
  <2>7. ASSUME NEW h \in Handlers,
               \/ StartMarkLoaded(h) \/ StartResetWorked(h) \/ Unquarantine(h)
               \/ Halt(h) \/ Remove(h) \/ CleanUp(h) \/ DropKey(h) \/ StopUnload(h)
        PROVE  UNCHANGED fixed /\ (UNCHANGED faults \/ \E ok : Outcome(ok))
    BY <2>7 DEF StartMarkLoaded, StartResetWorked, Unquarantine, Halt, Remove, CleanUp,
                DropKey, StopUnload
  <2>8. CASE ProxyRestart \/ Age \/ AgeCopy \/ PauseEnds
    BY <2>8 DEF ProxyRestart, Age, AgeCopy, PauseEnds
  <2> QED
    BY <2>1, <2>2, <2>3, <2>4, <2>5, <2>6, <2>7, <2>8 DEF Next, SupStep, HandStep
<1>3. faults' = faults \/ faults' = faults + 1
  BY <1>2 DEF Outcome
<1> QED
  BY <1>1, <1>2, <1>3 DEF Undisturbed, fixed

LEMMA SerialInit == Init => SerialInv
<1> SUFFICES ASSUME Init PROVE Orderly
  BY DEF SerialInv
<1>1. NoKick /\ NoHandler
  BY IdlePlace DEF Init, NoKick, NoHandler
<1>2. RestView
  BY DEF Init, RestView, AtRest, AnswerKept, NoRequest
<1> QED
  BY <1>1, <1>2, RestShows

LEMMA SerialKeeps == SupInv /\ SerialInv /\ [Next]_vars => SerialInv'
<1> SUFFICES ASSUME SupInv, SerialInv, [Next]_vars, Undisturbed'
             PROVE  Orderly'
  BY DEF SerialInv
<1>1. Undisturbed /\ faults' = 0 /\ Orderly
  BY StaysUndisturbed DEF SerialInv
<1>2. CASE Container \/ UNCHANGED vars
  BY <1>1, <1>2, OrderlyContainer
<1>3. CASE Answer \/ RecordWorked \/ WriteWorked
  BY <1>1, <1>3, OrderlyRequest
<1>4. CASE Kick
  BY <1>1, <1>4, OrderlyKick
<1>5. CASE SupStep
  BY <1>1, <1>5, OrderlyProbe, OrderlyInspect, OrderlyReconcile, OrderlyDecide,
     OrderlyRelaunch, OrderlySettle DEF SupStep
<1>6. CASE \E h \in Handlers : Start(h) \/ Stop(h) \/ HandStep(h) \/ Abandon(h)
  <2>1. PICK h \in Handlers : Start(h) \/ Stop(h) \/ HandStep(h) \/ Abandon(h)
    BY <1>6
  <2>2. ~Abandon(h)
    BY <1>1, NeverFails DEF Abandon, SupInv
  <2> QED
    BY <1>1, <2>1, <2>2, OrderlyStart, OrderlyQuiet, OrderlyKeySaved, OrderlyStarted,
       OrderlyCleanUp DEF HandStep
<1>7. CASE ProxyRestart
  BY <1>1, <1>7, OrderlyRestart
<1>8. CASE Age \/ AgeCopy \/ PauseEnds
  BY <1>1, <1>8, OrderlyTime
<1> QED
  BY <1>2, <1>3, <1>4, <1>5, <1>6, <1>7, <1>8 DEF Next

\* As long as the actors take turns and nothing fails, each of them finds the
\* model as the step before left it, whatever the container does in between.
THEOREM SerialOrder == Spec => []SerialInv
<1>1. Init => SupInv /\ SerialInv
  BY SupInit, SerialInit
<1>2. SupInv /\ SerialInv /\ [Next]_vars => (SupInv /\ SerialInv)'
  BY SupStepKeeps, SerialKeeps
<1> QED
  BY <1>1, <1>2, PTL DEF Spec

\* One actor at a time and no failure: whenever nothing is under way, a model is
\* loaded exactly when the gate knows it, and a loaded model has a key, is
\* supervised and is not quarantined (start_container_core, post_stop_cleanup,
\* reconcile_state, restart_after_crash and recover_gate_state leave it so).
THEOREM SerialAtRest == Spec => []SerialConsistent
<1>1. SerialInv => SerialConsistent
  <2> SUFFICES ASSUME SerialInv, Undisturbed, Quiet PROVE AtRest
    BY DEF SerialConsistent, AtRest
  <2> QED
    BY RestSees DEF SerialInv, Quiet, RestView
<1> QED
  BY <1>1, SerialOrder, PTL

\* Under the same conditions no model is quarantined as never having worked when
\* it answered a request since it was last launched (record_worked, read_worked,
\* quarantine_model): the flag is read from memory or, after a restart of the
\* proxy, from its column.
THEOREM SerialQuarantineFair == Spec => []SerialFairQuarantine
<1>1. SupInv /\ SerialInv => SerialFairQuarantine
  <2> SUFFICES ASSUME SupInv, SerialInv, Undisturbed, quarantine = "neverWorked" PROVE served # "yes"
    BY DEF SerialFairQuarantine
  <2>1. Orderly /\ ~workedCol
    BY DEF SerialInv, Orderly, ReasonsHold
  <2>2. NoRequest
    <3> SUFFICES ASSUME ~NoRequest PROVE FALSE
      OBVIOUS
    <3>1. NoKick /\ NoHandler /\ loaded
      BY <2>1, IdlePlace DEF Orderly, Turns, AnswerKept, NoHandler
    <3> QED
      BY <2>1, <3>1, RestSees DEF RestView, AtRest
  <2> QED
    BY <2>1, <2>2 DEF Orderly, AnswerKept
<1> QED
  BY <1>1, SupervisorInvariant, SerialOrder, PTL
=============================================================================
