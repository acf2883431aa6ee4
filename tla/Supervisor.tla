------------------------------ MODULE Supervisor ------------------------------
(***************************************************************************)
(* The life of one model's backend: the supervisor (supervisor/mod.rs and  *)
(* restart.rs), the start and stop handlers that share                     *)
(* start_container_core and post_stop_cleanup (api/common.rs), the hot     *)
(* path's worked flag (proxy/streaming.rs), the recovery of a restarted    *)
(* proxy (main.rs), and the container they all act on.                     *)
(*                                                                         *)
(* All of the state is kept per model and nothing here relates two models, *)
(* except that one supervisor task serves all of them: when it panics,     *)
(* every model loses its supervisor.  One SQL statement, one HTTP answer   *)
(* and one call of the Docker manager is one action; what the code does    *)
(* before its next await belongs to the action before it.                  *)
(***************************************************************************)
EXTENDS Naturals

CONSTANTS
    Handlers,     \* start and stop requests the server handles at a time
    NoEntry,      \* no entry in the supervisor's map
    Kinds,        \* the backend_type of the model's row: "llamacpp" or "other"
    Modes,        \* whether the actors take turns (TRUE) or not (FALSE)
    \* Bounds, per mode: start requests (each with a fresh API key), exits and
    \* hangs of the container, failing statements and calls or dropped handlers.
    MaxStarts, MaxTroubles, MaxFaults

ASSUME SupervisorAssumption ==
    /\ Kinds \subseteq {"llamacpp", "other"}
    /\ Modes \subseteq BOOLEAN
    /\ MaxStarts \in [BOOLEAN -> Nat]
    /\ MaxTroubles \in [BOOLEAN -> Nat]
    /\ MaxFaults \in [BOOLEAN -> Nat]

VARIABLES
    box,         \* the container: its state, and the key it was created with
    loaded,      \* models.loaded
    workedCol,   \* models.worked
    quarantine,  \* models.quarantine_reason, "none" for NULL
    secret,      \* container_secrets.api_key, 0 when there is no row
    gate,        \* the gate has an entry for the model
    entry,       \* its entry in the supervisor's map
    workedMap,   \* its entry in the worked map: "absent", "no", "yes"
    sup,         \* the supervisor's task: its step, and what it has read
    hand,        \* each start or stop handler: its step and its key
    answered,    \* a request got a 2xx, the worked flag is not set yet
    writing,     \* the statement that persists the worked flag is spawned
    kind, serial,               \* fixed: the model's type, the actors' manners
    starts, troubles, faults,   \* counters for the bounds
    served       \* auxiliary, in serial behaviours: a 2xx since the container was
                 \* created, and whether a start has found it running since then

boxVars == <<box, troubles>>
dbVars == <<loaded, workedCol, quarantine, secret>>
memVars == <<gate, entry, workedMap>>
reqVars == <<answered, writing>>
fixed == <<kind, serial>>
vars == <<boxVars, dbVars, memVars, sup, hand, reqVars, fixed, starts, faults, served>>

BoxStates == {"absent", "exited", "loading", "serving", "hung"}
Fsm == {"Starting", "Healthy", "Suspect", "Crashed", "Quarantined"}

\* FAILURE_THRESHOLD.  Only failures >= Threshold is ever asked of the counter,
\* so it may as well stop there.
Threshold == 2

Keys == 0 .. MaxStarts[serial]
BackendState == [fsm : Fsm, failures : 0 .. Threshold, grace : BOOLEAN, paused : BOOLEAN]

\* The map has an entry or it has none.
ASSUME NoEntryIsNoState == NoEntry \notin BackendState

SupSteps == {"idle", "probe", "inspect", "unload", "drop", "log", "decide", "lookup",
             "launch", "resetWorked", "register", "markLoaded", "giveUp",
             "quarantine", "dead"}
HandSteps == {"idle", "launch", "saveKey", "register", "markLoaded", "resetWorked",
              "unquarantine", "halt", "remove", "cleanup", "dropKey", "unload"}
ProbeOutcomes == {"ok", "loading", "transport", "other", "stopped"}
Reasons == {"neverWorked", "restartFailed"}

TypeOK ==
    /\ box \in [state : BoxStates, key : Keys]
    /\ loaded \in BOOLEAN /\ workedCol \in BOOLEAN
    /\ quarantine \in Reasons \cup {"none"}
    /\ secret \in Keys
    /\ gate \in BOOLEAN
    /\ entry \in BackendState \cup {NoEntry}
    /\ workedMap \in {"absent", "no", "yes"}
    /\ sup \in [at : SupSteps, prev : BackendState \cup {NoEntry},
                 seen : ProbeOutcomes \cup {"none"}, key : Keys]
    /\ hand \in [Handlers -> [at : HandSteps, key : Keys]]
    /\ answered \in BOOLEAN /\ writing \in BOOLEAN
    /\ kind \in Kinds /\ serial \in Modes
    /\ starts \in 0 .. MaxStarts[serial]
    /\ troubles \in 0 .. MaxTroubles[serial]
    /\ faults \in 0 .. MaxFaults[serial]
    /\ served \in {"no", "yes", "overlooked"}

-----------------------------------------------------------------------------

Running == box.state \in {"loading", "serving", "hung"}

\* A new entry; grace says that it is Starting and STARTUP_GRACE has not passed.
Fresh(fsm) == [fsm |-> fsm, failures |-> 0, grace |-> fsm = "Starting", paused |-> FALSE]

SupIdle == [at |-> "idle", prev |-> NoEntry, seen |-> "none", key |-> 0]
HandIdle == [at |-> "idle", key |-> 0]

NoRequest == ~answered /\ ~writing
NoHandler == \A h \in Handlers : hand[h] = HandIdle
NoKick == sup.at \in {"idle", "dead"}

\* The outcome of a statement or call: it succeeded, or one more has failed.
Outcome(ok) ==
    \/ ok /\ UNCHANGED faults
    \/ ~ok /\ faults < MaxFaults[serial] /\ faults' = faults + 1

Init ==
    /\ box = [state |-> "absent", key |-> 0] /\ troubles = 0
    /\ loaded = FALSE /\ workedCol = FALSE /\ quarantine = "none" /\ secret = 0
    /\ gate = FALSE /\ entry = NoEntry /\ workedMap = "absent"
    /\ sup = SupIdle
    /\ hand = [h \in Handlers |-> HandIdle]
    /\ answered = FALSE /\ writing = FALSE
    /\ kind \in Kinds /\ serial \in Modes
    /\ starts = 0 /\ faults = 0
    /\ served = "no"

-----------------------------------------------------------------------------
(* The container, driven by Docker, by llama-server and by the hardware.   *)

BoxLoads ==
    /\ box.state = "loading"
    /\ box' = [box EXCEPT !.state = "serving"]
    /\ UNCHANGED <<troubles, dbVars, memVars, sup, hand, reqVars, fixed, starts, faults, served>>

BoxRecovers ==
    /\ box.state = "hung"
    /\ box' = [box EXCEPT !.state = "serving"]
    /\ UNCHANGED <<troubles, dbVars, memVars, sup, hand, reqVars, fixed, starts, faults, served>>

BoxFails(how) ==
    /\ Running /\ box.state # how
    /\ troubles < MaxTroubles[serial] /\ troubles' = troubles + 1
    /\ box' = [box EXCEPT !.state = how]
    /\ UNCHANGED <<dbVars, memVars, sup, hand, reqVars, fixed, starts, faults, served>>

\* start_llamacpp: a running container is left as it is, whatever its key.  The
\* callers reset the worked flag all the same.
Launched(key) ==
    /\ box' = IF Running THEN box ELSE [state |-> "loading", key |-> key]
    /\ served' = IF ~Running THEN "no" ELSE IF served = "yes" THEN "overlooked" ELSE served
    /\ UNCHANGED troubles

\* It fails before or after it removed the container that had stopped.
LaunchFailed ==
    /\ box' \in {box} \cup (IF Running THEN {} ELSE {[state |-> "absent", key |-> 0]})
    /\ UNCHANGED <<troubles, served>>

-----------------------------------------------------------------------------
(* Requests: a 2xx answer, record_worked, and the statement it spawns.     *)

\* The backend only answers a request that carries its own key.  The look-ups of
\* the request and the answer are one action; recording it may come much later.
Answer ==
    /\ serial => NoKick /\ NoHandler
    /\ ~answered /\ loaded /\ box.state = "serving" /\ secret = box.key
    /\ answered' = TRUE /\ served' = IF serial THEN "yes" ELSE "no"
    /\ UNCHANGED <<boxVars, dbVars, memVars, sup, hand, writing, fixed, starts, faults>>

RecordWorked ==
    /\ answered /\ answered' = FALSE
    /\ workedMap' = "yes"
    /\ writing' = (writing \/ workedMap # "yes")
    /\ UNCHANGED <<boxVars, dbVars, gate, entry, sup, hand, fixed, starts, faults, served>>

WriteWorked ==
    /\ writing /\ writing' = FALSE
    /\ \E ok \in BOOLEAN : Outcome(ok) /\ workedCol' = (ok \/ workedCol)
    /\ UNCHANGED <<boxVars, loaded, quarantine, secret, memVars, sup, hand, answered,
                   fixed, starts, served>>

-----------------------------------------------------------------------------
(* The pure transition function.                                           *)

Failed(prev, fsm) ==
    [prev EXCEPT !.fsm = fsm, !.grace = @ /\ fsm = "Starting",
                 !.failures = IF @ < Threshold THEN @ + 1 ELSE @]

\* Mutant: the startup grace also covers a container that has stopped.
TransitionTolerant(prev, outcome) ==
    IF prev.grace /\ outcome # "ok" THEN [prev EXCEPT !.failures = 0]
    ELSE IF outcome = "ok" THEN [prev EXCEPT !.fsm = "Healthy", !.grace = FALSE, !.failures = 0]
    ELSE Failed(prev, IF outcome = "stopped" \/ prev.failures + 1 >= Threshold
                      THEN "Crashed" ELSE "Suspect")

Transition(prev, outcome) ==
    CASE outcome = "stopped" -> Failed(prev, "Crashed")
      [] outcome = "ok" -> [prev EXCEPT !.fsm = "Healthy", !.grace = FALSE, !.failures = 0]
      [] outcome = "loading" /\ prev.grace -> [prev EXCEPT !.failures = 0]
      [] outcome = "transport" /\ prev.grace -> Failed(prev, "Starting")
      [] OTHER ->
            Failed(prev, IF prev.failures + 1 >= Threshold THEN "Crashed" ELSE "Suspect")

-----------------------------------------------------------------------------
(* handle_kick, up to the transition.                                      *)

SupGoto(from, to) ==
    /\ sup.at = from
    /\ sup' = IF to = "idle" THEN SupIdle ELSE [sup EXCEPT !.at = to]

\* The entry is copied, and the URL is built for the type the row names: for a
\* type nobody knows the task panics, a failed lookup is taken for "llamacpp".
Kick ==
    /\ serial => NoRequest /\ NoHandler
    /\ sup.at = "idle"
    /\ entry # NoEntry /\ ~entry.paused /\ entry.fsm \notin {"Crashed", "Quarantined"}
    /\ \E ok \in BOOLEAN :
          /\ Outcome(ok)
          /\ sup' = IF ok /\ kind = "other" THEN [SupIdle EXCEPT !.at = "dead"]
                    ELSE [SupIdle EXCEPT !.at = "probe", !.prev = entry]
    /\ UNCHANGED <<boxVars, dbVars, memVars, hand, reqVars, fixed, starts, served>>

\* What GET /health may answer, by the state of the container.
HealthAnswers ==
    CASE box.state = "serving" -> {"ok"}
      [] box.state = "loading" -> {"loading", "transport"}
      [] box.state = "hung" -> {"other", "transport"}
      [] OTHER -> {"transport"}

\* The transition replaces the entry whatever became of it since it was copied.
Probe ==
    /\ sup.at = "probe"
    /\ \E outcome \in HealthAnswers :
          IF outcome = "ok"
          THEN sup' = SupIdle /\ entry' = Transition(sup.prev, outcome)
          ELSE sup' = [sup EXCEPT !.at = "inspect", !.seen = outcome] /\ UNCHANGED entry
    /\ UNCHANGED <<boxVars, dbVars, gate, workedMap, hand, reqVars, fixed, starts, faults, served>>

\* Docker says whether it runs; no answer makes a transport failure a stop.
Inspect ==
    /\ sup.at = "inspect"
    /\ \E ok \in BOOLEAN :
          LET gone == box.state = "exited" /\ ok
              unknown == box.state = "absent" \/ ~ok
              outcome == IF gone \/ (unknown /\ sup.seen = "transport")
                         THEN "stopped" ELSE sup.seen
              next == Transition(sup.prev, outcome)
          IN  /\ Outcome(ok)
              /\ entry' = next
              /\ sup' = IF next.fsm = "Crashed" THEN [SupIdle EXCEPT !.at = "unload"]
                        ELSE SupIdle
    /\ UNCHANGED <<boxVars, dbVars, gate, workedMap, hand, reqVars, fixed, starts, served>>

-----------------------------------------------------------------------------
(* handle_kick after a transition to Crashed: reconcile_state, the row of  *)
(* the crash log, and the decision; then restart_after_crash or            *)
(* quarantine_model.  A failing statement is logged and passed over.       *)

\* Mutant: the reconciliation also resets the worked column.
UnloadForgetsWorked ==
    /\ SupGoto("unload", "drop")
    /\ \E ok \in BOOLEAN : Outcome(ok) /\ loaded' = (loaded /\ ~ok)
                                       /\ workedCol' = (workedCol /\ ~ok)
    /\ UNCHANGED <<boxVars, quarantine, secret, memVars, hand, reqVars, fixed, starts, served>>

Unload ==
    /\ SupGoto("unload", "drop")
    /\ \E ok \in BOOLEAN : Outcome(ok) /\ loaded' = (loaded /\ ~ok)
    /\ UNCHANGED <<boxVars, workedCol, quarantine, secret, memVars, hand, reqVars, fixed, starts, served>>

\* Mutant: the gate of a dead backend stays registered.
DropWorkedOnly ==
    /\ SupGoto("drop", "log")
    /\ workedMap' = "absent"
    /\ UNCHANGED <<boxVars, dbVars, gate, entry, hand, reqVars, fixed, starts, faults, served>>

Drop ==
    /\ SupGoto("drop", "log")
    /\ gate' = FALSE /\ workedMap' = "absent"
    /\ UNCHANGED <<boxVars, dbVars, entry, hand, reqVars, fixed, starts, faults, served>>

LogCrash ==
    /\ SupGoto("log", "decide")
    /\ UNCHANGED <<boxVars, dbVars, memVars, hand, reqVars, fixed, starts, faults, served>>

\* read_worked: the map first, then the column, and FALSE when that fails.
Decide ==
    /\ \E ok \in BOOLEAN :
          LET worked == IF workedMap = "absent" THEN ok /\ workedCol ELSE workedMap = "yes"
          IN  Outcome(ok) /\ SupGoto("decide", IF worked THEN "lookup" ELSE "giveUp")
    /\ UNCHANGED <<boxVars, dbVars, memVars, hand, reqVars, fixed, starts, served>>

\* The persisted state: without the row of the key, for an unknown type, or with
\* a row that lacks a file name or a launch configuration, nothing is restarted.
Lookup ==
    /\ sup.at = "lookup"
    /\ \/ /\ secret # 0 /\ kind = "llamacpp" /\ UNCHANGED faults
          /\ sup' = [sup EXCEPT !.at = "launch", !.key = secret]
       \/ /\ secret = 0 \/ kind # "llamacpp"
          /\ SupGoto("lookup", "quarantine") /\ UNCHANGED faults
       \/ Outcome(FALSE) /\ SupGoto("lookup", "quarantine")
    /\ UNCHANGED <<boxVars, dbVars, memVars, hand, reqVars, fixed, starts, served>>

SupLaunch ==
    /\ \/ /\ Launched(sup.key) /\ sup.at = "launch" /\ sup' = [SupIdle EXCEPT !.at = "resetWorked"]
          /\ workedMap' = "no" /\ UNCHANGED faults
       \/ LaunchFailed /\ Outcome(FALSE) /\ SupGoto("launch", "quarantine") /\ UNCHANGED workedMap
    /\ UNCHANGED <<dbVars, gate, entry, hand, reqVars, fixed, starts>>

ResetWorked ==
    /\ SupGoto("resetWorked", "register")
    /\ \E ok \in BOOLEAN : Outcome(ok) /\ workedCol' = (workedCol /\ ~ok)
    /\ UNCHANGED <<boxVars, loaded, quarantine, secret, memVars, hand, reqVars, fixed, starts, served>>

Register ==
    /\ SupGoto("register", "markLoaded")
    /\ gate' = TRUE
    /\ UNCHANGED <<boxVars, dbVars, entry, workedMap, hand, reqVars, fixed, starts, faults, served>>

MarkLoaded ==
    /\ SupGoto("markLoaded", "idle")
    /\ \E ok \in BOOLEAN : Outcome(ok) /\ loaded' = (loaded \/ ok)
    /\ entry' = Fresh("Healthy")
    /\ UNCHANGED <<boxVars, workedCol, quarantine, secret, gate, workedMap, hand, reqVars,
                   fixed, starts, served>>

\* Mutant: only the columns are written.
QuarantineColumns ==
    /\ SupGoto(sup.at, "idle")
    /\ \E ok \in BOOLEAN :
          /\ Outcome(ok)
          /\ \/ sup.at = "giveUp" /\ quarantine' = (IF ok THEN "neverWorked" ELSE quarantine)
             \/ sup.at = "quarantine" /\ quarantine' = (IF ok THEN "restartFailed" ELSE quarantine)
    /\ UNCHANGED <<boxVars, loaded, workedCol, secret, memVars, hand, reqVars, fixed, starts, served>>

\* Only an entry that is still there is marked.
Quarantine ==
    /\ SupGoto(sup.at, "idle")
    /\ \E ok \in BOOLEAN :
          /\ Outcome(ok)
          /\ \/ sup.at = "giveUp" /\ quarantine' = (IF ok THEN "neverWorked" ELSE quarantine)
             \/ sup.at = "quarantine" /\ quarantine' = (IF ok THEN "restartFailed" ELSE quarantine)
    /\ entry' = IF entry = NoEntry THEN NoEntry ELSE [entry EXCEPT !.fsm = "Quarantined", !.grace = FALSE]
    /\ UNCHANGED <<boxVars, loaded, workedCol, secret, gate, workedMap, hand, reqVars,
                   fixed, starts, served>>

SupStep ==
    \/ Probe \/ Inspect \/ Unload \/ Drop \/ LogCrash \/ Decide \/ Lookup \/ SupLaunch
    \/ ResetWorked \/ Register \/ MarkLoaded \/ Quarantine

-----------------------------------------------------------------------------
(* start_container_core.                                                   *)

HandGoto(h, from, to) ==
    /\ hand[h].at = from
    /\ hand' = [hand EXCEPT ![h] = IF to = "idle" THEN HandIdle ELSE [@ EXCEPT !.at = to]]

Quiet == NoRequest /\ NoKick /\ NoHandler

\* It pauses the supervision of the model before it looks at the backend_type,
\* which is the request's if it names one; an unknown type ends it.
Start(h) ==
    /\ serial => Quiet
    /\ hand[h] = HandIdle
    /\ starts < MaxStarts[serial] /\ starts' = starts + 1
    /\ entry' = [(IF entry = NoEntry THEN Fresh("Starting") ELSE entry) EXCEPT !.paused = TRUE]
    /\ \E type \in Kinds :
          hand' = IF type = "llamacpp"
                  THEN [hand EXCEPT ![h] = [at |-> "launch", key |-> starts + 1]] ELSE hand
    /\ UNCHANGED <<boxVars, dbVars, gate, workedMap, sup, reqVars, fixed, faults, served>>

Launch(h) ==
    /\ \/ Launched(hand[h].key) /\ HandGoto(h, "launch", "saveKey") /\ UNCHANGED faults
       \/ LaunchFailed /\ Outcome(FALSE) /\ HandGoto(h, "launch", "idle")
    /\ UNCHANGED <<dbVars, memVars, sup, reqVars, fixed, starts>>

SaveKey(h) ==
    /\ hand[h].at = "saveKey" /\ hand' = [hand EXCEPT ![h] = [HandIdle EXCEPT !.at = "register"]]
    /\ \E ok \in BOOLEAN : Outcome(ok) /\ secret' = IF ok THEN hand[h].key ELSE secret
    /\ UNCHANGED <<boxVars, loaded, workedCol, quarantine, memVars, sup, reqVars, fixed, starts, served>>

StartRegister(h) ==
    /\ HandGoto(h, "register", "markLoaded")
    /\ gate' = TRUE
    /\ UNCHANGED <<boxVars, dbVars, entry, workedMap, sup, reqVars, fixed, starts, faults, served>>

StartMarkLoaded(h) ==
    /\ HandGoto(h, "markLoaded", "resetWorked")
    /\ \E ok \in BOOLEAN : Outcome(ok) /\ loaded' = (loaded \/ ok)
    /\ workedMap' = "no"
    /\ UNCHANGED <<boxVars, workedCol, quarantine, secret, gate, entry, sup, reqVars,
                   fixed, starts, served>>

StartResetWorked(h) ==
    /\ HandGoto(h, "resetWorked", "unquarantine")
    /\ \E ok \in BOOLEAN : Outcome(ok) /\ workedCol' = (workedCol /\ ~ok)
    /\ UNCHANGED <<boxVars, loaded, quarantine, secret, memVars, sup, reqVars, fixed, starts, served>>

\* clear_quarantine and arm_supervision_starting.
Unquarantine(h) ==
    /\ HandGoto(h, "unquarantine", "idle")
    /\ \E ok \in BOOLEAN : Outcome(ok) /\ quarantine' = IF ok THEN "none" ELSE quarantine
    /\ entry' = Fresh("Starting")
    /\ UNCHANGED <<boxVars, loaded, workedCol, secret, gate, workedMap, sup, reqVars,
                   fixed, starts, served>>

-----------------------------------------------------------------------------
(* The stop handlers: stop_llamacpp, then post_stop_cleanup.               *)

\* An unknown type is refused, a failed lookup is taken for "llamacpp".
Stop(h) ==
    /\ serial => Quiet
    /\ hand[h] = HandIdle
    /\ \/ kind = "llamacpp" /\ UNCHANGED faults
       \/ Outcome(FALSE)
    /\ hand' = [hand EXCEPT ![h].at = "halt"]
    /\ UNCHANGED <<boxVars, dbVars, memVars, sup, reqVars, fixed, starts, served>>

\* A container that cannot be inspected is taken for one that does not exist.
Halt(h) ==
    /\ \/ /\ Running /\ box' = [box EXCEPT !.state = "exited"]
          /\ HandGoto(h, "halt", "remove") /\ UNCHANGED faults
       \/ /\ ~Running /\ UNCHANGED <<box, faults>>
          /\ HandGoto(h, "halt", IF box.state = "exited" THEN "remove" ELSE "cleanup")
       \/ /\ Outcome(FALSE) /\ UNCHANGED box
          /\ HandGoto(h, "halt", "idle") \/ HandGoto(h, "halt", "cleanup")
    /\ UNCHANGED <<troubles, dbVars, memVars, sup, reqVars, fixed, starts, served>>

\* To remove a container that is gone is an error, which skips the clean-up.
Remove(h) ==
    /\ \/ /\ box.state # "absent" /\ box' = [state |-> "absent", key |-> 0]
          /\ HandGoto(h, "remove", "cleanup") /\ UNCHANGED faults
       \/ /\ box.state = "absent" /\ HandGoto(h, "remove", "idle")
          /\ UNCHANGED <<box, faults>>
       \/ Outcome(FALSE) /\ HandGoto(h, "remove", "idle") /\ UNCHANGED box
    /\ UNCHANGED <<troubles, dbVars, memVars, sup, reqVars, fixed, starts, served>>

CleanUp(h) ==
    /\ HandGoto(h, "cleanup", "dropKey")
    /\ gate' = FALSE /\ entry' = NoEntry /\ workedMap' = "absent"
    /\ UNCHANGED <<boxVars, dbVars, sup, reqVars, fixed, starts, faults, served>>

DropKey(h) ==
    /\ HandGoto(h, "dropKey", "unload")
    /\ \E ok \in BOOLEAN : Outcome(ok) /\ secret' = IF ok THEN 0 ELSE secret
    /\ UNCHANGED <<boxVars, loaded, workedCol, quarantine, memVars, sup, reqVars, fixed, starts, served>>

StopUnload(h) ==
    /\ HandGoto(h, "unload", "idle")
    /\ \E ok \in BOOLEAN : Outcome(ok) /\ loaded' = (loaded /\ ~ok)
    /\ UNCHANGED <<boxVars, workedCol, quarantine, secret, memVars, sup, reqVars, fixed, starts, served>>

HandStep(h) ==
    \/ Launch(h) \/ SaveKey(h) \/ StartRegister(h) \/ StartMarkLoaded(h)
    \/ StartResetWorked(h) \/ Unquarantine(h)
    \/ Halt(h) \/ Remove(h) \/ CleanUp(h) \/ DropKey(h) \/ StopUnload(h)

\* The client goes away and its handler is dropped at whatever await it is.
Abandon(h) ==
    /\ hand[h] # HandIdle /\ hand' = [hand EXCEPT ![h] = HandIdle]
    /\ Outcome(FALSE)
    /\ UNCHANGED <<boxVars, dbVars, memVars, sup, reqVars, fixed, starts, served>>

-----------------------------------------------------------------------------
(* A restart of the proxy, and time.                                       *)

\* Memory and tasks are lost.  recover_gate_state looks at every loaded model
\* that has a row of secrets: registered and seeded if its container runs,
\* reconciled if it does not or cannot be inspected.  A restart amid any activity
\* counts as a fault, like one whose inspection or UPDATE fails; a query that
\* fails comes to the same as both.
ProxyRestart ==
    /\ answered' = FALSE /\ writing' = FALSE
    /\ hand' = [h \in Handlers |-> HandIdle] /\ sup' = SupIdle
    /\ workedMap' = "absent"
    /\ \E inspect, update \in BOOLEAN :
          LET listed == loaded /\ secret # 0
              alive == listed /\ inspect /\ Running
          IN  /\ Outcome(Quiet /\ inspect /\ update)
              /\ gate' = alive
              /\ entry' = IF alive THEN Fresh("Healthy") ELSE NoEntry
              /\ loaded' = (loaded /\ (~listed \/ alive \/ ~update))
    /\ UNCHANGED <<boxVars, workedCol, quarantine, secret, fixed, starts, served>>

\* STARTUP_GRACE passes, for the entry and for the copy a kick took of it.
Age ==
    /\ entry # NoEntry /\ entry.grace
    /\ entry' = [entry EXCEPT !.grace = FALSE]
    /\ UNCHANGED <<boxVars, dbVars, gate, workedMap, sup, hand, reqVars, fixed, starts, faults, served>>

AgeCopy ==
    /\ sup.prev # NoEntry /\ sup.prev.grace
    /\ sup' = [sup EXCEPT !.prev.grace = FALSE]
    /\ UNCHANGED <<boxVars, dbVars, memVars, hand, reqVars, fixed, starts, faults, served>>

\* The pause lasts 60 s, shorter or longer than the start it was set for.
PauseEnds ==
    /\ serial => NoHandler
    /\ entry # NoEntry /\ entry.paused
    /\ entry' = [entry EXCEPT !.paused = FALSE]
    /\ UNCHANGED <<boxVars, dbVars, gate, workedMap, sup, hand, reqVars, fixed, starts, faults, served>>

-----------------------------------------------------------------------------
Container == BoxLoads \/ BoxRecovers \/ \E how \in {"exited", "hung"} : BoxFails(how)

Next ==
    \/ Container
    \/ Answer \/ RecordWorked \/ WriteWorked
    \/ Kick \/ SupStep
    \/ \E h \in Handlers : Start(h) \/ Stop(h) \/ HandStep(h) \/ Abandon(h)
    \/ ProxyRestart \/ Age \/ AgeCopy \/ PauseEnds

\* The runtime runs every task on, the interval keeps sending kicks (strongly,
\* since in serial behaviours they wait their turn) and pauses run out.
Fairness ==
    /\ WF_vars(SupStep) /\ \A h \in Handlers : WF_vars(HandStep(h))
    /\ WF_vars(RecordWorked) /\ WF_vars(WriteWorked)
    /\ SF_vars(Kick) /\ WF_vars(PauseEnds)

Spec == Init /\ [][Next]_vars
FairSpec == Spec /\ Fairness

-----------------------------------------------------------------------------
(* What the documents promise of every behaviour.                          *)

\* ADR 015: "Keys are generated at container creation time and stored alongside
\* container metadata": whenever no handler is at work, the stored key of a
\* loaded model is the one its running container checks (start_container_core).
StoredKeyOpensContainer ==
    serial /\ faults = 0 /\ Quiet /\ loaded /\ Running => secret = box.key

\* CHANGELOG: a backend that served a 2xx "is auto-restarted"; so a restart that
\* succeeds leaves a container of its own (restart_after_crash, start_llamacpp).
RestartReplacesBackend ==
    [][sup.at = "launch" /\ sup'.at = "resetWorked" => box'.state = "loading"]_<<sup, box>>

\* CHANGELOG: a backend "that served at least one 2xx response since its current
\* container start is auto-restarted", so it is not quarantined as never having
\* worked.  (It is, when a start found its container running in between.)
ServedIsRestarted == serial /\ faults = 0 /\ quarantine = "neverWorked" => served = "no"

-----------------------------------------------------------------------------
(* What the code keeps of it.                                              *)

Undisturbed == serial /\ faults = 0

\* However handlers, kicks, failures and restarts of the proxy interleave, no
\* entry is left Crashed once the kick that found the crash is over: it has been
\* restarted, quarantined or dropped.  (Kicks pass over a Crashed entry, so one
\* that stayed would never be looked at again.)
NoDeadEnd == sup.at = "idle" /\ entry # NoEntry => entry.fsm # "Crashed"

\* One actor at a time, and no failure: whenever nothing is under way, a model
\* is loaded exactly when the gate knows it, and a loaded model has a key, is
\* supervised, and is not quarantined.
SerialConsistent ==
    Undisturbed /\ Quiet =>
        /\ loaded <=> gate
        /\ loaded => /\ secret # 0 /\ quarantine = "none"
                     /\ entry # NoEntry /\ entry.fsm \notin {"Crashed", "Quarantined"}

\* Under the same conditions no model is quarantined as never having worked when
\* its container, since it was created, answered a request, whether the flag is
\* read from memory or, after a restart of the proxy, from its column; unless a
\* start found that container running after the answer (start_llamacpp leaves it,
\* start_container_core and restart_after_crash reset the flag).
SerialFairQuarantine == Undisturbed /\ quarantine = "neverWorked" => served # "yes"

\* One actor at a time, and no failure for ever: a loaded model whose container
\* is gone is noticed: it stops being loaded, or a container runs again.
SerialDeadIsNoticed ==
    serial /\ kind = "llamacpp" /\ [](faults = 0)
        => ((loaded /\ ~Running) ~> (~loaded \/ Running))
=============================================================================
