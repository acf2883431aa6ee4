--------------------------------- MODULE Fleet ---------------------------------
(* The containers of the managed backends as Docker has them, beside the rows  *)
(* of `models`: starting one (a UID no container has, then inspect, remove,    *)
(* create, start), stopping one, deleting its model, and the supervisor's      *)
(* restart of one it finds dead, with the UID in container_secrets.  Every     *)
(* line between two Docker calls may see the work of another request.          *)
EXTENDS Naturals

CONSTANTS Models,
          Starts,    \* start_container requests, each made once
          Stops,     \* stop_container and delete_model requests, each made once
          Supervisor, \* the task that handles one probe after the other
          Uids,      \* the range of allocate_uid
          NoModel,
          NoBox,     \* no container, and no UID
          MaxFaults  \* failing Docker calls and statements

VARIABLES row,      \* the model's row: "gone", "idle", or "loaded" (loaded = 1)
          box,      \* Docker's containers, by the model their name and label say
          start,    \* the starts under way, and what the supervisor is doing
          stop,     \* the stops and deletions under way
          excused,  \* models deleted beside a start, with a stop that failed, or
                    \* with a container but not marked loaded
          key,      \* the container_uid of the model's row in container_secrets
          cut,      \* models whose key went without their mark, see UnlistedExplained
          watch,    \* supervisor_map: "absent", "live", or "over" (crashed, quarantined)
          faults

vars == <<row, box, start, stop, excused, key, cut, watch, faults>>
keys == <<key, cut>>

(* beside: the models from whose container this UID may not have been chosen   *)
(* apart: another start was under way, their inspection failed, or the UID is  *)
(* the stored one and no longer that of the model's container.                 *)
NoStart == [at |-> "new", model |-> NoModel, todo |-> {}, used |-> {}, uid |-> NoBox,
            beside |-> {}]
NoStop == [at |-> "new", model |-> NoModel, delete |-> FALSE, excuse |-> FALSE]

Boxes == {m \in Models : box[m] # NoBox}
Running(m) == m \in Boxes /\ box[m].state = "running"
Keyed == {m \in Models : key[m] # NoBox}
Starters == Starts \cup {Supervisor}
Launching(s) == start[s].at \notin {"new", "probe", "dead", "done"}
Starting(m) == \E s \in Starters : Launching(s) /\ start[s].model = m

Init == /\ row = [m \in Models |-> "idle"]
        /\ box = [m \in Models |-> NoBox]
        /\ start = [s \in Starters |-> NoStart]
        /\ stop = [d \in Stops |-> NoStop]
        /\ key = [m \in Models |-> NoBox]
        /\ watch = [m \in Models |-> "absent"]
        /\ excused = {} /\ cut = {} /\ faults = 0

Fault == faults < MaxFaults /\ faults' = faults + 1
GoOn(s, place) == start' = [start EXCEPT ![s].at = place]
Started == [NoStart EXCEPT !.at = "done"]
Stopped == [NoStop EXCEPT !.at = "done"]
Over(s) == IF s = Supervisor THEN NoStart ELSE Started
StartEnds(s) == start' = [start EXCEPT ![s] = Over(s)]

(* What the others do while s launches m: the starts know of each other, and a *)
(* stop of m that is under way knows of the start.                             *)
Others(m) == {start[u].model : u \in {u \in Starters : Launching(u)}} \ {m}
Launches(s, m, record) ==
    /\ start' = [t \in Starters |->
                   IF t = s THEN record
                   ELSE IF ~Launching(t) \/ start[t].model = m THEN start[t]
                   ELSE [start[t] EXCEPT !.beside = @ \cup {m}]]
    /\ stop' = [d \in Stops |-> [stop[d] EXCEPT !.excuse = @ \/ stop[d].model = m]]

(* start_container_core finds the row; allocate_uid lists the containers. *)
StartBegin(s, m) ==
    /\ start[s].at = "new" /\ row[m] # "gone"
    /\ Launches(s, m, [NoStart EXCEPT !.at = "inspect", !.model = m, !.todo = Boxes,
                                      !.beside = Others(m)])
    /\ UNCHANGED <<row, box, excused, faults, keys, watch>>

(* One inspect_container of allocate_uid; a failing one is passed over. *)
InspectUid(s) ==
    /\ start[s].at = "inspect"
    /\ \E m \in start[s].todo :
         \/ /\ m \in Boxes
            /\ start' = [start EXCEPT ![s].todo = @ \ {m}, ![s].used = @ \cup {box[m].uid}]
            /\ UNCHANGED faults
         \/ /\ m \in Boxes /\ Fault
            /\ start' = [start EXCEPT ![s].todo = @ \ {m}, ![s].beside = @ \cup ({m} \ {start[s].model})]
         \/ /\ m \notin Boxes
            /\ start' = [start EXCEPT ![s].todo = @ \ {m}]
            /\ UNCHANGED faults
    /\ UNCHANGED <<row, box, stop, excused, keys, watch>>

(* A mutant: the UIDs in use are not looked at. *)
AnyUid(s) == Uids

Free(s) == Uids \ start[s].used

(* A hundred draws: one that is free, or none was.  pause_supervision follows: *)
(* a model that was not in the map is now.                                     *)
PickUid(s) ==
    /\ start[s].at = "inspect" /\ start[s].todo = {}
    /\ \/ \E u \in Free(s) :
            /\ start' = [start EXCEPT ![s].uid = u, ![s].at = "look", ![s].used = {}]
            /\ watch' = [watch EXCEPT ![start[s].model] = IF @ = "absent" THEN "live" ELSE @]
       \/ Uids \cap start[s].used # {} /\ StartEnds(s) /\ UNCHANGED watch
    /\ UNCHANGED <<row, box, stop, excused, faults, keys>>

(* start_llamacpp: a running container is taken as it is, a stopped one is     *)
(* removed first.  The supervisor has its key already.                         *)
AfterLaunch(s) == IF s = Supervisor THEN "book" ELSE "store"

LookForBox(s) ==
    LET m == start[s].model IN
    /\ start[s].at = "look"
    /\ \/ Running(m) /\ GoOn(s, AfterLaunch(s)) /\ UNCHANGED faults
       \/ m \in Boxes /\ ~Running(m) /\ GoOn(s, "remove") /\ UNCHANGED faults
       \/ m \notin Boxes /\ GoOn(s, "create") /\ UNCHANGED faults
       \/ m \in Boxes /\ Fault /\ GoOn(s, "create")
    /\ UNCHANGED <<row, box, stop, excused, keys, watch>>

RemoveStopped(s) ==
    LET m == start[s].model IN
    /\ start[s].at = "remove"
    /\ \/ m \in Boxes /\ box' = [box EXCEPT ![m] = NoBox] /\ GoOn(s, "create") /\ UNCHANGED faults
       \/ m \notin Boxes /\ StartEnds(s) /\ UNCHANGED <<box, faults>>
       \/ Fault /\ StartEnds(s) /\ UNCHANGED box
    /\ UNCHANGED <<row, stop, excused, keys, watch>>

(* Docker refuses a second container of one name. *)
CreateBox(s) ==
    LET m == start[s].model IN
    /\ start[s].at = "create"
    /\ \/ /\ m \notin Boxes
          /\ box' = [box EXCEPT ![m] = [uid |-> start[s].uid, state |-> "created",
                                        beside |-> start[s].beside]]
          /\ GoOn(s, "start") /\ UNCHANGED faults
       \/ m \in Boxes /\ StartEnds(s) /\ UNCHANGED <<box, faults>>
       \/ Fault /\ StartEnds(s) /\ UNCHANGED box
    /\ UNCHANGED <<row, stop, excused, keys, watch>>

(* A container that does not start is removed, if that succeeds. *)
StartBox(s) ==
    LET m == start[s].model IN
    /\ start[s].at = "start"
    /\ \/ m \in Boxes /\ box' = [box EXCEPT ![m].state = "running"] /\ GoOn(s, AfterLaunch(s))
          /\ UNCHANGED faults
       \/ m \notin Boxes /\ StartEnds(s) /\ UNCHANGED <<box, faults>>
       \/ m \in Boxes /\ Fault /\ box' \in {box, [box EXCEPT ![m] = NoBox]} /\ StartEnds(s)
    /\ UNCHANGED <<row, stop, excused, keys, watch>>

(* UPDATE models SET loaded: a row that is gone stays so. *)
Marked(m, mark) == [row EXCEPT ![m] = IF @ = "gone" THEN @ ELSE mark]

(* INSERT OR REPLACE of the key, refused for a row that is gone; an error is    *)
(* logged and the start goes on.                                               *)
StoreKey(s) ==
    LET m == start[s].model IN
    /\ start[s].at = "store"
    /\ \/ /\ row[m] # "gone"
          /\ key' = [key EXCEPT ![m] = start[s].uid] /\ cut' = cut \ {m} /\ UNCHANGED faults
       \/ row[m] = "gone" /\ UNCHANGED <<keys, faults>>
       \/ Fault /\ cut' = (IF m \in Keyed THEN cut ELSE cut \cup {m}) /\ UNCHANGED key
    /\ GoOn(s, "book")
    /\ UNCHANGED <<row, box, stop, excused, watch>>

(* UPDATE models SET loaded = 1, whose failure changes nothing else, and the   *)
(* fresh entry in supervisor_map.                                              *)
Book(s) ==
    LET m == start[s].model IN
    /\ start[s].at = "book"
    /\ \/ row' = Marked(m, "loaded") /\ UNCHANGED faults
       \/ Fault /\ UNCHANGED row
    /\ watch' = [watch EXCEPT ![m] = "live"]
    /\ StartEnds(s)
    /\ UNCHANGED <<box, stop, excused, keys>>

-----------------------------------------------------------------------------
(* stop_container always asks Docker; delete_model only for a model marked     *)
(* loaded when it was looked up.                                               *)
StopBegin(d, m) ==
    /\ stop[d].at = "new"
    /\ \E deletes \in BOOLEAN :
         /\ deletes => row[m] # "gone"
         /\ stop' = [stop EXCEPT ![d] =
                       [at |-> IF deletes /\ row[m] # "loaded" THEN "row" ELSE "stop",
                        model |-> m, delete |-> deletes,
                        excuse |-> Starting(m) \/ (row[m] # "loaded" /\ m \in Boxes)]]
    /\ UNCHANGED <<row, box, start, excused, faults, keys, watch>>

(* A mutant: only the bookkeeping is done. *)
StopNothing(d) ==
    /\ stop[d].at = "stop"
    /\ stop' = [stop EXCEPT ![d].at = "cleanup"]
    /\ UNCHANGED <<row, box, start, excused, faults, keys, watch>>

(* stop_llamacpp: inspect, stop, remove.  An unknown container is a success,   *)
(* and so is one whose inspection fails.  stop_container gives up when it      *)
(* fails; delete_model continues.                                              *)
StopBox(d) ==
    LET m == stop[d].model IN
    /\ stop[d].at = "stop"
    /\ \/ /\ box' = [box EXCEPT ![m] = NoBox]
          /\ stop' = [stop EXCEPT ![d].at = "cleanup"]
          /\ UNCHANGED faults
       \/ /\ m \in Boxes /\ Fault
          /\ box' \in {box, [box EXCEPT ![m].state = "exited"]}
          /\ stop' \in {[stop EXCEPT ![d].at = "cleanup", ![d].excuse = TRUE]}
                       \cup (IF stop[d].delete THEN {} ELSE {[stop EXCEPT ![d] = Stopped]})
    /\ UNCHANGED <<row, start, excused, keys, watch>>

(* A start that counts on the key of its model: it has stored it, or, in the   *)
(* supervisor, read it.                                                        *)
CountsOnKey(s) == start[s].at = "book" \/ (s = Supervisor /\ Launching(s))

(* post_stop_cleanup: the entry in supervisor_map, the key, then the mark;     *)
(* errors are ignored.                                                         *)
DropKey(d) ==
    LET m == stop[d].model IN
    /\ stop[d].at = "cleanup"
    /\ watch' = [watch EXCEPT ![m] = "absent"]
    /\ \/ /\ key' = [key EXCEPT ![m] = NoBox] /\ UNCHANGED faults
          /\ cut' = IF \E s \in Starters : CountsOnKey(s) /\ start[s].model = m
                    THEN cut \cup {m} ELSE cut
       \/ Fault /\ UNCHANGED keys
    /\ stop' = [stop EXCEPT ![d].at = "unload"]
    /\ UNCHANGED <<row, box, start, excused>>

Unload(d) ==
    LET m == stop[d].model IN
    /\ stop[d].at = "unload"
    /\ \/ row' = Marked(m, "idle") /\ UNCHANGED <<cut, faults>>
       \/ Fault /\ cut' = cut \cup {m} /\ UNCHANGED row
    /\ stop' = [stop EXCEPT ![d] = IF @.delete THEN [@ EXCEPT !.at = "row"] ELSE Stopped]
    /\ UNCHANGED <<box, start, excused, key, watch>>

(* The transaction of delete_model, which may fail. *)
DeleteRow(d) ==
    LET m == stop[d].model IN
    /\ stop[d].at = "row"
    /\ \/ /\ row' = [row EXCEPT ![m] = "gone"]
          /\ excused' = IF stop[d].excuse THEN excused \cup {m} ELSE excused
          /\ key' = [key EXCEPT ![m] = NoBox]
          /\ UNCHANGED faults
       \/ Fault /\ UNCHANGED <<row, excused, key>>
    /\ stop' = [stop EXCEPT ![d] = Stopped]
    /\ UNCHANGED <<box, start, cut, watch>>

-----------------------------------------------------------------------------
(* A backend dies; its container stays until someone removes it. *)
Dies(m) ==
    /\ Running(m)
    /\ box' = [box EXCEPT ![m].state = "exited"]
    /\ UNCHANGED <<row, start, stop, excused, faults, keys, watch>>

(* handle_kick for a model it has in its map, neither paused (which ends) nor  *)
(* crashed.                                                                    *)
Probe(m) ==
    /\ start[Supervisor].at = "new" /\ watch[m] = "live"
    /\ start' = [start EXCEPT ![Supervisor] = [NoStart EXCEPT !.at = "probe", !.model = m]]
    /\ UNCHANGED <<row, box, stop, excused, faults, keys, watch>>

(* The backend answered or has not failed often enough; or it is found dead,   *)
(* its container gone, stopped, or running and not answering: reconcile_state. *)
Reconcile ==
    LET m == start[Supervisor].model IN
    /\ start[Supervisor].at = "probe"
    /\ \/ /\ watch' = [watch EXCEPT ![m] = "live"]
          /\ StartEnds(Supervisor)
          /\ UNCHANGED <<row, faults>>
       \/ /\ watch' = [watch EXCEPT ![m] = "over"]
          /\ GoOn(Supervisor, "dead")
          /\ \/ row' = Marked(m, "idle") /\ UNCHANGED faults
             \/ Fault /\ UNCHANGED row
    /\ UNCHANGED <<box, stop, excused, keys>>

(* It never worked, or a row or the launch settings are missing: quarantine.   *)
Quarantine ==
    /\ start[Supervisor].at = "dead"
    /\ StartEnds(Supervisor)
    /\ UNCHANGED <<row, box, stop, excused, faults, keys, watch>>

(* restart_after_crash: both rows are there, and start_llamacpp is called with *)
(* the UID of container_secrets.                                               *)
Revive ==
    LET m == start[Supervisor].model IN
    /\ start[Supervisor].at = "dead" /\ row[m] # "gone" /\ m \in Keyed
    /\ Launches(Supervisor, m,
                [NoStart EXCEPT !.at = "look", !.model = m, !.uid = key[m],
                   !.beside = IF m \in Boxes /\ box[m].uid = key[m]
                              THEN box[m].beside \cup Others(m) ELSE Models \ {m}])
    /\ UNCHANGED <<row, box, excused, faults, keys, watch>>

(* The proxy ends: what was under way stays as it is.  recover_gate_state then *)
(* asks Docker for the models marked loaded that have a key, and reconciles    *)
(* those it does not find running.                                             *)
Crash ==
    LET listed == {m \in Keyed : row[m] = "loaded"} IN
    /\ start' = [s \in Starters |-> IF start[s].model = NoModel THEN start[s] ELSE Over(s)]
    /\ stop' = [d \in Stops |-> IF stop[d].model = NoModel THEN stop[d] ELSE Stopped]
    /\ cut' = cut \cup {stop[d].model : d \in {d \in Stops : stop[d].at = "unload"}}
    /\ \E alive \in SUBSET {m \in listed : Running(m)}, dead \in SUBSET listed :
         /\ alive \cap dead = {}
         /\ IF alive = {m \in listed : Running(m)} /\ dead = listed \ alive
            THEN UNCHANGED faults ELSE Fault
         /\ row' = [m \in Models |-> IF m \in dead THEN "idle" ELSE row[m]]
         /\ watch' = [m \in Models |-> IF m \in alive THEN "live" ELSE "absent"]
    /\ UNCHANGED <<box, excused, key>>

Next == \/ \E s \in Starts : \/ \E m \in Models : StartBegin(s, m)
                             \/ InspectUid(s) \/ PickUid(s) \/ StoreKey(s)
        \/ \E s \in Starters : \/ LookForBox(s) \/ RemoveStopped(s) \/ CreateBox(s)
                               \/ StartBox(s) \/ Book(s)
        \/ \E d \in Stops : \/ \E m \in Models : StopBegin(d, m)
                            \/ StopBox(d) \/ DropKey(d) \/ Unload(d) \/ DeleteRow(d)
        \/ \E m \in Models : Dies(m) \/ Probe(m)
        \/ Reconcile \/ Quarantine \/ Revive \/ Crash

Spec == Init /\ [][Next]_vars

-----------------------------------------------------------------------------
TypeOK == /\ key \in [Models -> Uids \cup {NoBox}] /\ cut \subseteq Models
          /\ row \in [Models -> {"gone", "idle", "loaded"}]
          /\ \A m \in Boxes : box[m].uid \in Uids /\ box[m].state \in {"created", "running", "exited"}
          /\ \A s \in Starters : start[s].used \subseteq Uids /\ start[s].todo \subseteq Models
          /\ watch \in [Models -> {"absent", "live", "over"}]

(* allocate_uid isolates containers by their user.  Two containers have one    *)
(* UID only if one was started or restarted beside the other, if its           *)
(* inspection failed, or if the supervisor made it with a stored UID that was  *)
(* not, or no longer, that of the container it replaced.                       *)
UidsApart ==
    \A m, n \in Boxes : m # n /\ box[m].uid = box[n].uid
                        => m \in box[n].beside \/ n \in box[m].beside

(* ADR 008: a container's UID is its own.  Not a property of the code, for the *)
(* four reasons UidsApart names.                                               *)
UidsUnique == \A m, n \in Boxes : box[m].uid = box[n].uid => m = n

(* A container whose model has no row (nobody can stop it from the UI) was     *)
(* left by a deletion that ran beside a start or a restart of the model, whose *)
(* stop failed, or that found the container's model not marked loaded          *)
(* (delete_model).                                                             *)
OrphansExplained == \A m \in Boxes : row[m] = "gone" => m \in excused

(* A loaded model without a key, which recover_gate_state does not list, is    *)
(* one whose stop is between its two statements, or was when the proxy ended   *)
(* or the second one failed; or one whose start could not store the key, or    *)
(* that had it dropped by a stop before a start or a restart, which counted on *)
(* it, set the mark (post_stop_cleanup).                                       *)
UnlistedExplained ==
    \A m \in Models \ Keyed : row[m] = "loaded" =>
        m \in cut \/ \E d \in Stops : stop[d].at = "unload" /\ stop[d].model = m

LeftoversExplained == OrphansExplained /\ UnlistedExplained
=============================================================================
