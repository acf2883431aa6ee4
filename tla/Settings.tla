------------------------------- MODULE Settings -------------------------------
(* The fairness settings: rows in the table `settings`, and the copy of them   *)
(* the scheduler keeps in memory.  An update saves its keys one by one, in an  *)
(* order nobody chose, then reads the table again and replaces the copy.       *)
EXTENDS FiniteSets

CONSTANTS Keys,       \* the settings load_settings knows
          Handlers,   \* update_settings requests that can be under way at once
          Requests,   \* the bodies clients send: functions from Keys \cup {Unknown}
          Unknown,    \* a key no setting has
          Good,       \* values that parse as the field's type
          Bad,        \* a string that does not
          NotScalar,  \* a JSON value that is neither a number nor a string
          NoRow,      \* no row has the key
          Default     \* the compile-time value of a field

VARIABLES rows,     \* the table `settings`
          cache,    \* Scheduler.settings
          job,      \* the handlers' progress
          behind    \* some update since the last lone complete one changed rows
                    \* and was cut short, or ran beside another

vars == <<rows, cache, job, behind>>

Table == [Keys -> Good \cup {Bad, NoRow}]

(* What a request still has to save (todo), what its load_settings read, if    *)
(* no other request ran beside it (alone) and if it changed a row (wrote).     *)
Rest == [at |-> "idle", todo |-> {}, body |-> <<>>, read |-> [k \in Keys |-> NoRow],
         alone |-> TRUE, wrote |-> FALSE]

(* load_settings: an unparsable or missing value leaves the field's default.   *)
Parse(table) == [k \in Keys |-> IF table[k] \in Good THEN table[k] ELSE Default]

Busy == {h \in Handlers : job[h].at # "idle"}

Init == /\ rows \in Table
        /\ cache = Parse(rows)
        /\ job = [h \in Handlers |-> Rest]
        /\ behind = FALSE

Begin(h) ==
    /\ h \notin Busy
    /\ \E body \in Requests :
         job' = [g \in Handlers |->
                   IF g = h THEN [Rest EXCEPT !.at = "save", !.body = body,
                                     !.todo = DOMAIN body, !.alone = (Busy = {})]
                   ELSE [job[g] EXCEPT !.alone = FALSE]]
    /\ UNCHANGED <<rows, cache, behind>>

(* The handler returns without having replaced the copy: a 400, a 500, a       *)
(* failed reload (only logged), or a client that went away at an await.        *)
EndShort(h) ==
    /\ job' = [job EXCEPT ![h] = Rest]
    /\ behind' = (behind \/ job[h].wrote)

(* save_setting of one key. *)
Save(h) ==
    /\ job[h].at = "save"
    /\ \E k \in job[h].todo \ {Unknown} :
         /\ job[h].body[k] # NotScalar
         /\ rows' = [rows EXCEPT ![k] = job[h].body[k]]
         /\ job' = [job EXCEPT ![h].todo = @ \ {k}, ![h].wrote = TRUE]
    /\ UNCHANGED <<cache, behind>>

Reject(h) ==
    /\ job[h].at = "save"
    /\ \E k \in job[h].todo : k = Unknown \/ job[h].body[k] = NotScalar
    /\ EndShort(h)
    /\ UNCHANGED <<rows, cache>>

(* A failing statement or a dropped connection. *)
CutShort(h) ==
    /\ h \in Busy
    /\ EndShort(h)
    /\ UNCHANGED <<rows, cache>>

Load(h) ==
    /\ job[h].at = "save" /\ job[h].todo = {}
    /\ job' = [job EXCEPT ![h].at = "store", ![h].read = rows]
    /\ UNCHANGED <<rows, cache, behind>>

(* A mutant: the copy is not replaced. *)
StoreForgotten(h) ==
    /\ job[h].at = "store"
    /\ behind' = (~job[h].alone /\ (behind \/ job[h].wrote))
    /\ job' = [job EXCEPT ![h] = Rest]
    /\ UNCHANGED <<rows, cache>>

(* The write lock is taken after the SELECT has been answered. *)
Store(h) ==
    /\ job[h].at = "store"
    /\ cache' = Parse(job[h].read)
    /\ behind' = (~job[h].alone /\ (behind \/ job[h].wrote))
    /\ job' = [job EXCEPT ![h] = Rest]
    /\ UNCHANGED rows

(* Scheduler::new and the first reload; its failure is only logged. *)
Restart ==
    /\ job' = [h \in Handlers |-> Rest]
    /\ \/ cache' = Parse(rows) /\ behind' = FALSE
       \/ cache' = [k \in Keys |-> Default] /\ behind' = TRUE
    /\ UNCHANGED rows

Next == \/ \E h \in Handlers : \/ Begin(h) \/ Save(h) \/ Reject(h)
                               \/ CutShort(h) \/ Load(h) \/ Store(h)
        \/ Restart

Spec == Init /\ [][Next]_vars

-----------------------------------------------------------------------------
TypeOK == /\ rows \in Table
          /\ cache \in [Keys -> Good \cup {Default}]
          /\ \A h \in Handlers : job[h].at \in {"idle", "save", "store"}
          /\ behind \in BOOLEAN

(* With no update under way the scheduler works with what the table says,      *)
(* unless an update that changed rows was cut short or ran beside another and  *)
(* no update has since run alone to its end (update_settings, reload_settings).*)
CacheFollowsRows == Busy = {} /\ ~behind => cache = Parse(rows)
=============================================================================
