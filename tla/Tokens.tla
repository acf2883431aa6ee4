-------------------------------- MODULE Tokens --------------------------------
(***************************************************************************)
(* The tokens table: API tokens of users, meta tokens that usage of Open   *)
(* WebUI is booked on, and the internal token of Open WebUI itself         *)
(* (auth/tokens.rs, api/user.rs), with the part of delete_model that       *)
(* revokes and unpins tokens (api/admin.rs) and the startup that provides  *)
(* the internal token.                                                     *)
(*                                                                         *)
(* Each statement is a step.  A hash is the configured key for an internal *)
(* token and the row's own id for any other; token_hash is UNIQUE.  Names, *)
(* categories and the expiry are left out: a token that has expired opens  *)
(* nothing, and the date is only ever read by validate_token.              *)
(***************************************************************************)
EXTENDS Naturals, FiniteSets, FiniteSetsExt

CONSTANTS
    Users,      \* owners; Boot is the bootstrap administrator
    Boot,
    Models,     \* rows of the models table
    Keys,       \* values WEBUI_API_KEY is given
    Requests,   \* requests that book usage on a meta token
    MaxTokens,  \* rows of the table
    MaxStarts,  \* starts of the program
    None

ASSUME TokensAssumption ==
    /\ Boot \in Users /\ MaxTokens \in Nat /\ MaxStarts \in Nat \ {0}
    /\ None \notin Models \union Keys \union Users
    /\ Keys \cap Nat = {}

Ids == 1 .. MaxTokens

VARIABLES
    tokens,  \* rows of the table by id, None when unused
    models,  \* models that exist
    ask,     \* requests in ensure_meta_token
    del,     \* the deletion of a model that is under way
    boot     \* the startup, the key it was given, the starts so far

vars == <<tokens, models, ask, del, boot>>

\* asked and raced are history: the model the token was created for, and
\* whether the insertion overlapped the deletion or the request it races with.
Row == [user : Users, kind : {"user", "meta", "internal"}, hash : Keys \union Ids,
        revoked : BOOLEAN, deleted : BOOLEAN,
        pin : Models \union {None}, asked : Models \union {None}, raced : BOOLEAN]

ASSUME NoneIsNoRow == None \notin Row

NewRow(u, k, h) ==
    [user |-> u, kind |-> k, hash |-> h, revoked |-> FALSE, deleted |-> FALSE,
     pin |-> None, asked |-> None, raced |-> FALSE]

Quiet   == [at |-> "idle", user |-> Boot, raced |-> FALSE]
NotDel  == [at |-> "idle", model |-> None, blockers |-> {}]

Init ==
    /\ tokens = [i \in Ids |-> None]
    /\ models = Models
    /\ ask = [r \in Requests |-> Quiet]
    /\ del = NotDel
    /\ \E k \in Keys \union {None} :
          boot = [at |-> "select", key |-> k, starts |-> 1, revoked |-> FALSE]

-----------------------------------------------------------------------------
Rows  == {i \in Ids : tokens[i] # None}
Fresh == Min(Ids \ Rows)
Room  == Ids \ Rows # {}
Up    == boot.at = "up"

Insert(row)    == tokens' = [tokens EXCEPT ![Fresh] = row]
HashTaken(h)   == \E i \in Rows : tokens[i].hash = h
Change(S, f(_)) == tokens' = [i \in Ids |-> IF i \in S THEN f(tokens[i]) ELSE tokens[i]]

\* validate_token: found by its hash and not revoked.  deleted_at is not read.
Opens(i) == ~tokens[i].revoked

Revoked(row)  == [row EXCEPT !.revoked = TRUE]
Deleted(row)  == [row EXCEPT !.deleted = TRUE, !.revoked = TRUE]
Unpinned(row) == [row EXCEPT !.pin = None]

-----------------------------------------------------------------------------
(* api/user.rs *)

\* The pin is a foreign key: it names a model that exists.
CreateToken(u, m) ==
    /\ Up /\ Room
    /\ m \in models \union {None}
    /\ Insert([NewRow(u, "user", Fresh) EXCEPT
                 !.pin = m, !.asked = m, !.raced = m # None /\ del.model = m])
    /\ UNCHANGED <<models, ask, del, boot>>

\* revoke_token asks for the owner only, delete_token for a visible token too.
RevokeToken(u, i) ==
    /\ Up
    /\ i \in Rows /\ tokens[i].user = u /\ ~tokens[i].revoked
    /\ Change({i}, Revoked)
    /\ boot' = IF tokens[i].kind = "internal" THEN [boot EXCEPT !.revoked = TRUE] ELSE boot
    /\ UNCHANGED <<models, ask, del>>

DeleteToken(u, i) ==
    /\ Up
    /\ i \in Rows /\ tokens[i].user = u /\ tokens[i].kind = "user" /\ ~tokens[i].deleted
    /\ Change({i}, Deleted)
    /\ UNCHANGED <<models, ask, del, boot>>

-----------------------------------------------------------------------------
(* resolve_meta_user and ensure_meta_token: look, then insert. *)

HasInternal(u) == \E i \in Rows : tokens[i].user = u /\ tokens[i].kind = "internal" /\ ~tokens[i].revoked
HasMeta(u) == \E i \in Rows : tokens[i].user = u /\ tokens[i].kind = "meta" /\ ~tokens[i].revoked

MetaSelect(r, u) ==
    /\ Up /\ ask[r].at = "idle" /\ ~HasMeta(u)
    /\ LET beside == {s \in Requests : ask[s].at = "insert" /\ ask[s].user = u}
       IN  ask' = [s \in Requests |->
              IF s = r THEN [at |-> "insert", user |-> u, raced |-> beside # {}]
              ELSE IF s \in beside THEN [ask[s] EXCEPT !.raced = TRUE] ELSE ask[s]]
    /\ UNCHANGED <<tokens, models, del, boot>>

MetaInsert(r) ==
    /\ ask[r].at = "insert"
    /\ IF Room THEN Insert([NewRow(ask[r].user, "meta", Fresh) EXCEPT !.raced = ask[r].raced])
       ELSE UNCHANGED tokens
    /\ ask' = [ask EXCEPT ![r] = Quiet]
    /\ UNCHANGED <<models, del, boot>>

-----------------------------------------------------------------------------
(* delete_model, as far as tokens go. *)

Pinned(m)   == {i \in Rows : tokens[i].pin = m}
NoBlockers(m) == {}
Blockers(m) == {i \in Pinned(m) : ~tokens[i].revoked /\ ~tokens[i].deleted}

\* The pins in use are read.  Without override the request is refused.
DeleteBegin(m) ==
    /\ Up /\ del.at = "idle" /\ m \in models
    /\ del' = [at |-> "revoke", model |-> m, blockers |-> Blockers(m)]
    /\ UNCHANGED <<tokens, models, ask, boot>>

\* Each is revoked by a statement of its own; an error ends the request.
DeleteRevoke ==
    /\ del.at = "revoke"
    /\ \/ /\ del.blockers = {}
          /\ del' = [del EXCEPT !.at = "commit"]
          /\ UNCHANGED tokens
       \/ /\ del.blockers # {}
          /\ Change({Min(del.blockers)}, Deleted)
          /\ del' = [del EXCEPT !.blockers = @ \ {Min(del.blockers)}]
       \/ del' = NotDel /\ UNCHANGED tokens
    /\ UNCHANGED <<models, ask, boot>>

\* The transaction unpins every token that still names the model, whoever
\* created it in the meantime, and deletes the row.
DeleteCommit ==
    /\ del.at = "commit"
    /\ \/ Change(Pinned(del.model), Unpinned) /\ models' = models \ {del.model}
       \/ UNCHANGED <<tokens, models>>
    /\ del' = NotDel
    /\ UNCHANGED <<ask, boot>>

-----------------------------------------------------------------------------
(* ensure_internal_token, before the program serves requests. *)

Internal == {i \in Rows : tokens[i].kind = "internal"}

BootSelect ==
    /\ boot.at = "select"
    /\ boot' = [boot EXCEPT !.at =
           IF boot.key = None \/ \E i \in Internal : tokens[i].hash = boot.key /\ ~tokens[i].revoked
           THEN "up" ELSE "revoke"]
    /\ UNCHANGED <<tokens, models, ask, del>>

BootKeepOld ==
    /\ boot.at = "revoke"
    /\ boot' = [boot EXCEPT !.at = "insert"]
    /\ UNCHANGED <<tokens, models, ask, del>>

BootRevoke ==
    /\ boot.at = "revoke"
    /\ Change(Internal, Revoked)
    /\ boot' = [boot EXCEPT !.at = "insert"]
    /\ UNCHANGED <<models, ask, del>>

\* A key whose hash is in the table already, revoked, cannot be inserted: main
\* passes the error on and the program ends.
BootInsert ==
    /\ boot.at = "insert" /\ Room
    /\ IF HashTaken(boot.key)
       THEN boot' = [boot EXCEPT !.at = "failed"] /\ UNCHANGED tokens
       ELSE boot' = [boot EXCEPT !.at = "up"] /\ Insert(NewRow(Boot, "internal", boot.key))
    /\ UNCHANGED <<models, ask, del>>

\* The program ends anywhere, also while it starts, and starts with any key.
Restart(k) ==
    /\ boot.starts < MaxStarts
    /\ boot' = [at |-> "select", key |-> k, starts |-> boot.starts + 1, revoked |-> FALSE]
    /\ ask' = [r \in Requests |-> Quiet]
    /\ del' = NotDel
    /\ UNCHANGED <<tokens, models>>

Next ==
    \/ \E u \in Users, m \in models \union {None} : CreateToken(u, m)
    \/ \E u \in Users, i \in Ids : RevokeToken(u, i) \/ DeleteToken(u, i)
    \/ \E r \in Requests, u \in Users : MetaSelect(r, u)
    \/ \E r \in Requests : MetaInsert(r)
    \/ \E m \in Models : DeleteBegin(m)
    \/ DeleteRevoke \/ DeleteCommit
    \/ BootSelect \/ BootRevoke \/ BootInsert
    \/ \E k \in Keys \union {None} : Restart(k)

Spec == Init /\ [][Next]_vars

-----------------------------------------------------------------------------
TypeOK ==
    /\ tokens \in [Ids -> Row \union {None}]
    /\ models \subseteq Models
    /\ ask \in [Requests -> [at : {"idle", "insert"}, user : Users, raced : BOOLEAN]]
    /\ del \in [at : {"idle", "revoke", "commit"}, model : Models \union {None}, blockers : SUBSET Ids]
    /\ boot \in [at : {"select", "revoke", "insert", "up", "failed"}, key : Keys \union {None},
                 starts : 1 .. MaxStarts, revoked : BOOLEAN]
    /\ \A i, j \in Rows : tokens[i].hash = tokens[j].hash => i = j

\* A deleted token opens nothing, by whichever handler it was deleted:
\* validate_token does not look at deleted_at and relies on revoked.
DeletedNeverOpens == \A i \in Rows : tokens[i].deleted => ~Opens(i)

\* A user has one meta token in use, or the requests that inserted the others
\* overlapped (ensure_meta_token).
OneMetaToken ==
    \A i, j \in Rows :
        /\ i # j /\ tokens[i].user = tokens[j].user
        /\ \A k \in {i, j} : tokens[k].kind = "meta" /\ ~tokens[k].revoked
        => tokens[i].raced /\ tokens[j].raced

\* A token that was created for one model and can still be used is still
\* pinned to it.  Only a token created while the deletion of its model is under
\* way may lose its pin, and is then good for every model (delete_model).
PinKept ==
    \A i \in Rows :
        Opens(i) /\ tokens[i].asked # tokens[i].pin => tokens[i].raced

\* After a startup with a key, that key opens and no earlier one does, until
\* the owner revokes it, through any sequence of keys and crashes.
InternalTokenCurrent ==
    Up /\ boot.key # None /\ ~boot.revoked =>
        {tokens[i].hash : i \in {i \in Internal : Opens(i)}} = {boot.key}

\* The comment of ensure_internal_token says that a changed key makes it revoke
\* the old internal tokens and create a new one.
EveryKeyIsProvided == boot.at # "failed"

=============================================================================
