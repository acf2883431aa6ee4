-------------------------------- MODULE Logins --------------------------------
(***************************************************************************)
(* Logins through identity providers and with the break-glass credentials, *)
(* the sessions they create, and the administrators' changes of providers  *)
(* and users (auth/oidc.rs, auth/bootstrap.rs, auth/sessions.rs,           *)
(* auth/mod.rs, api/admin.rs).                                             *)
(*                                                                         *)
(* A login is a browser's attempt.  It leaves a row of oidc_auth_state and *)
(* goes to the provider; the callback then runs statement by statement,    *)
(* beside other callbacks.  A user is known by provider and subject, as    *)
(* the table's UNIQUE constraint has it.  The provider answers a code once *)
(* and is outside the program; cookies, codes and nonces are not modelled. *)
(***************************************************************************)
EXTENDS Naturals, FiniteSets

CONSTANTS
    Logins,      \* browsers
    Idps,        \* identity providers an administrator may configure
    Subjects,
    MaxChanges   \* changes an administrator makes

Bootstrap == [idp |-> "bootstrap", subject |-> "admin"]
People == [idp : Idps, subject : Subjects]
Accounts == People \union {Bootstrap}

ASSUME LoginsAssumption == "bootstrap" \notin Idps /\ MaxChanges \in Nat

VARIABLES
    enabled,  \* providers with enabled = 1
    users,    \* users: their is_admin, or none
    login,    \* what each browser's attempt is about to do, and for whom
    sess,     \* users with a session that has not expired
    auto,     \* history: users inserted as administrators by upsert_user
    raced,    \* history: users counted for beside another insertion
    changes

vars == <<enabled, users, login, sess, auto, raced, changes>>

Places == {"idle", "away", "exchange", "select", "count", "insert", "session",
           "bootSelect", "bootInsert", "bootSession"}
Resting == [at |-> "idle", who |-> Bootstrap, admin |-> FALSE]

Init ==
    /\ enabled \in SUBSET Idps
    /\ users \in [Accounts -> {"none", "user", "admin"}]
    /\ \A u \in People : users[u] = "none"
    /\ users[Bootstrap] \in {"none", "admin"}
    /\ login = [l \in Logins |-> Resting]
    /\ sess = {} /\ auto = {} /\ raced = {} /\ changes = 0

-----------------------------------------------------------------------------
Goto(l, p) == login' = [login EXCEPT ![l].at = p]
At(l, p)   == login[l].at = p
Who(l)     == login[l].who
GiveUp(l)  == login' = [login EXCEPT ![l] = Resting]

\* load_idp finds only enabled providers, for login and for callback alike.
AnyIdp(i)  == i \in Idps
LoadIdp(i) == i \in enabled

\* login: discovery, then the row of oidc_auth_state and the redirect.
Begin(l) ==
    \E u \in People :
        /\ At(l, "idle")
        /\ LoadIdp(u.idp)
        /\ login' = [login EXCEPT ![l] = [at |-> "away", who |-> u, admin |-> FALSE]]
        /\ UNCHANGED <<enabled, users, sess, auto, raced, changes>>

\* The row of oidc_auth_state is good for ten minutes; nobody need come back.
StateExpires(l) ==
    /\ At(l, "away")
    /\ GiveUp(l)
    /\ UNCHANGED <<enabled, users, sess, auto, raced, changes>>

Callback(l) ==
    /\ At(l, "away")
    /\ IF LoadIdp(Who(l).idp) THEN Goto(l, "exchange") ELSE GiveUp(l)
    /\ UNCHANGED <<enabled, users, sess, auto, raced, changes>>

\* Discovery, exchange and verification succeed or answer with an error.
Exchange(l) ==
    /\ At(l, "exchange")
    /\ Goto(l, "select") \/ GiveUp(l)
    /\ UNCHANGED <<enabled, users, sess, auto, raced, changes>>

\* upsert_user: the user is looked for; one that exists keeps its is_admin.
SelectUser(l) ==
    /\ At(l, "select")
    /\ Goto(l, IF users[Who(l)] = "none" THEN "count" ELSE "session")
    /\ UNCHANGED <<enabled, users, sess, auto, raced, changes>>

CountedOfIdp(l) == {u \in People : users[u] # "none" /\ u.idp = Who(l).idp}
Counted(l)      == {u \in People : users[u] # "none"}

\* The count leaves the bootstrap user out.
CountUsers(l) ==
    /\ At(l, "count")
    /\ login' = [login EXCEPT ![l].at = "insert", ![l].admin = Counted(l) = {}]
    /\ LET beside == {k \in Logins \ {l} : At(k, "insert")}
       IN  raced' = IF beside = {} THEN raced
                    ELSE raced \union {Who(l)} \union {Who(k) : k \in beside}
    /\ UNCHANGED <<enabled, users, sess, auto, changes>>

\* UNIQUE(idp_id, subject): the second insertion of a user is an error.
InsertUser(l) ==
    /\ At(l, "insert")
    /\ IF users[Who(l)] = "none"
       THEN /\ users' = [users EXCEPT ![Who(l)] = IF login[l].admin THEN "admin" ELSE "user"]
            /\ auto' = IF login[l].admin THEN auto \union {Who(l)} ELSE auto
            /\ Goto(l, "session")
       ELSE GiveUp(l) /\ UNCHANGED <<users, auto>>
    /\ UNCHANGED <<enabled, sess, raced, changes>>

CreateSession(l) ==
    /\ At(l, "session") \/ At(l, "bootSession")
    /\ sess' = sess \union {Who(l)}
    /\ GiveUp(l)
    /\ UNCHANGED <<enabled, users, auto, raced, changes>>

-----------------------------------------------------------------------------
(* bootstrap_login, with BREAK_GLASS set and the right credentials. *)

BootstrapLogin(l) ==
    /\ At(l, "idle")
    /\ login' = [login EXCEPT ![l] = [at |-> "bootSelect", who |-> Bootstrap, admin |-> TRUE]]
    /\ UNCHANGED <<enabled, users, sess, auto, raced, changes>>

\* A bootstrap user that exists is returned as it is.
BootSelect(l) ==
    /\ At(l, "bootSelect")
    /\ Goto(l, IF users[Bootstrap] = "none" THEN "bootInsert" ELSE "bootSession")
    /\ UNCHANGED <<enabled, users, sess, auto, raced, changes>>

BootInsert(l) ==
    /\ At(l, "bootInsert")
    /\ IF users[Bootstrap] = "none"
       THEN users' = [users EXCEPT ![Bootstrap] = "admin"] /\ Goto(l, "bootSession")
       ELSE GiveUp(l) /\ UNCHANGED users
    /\ UNCHANGED <<enabled, sess, auto, raced, changes>>

-----------------------------------------------------------------------------
(* A user's last session ends by logout or expiry; admin_only_middleware reads *)
(* is_admin from the users table for every request. *)

EndSession(u) ==
    /\ u \in sess
    /\ sess' = sess \ {u}
    /\ UNCHANGED <<enabled, users, login, auto, raced, changes>>

AdminThere == \E s \in sess : users[s] = "admin"
Change == AdminThere /\ changes < MaxChanges /\ changes' = changes + 1

\* create_idp and update_idp enable a provider, update_idp and disable_idp
\* disable it; the callbacks and sessions of its users go on.
SwitchIdp(i) ==
    /\ Change
    /\ enabled' \in {enabled \union {i}, enabled \ {i}} \ {enabled}
    /\ UNCHANGED <<users, login, sess, auto, raced>>

\* update_user sets is_admin of any user, the bootstrap user and oneself too.
UpdateUser(u) ==
    /\ Change
    /\ users[u] # "none"
    /\ \E a \in {"user", "admin"} : a # users[u] /\ users' = [users EXCEPT ![u] = a]
    /\ UNCHANGED <<enabled, login, sess, auto, raced>>

Handler(l) ==
    \/ Callback(l) \/ Exchange(l) \/ SelectUser(l) \/ CountUsers(l) \/ InsertUser(l)
    \/ CreateSession(l) \/ BootSelect(l) \/ BootInsert(l)

Next ==
    \/ \E l \in Logins : Begin(l) \/ BootstrapLogin(l) \/ StateExpires(l) \/ Handler(l)
    \/ \E u \in sess : EndSession(u)
    \/ \E i \in Idps : SwitchIdp(i)
    \/ \E u \in Accounts : UpdateUser(u)

\* The handlers run, providers answer or fail, and time passes: rows expire.
\* Nobody has to log in, and no administrator has to do anything.
Fairness ==
    /\ \A l \in Logins : WF_vars(Handler(l)) /\ WF_vars(StateExpires(l))
    /\ \A u \in Accounts : WF_vars(EndSession(u))

Spec == Init /\ [][Next]_vars /\ Fairness

-----------------------------------------------------------------------------
TypeOK ==
    /\ enabled \subseteq Idps
    /\ users \in [Accounts -> {"none", "user", "admin"}]
    /\ login \in [Logins -> [at : Places, who : Accounts, admin : BOOLEAN]]
    /\ sess \subseteq Accounts
    /\ auto \subseteq People /\ raced \subseteq People
    /\ changes \in 0 .. MaxChanges

\* The first user of any provider becomes administrator; of two users who did,
\* each was counted for beside the insertion of another: the count and the
\* insertion of upsert_user are separate statements.
AutoAdminsRaced == \A a, b \in auto : a # b => {a, b} \subseteq raced

\* Once a provider stays disabled, its users are out for good: callbacks under
\* way end, states and sessions expire, and load_idp admits no more.
DisabledIdpDrains ==
    \A i \in Idps : <>[](i \notin enabled) => <>[](\A u \in sess : u.idp # i)

\* ADR 005 says that the bootstrap user is always treated as admin.
BootstrapIsAdmin == users[Bootstrap] # "user"

=============================================================================
