-------------------------------- MODULE MCAccess --------------------------------
(* Three parts of what lets somebody in, which share no state: the tokens (three *)
(* rows, the bootstrap user and another, one model, two keys), the logins (two   *)
(* browsers, two providers with one subject each), and the limit on bootstrap    *)
(* logins (clients that name one address and clients that name none).  A         *)
(* behaviour runs one of them; the others stay where they start.                 *)
EXTENDS Tokens, TLC

CONSTANTS Logins, Idps, Subjects, MaxChanges,
          Sources, NoHeader, MaxAttempts, Window, Horizon

ASSUME AccessAssumption == MaxAttempts \in Nat \ {0} /\ Window \in Nat /\ Horizon \in Nat

VARIABLES part,
          enabled, users, login, sess, auto, raced, changes,
          now, bucket, allowed

L == INSTANCE Logins
R == INSTANCE RateLimit

people == <<enabled, users, login, sess, auto, raced, changes>>
limiter == <<now, bucket, allowed>>

AccessInit ==
    /\ Init /\ L!Init /\ R!Init
    /\ \/ part = "tokens"
       \/ part \in {"logins", "limiter"} /\ boot.key = None
    /\ part # "logins" => enabled = {} /\ users[L!Bootstrap] = "none"

AccessNext ==
    /\ UNCHANGED part
    /\ \/ part = "tokens" /\ Next /\ UNCHANGED <<people, limiter>>
       \/ part = "logins" /\ L!Next /\ UNCHANGED <<vars, limiter>>
       \/ part = "limiter" /\ R!Next /\ UNCHANGED <<vars, people>>

AccessSpec == AccessInit /\ [][AccessNext]_<<part, vars, people, limiter>>

Symmetry == Permutations(Requests) \union Permutations(Keys)
-----------------------------------------------------------------------------
(* Logins: two automatic administrators only if counts and insertions overlapped. *)
AutoAdminsRaced == L!AutoAdminsRaced

(* Logins: no window of the length sees twice the limit.                       *)
RateBound == R!RateBound
=============================================================================
