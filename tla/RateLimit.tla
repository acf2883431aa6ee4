------------------------------- MODULE RateLimit -------------------------------
(* The limit on bootstrap logins: per client key a counter and the start of    *)
(* its window.  Attempts of different clients interleave, and time passes.     *)
EXTENDS Naturals, FiniteSets, Sequences

CONSTANTS Sources,   \* what x-forwarded-for may begin with
          NoHeader,  \* no such header, or an empty first part
          MaxAttempts, Window,
          Horizon    \* the last second modelled

VARIABLES now, bucket, allowed

vars == <<now, bucket, allowed>>

Headers == Sources \cup {NoHeader}

(* extract_client_ip: one bucket for all who come without the header. *)
Key(header) == IF header = NoHeader THEN "global" ELSE header
BucketKeys == {Key(h) : h \in Headers}

(* allowed: the seconds at which each client's attempts were let through. *)
Init == /\ now = 0
        /\ bucket = [k \in BucketKeys |-> [count |-> 0, start |-> 0]]
        /\ allowed = [k \in BucketKeys |-> <<>>]

Let(k) == allowed' = [allowed EXCEPT ![k] = Append(@, now)]

(* or_insert((0, now)): a bucket not used yet starts now. *)
StartOf(k) == IF bucket[k].count = 0 THEN now ELSE bucket[k].start

(* A mutant: the window is not restarted with the counter. *)
WindowKept(k) == bucket' = [bucket EXCEPT ![k] = [count |-> 1, start |-> StartOf(k)]]

NewWindow(k) == bucket' = [bucket EXCEPT ![k] = [count |-> 1, start |-> now]]

(* check_rate_limit, under the entry's lock. *)
Attempt(header) ==
    LET k == Key(header) IN
    /\ \/ now - StartOf(k) >= Window /\ NewWindow(k) /\ Let(k)
       \/ /\ now - StartOf(k) < Window /\ bucket[k].count < MaxAttempts
          /\ bucket' = [bucket EXCEPT ![k] = [count |-> @.count + 1, start |-> StartOf(k)]]
          /\ Let(k)
       \/ /\ now - StartOf(k) < Window /\ bucket[k].count >= MaxAttempts
          /\ UNCHANGED <<bucket, allowed>>
    /\ UNCHANGED now

Tick == now < Horizon /\ now' = now + 1 /\ UNCHANGED <<bucket, allowed>>

Next == Tick \/ \E h \in Headers : Attempt(h)
Spec == Init /\ [][Next]_vars

-----------------------------------------------------------------------------
Within(k, from) == {i \in DOMAIN allowed[k] : from <= allowed[k][i] /\ allowed[k][i] < from + Window}

(* "5 attempts per 60-second window": the window is fixed and starts with an   *)
(* attempt, so any 60 seconds see at most one attempt before a window's last   *)
(* ones; in all at most 2 * MaxAttempts - 1, and never twice the limit.        *)
RateBound == \A k \in BucketKeys, from \in 0..now : Cardinality(Within(k, from)) < 2 * MaxAttempts
=============================================================================
