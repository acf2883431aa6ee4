----------------------------- MODULE AccessProofs -----------------------------
(***************************************************************************)
(* Proofs about what lets somebody in: the tokens table, for every set of  *)
(* users, models, keys and requests and any number of rows and starts; the *)
(* logins through providers, for any number of browsers and providers; and *)
(* the limit on bootstrap logins, for every limit and window.              *)
(*                                                                         *)
(* Each property is about rows that two operations wrote.  TokInv says     *)
(* what the operations under way (the requests that have looked but not    *)
(* inserted, the deletion of a model, the startup) may count on.           *)
(***************************************************************************)
EXTENDS MCAccess, FiniteSetTheorems, SequenceTheorems, WellFoundedInduction, TLAPS

HashesApart == \A i, j \in Rows : tokens[i].hash = tokens[j].hash => i = j

HashesOwn ==
    \A i \in Rows :
        IF tokens[i].kind = "internal" THEN tokens[i].hash \in Keys ELSE tokens[i].hash = i

InternalUnpinned ==
    \A i \in Rows : tokens[i].kind = "internal" => tokens[i].pin = None

OneInternalOpen ==
    \A i, j \in Rows :
        /\ tokens[i].kind = "internal" /\ Opens(i)
        /\ tokens[j].kind = "internal" /\ Opens(j)
        => i = j

LiveMeta(i, u) == tokens[i].user = u /\ tokens[i].kind = "meta" /\ ~tokens[i].revoked

\* What holds of the rows by themselves.
TableInv ==
    /\ tokens \in [Ids -> Row \union {None}]
    /\ HashesApart
    /\ HashesOwn
    /\ InternalUnpinned
    /\ OneInternalOpen
    /\ DeletedNeverOpens
    /\ OneMetaToken
    /\ PinKept

\* A request that is not marked raced is alone: no other is about to insert for
\* its user, and the user has no meta token in use.
AsksAlone ==
    \A r \in Requests : ask[r].at = "insert" =>
        /\ \A s \in Requests \ {r} :
              ask[s].at = "insert" /\ ask[s].user = ask[r].user => ask[r].raced
        /\ \A i \in Rows : LiveMeta(i, ask[r].user) => ask[r].raced /\ tokens[i].raced

\* The deletion has all pins in use on its list, but for tokens created since.
DeletionSound ==
    /\ \A i \in del.blockers : i \in Rows /\ tokens[i].kind # "internal"
    /\ del.at # "idle" =>
          /\ del.model \in Models
          /\ \A i \in Rows :
                tokens[i].pin = del.model /\ Opens(i) => tokens[i].raced \/ i \in del.blockers
    /\ del.at = "commit" => del.blockers = {}

BootSound ==
    /\ boot.at \in {"revoke", "insert"} => boot.key # None
    /\ boot.at = "insert" => \A i \in Internal : ~Opens(i)
    /\ Up /\ boot.key # None /\ ~boot.revoked =>
          \E i \in Internal : Opens(i) /\ tokens[i].hash = boot.key

TokInv == TypeOK /\ TableInv /\ AsksAlone /\ DeletionSound /\ BootSound

-----------------------------------------------------------------------------
(* A nonempty set of naturals has a least element, which Min names.        *)

LessThan == {p \in Nat \X Nat : p[1] < p[2]}

LEMMA LessThanWellFounded == IsWellFoundedOn(LessThan, Nat)
  BY NatLessThanWellFounded, Zenon DEF OpToRel, LessThan

LEMMA MinOfNaturals ==
    ASSUME NEW S \in SUBSET Nat, S # {}
    PROVE  Min(S) \in S /\ \A y \in S : Min(S) <= y
<1>1. PICK x \in S : \A y \in S : ~ (<<y, x>> \in LessThan)
  BY LessThanWellFounded, WFMin
<1>2. ASSUME NEW y \in S PROVE x <= y
  <2>1. <<y, x>> \in Nat \X Nat /\ <<y, x>> \notin LessThan
    BY <1>1
  <2>2. ~ (y < x)
    BY <2>1 DEF LessThan
  <2> QED
    BY <2>2
<1> QED
  BY <1>1, <1>2 DEF Min

LEMMA IdsNat == Ids \subseteq Nat
  BY TokensAssumption DEF Ids

LEMMA FreshIsFree ==
    ASSUME Room
    PROVE  Fresh \in Ids /\ Fresh \notin Rows
<1>1. Ids \ Rows \in SUBSET Nat /\ Ids \ Rows # {}
  BY IdsNat DEF Room
<1> QED
  BY <1>1, MinOfNaturals DEF Fresh

-----------------------------------------------------------------------------
(* What a statement does to the rows.                                      *)

\* Rows are marked and unpinned, and keep what they were created with.
Withers ==
    /\ tokens' \in [Ids -> Row \union {None}] /\ Rows' = Rows
    /\ \A i \in Rows :
          /\ tokens'[i].user = tokens[i].user /\ tokens'[i].kind = tokens[i].kind
          /\ tokens'[i].hash = tokens[i].hash /\ tokens'[i].asked = tokens[i].asked
          /\ tokens'[i].raced = tokens[i].raced
          /\ tokens[i].revoked => tokens'[i].revoked
          /\ tokens'[i].deleted => tokens[i].deleted \/ tokens'[i].revoked
          /\ \/ tokens'[i].pin = tokens[i].pin
             \/ tokens'[i].pin = None /\ (tokens'[i].revoked \/ tokens[i].raced)

\* A row is added that fits the others.
Grows(i, row) ==
    /\ i \in Ids /\ i \notin Rows /\ row \in Row
    /\ tokens' = [tokens EXCEPT ![i] = row]
    /\ ~row.deleted /\ ~row.revoked /\ row.pin = row.asked
    /\ IF row.kind = "internal"
       THEN row.hash \in Keys /\ ~HashTaken(row.hash) /\ row.pin = None
            /\ \A j \in Internal : ~Opens(j)
       ELSE row.hash = i
    /\ row.kind = "meta" =>
          \A j \in Rows : LiveMeta(j, row.user) => row.raced /\ tokens[j].raced

LEMMA RowTypes ==
    ASSUME TableInv, NEW i \in Rows
    PROVE  i \in Ids /\ tokens[i] \in Row
  BY DEF TableInv, Rows

LEMMA WitherKeeps ==
    ASSUME TableInv, Withers
    PROVE  TableInv'
<1>1. HashesApart'
  BY DEF TableInv, Withers, HashesApart
<1>2. HashesOwn'
  BY DEF TableInv, Withers, HashesOwn
<1>3. InternalUnpinned'
  BY DEF TableInv, Withers, InternalUnpinned
<1>4. OneInternalOpen'
  BY DEF TableInv, Withers, OneInternalOpen, Opens
<1>5. DeletedNeverOpens'
  BY DEF TableInv, Withers, DeletedNeverOpens, Opens
<1>6. OneMetaToken'
  <2> SUFFICES ASSUME NEW i \in Rows', NEW j \in Rows', i # j,
                      tokens'[i].user = tokens'[j].user,
                      tokens'[i].kind = "meta", ~tokens'[i].revoked,
                      tokens'[j].kind = "meta", ~tokens'[j].revoked
               PROVE  tokens'[i].raced /\ tokens'[j].raced
    BY DEF OneMetaToken
  <2>1. /\ i \in Rows /\ j \in Rows /\ tokens[i].user = tokens[j].user
        /\ \A k \in {i, j} : tokens[k].kind = "meta" /\ ~tokens[k].revoked
    BY DEF Withers
  <2>2. tokens[i].raced /\ tokens[j].raced
    BY <2>1 DEF TableInv, OneMetaToken
  <2> QED
    BY <2>1, <2>2 DEF Withers
<1>7. PinKept'
  BY DEF TableInv, Withers, PinKept, Opens
<1> QED
  BY <1>1, <1>2, <1>3, <1>4, <1>5, <1>6, <1>7 DEF TableInv, Withers

LEMMA GrowRows ==
    ASSUME TableInv, NEW i, NEW row, Grows(i, row)
    PROVE  /\ tokens' \in [Ids -> Row \union {None}]
           /\ Rows' = Rows \union {i}
           /\ tokens'[i] = row
           /\ \A j \in Rows : tokens'[j] = tokens[j]
  BY NoneIsNoRow DEF TableInv, Grows, Rows

LEMMA GrowKeeps ==
    ASSUME TableInv, NEW i, NEW row, Grows(i, row)
    PROVE  TableInv'
<1>1. /\ tokens' \in [Ids -> Row \union {None}]
      /\ Rows' = Rows \union {i} /\ i \notin Rows /\ i \in Nat
      /\ tokens'[i] = row
      /\ \A j \in Rows : tokens'[j] = tokens[j]
  BY GrowRows, IdsNat DEF Grows
<1>2. ASSUME NEW j \in Rows PROVE tokens[j].hash # row.hash /\ j \in Nat
  <2>1. j \in Ids /\ j \in Nat /\ j # i
    BY RowTypes, IdsNat, <1>1
  <2>2. CASE row.kind = "internal"
    BY <2>1, <2>2 DEF Grows, HashTaken
  <2>3. CASE row.kind # "internal"
    <3>1. row.hash = i /\ tokens[j].hash \in Keys \union {j}
      BY <2>3 DEF Grows, TableInv, HashesOwn
    <3> QED
      BY <1>1, <2>1, <3>1, TokensAssumption
  <2> QED
    BY <2>1, <2>2, <2>3
<1>3. HashesApart'
  BY <1>1, <1>2 DEF TableInv, HashesApart
<1>4. HashesOwn'
  BY <1>1 DEF TableInv, HashesOwn, Grows
<1>5. InternalUnpinned'
  BY <1>1 DEF TableInv, InternalUnpinned, Grows
<1>6. OneInternalOpen'
  BY <1>1 DEF TableInv, OneInternalOpen, Grows, Opens, Internal
<1>7. DeletedNeverOpens' /\ PinKept'
  BY <1>1 DEF TableInv, DeletedNeverOpens, PinKept, Opens, Grows
<1>8. OneMetaToken'
  <2> SUFFICES ASSUME NEW j \in Rows', NEW k \in Rows', j # k,
                      tokens'[j].user = tokens'[k].user,
                      tokens'[j].kind = "meta", ~tokens'[j].revoked,
                      tokens'[k].kind = "meta", ~tokens'[k].revoked
               PROVE  tokens'[j].raced /\ tokens'[k].raced
    BY DEF OneMetaToken
  <2>1. CASE j \in Rows /\ k \in Rows
    <3>1. /\ tokens[j].user = tokens[k].user
          /\ \A m \in {j, k} : tokens[m].kind = "meta" /\ ~tokens[m].revoked
      BY <1>1, <2>1
    <3>2. tokens[j].raced /\ tokens[k].raced
      BY <2>1, <3>1 DEF TableInv, OneMetaToken
    <3> QED
      BY <1>1, <2>1, <3>2
  <2>2. CASE j = i \/ k = i
    BY <1>1, <2>2 DEF Grows, LiveMeta
  <2> QED
    BY <1>1, <2>1, <2>2
<1> QED
  BY <1>1, <1>3, <1>4, <1>5, <1>6, <1>7, <1>8 DEF TableInv

\* The three marks.
LEMMA Marks ==
    ASSUME NEW row \in Row
    PROVE  /\ Revoked(row) \in Row /\ Deleted(row) \in Row /\ Unpinned(row) \in Row
           /\ \A new \in {Revoked(row), Deleted(row), Unpinned(row)} :
                 /\ new.user = row.user /\ new.kind = row.kind /\ new.hash = row.hash
                 /\ new.asked = row.asked /\ new.raced = row.raced
           /\ Revoked(row).pin = row.pin /\ Deleted(row).pin = row.pin /\ Unpinned(row).pin = None
           /\ Revoked(row).revoked /\ Deleted(row).revoked
           /\ Unpinned(row).revoked = row.revoked
           /\ Revoked(row).deleted = row.deleted /\ Unpinned(row).deleted = row.deleted
  BY DEF Row, Revoked, Deleted, Unpinned

\* Revoking some rows.
LEMMA RevokingWithers ==
    ASSUME TableInv, NEW S \in SUBSET Rows, Change(S, Revoked) \/ Change(S, Deleted)
    PROVE  /\ Withers
           /\ \A i \in S : tokens'[i].revoked
           /\ \A i \in Rows : tokens'[i].pin = tokens[i].pin
           /\ \A i \in Ids \ S : tokens'[i] = tokens[i]
<1>1. S \subseteq Ids /\ \A i \in Rows : i \in Ids /\ tokens[i] \in Row
  BY RowTypes
<1>2. /\ \A i \in Ids \ S : tokens'[i] = tokens[i]
      /\ \A i \in S : tokens'[i] = Revoked(tokens[i]) \/ tokens'[i] = Deleted(tokens[i])
      /\ DOMAIN tokens' = Ids /\ tokens' = [i \in Ids |-> tokens'[i]]
  <2>1. CASE Change(S, Revoked)
    BY <1>1, <2>1 DEF Change
  <2>2. CASE Change(S, Deleted)
    BY <1>1, <2>2 DEF Change
  <2> QED
    BY <2>1, <2>2
<1>3. \A i \in S : tokens'[i] \in Row
  BY <1>1, <1>2, Marks
<1>4. tokens' \in [Ids -> Row \union {None}]
  BY <1>2, <1>3 DEF TableInv
<1>5. Rows' = Rows
  BY <1>1, <1>2, <1>3, NoneIsNoRow DEF Rows
<1>6. ASSUME NEW i \in Rows
      PROVE  /\ tokens'[i].user = tokens[i].user /\ tokens'[i].kind = tokens[i].kind
             /\ tokens'[i].hash = tokens[i].hash /\ tokens'[i].asked = tokens[i].asked
             /\ tokens'[i].raced = tokens[i].raced
             /\ tokens[i].revoked => tokens'[i].revoked
             /\ tokens'[i].deleted => tokens[i].deleted \/ tokens'[i].revoked
             /\ tokens'[i].pin = tokens[i].pin
  <2>1. CASE i \in S
    BY <1>1, <1>2, <2>1, Marks
  <2>2. CASE i \notin S
    BY <1>1, <1>2, <2>2
  <2> QED
    BY <2>1, <2>2
<1>7. \A i \in S : tokens'[i].revoked
  BY <1>1, <1>2, Marks
<1> QED
  BY <1>2, <1>4, <1>5, <1>6, <1>7 DEF Withers

-----------------------------------------------------------------------------
(* What the operations under way still may count on.                       *)

AskType  == [at : {"idle", "insert"}, user : Users, raced : BOOLEAN]
DelType  == [at : {"idle", "revoke", "commit"}, model : Models \union {None},
             blockers : SUBSET Ids]
BootType == [at : {"select", "revoke", "insert", "up", "failed"}, key : Keys \union {None},
             starts : 1 .. MaxStarts, revoked : BOOLEAN]

LEMMA QuietTypes == Quiet \in AskType /\ Quiet.at = "idle" /\ NotDel \in DelType
                    /\ NotDel.at = "idle" /\ NotDel.blockers = {}
  BY TokensAssumption DEF Quiet, NotDel, AskType, DelType

LEMMA TypeFrom ==
    ASSUME TableInv', models' \subseteq Models, ask' \in [Requests -> AskType],
           del' \in DelType, boot' \in BootType
    PROVE  TypeOK'
  BY DEF TypeOK, TableInv, HashesApart, AskType, DelType, BootType

LEMMA TypeParts ==
    ASSUME TokInv
    PROVE  /\ TableInv /\ models \subseteq Models /\ ask \in [Requests -> AskType]
           /\ del \in DelType /\ boot \in BootType
  BY DEF TokInv, TypeOK, AskType, DelType, BootType

LEMMA SameWithers ==
    ASSUME TableInv, UNCHANGED tokens
    PROVE  Withers
  BY DEF TableInv, Withers, Rows

LEMMA AsksWither ==
    ASSUME TokInv, UNCHANGED ask, Withers
    PROVE  AsksAlone'
<1>1. \A i \in Rows', u \in Users : LiveMeta(i, u)' => i \in Rows /\ LiveMeta(i, u)
  BY DEF Withers, LiveMeta
<1>2. \A r \in Requests : ask[r].user \in Users
  BY TypeParts DEF AskType
<1> QED
  BY <1>1, <1>2 DEF TokInv, AsksAlone, Withers, LiveMeta

LEMMA DeletionWithers ==
    ASSUME TokInv, UNCHANGED del, Withers
    PROVE  DeletionSound'
<1>1. del.at # "idle" => del.model # None
  BY TokensAssumption DEF TokInv, DeletionSound
<1> QED
  BY <1>1 DEF TokInv, DeletionSound, Withers, Opens

LEMMA BootWithers ==
    ASSUME TokInv, UNCHANGED boot, Withers,
           \A i \in Rows : tokens[i].kind = "internal" => tokens'[i].revoked = tokens[i].revoked
    PROVE  BootSound'
<1>1. Internal' = Internal /\ \A i \in Internal : Opens(i)' = Opens(i)
  BY DEF Withers, Internal, Opens
<1> QED
  BY <1>1 DEF TokInv, BootSound, Withers, Internal, Up

LEMMA AsksGrow ==
    ASSUME TokInv, UNCHANGED ask, NEW i, NEW row, Grows(i, row), row.kind # "meta"
    PROVE  AsksAlone'
<1>1. /\ Rows' = Rows \union {i} /\ tokens'[i] = row
      /\ \A j \in Rows : tokens'[j] = tokens[j]
  BY GrowRows DEF TokInv
<1> QED
  BY <1>1 DEF TokInv, AsksAlone, LiveMeta

LEMMA DeletionGrows ==
    ASSUME TokInv, UNCHANGED del, NEW i, NEW row, Grows(i, row),
           del.at # "idle" /\ row.pin = del.model => row.raced
    PROVE  DeletionSound'
<1>1. /\ Rows' = Rows \union {i} /\ tokens'[i] = row
      /\ \A j \in Rows : tokens'[j] = tokens[j]
  BY GrowRows DEF TokInv
<1>2. i \notin Rows
  BY DEF Grows
<1> QED
  BY <1>1, <1>2 DEF TokInv, DeletionSound, Opens

LEMMA BootGrows ==
    ASSUME TokInv, UNCHANGED boot, NEW i, NEW row, Grows(i, row), row.kind # "internal"
    PROVE  BootSound'
<1>1. /\ Rows' = Rows \union {i} /\ tokens'[i] = row
      /\ \A j \in Rows : tokens'[j] = tokens[j]
  BY GrowRows DEF TokInv
<1>2. Internal' = Internal /\ \A j \in Internal : tokens'[j] = tokens[j]
  BY <1>1 DEF Internal
<1> QED
  BY <1>2 DEF TokInv, BootSound, Opens, Up

\* A fresh row of each kind.
LEMMA NewRowType ==
    ASSUME NEW u \in Users, NEW k \in {"user", "meta", "internal"}, NEW h \in Keys \union Ids
    PROVE  /\ NewRow(u, k, h) \in Row
           /\ NewRow(u, k, h).user = u /\ NewRow(u, k, h).kind = k /\ NewRow(u, k, h).hash = h
           /\ ~NewRow(u, k, h).revoked /\ ~NewRow(u, k, h).deleted
           /\ NewRow(u, k, h).pin = None /\ NewRow(u, k, h).asked = None
  BY DEF NewRow, Row

-----------------------------------------------------------------------------
(* api/user.rs *)

LEMMA CreateStep ==
    ASSUME TokInv, NEW u \in Users, NEW m \in models \union {None}, CreateToken(u, m)
    PROVE  TokInv'
<1> DEFINE beside == m # None /\ del.model = m
           row == [NewRow(u, "user", Fresh) EXCEPT !.pin = m, !.asked = m, !.raced = beside]
<1>1. Fresh \in Ids /\ Fresh \notin Rows
  BY FreshIsFree DEF CreateToken
<1>2. m \in Models \union {None} /\ beside \in BOOLEAN
  BY TypeParts
<1>3. /\ row \in Row /\ row.kind = "user" /\ row.hash = Fresh /\ ~row.revoked /\ ~row.deleted
      /\ row.pin = m /\ row.asked = m /\ row.raced = beside
  BY <1>1, <1>2 DEF NewRow, Row
<1>4. Grows(Fresh, row)
  BY <1>1, <1>3 DEF CreateToken, Insert, Grows
<1>5. UNCHANGED <<models, ask, del, boot>>
  BY DEF CreateToken
<1>6. del.at # "idle" /\ row.pin = del.model => row.raced
  BY <1>3, TokensAssumption DEF TokInv, DeletionSound
<1> HIDE DEF row
<1>7. TableInv' /\ AsksAlone' /\ BootSound' /\ DeletionSound'
  BY <1>3, <1>4, <1>5, <1>6, TypeParts, GrowKeeps, AsksGrow, BootGrows, DeletionGrows
<1>8. TypeOK'
  BY <1>5, <1>7, TypeParts, TypeFrom
<1> QED
  BY <1>7, <1>8 DEF TokInv

LEMMA RevokeStep ==
    ASSUME TokInv, NEW u \in Users, NEW i \in Ids, RevokeToken(u, i)
    PROVE  TokInv'
<1>1. /\ i \in Rows /\ Up /\ UNCHANGED <<models, ask, del>> /\ Change({i}, Revoked)
      /\ boot' = IF tokens[i].kind = "internal" THEN [boot EXCEPT !.revoked = TRUE] ELSE boot
  BY DEF RevokeToken
<1>2. /\ Withers /\ \A j \in Ids \ {i} : tokens'[j] = tokens[j]
  BY <1>1, TypeParts, RevokingWithers
<1>3. TableInv' /\ AsksAlone' /\ DeletionSound'
  BY <1>1, <1>2, TypeParts, WitherKeeps, AsksWither, DeletionWithers
<1>4. BootSound' /\ boot' \in BootType
  <2>1. CASE tokens[i].kind = "internal"
    <3>1. boot' \in BootType /\ boot'.at = "up" /\ boot'.revoked = TRUE
      BY <1>1, <2>1, TypeParts DEF BootType, Up
    <3> QED
      BY <3>1 DEF BootSound, Up
  <2>2. CASE tokens[i].kind # "internal"
    <3>1. \A j \in Rows : tokens[j].kind = "internal" => tokens'[j].revoked = tokens[j].revoked
      BY <1>2, <2>2, RowTypes, TypeParts
    <3> QED
      BY <1>1, <1>2, <2>2, <3>1, BootWithers, TypeParts
  <2> QED
    BY <2>1, <2>2
<1>5. TypeOK'
  BY <1>1, <1>3, <1>4, TypeParts, TypeFrom
<1> QED
  BY <1>3, <1>4, <1>5 DEF TokInv

LEMMA DeleteTokenStep ==
    ASSUME TokInv, NEW u \in Users, NEW i \in Ids, DeleteToken(u, i)
    PROVE  TokInv'
<1>1. /\ i \in Rows /\ UNCHANGED <<models, ask, del, boot>> /\ Change({i}, Deleted)
      /\ tokens[i].kind = "user"
  BY DEF DeleteToken
<1>2. /\ Withers /\ \A j \in Ids \ {i} : tokens'[j] = tokens[j]
  BY <1>1, TypeParts, RevokingWithers
<1>3. \A j \in Rows : tokens[j].kind = "internal" => tokens'[j].revoked = tokens[j].revoked
  BY <1>1, <1>2, RowTypes, TypeParts
<1>4. TableInv' /\ AsksAlone' /\ DeletionSound' /\ BootSound'
  BY <1>1, <1>2, <1>3, TypeParts, WitherKeeps, AsksWither, DeletionWithers, BootWithers
<1>5. TypeOK'
  BY <1>1, <1>4, TypeParts, TypeFrom
<1> QED
  BY <1>4, <1>5 DEF TokInv

-----------------------------------------------------------------------------
(* resolve_meta_user *)

\* The request that looks marks those beside it, and is marked by them.
LEMMA MetaSelectStep ==
    ASSUME TokInv, NEW r \in Requests, NEW u \in Users, MetaSelect(r, u)
    PROVE  TokInv'
<1> DEFINE beside == {s \in Requests : ask[s].at = "insert" /\ ask[s].user = u}
           crowded == beside # {}
<1>1. /\ UNCHANGED <<tokens, models, del, boot>> /\ ask[r].at = "idle" /\ ~HasMeta(u)
      /\ ask' = [s \in Requests |->
            IF s = r THEN [at |-> "insert", user |-> u, raced |-> crowded]
            ELSE IF s \in beside THEN [ask[s] EXCEPT !.raced = TRUE] ELSE ask[s]]
  BY DEF MetaSelect
<1>2. /\ ask \in [Requests -> AskType] /\ r \notin beside /\ crowded \in BOOLEAN
      /\ \A s \in beside : s \in Requests /\ ask[s].at = "insert" /\ ask[s].user = u
      /\ \A s \in Requests \ beside : ask[s].at # "insert" \/ ask[s].user # u
      /\ (\E s \in Requests : s \in beside) => crowded
  BY <1>1, TypeParts
<1> HIDE DEF beside, crowded
<1>3. /\ ask'[r] = [at |-> "insert", user |-> u, raced |-> crowded]
      /\ \A s \in beside : ask'[s] = [ask[s] EXCEPT !.raced = TRUE]
      /\ \A s \in Requests \ (beside \union {r}) : ask'[s] = ask[s]
  BY <1>1, <1>2
<1>4. /\ ask'[r] \in AskType
      /\ ask'[r].at = "insert" /\ ask'[r].user = u /\ ask'[r].raced = crowded
      /\ \A s \in beside : /\ ask'[s] \in AskType
                           /\ ask'[s].at = "insert" /\ ask'[s].user = u /\ ask'[s].raced
      /\ ask' \in [Requests -> AskType]
  <2>1. /\ ask'[r] \in AskType
        /\ ask'[r].at = "insert" /\ ask'[r].user = u /\ ask'[r].raced = crowded
    BY <1>2, <1>3 DEF AskType
  <2>2. \A s \in beside : /\ ask'[s] \in AskType
                          /\ ask'[s].at = "insert" /\ ask'[s].user = u /\ ask'[s].raced
    BY <1>2, <1>3 DEF AskType
  <2>3. \A s \in Requests : ask'[s] \in AskType
    BY <1>2, <1>3, <2>1, <2>2
  <2> QED
    BY <1>1, <2>1, <2>2, <2>3
<1>5. Withers
  BY <1>1, TypeParts, SameWithers
<1>6. TableInv' /\ DeletionSound' /\ BootSound'
  BY <1>1, <1>5, TypeParts, WitherKeeps, DeletionWithers, BootWithers
<1>7. AsksAlone'
  <2> SUFFICES ASSUME NEW s \in Requests, ask'[s].at = "insert"
               PROVE  /\ \A q \in Requests \ {s} :
                            ask'[q].at = "insert" /\ ask'[q].user = ask'[s].user => ask'[s].raced
                      /\ \A i \in Rows : LiveMeta(i, ask'[s].user) => ask'[s].raced /\ tokens[i].raced
    BY <1>1 DEF AsksAlone, Rows, LiveMeta
  <2>1. CASE s = r
    <3>1. ASSUME NEW q \in Requests \ {r}, ask'[q].at = "insert", ask'[q].user = u
          PROVE  q \in beside
      BY <1>2, <1>3, <3>1
    <3>2. \A i \in Rows : ~LiveMeta(i, u)
      BY <1>1 DEF HasMeta, LiveMeta
    <3> QED
      BY <1>2, <1>4, <2>1, <3>1, <3>2
  <2>2. CASE s \in beside
    <3>1. \A i \in Rows : ~LiveMeta(i, u)
      BY <1>1 DEF HasMeta, LiveMeta
    <3> QED
      BY <1>4, <2>2, <3>1
  <2>3. CASE s \notin beside /\ s # r
    <3>1. ask'[s] = ask[s] /\ ask[s].at = "insert" /\ ask[s].user # u
      BY <1>2, <1>3, <2>3
    <3>2. ASSUME NEW q \in Requests \ {s}, ask'[q].at = "insert", ask'[q].user = ask[s].user
          PROVE  ask[q].at = "insert" /\ ask[q].user = ask[s].user
      BY <1>3, <1>4, <3>1, <3>2
    <3> QED
      BY <3>1, <3>2 DEF TokInv, AsksAlone
  <2> QED
    BY <2>1, <2>2, <2>3
<1>8. TypeOK'
  BY <1>1, <1>4, <1>6, TypeParts, TypeFrom
<1> QED
  BY <1>6, <1>7, <1>8 DEF TokInv

LEMMA MetaInsertStep ==
    ASSUME TokInv, NEW r \in Requests, MetaInsert(r)
    PROVE  TokInv'
<1> DEFINE row == [NewRow(ask[r].user, "meta", Fresh) EXCEPT !.raced = ask[r].raced]
<1>1. /\ UNCHANGED <<models, del, boot>> /\ ask[r].at = "insert"
      /\ ask' = [ask EXCEPT ![r] = Quiet]
      /\ IF Room THEN Insert(row) ELSE UNCHANGED tokens
  BY DEF MetaInsert
<1>2. ask \in [Requests -> AskType] /\ ask[r] \in AskType
  BY TypeParts
<1>3. /\ ask' \in [Requests -> AskType] /\ ask'[r].at = "idle"
      /\ \A s \in Requests \ {r} : ask'[s] = ask[s]
  BY <1>1, <1>2, QuietTypes
<1>4. CASE ~Room
  <2>1. Withers
    BY <1>1, <1>4, TypeParts, SameWithers
  <2>2. TableInv' /\ DeletionSound' /\ BootSound'
    BY <1>1, <1>4, <2>1, TypeParts, WitherKeeps, DeletionWithers, BootWithers
  <2>3. AsksAlone'
    BY <1>1, <1>3, <1>4 DEF TokInv, AsksAlone, Rows, LiveMeta
  <2>4. TypeOK'
    BY <1>1, <1>3, <2>2, TypeParts, TypeFrom
  <2> QED
    BY <2>2, <2>3, <2>4 DEF TokInv
<1>5. CASE Room
  <2>1. Fresh \in Ids /\ Fresh \notin Rows
    BY <1>5, FreshIsFree
  <2>2. /\ row \in Row /\ row.kind = "meta" /\ row.hash = Fresh /\ ~row.revoked /\ ~row.deleted
        /\ row.pin = None /\ row.asked = None /\ row.raced = ask[r].raced
        /\ row.user = ask[r].user
    BY <1>2, <2>1 DEF NewRow, Row, AskType
  <2>3. \A j \in Rows : LiveMeta(j, row.user) => row.raced /\ tokens[j].raced
    BY <1>1, <2>2 DEF TokInv, AsksAlone
  <2> HIDE DEF row
  <2>4. Grows(Fresh, row)
    BY <1>1, <1>5, <2>1, <2>2, <2>3 DEF Insert, Grows
  <2>5. del.at # "idle" /\ row.pin = del.model => row.raced
    BY <2>2, TokensAssumption DEF TokInv, DeletionSound
  <2>6. TableInv' /\ DeletionSound' /\ BootSound'
    BY <1>1, <2>2, <2>4, <2>5, TypeParts, GrowKeeps, DeletionGrows, BootGrows
  <2>7. /\ Rows' = Rows \union {Fresh} /\ tokens'[Fresh] = row
        /\ \A j \in Rows : tokens'[j] = tokens[j]
    BY <2>4, TypeParts, GrowRows
  <2>8. AsksAlone'
    <3> SUFFICES ASSUME NEW s \in Requests, s # r, ask[s].at = "insert"
                 PROVE  /\ \A q \in Requests \ {s} :
                              ask'[q].at = "insert" /\ ask'[q].user = ask[s].user => ask[s].raced
                        /\ \A i \in Rows' :
                              LiveMeta(i, ask[s].user)' => ask[s].raced /\ tokens'[i].raced
      BY <1>3 DEF AsksAlone, LiveMeta
    <3>1. \A q \in Requests \ {s} :
             ask'[q].at = "insert" /\ ask'[q].user = ask[s].user => ask[s].raced
      BY <1>3 DEF TokInv, AsksAlone
    <3>2. \A i \in Rows : LiveMeta(i, ask[s].user)' => ask[s].raced /\ tokens'[i].raced
      BY <1>3, <2>7 DEF TokInv, AsksAlone, LiveMeta
    <3>3. row.user = ask[s].user => ask[s].raced /\ row.raced
      BY <1>1, <2>2 DEF TokInv, AsksAlone
    <3> QED
      BY <1>3, <2>7, <3>1, <3>2, <3>3 DEF LiveMeta
  <2>9. TypeOK'
    BY <1>1, <1>3, <2>6, TypeParts, TypeFrom
  <2> QED
    BY <2>6, <2>8, <2>9 DEF TokInv
<1> QED
  BY <1>4, <1>5

-----------------------------------------------------------------------------
(* delete_model *)

LEMMA DeleteBeginStep ==
    ASSUME TokInv, NEW m \in Models, DeleteBegin(m)
    PROVE  TokInv'
<1>1. /\ UNCHANGED <<tokens, models, ask, boot>>
      /\ del' = [at |-> "revoke", model |-> m, blockers |-> Blockers(m)]
  BY DEF DeleteBegin
<1>2. Rows \subseteq Ids /\ m # None /\ Rows' = Rows
  BY <1>1, TokensAssumption DEF Rows
<1>3. del' \in DelType /\ del'.at = "revoke" /\ del'.model = m /\ del'.blockers = Blockers(m)
  BY <1>1, <1>2 DEF DelType, Blockers, Pinned
<1>4. Withers
  BY <1>1, TypeParts, SameWithers
<1>5. TableInv' /\ AsksAlone' /\ BootSound'
  BY <1>1, <1>4, TypeParts, WitherKeeps, AsksWither, BootWithers
<1>6. \A i \in Blockers(m) : i \in Rows /\ tokens[i].kind # "internal"
  BY <1>2, TypeParts DEF Blockers, Pinned, TableInv, InternalUnpinned
<1>7. \A i \in Rows : tokens[i].pin = m /\ Opens(i) => i \in Blockers(m)
  BY TypeParts DEF Blockers, Pinned, TableInv, DeletedNeverOpens, Opens
<1>8. DeletionSound'
  BY <1>1, <1>2, <1>3, <1>6, <1>7 DEF DeletionSound, Opens
<1>9. TypeOK'
  BY <1>1, <1>3, <1>5, TypeParts, TypeFrom
<1> QED
  BY <1>5, <1>8, <1>9 DEF TokInv

LEMMA DeleteRevokeStep ==
    ASSUME TokInv, DeleteRevoke
    PROVE  TokInv'
<1>1. UNCHANGED <<models, ask, boot>> /\ del.at = "revoke"
  BY DEF DeleteRevoke
<1>2. del \in DelType
  BY TypeParts
<1>3. CASE UNCHANGED tokens
  <2>1. Withers
    BY <1>3, TypeParts, SameWithers
  <2>2. TableInv' /\ AsksAlone' /\ BootSound'
    BY <1>1, <1>3, <2>1, TypeParts, WitherKeeps, AsksWither, BootWithers
  <2>3. CASE del' = NotDel
    <3>1. TypeOK' /\ DeletionSound'
      BY <1>1, <2>2, <2>3, QuietTypes, TypeParts, TypeFrom DEF DeletionSound
    <3> QED
      BY <2>2, <3>1 DEF TokInv
  <2>4. CASE del.blockers = {} /\ del' = [del EXCEPT !.at = "commit"]
    <3>1. del' \in DelType /\ del'.at = "commit" /\ del'.model = del.model /\ del'.blockers = {}
      BY <1>2, <2>4 DEF DelType
    <3>2. DeletionSound'
      BY <1>1, <1>3, <2>4, <3>1 DEF TokInv, DeletionSound, Rows, Opens
    <3>3. TypeOK'
      BY <1>1, <2>2, <3>1, TypeParts, TypeFrom
    <3> QED
      BY <2>2, <3>2, <3>3 DEF TokInv
  <2>5. CASE /\ del.blockers # {} /\ Change({Min(del.blockers)}, Deleted)
             /\ del' = [del EXCEPT !.blockers = @ \ {Min(del.blockers)}]
    <3> DEFINE b == Min(del.blockers)
    <3>1. del.blockers \in SUBSET Nat /\ del.blockers \subseteq Rows
      BY <1>2, IdsNat DEF DelType, TokInv, DeletionSound
    <3>2. b \in del.blockers /\ b \in Rows
      BY <2>5, <3>1, MinOfNaturals
    <3>3. tokens[b].revoked
      BY <1>3, <2>5, <3>2, TypeParts, RevokingWithers
    <3> HIDE DEF b
    <3>4. /\ del' \in DelType /\ del'.at = "revoke" /\ del'.model = del.model
          /\ del'.blockers = del.blockers \ {b}
      BY <1>1, <1>2, <2>5 DEF DelType, b
    <3>5. DeletionSound'
      BY <1>1, <1>3, <3>3, <3>4 DEF TokInv, DeletionSound, Rows, Opens
    <3>6. TypeOK'
      BY <1>1, <2>2, <3>4, TypeParts, TypeFrom
    <3> QED
      BY <2>2, <3>5, <3>6 DEF TokInv
  <2> QED
    BY <2>3, <2>4, <2>5 DEF DeleteRevoke
<1>4. CASE /\ del.blockers # {} /\ Change({Min(del.blockers)}, Deleted)
           /\ del' = [del EXCEPT !.blockers = @ \ {Min(del.blockers)}]
  <2> DEFINE b == Min(del.blockers)
  <2>1. del.blockers \in SUBSET Nat /\ del.blockers \subseteq Rows
    BY <1>2, IdsNat DEF DelType, TokInv, DeletionSound
  <2>2. b \in del.blockers /\ b \in Rows /\ tokens[b].kind # "internal"
    BY <1>4, <2>1, MinOfNaturals DEF TokInv, DeletionSound
  <2>3. /\ Withers /\ tokens'[b].revoked
        /\ \A i \in Rows : tokens'[i].pin = tokens[i].pin
        /\ \A i \in Ids \ {b} : tokens'[i] = tokens[i]
    BY <1>4, <2>2, TypeParts, RevokingWithers
  <2> HIDE DEF b
  <2>4. /\ del' \in DelType /\ del'.at = "revoke" /\ del'.model = del.model
        /\ del'.blockers = del.blockers \ {b}
    BY <1>1, <1>2, <1>4 DEF DelType, b
  <2>5. \A j \in Rows : tokens[j].kind = "internal" => tokens'[j].revoked = tokens[j].revoked
    BY <2>2, <2>3, RowTypes, TypeParts
  <2>6. TableInv' /\ AsksAlone' /\ BootSound'
    BY <1>1, <2>3, <2>5, TypeParts, WitherKeeps, AsksWither, BootWithers
  <2>7. DeletionSound'
    BY <1>1, <2>3, <2>4 DEF TokInv, DeletionSound, Withers, Opens
  <2>8. TypeOK'
    BY <1>1, <2>4, <2>6, TypeParts, TypeFrom
  <2> QED
    BY <2>6, <2>7, <2>8 DEF TokInv
<1> QED
  BY <1>3, <1>4 DEF DeleteRevoke

\* Whatever the transaction unpins was revoked, or created while it was on its way.
LEMMA DeleteCommitStep ==
    ASSUME TokInv, DeleteCommit
    PROVE  TokInv'
<1> DEFINE S == Pinned(del.model)
<1>1. /\ UNCHANGED <<ask, boot>> /\ del.at = "commit" /\ del' = NotDel
      /\ \/ Change(S, Unpinned) /\ models' = models \ {del.model}
         \/ UNCHANGED <<tokens, models>>
  BY DEF DeleteCommit
<1>2. /\ del.blockers = {} /\ del.model \in Models /\ del.model # None
      /\ \A i \in S : i \in Rows /\ tokens[i].pin = del.model
      /\ \A i \in S : tokens[i].revoked \/ tokens[i].raced
      /\ \A i \in S : tokens[i].kind # "internal"
  BY <1>1, TypeParts, TokensAssumption
     DEF TokInv, DeletionSound, Pinned, Opens, TableInv, InternalUnpinned
<1>3. \A i \in Rows : i \in Ids /\ tokens[i] \in Row
  BY TypeParts, RowTypes
<1>4. /\ Withers
      /\ \A i \in Rows : tokens[i].kind = "internal" => tokens'[i].revoked = tokens[i].revoked
  <2>1. CASE UNCHANGED tokens
    BY <2>1, TypeParts, SameWithers
  <2>2. CASE Change(S, Unpinned)
    <3>1. /\ \A i \in Ids \ S : tokens'[i] = tokens[i]
          /\ \A i \in S : tokens'[i] = Unpinned(tokens[i])
          /\ DOMAIN tokens' = Ids /\ tokens' = [i \in Ids |-> tokens'[i]]
      BY <1>2, <1>3, <2>2 DEF Change
    <3>2. \A i \in S : tokens'[i] \in Row
      BY <1>2, <1>3, <3>1, Marks
    <3>3. tokens' \in [Ids -> Row \union {None}]
      BY <3>1, <3>2, TypeParts DEF TableInv
    <3>4. Rows' = Rows
      BY <1>2, <1>3, <3>1, <3>2, NoneIsNoRow DEF Rows
    <3>5. ASSUME NEW i \in Rows
          PROVE  /\ tokens'[i].user = tokens[i].user /\ tokens'[i].kind = tokens[i].kind
                 /\ tokens'[i].hash = tokens[i].hash /\ tokens'[i].asked = tokens[i].asked
                 /\ tokens'[i].raced = tokens[i].raced
                 /\ tokens'[i].revoked = tokens[i].revoked
                 /\ tokens'[i].deleted = tokens[i].deleted
                 /\ \/ tokens'[i].pin = tokens[i].pin
                    \/ tokens'[i].pin = None /\ (tokens'[i].revoked \/ tokens[i].raced)
      <4>1. CASE i \in S
        BY <1>2, <1>3, <3>1, <4>1, Marks
      <4>2. CASE i \notin S
        BY <1>3, <3>1, <4>2
      <4> QED
        BY <4>1, <4>2
    <3> QED
      BY <3>3, <3>4, <3>5 DEF Withers
  <2> QED
    BY <1>1, <2>1, <2>2
<1>5. TableInv' /\ AsksAlone' /\ BootSound'
  BY <1>1, <1>4, TypeParts, WitherKeeps, AsksWither, BootWithers
<1>6. DeletionSound'
  BY <1>1, QuietTypes DEF DeletionSound
<1>7. TypeOK'
  BY <1>1, <1>5, QuietTypes, TypeParts, TypeFrom
<1> QED
  BY <1>5, <1>6, <1>7 DEF TokInv

-----------------------------------------------------------------------------
(* ensure_internal_token and the restart *)

LEMMA BootSelectStep ==
    ASSUME TokInv, BootSelect
    PROVE  TokInv'
<1>1. UNCHANGED <<tokens, models, ask, del>> /\ boot.at = "select"
  BY DEF BootSelect
<1> DEFINE found == \E i \in Internal : tokens[i].hash = boot.key /\ ~tokens[i].revoked
<1>2. PICK to \in {"up", "revoke"} :
         /\ boot' = [boot EXCEPT !.at = to]
         /\ to = "up" => boot.key = None \/ found
         /\ to = "revoke" => boot.key # None
  <2>1. CASE boot.key = None \/ found
    BY <2>1 DEF BootSelect
  <2>2. CASE ~(boot.key = None \/ found)
    BY <2>2 DEF BootSelect
  <2> QED
    BY <2>1, <2>2
<1>3. /\ boot' \in BootType /\ boot'.at = to /\ boot'.key = boot.key
  BY <1>2, TypeParts DEF BootType
<1>4. Withers
  BY <1>1, TypeParts, SameWithers
<1>5. TableInv' /\ AsksAlone' /\ DeletionSound'
  BY <1>1, <1>4, TypeParts, WitherKeeps, AsksWither, DeletionWithers
<1>6. BootSound'
  BY <1>1, <1>2, <1>3 DEF BootSound, Up, Internal, Rows, Opens
<1>7. TypeOK'
  BY <1>1, <1>3, <1>5, TypeParts, TypeFrom
<1> QED
  BY <1>5, <1>6, <1>7 DEF TokInv

LEMMA BootRevokeStep ==
    ASSUME TokInv, BootRevoke
    PROVE  TokInv'
<1>1. /\ UNCHANGED <<models, ask, del>> /\ boot.at = "revoke"
      /\ Change(Internal, Revoked) /\ boot' = [boot EXCEPT !.at = "insert"]
  BY DEF BootRevoke
<1>2. Withers /\ \A i \in Internal : tokens'[i].revoked
  BY <1>1, TypeParts, RevokingWithers DEF Internal
<1>3. /\ boot' \in BootType /\ boot'.at = "insert" /\ boot'.key = boot.key
  BY <1>1, TypeParts DEF BootType
<1>4. TableInv' /\ AsksAlone' /\ DeletionSound'
  BY <1>1, <1>2, TypeParts, WitherKeeps, AsksWither, DeletionWithers
<1>5. Internal' = Internal
  BY <1>2 DEF Withers, Internal
<1>6. BootSound'
  BY <1>1, <1>2, <1>3, <1>5 DEF TokInv, BootSound, Up, Opens
<1>7. TypeOK'
  BY <1>1, <1>3, <1>4, TypeParts, TypeFrom
<1> QED
  BY <1>4, <1>6, <1>7 DEF TokInv

LEMMA BootInsertStep ==
    ASSUME TokInv, BootInsert
    PROVE  TokInv'
<1>1. UNCHANGED <<models, ask, del>> /\ boot.at = "insert" /\ Room
  BY DEF BootInsert
<1>2. boot.key \in Keys /\ boot \in BootType
  BY <1>1, TypeParts DEF BootType, TokInv, BootSound
<1>3. CASE HashTaken(boot.key)
  <2>1. UNCHANGED tokens /\ boot' = [boot EXCEPT !.at = "failed"]
    BY <1>3 DEF BootInsert
  <2>2. boot' \in BootType /\ boot'.at = "failed"
    BY <1>2, <2>1 DEF BootType
  <2>3. Withers
    BY <2>1, TypeParts, SameWithers
  <2>4. TableInv' /\ AsksAlone' /\ DeletionSound'
    BY <1>1, <2>3, TypeParts, WitherKeeps, AsksWither, DeletionWithers
  <2>5. BootSound'
    BY <2>2 DEF BootSound, Up
  <2>6. TypeOK'
    BY <1>1, <2>2, <2>4, TypeParts, TypeFrom
  <2> QED
    BY <2>4, <2>5, <2>6 DEF TokInv
<1>4. CASE ~HashTaken(boot.key)
  <2> DEFINE row == NewRow(Boot, "internal", boot.key)
  <2>1. Insert(row) /\ boot' = [boot EXCEPT !.at = "up"]
    BY <1>4 DEF BootInsert
  <2>2. boot' \in BootType /\ boot'.at = "up" /\ boot'.key = boot.key
    BY <1>2, <2>1 DEF BootType
  <2>3. /\ row \in Row /\ row.user = Boot /\ row.kind = "internal" /\ row.hash = boot.key
        /\ ~row.revoked /\ ~row.deleted /\ row.pin = None /\ row.asked = None
    BY <1>2, NewRowType, TokensAssumption
  <2>4. Fresh \in Ids /\ Fresh \notin Rows
    BY <1>1, FreshIsFree
  <2>5. \A j \in Internal : ~Opens(j)
    BY <1>1 DEF TokInv, BootSound
  <2> HIDE DEF row
  <2>6. Grows(Fresh, row)
    BY <1>2, <1>4, <2>1, <2>3, <2>4, <2>5 DEF Insert, Grows
  <2>7. del.at # "idle" /\ row.pin = del.model => row.raced
    BY <2>3, TokensAssumption DEF TokInv, DeletionSound
  <2>8. TableInv' /\ AsksAlone' /\ DeletionSound'
    BY <1>1, <2>3, <2>6, <2>7, TypeParts, GrowKeeps, AsksGrow, DeletionGrows
  <2>9. Rows' = Rows \union {Fresh} /\ tokens'[Fresh] = row
    BY <2>6, TypeParts, GrowRows
  <2>10. BootSound'
    BY <2>2, <2>3, <2>9 DEF BootSound, Internal, Opens
  <2>11. TypeOK'
    BY <1>1, <2>2, <2>8, TypeParts, TypeFrom
  <2> QED
    BY <2>8, <2>10, <2>11 DEF TokInv
<1> QED
  BY <1>3, <1>4

LEMMA RestartStep ==
    ASSUME TokInv, NEW k \in Keys \union {None}, Restart(k)
    PROVE  TokInv'
<1>1. /\ UNCHANGED <<tokens, models>> /\ boot.starts < MaxStarts
      /\ boot' = [at |-> "select", key |-> k, starts |-> boot.starts + 1, revoked |-> FALSE]
      /\ ask' = [r \in Requests |-> Quiet] /\ del' = NotDel
  BY DEF Restart
<1>2. boot.starts \in 1 .. MaxStarts /\ boot.starts + 1 \in 1 .. MaxStarts
  BY <1>1, TypeParts, TokensAssumption DEF BootType
<1>3. boot' \in BootType /\ boot'.at = "select"
  BY <1>1, <1>2 DEF BootType
<1>4. Withers
  BY <1>1, TypeParts, SameWithers
<1>5. TableInv'
  BY <1>4, TypeParts, WitherKeeps
<1>6. AsksAlone' /\ DeletionSound' /\ BootSound'
  BY <1>1, <1>3, QuietTypes DEF AsksAlone, DeletionSound, BootSound, Up
<1>7. TypeOK'
  BY <1>1, <1>3, <1>5, QuietTypes, TypeParts, TypeFrom
<1> QED
  BY <1>5, <1>6, <1>7 DEF TokInv

LEMMA TokInit == Init => TokInv
<1> SUFFICES ASSUME Init PROVE TokInv
  OBVIOUS
<1>1. Rows = {} /\ tokens \in [Ids -> Row \union {None}]
  BY DEF Init, Rows
<1>2. TableInv
  BY <1>1 DEF TableInv, HashesApart, HashesOwn, InternalUnpinned, OneInternalOpen,
              DeletedNeverOpens, OneMetaToken, PinKept
<1>3. PICK k \in Keys \union {None} :
         boot = [at |-> "select", key |-> k, starts |-> 1, revoked |-> FALSE]
  BY DEF Init
<1>4. boot \in BootType /\ boot.at = "select"
  BY <1>3, TokensAssumption DEF BootType
<1>5. ask \in [Requests -> AskType] /\ del \in DelType
  BY QuietTypes DEF Init
<1>6. AsksAlone /\ DeletionSound /\ BootSound
  BY <1>1, <1>4, QuietTypes DEF Init, AsksAlone, DeletionSound, BootSound, Up
<1>7. TypeOK
  BY <1>2, <1>4, <1>5 DEF Init, TypeOK, TableInv, HashesApart, AskType, DelType, BootType
<1> QED
  BY <1>2, <1>6, <1>7 DEF TokInv

LEMMA TokStep == TokInv /\ [Next]_vars => TokInv'
<1> SUFFICES ASSUME TokInv, [Next]_vars
             PROVE  TokInv'
  OBVIOUS
<1>1. CASE UNCHANGED vars
  <2>1. Withers
    BY <1>1, TypeParts, SameWithers DEF vars
  <2>2. TableInv' /\ AsksAlone' /\ DeletionSound' /\ BootSound'
    BY <1>1, <2>1, TypeParts, WitherKeeps, AsksWither, DeletionWithers, BootWithers DEF vars
  <2>3. TypeOK'
    BY <1>1, <2>2, TypeParts, TypeFrom DEF vars
  <2> QED
    BY <2>2, <2>3 DEF TokInv
<1>2. CASE \/ \E u \in Users, m \in models \union {None} : CreateToken(u, m)
           \/ \E u \in Users, i \in Ids : RevokeToken(u, i) \/ DeleteToken(u, i)
  BY <1>2, CreateStep, RevokeStep, DeleteTokenStep
<1>3. CASE \/ \E r \in Requests, u \in Users : MetaSelect(r, u)
           \/ \E r \in Requests : MetaInsert(r)
  BY <1>3, MetaSelectStep, MetaInsertStep
<1>4. CASE (\E m \in Models : DeleteBegin(m)) \/ DeleteRevoke \/ DeleteCommit
  BY <1>4, DeleteBeginStep, DeleteRevokeStep, DeleteCommitStep
<1>5. CASE BootSelect \/ BootRevoke \/ BootInsert \/ \E k \in Keys \union {None} : Restart(k)
  BY <1>5, BootSelectStep, BootRevokeStep, BootInsertStep, RestartStep
<1> QED
  BY <1>1, <1>2, <1>3, <1>4, <1>5 DEF Next

\* TokInv holds in every reachable state.
THEOREM TokensInvariant == Spec => []TokInv
<1>1. Init => TokInv
  BY TokInit
<1>2. TokInv /\ [Next]_vars => TokInv'
  BY TokStep
<1> QED
  BY <1>1, <1>2, PTL DEF Spec

\* A user has one meta token in use, unless the requests that inserted the others
\* overlapped (ensure_meta_token looks before it inserts, without a transaction).
THEOREM MetaTokenIsOne == Spec => []OneMetaToken
<1>1. TokInv => OneMetaToken
  BY DEF TokInv, TableInv
<1> QED
  BY <1>1, TokensInvariant, PTL

\* A token made for one model that can still be used is still pinned to it, unless it
\* was made while that model was being deleted (delete_model revokes, then unpins).
THEOREM PinsAreKept == Spec => []PinKept
<1>1. TokInv => PinKept
  BY DEF TokInv, TableInv
<1> QED
  BY <1>1, TokensInvariant, PTL

\* After a startup with a key that key opens, and no earlier one, until the owner
\* revokes it (ensure_internal_token, over any sequence of keys and crashes).
THEOREM InternalTokenIsCurrent == Spec => []InternalTokenCurrent
<1>1. TokInv => InternalTokenCurrent
  <2> SUFFICES ASSUME TokInv, Up, boot.key # None, ~boot.revoked
               PROVE  {tokens[i].hash : i \in {i \in Internal : Opens(i)}} = {boot.key}
    BY DEF InternalTokenCurrent
  <2>1. PICK i \in Internal : Opens(i) /\ tokens[i].hash = boot.key
    BY DEF TokInv, BootSound
  <2>2. \A j \in Internal : Opens(j) => j = i
    BY <2>1 DEF TokInv, TableInv, OneInternalOpen, Internal
  <2>3. {j \in Internal : Opens(j)} = {i}
    BY <2>1, <2>2
  <2> QED
    BY <2>1, <2>3
<1> QED
  BY <1>1, TokensInvariant, PTL

-----------------------------------------------------------------------------
(* Logins.  Automatic administrators are made by a count of the users and  *)
(* an insertion; LoginInv relates those already made to the browsers that  *)
(* are about to insert what they have counted.                             *)

UserSteps == {"away", "exchange", "select", "count", "insert"}
Promised(l) == login[l].at = "insert" /\ login[l].admin

LoginTypes ==
    /\ users \in [L!Accounts -> {"none", "user", "admin"}]
    /\ login \in [Logins -> [at : L!Places, who : L!Accounts, admin : BOOLEAN]]
    /\ auto \subseteq L!People
    /\ \A l \in Logins : login[l].at \in UserSteps => login[l].who \in L!People
    /\ \A a \in auto : users[a] # "none"

AutosRaced ==
    /\ \A a, b \in auto : a # b => a \in raced /\ b \in raced
    /\ \A l \in Logins, a \in auto :
          Promised(l) /\ a # login[l].who => a \in raced /\ login[l].who \in raced
    /\ \A l, k \in Logins :
          Promised(l) /\ Promised(k) /\ l # k => login[l].who \in raced /\ login[k].who \in raced

LoginInv == LoginTypes /\ AutosRaced

\* Those who are counted are users of a provider that exist.
LEMMA NobodyCounted ==
    ASSUME LoginTypes, NEW l \in Logins, L!Counted(l) = {} PROVE auto = {}
  BY DEF LoginTypes, L!Counted

LEMMA LoginStarts ==
    ASSUME L!Init PROVE LoginInv
<1>1. \A l \in Logins : login[l] = [at |-> "idle", who |-> L!Bootstrap, admin |-> FALSE]
  BY DEF L!Init, L!Resting
<1>2. L!Bootstrap \in L!Accounts /\ "idle" \in L!Places /\ "idle" \notin UserSteps /\ "idle" # "insert"
  BY DEF L!Accounts, L!Places, UserSteps
<1>3. LoginTypes
  BY <1>1, <1>2 DEF L!Init, L!Resting, LoginTypes
<1>4. AutosRaced
  BY <1>1, <1>2 DEF L!Init, AutosRaced, Promised
<1> QED
  BY <1>3, <1>4 DEF LoginInv

\* A browser that takes a step which inserts nobody and counts nobody.
LEMMA QuietStep ==
    ASSUME LoginInv, NEW l \in Logins,
           NEW row \in [at : L!Places, who : L!Accounts, admin : BOOLEAN],
           login' = [login EXCEPT ![l] = row],
           row.at \in UserSteps => row.who \in L!People,
           row.at # "insert", UNCHANGED <<users, auto, raced>>
    PROVE  LoginInv'
<1>1. /\ login'[l] = row /\ \A k \in Logins \ {l} : login'[k] = login[k]
      /\ login' \in [Logins -> [at : L!Places, who : L!Accounts, admin : BOOLEAN]]
  BY DEF LoginInv, LoginTypes
<1>2. LoginTypes'
  BY <1>1 DEF LoginInv, LoginTypes
<1>3. \A k \in Logins : Promised(k)' => Promised(k) /\ login'[k] = login[k]
  BY <1>1 DEF Promised
<1>4. AutosRaced'
  BY <1>3 DEF LoginInv, AutosRaced
<1> QED
  BY <1>2, <1>4 DEF LoginInv

LEMMA CountStep ==
    ASSUME LoginInv, NEW l \in Logins, L!CountUsers(l) PROVE LoginInv'
<1>1. /\ login[l].at = "count" /\ UNCHANGED <<users, auto>>
      /\ login' = [login EXCEPT ![l].at = "insert", ![l].admin = L!Counted(l) = {}]
  BY DEF L!CountUsers, L!At
<1> DEFINE beside == {k \in Logins \ {l} : login[k].at = "insert"}
<1>2. raced' = IF beside = {} THEN raced
               ELSE raced \union {login[l].who} \union {login[k].who : k \in beside}
  BY DEF L!CountUsers, L!At, L!Who
<1>3. login \in [Logins -> [at : L!Places, who : L!Accounts, admin : BOOLEAN]]
      /\ login[l].who \in L!People
  BY <1>1 DEF LoginInv, LoginTypes, UserSteps
<1>4. /\ login'[l] = [at |-> "insert", who |-> login[l].who, admin |-> (L!Counted(l) = {})]
      /\ \A k \in Logins \ {l} : login'[k] = login[k]
  BY <1>1, <1>3
<1>5. login' \in [Logins -> [at : L!Places, who : L!Accounts, admin : BOOLEAN]]
  <2>1. login'[l] \in [at : L!Places, who : L!Accounts, admin : BOOLEAN]
    <3>1. "insert" \in L!Places /\ login[l].who \in L!Accounts
      BY <1>3 DEF L!Places, L!Accounts
    <3> QED
      BY <1>4, <3>1
  <2> QED
    BY <1>1, <1>3, <1>4, <2>1
<1>6. LoginTypes'
  BY <1>1, <1>3, <1>4, <1>5 DEF LoginInv, LoginTypes
<1>7. raced \subseteq raced'
  BY <1>2
<1>8. login'[l].who = login[l].who /\ (Promised(l)' => auto = {})
  <2>1. Promised(l)' => L!Counted(l) = {}
    <3>1. [at |-> "insert", who |-> login[l].who, admin |-> (L!Counted(l) = {})].admin
            = (L!Counted(l) = {})
      OBVIOUS
    <3>2. login'[l].admin = (L!Counted(l) = {})
      BY <1>4, <3>1, Zenon
    <3> QED
      BY <3>2, Zenon DEF Promised
  <2> QED
    BY <1>4, <2>1, NobodyCounted DEF LoginInv
<1>9. ASSUME NEW k \in Logins, k # l, Promised(k)'
      PROVE  Promised(k) /\ login'[k] = login[k] /\ login[k].who \in raced' /\ login[l].who \in raced'
  <2>1. login'[k] = login[k] /\ Promised(k)
    BY <1>4, <1>9 DEF Promised
  <2>2. k \in beside
    BY <1>9, <2>1 DEF Promised
  <2> QED
    BY <1>2, <2>1, <2>2
<1>10. AutosRaced'
  <2>1. \A a, b \in auto' : a # b => a \in raced' /\ b \in raced'
    BY <1>1, <1>7 DEF LoginInv, AutosRaced
  <2>2. ASSUME NEW k \in Logins, NEW a \in auto', Promised(k)', a # login'[k].who
        PROVE  a \in raced' /\ login'[k].who \in raced'
    <3>1. CASE k = l
      BY <1>1, <1>8, <2>2, <3>1
    <3>2. CASE k # l
      BY <1>1, <1>7, <1>9, <2>2, <3>2 DEF LoginInv, AutosRaced
    <3> QED
      BY <3>1, <3>2
  <2>3. ASSUME NEW k \in Logins, NEW m \in Logins, Promised(k)', Promised(m)', k # m
        PROVE  login'[k].who \in raced' /\ login'[m].who \in raced'
    <3>1. CASE k # l /\ m # l
      BY <1>7, <1>9, <2>3, <3>1 DEF LoginInv, AutosRaced
    <3>2. CASE k = l \/ m = l
      BY <1>8, <1>9, <2>3, <3>2
    <3> QED
      BY <3>1, <3>2
  <2> QED
    BY <2>1, <2>2, <2>3 DEF AutosRaced
<1> QED
  BY <1>6, <1>10 DEF LoginInv

LEMMA InsertStep ==
    ASSUME LoginInv, NEW l \in Logins, L!InsertUser(l) PROVE LoginInv'
<1> DEFINE w == login[l].who
<1>1. login[l].at = "insert" /\ UNCHANGED raced
      /\ login \in [Logins -> [at : L!Places, who : L!Accounts, admin : BOOLEAN]]
      /\ w \in L!People /\ w \in L!Accounts
  BY DEF L!InsertUser, L!At, LoginInv, LoginTypes, UserSteps, L!Accounts
<1>2. CASE users[w] = "none"
  <2>1. /\ users' = [users EXCEPT ![w] = IF login[l].admin THEN "admin" ELSE "user"]
        /\ auto' = IF login[l].admin THEN auto \union {w} ELSE auto
        /\ login' = [login EXCEPT ![l].at = "session"]
    BY <1>2 DEF L!InsertUser, L!Who, L!Goto
  <2>2. /\ login'[l] = [at |-> "session", who |-> w, admin |-> login[l].admin]
        /\ \A k \in Logins \ {l} : login'[k] = login[k]
        /\ login' \in [Logins -> [at : L!Places, who : L!Accounts, admin : BOOLEAN]]
    <3>1. login'[l] = [at |-> "session", who |-> w, admin |-> login[l].admin]
          /\ \A k \in Logins \ {l} : login'[k] = login[k]
      BY <1>1, <2>1
    <3>2. login'[l] \in [at : L!Places, who : L!Accounts, admin : BOOLEAN]
      <4>1. "session" \in L!Places /\ login[l].admin \in BOOLEAN
        BY <1>1 DEF L!Places
      <4> HIDE DEF w
      <4> QED
        BY <1>1, <3>1, <4>1
    <3> QED
      BY <1>1, <2>1, <3>1, <3>2
  <2>3. /\ users' \in [L!Accounts -> {"none", "user", "admin"}]
        /\ users'[w] # "none" /\ \A u \in L!Accounts \ {w} : users'[u] = users[u]
    BY <1>1, <2>1 DEF LoginInv, LoginTypes
  <2>4. LoginTypes'
    <3>1. auto' \subseteq auto \union {w} /\ auto' \subseteq L!People
      BY <1>1, <2>1 DEF LoginInv, LoginTypes
    <3>2. \A a \in auto' : users'[a] # "none"
      BY <2>3, <3>1 DEF LoginInv, LoginTypes, L!Accounts
    <3>3. \A k \in Logins : login'[k].at \in UserSteps => login'[k].who \in L!People
      BY <1>1, <2>2 DEF LoginInv, LoginTypes
    <3> QED
      BY <2>2, <2>3, <3>1, <3>2, <3>3 DEF LoginTypes
  <2>5. \A k \in Logins : Promised(k)' => k # l /\ Promised(k) /\ login'[k] = login[k]
    BY <2>2 DEF Promised
  <2>6. \A a \in auto' : a \in auto \/ (a = w /\ Promised(l))
    BY <1>1, <2>1 DEF Promised
  <2>7. AutosRaced'
    <3>1. ASSUME NEW a \in auto', NEW b \in auto', a # b PROVE a \in raced /\ b \in raced
      BY <2>6, <3>1 DEF LoginInv, AutosRaced
    <3>2. ASSUME NEW k \in Logins, NEW a \in auto', Promised(k)', a # login'[k].who
          PROVE  a \in raced /\ login'[k].who \in raced
      BY <2>5, <2>6, <3>2 DEF LoginInv, AutosRaced
    <3>3. ASSUME NEW k \in Logins, NEW m \in Logins, Promised(k)', Promised(m)', k # m
          PROVE  login'[k].who \in raced /\ login'[m].who \in raced
      BY <2>5, <3>3 DEF LoginInv, AutosRaced
    <3> QED
      BY <1>1, <3>1, <3>2, <3>3 DEF AutosRaced
  <2> QED
    BY <2>4, <2>7 DEF LoginInv
<1>3. CASE users[w] # "none"
  <2>1. /\ login' = [login EXCEPT ![l] = [at |-> "idle", who |-> L!Bootstrap, admin |-> FALSE]]
        /\ UNCHANGED <<users, auto, raced>>
    BY <1>3 DEF L!InsertUser, L!Who, L!GiveUp, L!Resting
  <2>2. [at |-> "idle", who |-> L!Bootstrap, admin |-> FALSE] \in [at : L!Places, who : L!Accounts, admin : BOOLEAN]
    BY DEF L!Places, L!Accounts
  <2> QED
    BY <2>1, <2>2, QuietStep DEF UserSteps
<1>4. users[L!Bootstrap] = "none" \/ users[L!Bootstrap] # "none"
  OBVIOUS
<1> QED
  BY <1>2, <1>3, <1>4

\* Every step of a browser that neither counts nor inserts is quiet.
LEMMA BrowserStep ==
    ASSUME LoginInv, NEW l \in Logins,
           \/ L!Begin(l) \/ L!BootstrapLogin(l) \/ L!StateExpires(l) \/ L!Callback(l) \/ L!Exchange(l)
           \/ L!SelectUser(l) \/ L!CreateSession(l) \/ L!BootSelect(l)
    PROVE  LoginInv'
<1> DEFINE Rec == [at : L!Places, who : L!Accounts, admin : BOOLEAN]
           Resting == [at |-> "idle", who |-> L!Bootstrap, admin |-> FALSE]
<1>1. /\ login \in [Logins -> Rec] /\ login[l] \in Rec
      /\ login[l].at \in UserSteps => login[l].who \in L!People
  BY DEF LoginInv, LoginTypes
<1>2. UNCHANGED <<users, auto, raced>>
  BY DEF L!Begin, L!BootstrapLogin, L!StateExpires, L!Callback, L!Exchange, L!SelectUser,
         L!CreateSession, L!BootSelect
<1>3. ASSUME login' = [login EXCEPT ![l] = Resting] PROVE LoginInv'
  <2>1. Resting \in Rec /\ Resting.at \notin UserSteps /\ Resting.at # "insert"
    BY DEF L!Places, L!Accounts, UserSteps
  <2> HIDE DEF Resting
  <2> QED
    BY <1>2, <1>3, <2>1, QuietStep
<1>4. ASSUME NEW p \in L!Places \ {"insert"}, login' = [login EXCEPT ![l].at = p],
             p \in UserSteps => login[l].at \in UserSteps
      PROVE  LoginInv'
  <2> DEFINE row == [login[l] EXCEPT !.at = p]
  <2>1. row \in Rec /\ row.at = p /\ row.who = login[l].who
    BY <1>1
  <2>2. login' = [login EXCEPT ![l] = row]
    BY <1>4
  <2> HIDE DEF row
  <2> QED
    BY <1>1, <1>2, <1>4, <2>1, <2>2, QuietStep
<1>5. ASSUME NEW u \in L!Accounts, NEW p \in {"away", "bootSelect"}, NEW adm \in BOOLEAN,
             login' = [login EXCEPT ![l] = [at |-> p, who |-> u, admin |-> adm]],
             p = "away" => u \in L!People
      PROVE  LoginInv'
  <2> DEFINE row == [at |-> p, who |-> u, admin |-> adm]
  <2>1. row \in Rec /\ row.at = p /\ row.who = u /\ p # "insert"
        /\ (p \in UserSteps => u \in L!People)
    BY <1>5 DEF L!Places, UserSteps
  <2> HIDE DEF row
  <2>2. login' = [login EXCEPT ![l] = row]
    BY <1>5 DEF row
  <2> QED
    BY <1>2, <2>1, <2>2, QuietStep
<1>6. /\ "away" \in L!Places /\ "exchange" \in L!Places \ {"insert"} /\ "select" \in L!Places \ {"insert"}
      /\ "count" \in L!Places \ {"insert"} /\ "session" \in L!Places \ {"insert"}
      /\ "bootInsert" \in L!Places \ {"insert"} /\ "bootSession" \in L!Places \ {"insert"}
      /\ "away" \in UserSteps /\ "exchange" \in UserSteps /\ "select" \in UserSteps
      /\ "session" \notin UserSteps /\ "bootInsert" \notin UserSteps /\ "bootSession" \notin UserSteps
  BY DEF L!Places, UserSteps
<1>7. CASE L!Begin(l)
  <2>1. PICK u \in L!People :
            login' = [login EXCEPT ![l] = [at |-> "away", who |-> u, admin |-> FALSE]]
    BY <1>7 DEF L!Begin
  <2>2. u \in L!Accounts
    BY DEF L!Accounts
  <2> QED
    BY <1>5, <2>1, <2>2
<1>8. CASE L!BootstrapLogin(l)
  <2>1. login' = [login EXCEPT ![l] = [at |-> "bootSelect", who |-> L!Bootstrap, admin |-> TRUE]]
    BY <1>8 DEF L!BootstrapLogin
  <2>2. L!Bootstrap \in L!Accounts
    BY DEF L!Accounts
  <2> QED
    BY <1>5, <2>1, <2>2
<1>9. CASE L!StateExpires(l) \/ L!CreateSession(l)
  <2>1. login' = [login EXCEPT ![l] = Resting]
    BY <1>9 DEF L!StateExpires, L!CreateSession, L!GiveUp, L!Resting
  <2> QED
    BY <1>3, <2>1
<1>10. CASE L!Callback(l)
  <2>1. login[l].at = "away" /\ (login' = [login EXCEPT ![l].at = "exchange"] \/ login' = [login EXCEPT ![l] = Resting])
    BY <1>10, Zenon DEF L!Callback, L!At, L!Goto, L!GiveUp, L!Resting
  <2> QED
    BY <1>3, <1>4, <1>6, <2>1
<1>11. CASE L!Exchange(l)
  <2>1. login[l].at = "exchange" /\ (login' = [login EXCEPT ![l].at = "select"] \/ login' = [login EXCEPT ![l] = Resting])
    BY <1>11, Zenon DEF L!Exchange, L!At, L!Goto, L!GiveUp, L!Resting
  <2> QED
    BY <1>3, <1>4, <1>6, <2>1
<1>12. CASE L!SelectUser(l)
  <2>1. login[l].at = "select" /\ (login' = [login EXCEPT ![l].at = "count"] \/ login' = [login EXCEPT ![l].at = "session"])
    BY <1>12 DEF L!SelectUser, L!At, L!Goto, L!Who
  <2> QED
    BY <1>4, <1>6, <2>1
<1>13. CASE L!BootSelect(l)
  <2>1. login' = [login EXCEPT ![l].at = "bootInsert"] \/ login' = [login EXCEPT ![l].at = "bootSession"]
    BY <1>13 DEF L!BootSelect, L!Goto
  <2> QED
    BY <1>4, <1>6, <2>1
<1> QED
  BY <1>7, <1>8, <1>9, <1>10, <1>11, <1>12, <1>13

\* The rows of users may change, but a user that is there stays.
LEMMA UsersStep ==
    ASSUME LoginInv, UNCHANGED <<login, auto, raced>>,
           users' \in [L!Accounts -> {"none", "user", "admin"}],
           \A u \in L!Accounts : users[u] # "none" => users'[u] # "none"
    PROVE  LoginInv'
<1>1. L!People \subseteq L!Accounts
  BY DEF L!Accounts
<1>2. LoginTypes'
  BY <1>1 DEF LoginInv, LoginTypes
<1>3. AutosRaced'
  BY DEF LoginInv, AutosRaced, Promised
<1> QED
  BY <1>2, <1>3 DEF LoginInv

LEMMA BootLoginStep ==
    ASSUME LoginInv, NEW l \in Logins, L!BootInsert(l)
    PROVE  LoginInv'
<1> DEFINE Rec == [at : L!Places, who : L!Accounts, admin : BOOLEAN]
<1>1. login \in [Logins -> Rec] /\ login[l] \in Rec /\ UNCHANGED <<auto, raced>>
  BY DEF LoginInv, LoginTypes, L!BootInsert
<1>2. CASE users[L!Bootstrap] = "none"
  <2>1. /\ users' = [users EXCEPT ![L!Bootstrap] = "admin"]
        /\ login' = [login EXCEPT ![l].at = "bootSession"]
    BY <1>2 DEF L!BootInsert, L!Goto
  <2>2. login'[l] \in Rec /\ login'[l].at = "bootSession" /\ \A k \in Logins \ {l} : login'[k] = login[k]
    <3>1. "bootSession" \in L!Places
      BY DEF L!Places
    <3> QED
      BY <1>1, <2>1, <3>1
  <2>3. login' \in [Logins -> Rec]
    BY <1>1, <2>1, <2>2
  <2>4. users' \in [L!Accounts -> {"none", "user", "admin"}]
        /\ \A u \in L!Accounts : users[u] # "none" => users'[u] # "none"
    BY <2>1 DEF LoginInv, LoginTypes
  <2>5. L!People \subseteq L!Accounts
    BY DEF L!Accounts
  <2>6. LoginTypes'
    BY <1>1, <2>2, <2>3, <2>4, <2>5 DEF LoginInv, LoginTypes, UserSteps
  <2>7. \A k \in Logins : Promised(k)' => Promised(k) /\ login'[k] = login[k]
    BY <2>2 DEF Promised
  <2>8. AutosRaced'
    BY <1>1, <2>7 DEF LoginInv, AutosRaced
  <2> QED
    BY <2>6, <2>8 DEF LoginInv
<1>3. CASE users[L!Bootstrap] # "none"
  <2> DEFINE Resting == [at |-> "idle", who |-> L!Bootstrap, admin |-> FALSE]
  <2>1. login' = [login EXCEPT ![l] = Resting] /\ UNCHANGED users
    BY <1>3 DEF L!BootInsert, L!GiveUp, L!Resting
  <2>2. Resting \in Rec /\ Resting.at \notin UserSteps /\ Resting.at # "insert"
    BY DEF L!Places, L!Accounts, UserSteps
  <2> HIDE DEF Resting
  <2> QED
    BY <1>1, <2>1, <2>2, QuietStep
<1>4. users[L!Bootstrap] = "none" \/ users[L!Bootstrap] # "none"
  OBVIOUS
<1> QED
  BY <1>2, <1>3, <1>4

LEMMA LoginStep ==
    ASSUME LoginInv, [L!Next]_(L!vars) PROVE LoginInv'
<1>1. ASSUME NEW l \in Logins, L!Handler(l) PROVE LoginInv'
  <2>1. CASE L!Callback(l) \/ L!Exchange(l) \/ L!SelectUser(l) \/ L!CreateSession(l) \/ L!BootSelect(l)
    BY <2>1, BrowserStep
  <2>2. CASE L!CountUsers(l)
    BY <2>2, CountStep
  <2>3. CASE L!InsertUser(l)
    BY <2>3, InsertStep
  <2>4. CASE L!BootInsert(l)
    BY <2>4, BootLoginStep
  <2> QED
    BY <1>1, <2>1, <2>2, <2>3, <2>4 DEF L!Handler
<1>2. ASSUME NEW l \in Logins, L!Begin(l) \/ L!BootstrapLogin(l) \/ L!StateExpires(l) PROVE LoginInv'
  BY <1>2, BrowserStep
<1>3. ASSUME NEW u \in sess, L!EndSession(u) PROVE LoginInv'
  BY <1>3, UsersStep DEF L!EndSession, LoginInv, LoginTypes
<1>4. ASSUME NEW i \in Idps, L!SwitchIdp(i) PROVE LoginInv'
  BY <1>4, UsersStep DEF L!SwitchIdp, LoginInv, LoginTypes
<1>5. ASSUME NEW u \in L!Accounts, L!UpdateUser(u) PROVE LoginInv'
  <2>1. PICK a \in {"user", "admin"} : users' = [users EXCEPT ![u] = a]
    BY <1>5 DEF L!UpdateUser
  <2>2. UNCHANGED <<login, auto, raced>>
    BY <1>5 DEF L!UpdateUser
  <2> QED
    BY <2>1, <2>2, UsersStep DEF LoginInv, LoginTypes
<1>6. CASE UNCHANGED L!vars
  BY <1>6, UsersStep DEF L!vars, LoginInv, LoginTypes
<1> QED
  BY <1>1, <1>2, <1>3, <1>4, <1>5, <1>6 DEF L!Next

\* Whoever became administrator by being first (upsert_user) was counted for while
\* the other such was about to be inserted, or the other way round: without that
\* overlap there is one automatic administrator at most.
THEOREM FirstAdminsOverlapped == L!Spec => []AutoAdminsRaced
<1>1. LoginInv => AutoAdminsRaced
  BY DEF LoginInv, AutosRaced, L!AutoAdminsRaced, AutoAdminsRaced
<1>2. L!Spec => []LoginInv
  BY LoginStarts, LoginStep, PTL DEF L!Spec
<1> QED
  BY <1>1, <1>2, PTL

-----------------------------------------------------------------------------
(* The limit on bootstrap logins.  For one key: the seconds a of the       *)
(* attempts let through, the counter c and the start st of its window, and *)
(* the present second t.                                                   *)

After(a, f) == {i \in DOMAIN a : f <= a[i]}
Between(a, f) == {i \in DOMAIN a : f <= a[i] /\ a[i] < f + Window}
AtMost(S, n) == IsFiniteSet(S) /\ Cardinality(S) <= n

\* Of the attempts since a second that the window of st is yet to cover, all but
\* those counted came late in the window before; and the first of a window came
\* when it started.
Limited(a, c, st, t) ==
    /\ a \in Seq(Nat) /\ c \in 0 .. MaxAttempts /\ st \in Nat /\ t \in Nat /\ st <= t
    /\ \A i \in DOMAIN a : a[i] <= t
    /\ c = 0 => a = <<>>
    /\ c > 0 => \A f \in Nat : f + Window > st => AtMost(After(a, f), MaxAttempts - 1 + c)
    /\ c > 0 => \A f \in Nat : f > st => AtMost(After(a, f), c - 1)
    /\ \A f \in Nat : AtMost(Between(a, f), 2 * MaxAttempts - 1)

LEMMA OneMore ==
    ASSUME NEW S, NEW T, NEW e, NEW n \in Int, NEW m \in Int, m = n + 1,
           AtMost(S, n), T \subseteq S \cup {e}
    PROVE  AtMost(T, m)
<1>1. IsFiniteSet(S) /\ Cardinality(S) <= n /\ Cardinality(S) \in Nat
  BY FS_CardinalityType DEF AtMost
<1>2. IsFiniteSet(S \cup {e}) /\ Cardinality(S \cup {e}) \in Nat
      /\ Cardinality(S \cup {e}) <= Cardinality(S) + 1
  <2>1. IsFiniteSet(S \cup {e})
    BY <1>1, FS_AddElement
  <2>2. Cardinality(S \cup {e}) = IF e \in S THEN Cardinality(S) ELSE Cardinality(S) + 1
    BY <1>1, FS_AddElement
  <2> QED
    BY <1>1, <2>1, <2>2
<1>3. IsFiniteSet(T) /\ Cardinality(T) \in Nat /\ Cardinality(T) <= Cardinality(S \cup {e})
  BY <1>2, FS_Subset, FS_CardinalityType
<1> QED
  BY <1>1, <1>2, <1>3 DEF AtMost

LEMMA Fewer ==
    ASSUME NEW S, NEW T, NEW n \in Int, NEW m \in Int, AtMost(S, n), T \subseteq S, n <= m
    PROVE  AtMost(T, m)
<1>1. IsFiniteSet(S) /\ Cardinality(S) <= n /\ Cardinality(S) \in Nat
  BY FS_CardinalityType DEF AtMost
<1>2. IsFiniteSet(T) /\ Cardinality(T) \in Nat /\ Cardinality(T) <= Cardinality(S)
  BY <1>1, FS_Subset, FS_CardinalityType
<1> QED
  BY <1>1, <1>2 DEF AtMost

LEMMA NoneAtMost == ASSUME NEW n \in Nat PROVE AtMost({}, n)
  BY FS_EmptySet DEF AtMost

LEMMA AttemptAdded ==
    ASSUME NEW a \in Seq(Nat), NEW t \in Nat, \A i \in DOMAIN a : a[i] <= t, NEW f \in Nat
    PROVE  /\ Append(a, t) \in Seq(Nat)
           /\ \A i \in DOMAIN Append(a, t) : Append(a, t)[i] <= t
           /\ After(Append(a, t), f) \subseteq After(a, f) \cup {Len(a) + 1}
           /\ f > t => After(Append(a, t), f) = {}
           /\ Between(Append(a, t), f) \subseteq After(Append(a, t), f)
           /\ ~(f + Window > t) => Between(Append(a, t), f) \subseteq Between(a, f)
<1>1. /\ Append(a, t) \in Seq(Nat) /\ Len(a) \in Nat /\ DOMAIN a = 1 .. Len(a)
      /\ DOMAIN Append(a, t) = 1 .. Len(a) + 1
      /\ Append(a, t)[Len(a) + 1] = t
      /\ \A i \in 1 .. Len(a) : Append(a, t)[i] = a[i]
  BY AppendProperties, LenProperties
<1> DEFINE b == Append(a, t)
<1> HIDE DEF b
<1>2. \A i \in DOMAIN b : (i = Len(a) + 1 /\ b[i] = t) \/ (i \in DOMAIN a /\ b[i] = a[i])
  BY <1>1 DEF b
<1>3. \A i \in DOMAIN b : b[i] \in Nat /\ b[i] <= t
  BY <1>1, <1>2, ElementOfSeq
<1>4. After(b, f) \subseteq After(a, f) \cup {Len(a) + 1}
  BY <1>2 DEF After
<1>5. f > t => After(b, f) = {}
  BY <1>3 DEF After
<1>6. Between(b, f) \subseteq After(b, f)
  BY DEF After, Between
<1>7. ~(f + Window > t) => Between(b, f) \subseteq Between(a, f)
  <2>1. ASSUME ~(f + Window > t), NEW i \in Between(b, f) PROVE i \in Between(a, f)
    <3>1. i \in DOMAIN b /\ f <= b[i] /\ b[i] < f + Window
      BY <2>1 DEF Between
    <3>2. CASE i = Len(a) + 1 /\ b[i] = t
      BY <2>1, <3>1, <3>2
    <3>3. CASE i \in DOMAIN a /\ b[i] = a[i]
      BY <3>1, <3>3 DEF Between
    <3> QED
      BY <1>2, <3>1, <3>2, <3>3
  <2> QED
    BY <2>1
<1> QED
  BY <1>1, <1>3, <1>4, <1>5, <1>6, <1>7 DEF b

LEMMA StaysLimited ==
    ASSUME NEW a, NEW c, NEW st, NEW t, Limited(a, c, st, t)
    PROVE  Limited(a, c, st, t + 1)
<1>1. /\ a \in Seq(Nat) /\ st \in Nat /\ t \in Nat /\ st <= t /\ \A i \in DOMAIN a : a[i] <= t
  BY DEF Limited
<1>2. \A i \in DOMAIN a : a[i] <= t + 1
  BY <1>1, LenProperties, ElementOfSeq
<1> QED
  BY <1>1, <1>2, SMT DEF Limited

\* The window before has let through no more than the limit, its first attempt too
\* early to count with those of the new window.
LEMMA NewWindowLimited ==
    ASSUME NEW a, NEW c, NEW st, NEW t, Limited(a, c, st, t),
           c > 0 => t - st >= Window
    PROVE  Limited(Append(a, t), 1, t, t)
<1> USE AccessAssumption
<1> DEFINE b == Append(a, t)
<1>1. /\ a \in Seq(Nat) /\ c \in 0 .. MaxAttempts /\ st \in Nat /\ t \in Nat /\ st <= t
      /\ \A i \in DOMAIN a : a[i] <= t
      /\ c = 0 => a = <<>>
      /\ c > 0 => \A f \in Nat : f > st => AtMost(After(a, f), c - 1)
      /\ \A f \in Nat : AtMost(Between(a, f), 2 * MaxAttempts - 1)
  BY Zenon DEF Limited
<1>2. ASSUME NEW f \in Nat
      PROVE  /\ b \in Seq(Nat) /\ \A i \in DOMAIN b : b[i] <= t
             /\ After(b, f) \subseteq After(a, f) \cup {Len(a) + 1}
             /\ f > t => After(b, f) = {}
             /\ Between(b, f) \subseteq After(b, f)
             /\ ~(f + Window > t) => Between(b, f) \subseteq Between(a, f)
  BY <1>1, AttemptAdded
<1> HIDE DEF b
<1>3. ASSUME NEW f \in Nat, f + Window > t PROVE AtMost(After(b, f), MaxAttempts)
  <2>1. AtMost(After(a, f), MaxAttempts - 1)
    <3>1. CASE c = 0
      <4>1. After(a, f) = {}
        BY <1>1, <3>1 DEF After
      <4> QED
        BY <4>1, NoneAtMost
    <3>2. CASE c > 0
      <4>1. AtMost(After(a, f), c - 1)
        BY <1>1, <1>3, <3>2
      <4> QED
        BY <1>1, <4>1, Fewer
    <3> QED
      BY <1>1, <3>1, <3>2
  <2>2. AtMost(After(b, f), MaxAttempts)
    <3>1. MaxAttempts - 1 \in Int /\ MaxAttempts \in Int /\ MaxAttempts = MaxAttempts - 1 + 1
      OBVIOUS
    <3>2. After(b, f) \subseteq After(a, f) \cup {Len(a) + 1}
      BY <1>2
    <3> QED
      BY ONLY <2>1, <3>1, <3>2, OneMore
  <2> QED
    BY <2>2
<1>4. \A f \in Nat : f + Window > t => AtMost(After(b, f), MaxAttempts - 1 + 1)
  BY <1>3
<1>5. \A f \in Nat : f > t => AtMost(After(b, f), 1 - 1)
  <2>1. \A f \in Nat : f > t => After(b, f) = {}
    BY <1>2
  <2>2. 1 - 1 = 0
    OBVIOUS
  <2>3. AtMost({}, 0)
    BY NoneAtMost
  <2> QED
    BY <2>1, <2>2, <2>3
<1>6. ASSUME NEW f \in Nat PROVE AtMost(Between(b, f), 2 * MaxAttempts - 1)
  <2>1. CASE f + Window > t
    BY <1>2, <1>3, <2>1, Fewer
  <2>2. CASE ~(f + Window > t)
    BY <1>1, <1>2, <2>2, Fewer
  <2> QED
    BY <2>1, <2>2
<1>7. b \in Seq(Nat) /\ \A i \in DOMAIN b : b[i] <= t
  BY <1>2
<1>8. Limited(b, 1, t, t)
  BY <1>1, <1>4, <1>5, <1>6, <1>7 DEF Limited
<1> QED
  BY <1>8 DEF b

LEMMA SameWindowLimited ==
    ASSUME NEW a, NEW c, NEW st, NEW t, Limited(a, c, st, t),
           c > 0, c < MaxAttempts
    PROVE  Limited(Append(a, t), c + 1, st, t)
<1> USE AccessAssumption
<1> DEFINE b == Append(a, t)
<1>1. /\ a \in Seq(Nat) /\ c \in 0 .. MaxAttempts /\ st \in Nat /\ t \in Nat /\ st <= t
      /\ \A i \in DOMAIN a : a[i] <= t
      /\ \A f \in Nat : f + Window > st => AtMost(After(a, f), MaxAttempts - 1 + c)
      /\ \A f \in Nat : f > st => AtMost(After(a, f), c - 1)
      /\ \A f \in Nat : AtMost(Between(a, f), 2 * MaxAttempts - 1)
  BY Zenon DEF Limited
<1>2. ASSUME NEW f \in Nat
      PROVE  /\ b \in Seq(Nat) /\ \A i \in DOMAIN b : b[i] <= t
             /\ After(b, f) \subseteq After(a, f) \cup {Len(a) + 1}
             /\ Between(b, f) \subseteq After(b, f)
             /\ ~(f + Window > t) => Between(b, f) \subseteq Between(a, f)
  BY <1>1, AttemptAdded
<1> HIDE DEF b
<1>3. ASSUME NEW f \in Nat, f + Window > st PROVE AtMost(After(b, f), MaxAttempts - 1 + (c + 1))
  <2>1. AtMost(After(a, f), MaxAttempts - 1 + c)
    BY <1>1, <1>3
  <2>2. After(b, f) \subseteq After(a, f) \cup {Len(a) + 1}
    BY <1>2
  <2> DEFINE n == MaxAttempts - 1 + c
             m == MaxAttempts - 1 + (c + 1)
  <2>3. n \in Int /\ m \in Int /\ m = n + 1
    BY <1>1
  <2>4. AtMost(After(a, f), n)
    BY <2>1
  <2> HIDE DEF n, m
  <2>5. AtMost(After(b, f), m)
    BY ONLY <2>2, <2>3, <2>4, OneMore
  <2> QED
    BY <2>5 DEF m
<1>4. \A f \in Nat : f + Window > st => AtMost(After(b, f), MaxAttempts - 1 + (c + 1))
  BY <1>3
<1>5. ASSUME NEW f \in Nat, f > st PROVE AtMost(After(b, f), (c + 1) - 1)
  <2>1. AtMost(After(a, f), c - 1)
    BY <1>1, <1>5
  <2>2. After(b, f) \subseteq After(a, f) \cup {Len(a) + 1}
    BY <1>2
  <2> DEFINE n == c - 1
             m == (c + 1) - 1
  <2>3. n \in Int /\ m \in Int /\ m = n + 1
    BY <1>1
  <2>4. AtMost(After(a, f), n)
    BY <2>1
  <2> HIDE DEF n, m
  <2>5. AtMost(After(b, f), m)
    BY ONLY <2>2, <2>3, <2>4, OneMore
  <2> QED
    BY <2>5 DEF m
<1>6. ASSUME NEW f \in Nat PROVE AtMost(Between(b, f), 2 * MaxAttempts - 1)
  <2>1. CASE f + Window > st
    <3>1. MaxAttempts - 1 + (c + 1) <= 2 * MaxAttempts - 1
      BY <1>1
    <3> QED
      BY <1>1, <1>2, <1>3, <2>1, <3>1, Fewer
  <2>2. CASE ~(f + Window > st)
    BY <1>1, <1>2, <2>2, Fewer
  <2> QED
    BY <2>1, <2>2
<1>7. b \in Seq(Nat) /\ \A i \in DOMAIN b : b[i] <= t
  BY <1>2
<1>8. c + 1 \in 0 .. MaxAttempts /\ c + 1 # 0
  BY <1>1
<1>9. Limited(b, c + 1, st, t)
  BY <1>1, <1>4, <1>5, <1>6, <1>7, <1>8, Zenon DEF Limited
<1> QED
  BY <1>9 DEF b

LimitInv ==
    /\ now \in Nat
    /\ bucket \in [R!BucketKeys -> [count : Nat, start : Nat]]
    /\ allowed \in [R!BucketKeys -> Seq(Nat)]
    /\ \A k \in R!BucketKeys : Limited(allowed[k], bucket[k].count, bucket[k].start, now)

LEMMA LimitStarts ==
    ASSUME R!Init PROVE LimitInv
<1>1. /\ now = 0 /\ bucket = [k \in R!BucketKeys |-> [count |-> 0, start |-> 0]]
      /\ allowed = [k \in R!BucketKeys |-> <<>>]
  BY DEF R!Init
<1>2. \A f \in Nat : AtMost(Between(<<>>, f), 2 * MaxAttempts - 1)
  <2>1. 2 * MaxAttempts - 1 \in Nat
    BY AccessAssumption
  <2>2. \A f \in Nat : Between(<<>>, f) = {}
    BY DEF Between
  <2> QED
    BY <2>1, <2>2, NoneAtMost
<1>3. Limited(<<>>, 0, 0, 0)
  BY <1>2, AccessAssumption, EmptySeq DEF Limited
<1>4. <<>> \in Seq(Nat)
  OBVIOUS
<1> QED
  BY <1>1, <1>3, <1>4 DEF LimitInv

LEMMA LimitStep ==
    ASSUME LimitInv, [R!Next]_(R!vars) PROVE LimitInv'
<1> USE AccessAssumption
<1>1. CASE R!Tick
  <2>1. now' = now + 1 /\ UNCHANGED <<bucket, allowed>>
    BY <1>1 DEF R!Tick
  <2>2. \A k \in R!BucketKeys : Limited(allowed[k], bucket[k].count, bucket[k].start, now + 1)
    BY StaysLimited DEF LimitInv
  <2> QED
    BY <2>1, <2>2 DEF LimitInv
<1>2. ASSUME NEW h \in R!Headers, R!Attempt(h) PROVE LimitInv'
  <2> DEFINE k == R!Key(h)
             a == allowed[k]
             c == bucket[k].count
             st == bucket[k].start
  <2>1. k \in R!BucketKeys
    BY DEF R!BucketKeys
  <2>2. now' = now
    BY <1>2 DEF R!Attempt
  <2>3. /\ now \in Nat /\ Limited(a, c, st, now)
        /\ bucket \in [R!BucketKeys -> [count : Nat, start : Nat]]
        /\ allowed \in [R!BucketKeys -> Seq(Nat)]
        /\ \A x \in R!BucketKeys : Limited(allowed[x], bucket[x].count, bucket[x].start, now)
    BY <2>1 DEF LimitInv
  <2>4. a \in Seq(Nat) /\ c \in Nat /\ st \in Nat
    BY <2>1, <2>3
  <2>5. ASSUME NEW n \in Nat, NEW s \in Nat, bucket' = [bucket EXCEPT ![k] = [count |-> n, start |-> s]],
               allowed' = [allowed EXCEPT ![k] = Append(a, now)], Limited(Append(a, now), n, s, now)
        PROVE  LimitInv'
    <3>1. Append(a, now) \in Seq(Nat)
      BY <2>3, <2>4, AppendProperties
    <3> DEFINE b == Append(a, now)
    <3> HIDE DEF k, b
    <3>2. /\ bucket' \in [R!BucketKeys -> [count : Nat, start : Nat]]
          /\ bucket'[k].count = n /\ bucket'[k].start = s
          /\ \A x \in R!BucketKeys \ {k} : bucket'[x] = bucket[x]
      BY <2>1, <2>3, <2>5
    <3>3. /\ allowed' \in [R!BucketKeys -> Seq(Nat)] /\ allowed'[k] = b
          /\ \A x \in R!BucketKeys \ {k} : allowed'[x] = allowed[x]
      BY <2>1, <2>3, <2>5, <3>1 DEF b
    <3>4. Limited(b, n, s, now)
      BY <2>5 DEF b
    <3>5. \A x \in R!BucketKeys : Limited(allowed'[x], bucket'[x].count, bucket'[x].start, now)
      BY <2>3, <3>2, <3>3, <3>4
    <3> QED
      BY <2>2, <2>3, <3>2, <3>3, <3>5 DEF LimitInv
  <2> DEFINE begin == R!StartOf(k)
  <2>6. begin = IF c = 0 THEN now ELSE st
    BY DEF R!StartOf
  <2>7. CASE now - begin >= Window /\ R!NewWindow(k) /\ R!Let(k)
    <3>1. bucket' = [bucket EXCEPT ![k] = [count |-> 1, start |-> now]]
          /\ allowed' = [allowed EXCEPT ![k] = Append(a, now)]
      BY <2>7 DEF R!NewWindow, R!Let
    <3>2. c > 0 => now - st >= Window
      BY <2>6, <2>7
    <3>3. Limited(Append(a, now), 1, now, now)
      BY <2>3, <3>2, NewWindowLimited
    <3> QED
      BY <2>3, <2>5, <3>1, <3>3
  <2>8. CASE /\ now - begin < Window /\ bucket[k].count < MaxAttempts
             /\ bucket' = [bucket EXCEPT ![k] = [count |-> @.count + 1, start |-> begin]]
             /\ R!Let(k)
    <3>1. bucket' = [bucket EXCEPT ![k] = [count |-> c + 1, start |-> begin]]
          /\ allowed' = [allowed EXCEPT ![k] = Append(a, now)]
      BY <2>8 DEF R!Let
    <3>2. CASE c = 0
      <4>1. Limited(Append(a, now), 1, now, now)
        BY <2>3, <3>2, NewWindowLimited
      <4>2. bucket' = [bucket EXCEPT ![k] = [count |-> 1, start |-> now]]
        BY <2>6, <3>1, <3>2
      <4> QED
        BY <2>3, <2>5, <3>1, <4>1, <4>2
    <3>3. CASE c # 0
      <4>1. c > 0 /\ c < MaxAttempts /\ begin = st
        BY <2>4, <2>6, <2>8, <3>3
      <4>2. Limited(Append(a, now), c + 1, st, now)
        BY <2>3, <4>1, SameWindowLimited
      <4>3. bucket' = [bucket EXCEPT ![k] = [count |-> c + 1, start |-> st]] /\ c + 1 \in Nat
        BY <2>4, <3>1, <4>1
      <4> HIDE DEF c, st, a, k
      <4> QED
        BY <2>4, <2>5, <3>1, <4>2, <4>3
    <3> QED
      BY <3>2, <3>3
  <2>9. CASE UNCHANGED <<bucket, allowed>>
    BY <2>2, <2>9 DEF LimitInv
  <2> QED
    BY <1>2, <2>7, <2>8, <2>9, Zenon DEF R!Attempt
<1>3. CASE UNCHANGED R!vars
  BY <1>3 DEF R!vars, LimitInv
<1> QED
  BY <1>1, <1>2, <1>3 DEF R!Next

\* However attempts of several clients and the clock interleave, no stretch of the
\* window's length sees twice the limit let through (check_rate_limit), for every
\* limit and every length.
THEOREM LimitIsKept == R!Spec => []RateBound
<1>1. LimitInv => RateBound
  <2>0. \A S : R!Cardinality(S) = Cardinality(S)
    BY DEF R!Cardinality, R!IsFiniteSet, Cardinality, IsFiniteSet
  <2> SUFFICES ASSUME LimitInv, NEW k \in R!BucketKeys, NEW f \in 0 .. now
               PROVE  Cardinality(R!Within(k, f)) < 2 * MaxAttempts
    BY <2>0 DEF R!RateBound, RateBound
  <2>1. AtMost(Between(allowed[k], f), 2 * MaxAttempts - 1) /\ f \in Nat
    BY DEF LimitInv, Limited
  <2>2. R!Within(k, f) = Between(allowed[k], f)
    BY DEF R!Within, Between
  <2>3. Cardinality(Between(allowed[k], f)) \in Nat
    BY <2>1, FS_CardinalityType DEF AtMost
  <2> QED
    BY <2>1, <2>2, <2>3, AccessAssumption DEF AtMost
<1>2. R!Init => LimitInv
  BY LimitStarts
<1>3. LimitInv /\ [R!Next]_(R!vars) => LimitInv'
  BY LimitStep
<1> QED
  BY <1>1, <1>2, <1>3, PTL DEF R!Spec

\* Tokens, logins and the limit share no variables: in a behaviour that runs one of
\* them and leaves the others where they start, all of the above holds.
THEOREM AccessStaysSafe ==
    AccessSpec => [](OneMetaToken /\ PinKept /\ InternalTokenCurrent /\ AutoAdminsRaced /\ RateBound)
<1>1. AccessInit => Init /\ LoginInv /\ R!Init
  BY LoginStarts DEF AccessInit
<1>2. [AccessNext]_<<part, vars, people, limiter>> => [Next]_vars
  BY DEF AccessNext
<1>3. LoginInv /\ [AccessNext]_<<part, vars, people, limiter>> => LoginInv'
  <2>1. [AccessNext]_<<part, vars, people, limiter>> => [L!Next]_(L!vars)
    BY DEF AccessNext, people, L!vars
  <2> QED
    BY <2>1, LoginStep
<1>4. [AccessNext]_<<part, vars, people, limiter>> => [R!Next]_(R!vars)
  BY DEF AccessNext, limiter, R!vars
<1>5. LoginInv => AutoAdminsRaced
  BY DEF LoginInv, AutosRaced, L!AutoAdminsRaced, AutoAdminsRaced
<1> QED
  BY <1>1, <1>2, <1>3, <1>4, <1>5, MetaTokenIsOne, PinsAreKept, InternalTokenIsCurrent,
     LimitIsKept, PTL DEF AccessSpec, Spec, R!Spec
=============================================================================
