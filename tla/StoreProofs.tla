------------------------------ MODULE StoreProofs ------------------------------
(* Proofs about the settings, the providers' secrets, the containers and the   *)
(* resolution of models, for any number of rows, keys, models and requests.    *)
EXTENDS MCStore, SequenceTheorems, TLAPS

-----------------------------------------------------------------------------
(* Settings.                                                                   *)

SettingTable == [SettingKeys -> Good \cup {Bad, NoRow}]

UpdateJobs == [at : {"idle", "save", "store"}, todo : SUBSET (SettingKeys \cup {Unknown}),
               body : Bodies \cup {<<>>}, read : SettingTable,
               alone : BOOLEAN, wrote : BOOLEAN]

(* A handler that runs alone is the only one, and what it has read is what the *)
(* table holds.                                                                *)
AloneIsAlone ==
    \A h, g \in Handlers :
        h # g /\ job[h].alone /\ job[h].at # "idle" => job[g].at = "idle"

AloneReads ==
    \A h \in Handlers : job[h].alone /\ job[h].at = "store" => job[h].read = rows

(* As long as no update that changed rows is under way or behind, what the     *)
(* handlers have read, and the copy, are up to date.                           *)
NobodyWrote == \A h \in Handlers : job[h].at # "idle" => ~job[h].wrote

UpToDate ==
    ~behind /\ NobodyWrote =>
        /\ cache = S!Parse(rows)
        /\ \A h \in Handlers : job[h].at = "store" => job[h].read = rows

SettingsInv ==
    /\ rows \in SettingTable /\ behind \in BOOLEAN
    /\ job \in [Handlers -> UpdateJobs]
    /\ \A h \in Handlers : job[h].todo \subseteq DOMAIN job[h].body
    /\ AloneIsAlone /\ AloneReads /\ UpToDate

LEMMA BodyShape ==
    ASSUME NEW b \in Bodies
    PROVE  /\ DOMAIN b \subseteq SettingKeys \cup {Unknown}
           /\ \A k \in DOMAIN b : b[k] \in Good \cup {Bad, NotScalar}
<1>1. CASE b \in (UNION {[K -> Good \cup {Bad, NotScalar}] : K \in SUBSET SettingKeys})
  BY <1>1
<1>2. CASE b \in {[k \in {Unknown} \cup K |-> Bad] : K \in SUBSET SettingKeys}
  BY <1>2
<1> QED
  BY <1>1, <1>2 DEF Bodies

LEMMA RestIsJob ==
    /\ S!Rest \in UpdateJobs /\ S!Rest.at = "idle" /\ S!Rest.todo = {}
    /\ ~S!Rest.wrote
  BY DEF S!Rest, UpdateJobs, SettingTable

LEMMA SettingsStart == S!Init => SettingsInv
<1> SUFFICES ASSUME S!Init PROVE SettingsInv
  OBVIOUS
<1>1. \A h \in Handlers : job[h] = S!Rest
  BY DEF S!Init
<1>2. job \in [Handlers -> UpdateJobs]
  BY RestIsJob DEF S!Init
<1> QED
  BY <1>1, <1>2, RestIsJob DEF S!Init, SettingsInv, AloneIsAlone, AloneReads, UpToDate,
     S!Table, SettingTable

LEMMA SettingsBegin ==
    ASSUME SettingsInv, NEW h \in Handlers, S!Begin(h) PROVE SettingsInv'
<1>1. PICK b \in Bodies :
        job' = [g \in Handlers |->
                   IF g = h THEN [S!Rest EXCEPT !.at = "save", !.body = b,
                                     !.todo = DOMAIN b, !.alone = (S!Busy = {})]
                   ELSE [job[g] EXCEPT !.alone = FALSE]]
  BY DEF S!Begin
<1>2. /\ job'[h] \in UpdateJobs /\ job'[h].at = "save" /\ ~job'[h].wrote
      /\ job'[h].todo = DOMAIN b /\ job'[h].body = b
      /\ job'[h].alone = (S!Busy = {})
  <2>1. job'[h] = [at |-> "save", todo |-> DOMAIN b, body |-> b, read |-> S!Rest.read,
                   alone |-> (S!Busy = {}), wrote |-> FALSE]
    BY <1>1 DEF S!Rest
  <2> QED
    BY <2>1, RestIsJob, BodyShape DEF UpdateJobs
<1>3. ASSUME NEW g \in Handlers \ {h}
      PROVE  /\ job'[g] \in UpdateJobs /\ ~job'[g].alone
             /\ job'[g].at = job[g].at /\ job'[g].todo = job[g].todo
             /\ job'[g].body = job[g].body /\ job'[g].read = job[g].read
             /\ job'[g].wrote = job[g].wrote
  <2>1. job[g] \in UpdateJobs /\ job'[g] = [job[g] EXCEPT !.alone = FALSE]
    BY <1>1 DEF SettingsInv
  <2> QED
    BY <2>1 DEF UpdateJobs
<1>4. rows' = rows /\ cache' = cache /\ behind' = behind /\ job[h].at = "idle"
  BY DEF S!Begin, S!Busy
<1>5. job' \in [Handlers -> UpdateJobs]
  BY <1>1, <1>2, <1>3
<1>6. \A g \in Handlers : job'[g].todo \subseteq DOMAIN job'[g].body
  BY <1>2, <1>3 DEF SettingsInv
<1>7. AloneIsAlone'
  <2>1. job'[h].alone => \A g \in Handlers : job[g].at = "idle"
    BY <1>2 DEF S!Busy
  <2> QED
    BY <1>3, <2>1 DEF AloneIsAlone
<1>8. AloneReads'
  BY <1>2, <1>3 DEF AloneReads
<1>9. UpToDate'
  <2>1. NobodyWrote' => NobodyWrote
    BY <1>3, <1>4 DEF NobodyWrote
  <2> QED
    BY <1>2, <1>3, <1>4, <2>1 DEF SettingsInv, UpToDate, S!Parse
<1> QED
  BY <1>4, <1>5, <1>6, <1>7, <1>8, <1>9 DEF SettingsInv

(* A handler that returns early: what it had written is remembered as behind.  *)
LEMMA SettingsEnd ==
    ASSUME SettingsInv, NEW h \in Handlers, S!EndShort(h), UNCHANGED <<rows, cache>>
    PROVE  SettingsInv'
<1>1. /\ job' = [job EXCEPT ![h] = S!Rest] /\ behind' = (behind \/ job[h].wrote)
      /\ rows' = rows /\ cache' = cache /\ job[h] \in UpdateJobs
  BY DEF S!EndShort, SettingsInv
<1>2. job' \in [Handlers -> UpdateJobs] /\ job'[h] = S!Rest
  BY <1>1, RestIsJob DEF SettingsInv
<1>3. \A g \in Handlers \ {h} : job'[g] = job[g]
  BY <1>1 DEF SettingsInv
<1>4. \A g \in Handlers : job'[g].todo \subseteq DOMAIN job'[g].body
  BY <1>2, <1>3, RestIsJob DEF SettingsInv
<1>5. AloneIsAlone' /\ AloneReads'
  BY <1>1, <1>2, <1>3, RestIsJob DEF SettingsInv, AloneIsAlone, AloneReads
<1>6. behind' \in BOOLEAN
  BY <1>1 DEF SettingsInv, UpdateJobs
<1>7. UpToDate'
  <2>1. ~behind' => ~behind /\ ~job[h].wrote
    BY <1>1 DEF SettingsInv, UpdateJobs
  <2>2. ~behind' /\ NobodyWrote' => ~behind /\ NobodyWrote
    BY <1>3, <2>1 DEF NobodyWrote
  <2> QED
    BY <1>1, <1>2, <1>3, <2>2, RestIsJob DEF SettingsInv, UpToDate, S!Parse
<1> QED
  BY <1>1, <1>2, <1>4, <1>5, <1>6, <1>7 DEF SettingsInv

LEMMA SettingsSave ==
    ASSUME SettingsInv, NEW h \in Handlers, S!Save(h) PROVE SettingsInv'
<1>1. PICK k \in job[h].todo \ {Unknown} :
        /\ job[h].body[k] # NotScalar
        /\ rows' = [rows EXCEPT ![k] = job[h].body[k]]
        /\ job' = [job EXCEPT ![h].todo = @ \ {k}, ![h].wrote = TRUE]
  BY DEF S!Save
<1> DEFINE j == [job[h] EXCEPT !.todo = @ \ {k}, !.wrote = TRUE]
<1>2. /\ job[h] \in UpdateJobs /\ job[h].at = "save" /\ k \in DOMAIN job[h].body
      /\ cache' = cache /\ behind' = behind
  BY <1>1 DEF S!Save, SettingsInv
<1>3. /\ j \in UpdateJobs /\ j.todo \subseteq job[h].todo /\ j.wrote
      /\ j.at = "save" /\ j.body = job[h].body /\ j.alone = job[h].alone
  BY <1>1, <1>2 DEF UpdateJobs
<1>4. job' = [job EXCEPT ![h] = j]
  BY <1>1, <1>2
<1> HIDE DEF j
<1>5. job[h].body \in Bodies /\ k \in SettingKeys
  <2>1. job[h].body \in Bodies \cup {<<>>} /\ k \in SettingKeys \cup {Unknown} /\ k # Unknown
    BY <1>1, <1>2 DEF UpdateJobs
  <2>2. job[h].body # <<>>
    BY <1>2
  <2> QED
    BY <2>1, <2>2
<1>6. job[h].body[k] \in Good \cup {Bad}
  BY <1>1, <1>2, <1>5, BodyShape
<1>7. rows' \in SettingTable
  BY <1>1, <1>5, <1>6 DEF SettingsInv, SettingTable
<1>8. job' \in [Handlers -> UpdateJobs] /\ job'[h] = j
      /\ \A g \in Handlers \ {h} : job'[g] = job[g]
  BY <1>3, <1>4 DEF SettingsInv
<1>9. \A g \in Handlers : job'[g].todo \subseteq DOMAIN job'[g].body
  BY <1>3, <1>8 DEF SettingsInv
<1>10. AloneIsAlone'
  BY <1>2, <1>3, <1>8 DEF SettingsInv, AloneIsAlone
<1>11. AloneReads'
  BY <1>2, <1>3, <1>8 DEF SettingsInv, AloneIsAlone, AloneReads
<1>12. ~NobodyWrote'
  BY <1>3, <1>8 DEF NobodyWrote
<1> QED
  BY <1>2, <1>7, <1>8, <1>9, <1>10, <1>11, <1>12 DEF SettingsInv, UpToDate

LEMMA SettingsLoad ==
    ASSUME SettingsInv, NEW h \in Handlers, S!Load(h) PROVE SettingsInv'
<1> DEFINE j == [job[h] EXCEPT !.at = "store", !.read = rows]
<1>1. /\ job[h] \in UpdateJobs /\ job[h].at = "save" /\ UNCHANGED <<rows, cache, behind>>
      /\ job' = [job EXCEPT ![h] = j] /\ rows \in SettingTable
  BY DEF S!Load, SettingsInv
<1>2. /\ j \in UpdateJobs /\ j.at = "store" /\ j.read = rows /\ j.todo = job[h].todo
      /\ j.body = job[h].body /\ j.alone = job[h].alone /\ j.wrote = job[h].wrote
  BY <1>1 DEF UpdateJobs
<1> HIDE DEF j
<1>3. job' \in [Handlers -> UpdateJobs] /\ job'[h] = j
      /\ \A g \in Handlers \ {h} : job'[g] = job[g]
  BY <1>1, <1>2 DEF SettingsInv
<1>4. \A g \in Handlers : job'[g].todo \subseteq DOMAIN job'[g].body
  BY <1>2, <1>3 DEF SettingsInv
<1>5. AloneIsAlone' /\ AloneReads'
  BY <1>1, <1>2, <1>3 DEF SettingsInv, AloneIsAlone, AloneReads
<1>6. UpToDate'
  <2>1. NobodyWrote' => NobodyWrote
    BY <1>1, <1>2, <1>3 DEF NobodyWrote
  <2> QED
    BY <1>1, <1>2, <1>3, <2>1 DEF SettingsInv, UpToDate, S!Parse
<1> QED
  BY <1>1, <1>3, <1>4, <1>5, <1>6 DEF SettingsInv

LEMMA SettingsStore ==
    ASSUME SettingsInv, NEW h \in Handlers, S!Store(h) PROVE SettingsInv'
<1>1. /\ job' = [job EXCEPT ![h] = S!Rest] /\ job[h].at = "store"
      /\ cache' = S!Parse(job[h].read)
      /\ behind' = (~job[h].alone /\ (behind \/ job[h].wrote))
      /\ rows' = rows /\ job[h] \in UpdateJobs
  BY DEF S!Store, SettingsInv
<1>2. job' \in [Handlers -> UpdateJobs] /\ job'[h] = S!Rest
      /\ \A g \in Handlers \ {h} : job'[g] = job[g]
  BY <1>1, RestIsJob DEF SettingsInv
<1>3. \A g \in Handlers : job'[g].todo \subseteq DOMAIN job'[g].body
  BY <1>2, RestIsJob DEF SettingsInv
<1>4. AloneIsAlone' /\ AloneReads'
  BY <1>1, <1>2, RestIsJob DEF SettingsInv, AloneIsAlone, AloneReads
<1>5. behind' \in BOOLEAN
  BY <1>1 DEF SettingsInv, UpdateJobs
<1>6. UpToDate'
  <2>1. CASE job[h].alone
    <3>1. job[h].read = rows /\ \A g \in Handlers \ {h} : job[g].at = "idle"
      BY <1>1, <2>1 DEF SettingsInv, AloneIsAlone, AloneReads
    <3> QED
      BY <1>1, <1>2, <3>1, RestIsJob DEF UpToDate
  <2>2. CASE ~job[h].alone
    <3>1. ~behind' /\ NobodyWrote' => ~behind /\ NobodyWrote
      BY <1>1, <1>2, <2>2 DEF NobodyWrote, SettingsInv, UpdateJobs
    <3>2. ~behind' /\ NobodyWrote' => job[h].read = rows
      BY <1>1, <3>1 DEF SettingsInv, UpToDate
    <3> QED
      BY <1>1, <1>2, <3>1, <3>2, RestIsJob DEF SettingsInv, UpToDate, S!Parse
  <2> QED
    BY <2>1, <2>2
<1> QED
  BY <1>1, <1>2, <1>3, <1>4, <1>5, <1>6 DEF SettingsInv

LEMMA SettingsRestart ==
    ASSUME SettingsInv, S!Restart PROVE SettingsInv'
<1>1. /\ job' = [h \in Handlers |-> S!Rest] /\ rows' = rows
      /\ (cache' = S!Parse(rows) /\ behind' = FALSE) \/ behind' = TRUE
  BY DEF S!Restart
<1>2. job' \in [Handlers -> UpdateJobs] /\ \A h \in Handlers : job'[h] = S!Rest
  BY <1>1, RestIsJob
<1> QED
  BY <1>1, <1>2, RestIsJob DEF SettingsInv, AloneIsAlone, AloneReads, UpToDate, S!Parse

LEMMA SettingsStep == SettingsInv /\ [S!Next]_settings => SettingsInv'
<1> SUFFICES ASSUME SettingsInv, [S!Next]_settings PROVE SettingsInv'
  OBVIOUS
<1>1. CASE UNCHANGED settings
  BY <1>1 DEF settings, SettingsInv, AloneIsAlone, AloneReads, NobodyWrote, UpToDate, S!Parse
<1>2. ASSUME NEW h \in Handlers, S!Reject(h) \/ S!CutShort(h) PROVE SettingsInv'
  BY <1>2, SettingsEnd DEF S!Reject, S!CutShort
<1> QED
  BY <1>1, <1>2, SettingsBegin, SettingsSave, SettingsLoad, SettingsStore, SettingsRestart
     DEF S!Next

LEMMA SettingsSafe == SettingsInv => S!CacheFollowsRows
  BY DEF SettingsInv, UpToDate, NobodyWrote, S!CacheFollowsRows, S!Busy

-----------------------------------------------------------------------------
(* Secrets.                                                                    *)

(* The values a migration with these two keys brings to the first of them.     *)
KeysOf(k, o) == {k, o} \ {NoKey}
Openable(k, o) ==
    {<<>>} \cup {<<E!Hkdf(x)>> : x \in KeysOf(k, o) \cup {Empty}}
           \cup {<<E!Sha(x)>> : x \in KeysOf(k, o)}

(* After a migration that finished the old key is not needed any more.         *)
OldNeeded == IF finished THEN NoKey ELSE old

Current(r) == secret[r] # NoRow => secret[r] = <<E!Hkdf(key)>>

RowsOpenable ==
    \A r \in SecretRows : secret[r] # NoRow => secret[r] \in Openable(key, OldNeeded)

SecretsInv ==
    /\ DOMAIN secret = SecretRows /\ finished \in BOOLEAN
    /\ key = NoKey => finished
    /\ at = "migrate" => key # NoKey /\ ~finished /\ todo \subseteq E!Existing
    /\ careful =>
         /\ RowsOpenable
         /\ at = "migrate" => \A r \in SecretRows \ todo : Current(r)
         /\ at = "serve" /\ finished /\ key # NoKey => \A r \in SecretRows : Current(r)

LEMMA OpenableMore ==
    ASSUME NEW k, NEW o, NEW l, NEW p, KeysOf(k, o) \subseteq KeysOf(l, p)
    PROVE  Openable(k, o) \subseteq Openable(l, p)
  BY DEF Openable

LEMMA EncryptedOnce == ASSUME NEW k PROVE E!Encrypt(<<>>, k) = <<E!Hkdf(k)>>
  BY DEF E!Encrypt

(* What is tried.                                                              *)
Has(s, x) == \E i \in DOMAIN s : s[i] = x

LEMMA HasEither ==
    ASSUME NEW T, NEW s \in Seq(T), NEW t \in Seq(T)
    PROVE  s \o t \in Seq(T) /\ \A x : Has(s, x) \/ Has(t, x) => Has(s \o t, x)
<1>1. /\ s \o t \in Seq(T) /\ Len(s \o t) = Len(s) + Len(t)
      /\ \A i \in 1 .. Len(s) + Len(t) :
            (s \o t)[i] = IF i <= Len(s) THEN s[i] ELSE t[i - Len(s)]
  BY ConcatProperties
<1>2. ASSUME NEW x, Has(s, x) PROVE Has(s \o t, x)
  <2>1. PICK i \in 1 .. Len(s) : s[i] = x
    BY <1>2 DEF Has
  <2> QED
    BY <1>1, <2>1 DEF Has
<1>3. ASSUME NEW x, Has(t, x) PROVE Has(s \o t, x)
  <2>1. PICK i \in 1 .. Len(t) : t[i] = x
    BY <1>3 DEF Has
  <2>2. Len(s) + i \in 1 .. Len(s \o t) /\ (s \o t)[Len(s) + i] = x
    BY <1>1, <2>1
  <2>3. DOMAIN (s \o t) = 1 .. Len(s \o t)
    BY <1>1
  <2> QED
    BY <2>2, <2>3 DEF Has
<1> QED
  BY <1>1, <1>2, <1>3

LEMMA TriedHas ==
    /\ Has(E!Tried, E!Hkdf(key)) /\ Has(E!Tried, E!Sha(key)) /\ Has(E!Tried, E!Hkdf(Empty))
    /\ old # NoKey => Has(E!Tried, E!Hkdf(old)) /\ Has(E!Tried, E!Sha(old))
<1> DEFINE T == {E!Hkdf(key), E!Sha(key), E!Hkdf(old), E!Sha(old), E!Hkdf(Empty)}
           hs == [i \in DOMAIN E!Olds |-> E!Hkdf(E!Olds[i])]
           ss == [i \in DOMAIN E!Olds |-> E!Sha(E!Olds[i])]
<1>1. /\ hs \in Seq(T) /\ ss \in Seq(T)
      /\ old # NoKey => Has(hs, E!Hkdf(old)) /\ Has(ss, E!Sha(old))
  <2>1. CASE old = NoKey
    <3>1. hs = <<>> /\ ss = <<>>
      BY <2>1 DEF E!Olds
    <3> QED
      BY <2>1, <3>1
  <2>2. CASE old # NoKey
    <3>1. hs = <<E!Hkdf(old)>> /\ ss = <<E!Sha(old)>>
      BY <2>2 DEF E!Olds
    <3> QED
      BY <2>2, <3>1 DEF Has
  <2> QED
    BY <2>1, <2>2
<1>2. \A x \in T : <<x>> \in Seq(T) /\ Has(<<x>>, x)
  BY DEF Has
<1> DEFINE a == <<E!Hkdf(key)>>
           b == <<E!Sha(key)>>
           c == <<E!Hkdf(Empty)>>
<1>3. E!Tried = a \o hs \o b \o ss \o c
  BY DEF E!Tried
<1>4. a \in Seq(T) /\ b \in Seq(T) /\ c \in Seq(T)
      /\ Has(a, E!Hkdf(key)) /\ Has(b, E!Sha(key)) /\ Has(c, E!Hkdf(Empty))
  BY <1>2
<1> HIDE DEF T, hs, ss, a, b, c
<1>5. a \o hs \in Seq(T) /\ \A x : Has(a, x) \/ Has(hs, x) => Has(a \o hs, x)
  BY <1>1, <1>4, HasEither
<1>6. a \o hs \o b \in Seq(T) /\ \A x : Has(a \o hs, x) \/ Has(b, x) => Has(a \o hs \o b, x)
  BY <1>4, <1>5, HasEither
<1>7. /\ a \o hs \o b \o ss \in Seq(T)
      /\ \A x : Has(a \o hs \o b, x) \/ Has(ss, x) => Has(a \o hs \o b \o ss, x)
  BY <1>1, <1>6, HasEither
<1>8. \A x : Has(a \o hs \o b \o ss, x) \/ Has(c, x) => Has(E!Tried, x)
  BY <1>3, <1>4, <1>7, HasEither
<1> QED
  BY <1>1, <1>4, <1>5, <1>6, <1>7, <1>8

(* So whatever the two keys left is re-encrypted under the first, once.        *)
LEMMA MigratedIsCurrent ==
    ASSUME key # NoKey, NEW v \in Openable(key, old)
    PROVE  E!Migrated(v) = <<E!Hkdf(key)>>
<1>1. CASE v = <<>>
  <2>1. ~E!Under(v, E!Hkdf(key)) /\ E!Opening(v) = {}
    BY <1>1 DEF E!Under, E!Opening
  <2> QED
    BY <1>1, <2>1, EncryptedOnce DEF E!Migrated
<1>2. ASSUME NEW l, v = <<l>>,
             l \in {E!Hkdf(key), E!Hkdf(Empty), E!Sha(key)}
                   \cup (IF old = NoKey THEN {} ELSE {E!Hkdf(old), E!Sha(old)})
      PROVE  E!Migrated(v) = <<E!Hkdf(key)>>
  <2>1. v # <<>> /\ Head(v) = l /\ Tail(v) = <<>>
    BY <1>2
  <2>2. E!Opening(v) # {}
    <3>1. Has(E!Tried, l)
      BY <1>2, TriedHas
    <3> QED
      BY <2>1, <3>1 DEF Has, E!Opening, E!Under
  <2> QED
    BY <1>2, <2>1, <2>2, EncryptedOnce DEF E!Migrated, E!Under
<1> QED
  BY <1>1, <1>2 DEF Openable, KeysOf

LEMMA SecretsStart == E!Init => SecretsInv
<1> SUFFICES ASSUME E!Init PROVE SecretsInv
  OBVIOUS
<1>1. RowsOpenable
  <2> SUFFICES ASSUME NEW r \in SecretRows, secret[r] # NoRow
               PROVE  secret[r] \in Openable(key, OldNeeded)
    BY DEF RowsOpenable
  <2>1. secret[r] \in {NoRow, <<>>}
            \cup {<<l>> : l \in {E!Hkdf(k) : k \in {Empty, key} \ {NoKey}}
                               \cup {E!Sha(k) : k \in {key} \ {NoKey}}}
    BY DEF E!Init
  <2> QED
    BY <2>1 DEF E!Init, Openable, KeysOf, OldNeeded
<1> QED
  BY <1>1 DEF E!Init, SecretsInv

LEMMA SecretsBoot ==
    ASSUME SecretsInv, NEW k, NEW o, E!Boot(k, o) PROVE SecretsInv'
<1>1. /\ at = "down" /\ key' = k /\ old' = o /\ secret' = secret
      /\ careful' = (careful /\ E!ByTheRule(k, o))
      /\ at' = IF k = NoKey THEN "serve" ELSE "migrate"
      /\ todo' = IF k = NoKey THEN {} ELSE E!Existing
      /\ finished' = (k = NoKey)
  BY DEF E!Boot
<1>2. ASSUME careful' PROVE RowsOpenable'
  <2>1. RowsOpenable /\ E!ByTheRule(k, o)
    BY <1>1, <1>2 DEF SecretsInv
  <2>2. KeysOf(key, OldNeeded) \subseteq KeysOf(k, IF finished' THEN NoKey ELSE o)
    BY <1>1, <2>1 DEF SecretsInv, E!ByTheRule, KeysOf, OldNeeded
  <2>3. Openable(key, OldNeeded) \subseteq Openable(key', OldNeeded')
    BY <1>1, <2>2, OpenableMore DEF OldNeeded
  <2> QED
    BY <1>1, <2>1, <2>3 DEF RowsOpenable
<1>3. k # NoKey => \A r \in SecretRows \ todo' : Current(r)'
  BY <1>1 DEF E!Existing, Current
<1>4. /\ DOMAIN secret' = SecretRows /\ finished' \in BOOLEAN
      /\ key' = NoKey => finished'
      /\ at' = "migrate" => key' # NoKey /\ ~finished' /\ todo' \subseteq E!Existing'
  BY <1>1 DEF SecretsInv, E!Existing
<1>5. ~(at' = "serve" /\ finished' /\ key' # NoKey)
  BY <1>1
<1>6. at' = "migrate" => \A r \in SecretRows \ todo' : Current(r)'
  BY <1>1, <1>3
<1> QED
  BY <1>2, <1>4, <1>5, <1>6 DEF SecretsInv

LEMMA SecretsMigrate ==
    ASSUME SecretsInv, NEW r \in SecretRows, E!MigrateRow(r) PROVE SecretsInv'
<1>1. /\ at = "migrate" /\ r \in todo /\ secret' = [secret EXCEPT ![r] = E!Migrated(secret[r])]
      /\ todo' = todo \ {r}
      /\ key' = key /\ old' = old /\ at' = at /\ finished' = finished /\ careful' = careful
  BY DEF E!MigrateRow
<1>2. DOMAIN secret' = SecretRows /\ secret'[r] = E!Migrated(secret[r])
      /\ \A q \in SecretRows \ {r} : secret'[q] = secret[q]
  BY <1>1 DEF SecretsInv
<1>3. careful => secret'[r] = <<E!Hkdf(key)>>
  BY <1>1, <1>2, MigratedIsCurrent DEF SecretsInv, RowsOpenable, OldNeeded, E!Existing
<1>4. <<E!Hkdf(key)>> \in Openable(key, OldNeeded)
  BY <1>1 DEF Openable, KeysOf, SecretsInv
<1>5. careful => RowsOpenable'
  <2> SUFFICES ASSUME careful, NEW q \in SecretRows, secret'[q] # NoRow
               PROVE  secret'[q] \in Openable(key, OldNeeded)
    BY <1>1 DEF RowsOpenable, OldNeeded
  <2> QED
    BY <1>2, <1>3, <1>4 DEF SecretsInv, RowsOpenable
<1>6. careful => \A q \in SecretRows \ todo' : Current(q)'
  BY <1>1, <1>2, <1>3 DEF SecretsInv, Current
<1>7. todo' \subseteq E!Existing'
  BY <1>1, <1>2 DEF SecretsInv, E!Existing
<1> QED
  BY <1>1, <1>2, <1>5, <1>6, <1>7 DEF SecretsInv

LEMMA SecretsSave ==
    ASSUME SecretsInv, NEW r \in SecretRows, E!SaveSecret(r) PROVE SecretsInv'
<1>1. /\ at = "serve"
      /\ secret' = [secret EXCEPT ![r] = IF key = NoKey THEN <<>> ELSE E!Encrypt(<<>>, key)]
      /\ UNCHANGED <<key, old, at, todo, finished, careful, boots>>
  BY DEF E!SaveSecret
<1>2. DOMAIN secret' = SecretRows /\ \A q \in SecretRows \ {r} : secret'[q] = secret[q]
  BY <1>1 DEF SecretsInv
<1>3. secret'[r] = IF key = NoKey THEN <<>> ELSE <<E!Hkdf(key)>>
  BY <1>1, EncryptedOnce DEF SecretsInv
<1>4. secret'[r] \in Openable(key, OldNeeded)
  BY <1>3 DEF Openable, KeysOf
<1>5. careful => RowsOpenable'
  <2> SUFFICES ASSUME careful, NEW q \in SecretRows, secret'[q] # NoRow
               PROVE  secret'[q] \in Openable(key, OldNeeded)
    BY <1>1 DEF RowsOpenable, OldNeeded
  <2> QED
    BY <1>2, <1>4 DEF SecretsInv, RowsOpenable
<1>6. careful /\ finished /\ key # NoKey => \A q \in SecretRows : Current(q)'
  BY <1>1, <1>2, <1>3 DEF SecretsInv, Current
<1> QED
  BY <1>1, <1>2, <1>5, <1>6 DEF SecretsInv

LEMMA SecretsStep == SecretsInv /\ [E!Next]_secrets => SecretsInv'
<1> SUFFICES ASSUME SecretsInv, [E!Next]_secrets PROVE SecretsInv'
  OBVIOUS
<1>1. CASE UNCHANGED secrets
  BY <1>1 DEF secrets, SecretsInv, RowsOpenable, OldNeeded, Current, E!Existing
<1>2. CASE E!MigrationDone
  <2>1. /\ at = "migrate" /\ todo = {} /\ at' = "serve" /\ finished' = TRUE
        /\ UNCHANGED <<secret, key, old, todo, careful, boots>>
    BY <1>2 DEF E!MigrationDone
  <2>2. careful => \A r \in SecretRows : Current(r) /\ Current(r)'
    BY <2>1 DEF SecretsInv, Current
  <2>3. <<E!Hkdf(key)>> \in Openable(key, NoKey)
    BY <2>1 DEF SecretsInv, Openable, KeysOf
  <2>4. careful => RowsOpenable'
    BY <2>1, <2>2, <2>3 DEF RowsOpenable, OldNeeded, Current
  <2> QED
    BY <2>1, <2>2, <2>4 DEF SecretsInv
<1>3. CASE E!MigrationFails
  BY <1>3 DEF E!MigrationFails, SecretsInv, RowsOpenable, OldNeeded
<1>4. CASE E!Stop
  BY <1>4 DEF E!Stop, SecretsInv, RowsOpenable, OldNeeded
<1> QED
  BY <1>1, <1>2, <1>3, <1>4, SecretsBoot, SecretsMigrate, SecretsSave DEF E!Next

LEMMA SecretsSafe == SecretsInv => E!SecretsReadBack
  BY DEF SecretsInv, Current, E!SecretsReadBack, E!Existing, E!Reads

-----------------------------------------------------------------------------
(* Containers.                                                                 *)

StartPlaces == {"new", "probe", "dead", "inspect", "look", "remove", "create", "start",
                "store", "book", "done"}
NoUid == {"new", "probe", "dead", "inspect", "done"}
StopPlaces == {"new", "stop", "cleanup", "unload", "row", "done"}

StartRecs == [at : StartPlaces, model : Models \cup {NoModel}, todo : SUBSET Models,
              used : SUBSET Uids, uid : Uids \cup {NoBox}, beside : SUBSET Models]
StopRecs == [at : StopPlaces, model : Models \cup {NoModel}, delete : BOOLEAN, excuse : BOOLEAN]
BoxRecs == [uid : Uids, state : {"created", "running", "exited"},
            beside : SUBSET Models]

FleetTypes ==
    /\ row \in [Models -> {"gone", "idle", "loaded"}]
    /\ box \in [Models -> BoxRecs \cup {NoBox}]
    /\ start \in [F!Starters -> StartRecs]
    /\ stop \in [Stops -> StopRecs]
    /\ \A s \in F!Starters : start[s].at \in {"new", "done"} <=> start[s].model = NoModel
    /\ \A s \in F!Starters : start[s].at \in NoUid \/ start[s].uid \in Uids
    /\ \A d \in Stops : stop[d].at \in {"new", "done"} <=> stop[d].model = NoModel
    /\ stored \in [Models -> Uids \cup {NoBox}] /\ cut \subseteq Models

(* Two starts of different models that are under way know of each other.       *)
KnowEachOther ==
    \A s, t \in F!Starters :
        F!Launching(s) /\ F!Launching(t) /\ start[s].model # start[t].model
            => start[t].model \in start[s].beside

(* A start is apart from a container when its UID cannot be taken for a free   *)
(* one, or one of the two was started beside the other.                        *)
Beside(s, n) == n \in start[s].beside \/ start[s].model \in box[n].beside

ApartFrom(s, n) ==
    /\ start[s].at = "inspect"
          => n \in start[s].todo \/ box[n].uid \in start[s].used \/ Beside(s, n)
    /\ start[s].at \in {"look", "remove", "create"}
          => box[n].uid # start[s].uid \/ Beside(s, n)

StartsApart ==
    \A s \in F!Starters : \A n \in F!Boxes : n # start[s].model => ApartFrom(s, n)

UidsInv == KnowEachOther /\ StartsApart /\ F!UidsApart

LEMMA AStart == \A s \in Starts : s \in F!Starters /\ s # Supervisor
  BY StoreAssumption DEF F!Starters

LEMMA TheSupervisor == Supervisor \in F!Starters
  BY DEF F!Starters

LEMMA NewStart ==
    /\ F!NoStart \in StartRecs /\ F!NoStart.at = "new" /\ F!NoStart.model = NoModel
    /\ F!Started \in StartRecs /\ F!Started.at = "done" /\ F!Started.model = NoModel
    /\ F!NoStop \in StopRecs /\ F!NoStop.at = "new" /\ F!NoStop.model = NoModel
    /\ F!Stopped \in StopRecs /\ F!Stopped.at = "done" /\ F!Stopped.model = NoModel
  BY DEF F!NoStart, F!Started, F!NoStop, F!Stopped, StartRecs, StopRecs, StartPlaces, StopPlaces

LEMMA OverStart ==
    ASSUME NEW s
    PROVE  F!Over(s) \in StartRecs /\ F!Over(s).at \in {"new", "done"} /\ F!Over(s).model = NoModel
  BY NewStart DEF F!Over

(* The step of a start, or of a stop, changes no other.                        *)
StartTurn(s) ==
    /\ start' \in [F!Starters -> StartRecs]
    /\ \A t \in F!Starters \ {s} : start'[t] = start[t]
    /\ start'[s].at \in {"new", "done"} <=> start'[s].model = NoModel
    /\ start'[s].at \in NoUid \/ start'[s].uid \in Uids

Goes(s, p) ==
    /\ StartTurn(s) /\ start'[s].at = p
    /\ start'[s].model = start[s].model /\ start'[s].todo = start[s].todo
    /\ start'[s].used = start[s].used /\ start'[s].uid = start[s].uid
    /\ start'[s].beside = start[s].beside

Ends(s) == StartTurn(s) /\ start'[s].at \in {"new", "done"} /\ start'[s].model = NoModel

LEMMA StartGoesOn ==
    ASSUME FleetTypes, NEW s \in F!Starters, NEW p \in StartPlaces \ {"new", "done"},
           start[s].at \notin {"new", "done"}, p = "dead" \/ start[s].at \notin NoUid,
           F!GoOn(s, p)
    PROVE  Goes(s, p)
<1> DEFINE j == [start[s] EXCEPT !.at = p]
<1>1. start[s] \in StartRecs /\ start' = [start EXCEPT ![s] = j]
  BY DEF FleetTypes, F!GoOn
<1>2. /\ j \in StartRecs /\ j.at = p /\ j.model = start[s].model /\ j.todo = start[s].todo
      /\ j.used = start[s].used /\ j.uid = start[s].uid /\ j.beside = start[s].beside
  BY <1>1 DEF StartRecs
<1> HIDE DEF j
<1> QED
  BY <1>1, <1>2 DEF FleetTypes, StartTurn, Goes, NoUid

LEMMA StartHasEnded ==
    ASSUME FleetTypes, NEW s \in F!Starters, F!StartEnds(s) PROVE Ends(s)
  BY OverStart DEF FleetTypes, F!StartEnds, StartTurn, Ends, NoUid

(* What most steps leave of a start, and of a container, for UidsInv.          *)
StartKeeps(t) ==
    \/ start'[t].at \in {"new", "probe", "dead", "done"}
    \/ /\ F!Launching(t)
       /\ start'[t].model = start[t].model /\ start[t].beside \subseteq start'[t].beside
       /\ start'[t].at = "inspect" =>
             /\ start[t].at = "inspect"
             /\ start'[t].todo = start[t].todo /\ start'[t].used = start[t].used
       /\ start'[t].at \in {"look", "remove", "create"} =>
             start[t].at \in {"look", "remove", "create"} /\ start'[t].uid = start[t].uid

BoxKept(n) ==
    n \in F!Boxes' =>
        n \in F!Boxes /\ box'[n].uid = box[n].uid /\ box'[n].beside = box[n].beside

LEMMA UidsKept ==
    ASSUME FleetTypes, FleetTypes', UidsInv, \A t \in F!Starters : StartKeeps(t),
           \A n \in Models : BoxKept(n)
    PROVE  UidsInv'
<1>1. \A n \in F!Boxes' : n \in Models /\ n \in F!Boxes /\ box'[n].uid = box[n].uid
                          /\ box'[n].beside = box[n].beside
  BY DEF BoxKept, F!Boxes
<1>2. KnowEachOther'
  BY DEF UidsInv, KnowEachOther, F!Launching, StartKeeps
<1>3. StartsApart'
  <2> SUFFICES ASSUME NEW s \in F!Starters, NEW n \in F!Boxes', n # start'[s].model
               PROVE  ApartFrom(s, n)'
    BY DEF StartsApart
  <2>1. CASE start'[s].at \in {"new", "probe", "dead", "done"}
    BY <2>1 DEF ApartFrom
  <2>2. CASE start'[s].at \notin {"new", "probe", "dead", "done"}
    <3>1. ApartFrom(s, n)
      BY <1>1, <2>2 DEF UidsInv, StartsApart, StartKeeps
    <3> QED
      BY <1>1, <2>2, <3>1 DEF StartKeeps, ApartFrom, Beside
  <2> QED
    BY <2>1, <2>2
<1>4. F!UidsApart'
  BY <1>1 DEF UidsInv, F!UidsApart
<1> QED
  BY <1>2, <1>3, <1>4 DEF UidsInv

(* A start that goes on beyond the choice of its UID, or ends.                 *)
LEMMA StartKept ==
    ASSUME NEW s \in F!Starters,
           \/ Ends(s)
           \/ \E p \in {"remove", "create"} : Goes(s, p) /\ start[s].at \in {"look", "remove"}
           \/ \E p \in {"start", "store", "book"} : Goes(s, p) /\ F!Launching(s)
           \/ Goes(s, "dead")
    PROVE  \A t \in F!Starters : StartKeeps(t)
  BY DEF Ends, Goes, StartTurn, StartKeeps, F!Launching

LEMMA BoxGone ==
    ASSUME FleetTypes, NEW m \in Models, box' = [box EXCEPT ![m] = NoBox]
    PROVE  /\ box' \in [Models -> BoxRecs \cup {NoBox}]
           /\ m \notin F!Boxes' /\ \A n \in Models : BoxKept(n)
  BY DEF FleetTypes, BoxKept, F!Boxes

LEMMA BoxMarked ==
    ASSUME FleetTypes, NEW m \in F!Boxes, NEW v \in {"created", "running", "exited"},
           box' = [box EXCEPT ![m].state = v]
    PROVE  /\ box' \in [Models -> BoxRecs \cup {NoBox}]
           /\ \A n \in Models : BoxKept(n)
<1> DEFINE b == [box[m] EXCEPT !.state = v]
<1>1. m \in Models /\ box[m] \in BoxRecs /\ box' = [box EXCEPT ![m] = b]
  BY DEF FleetTypes, F!Boxes
<1>2. b \in BoxRecs /\ b.uid = box[m].uid /\ b.beside = box[m].beside
  BY <1>1 DEF BoxRecs
<1> HIDE DEF b
<1> QED
  BY <1>1, <1>2 DEF FleetTypes, BoxKept, F!Boxes

LEMMA BoxSame == ASSUME box' = box PROVE \A n \in Models : BoxKept(n)
  BY DEF BoxKept, F!Boxes

(* The keys.                                                                   *)
StoredTyped == stored' \in [Models -> Uids \cup {NoBox}]

LEMMA KeyPut ==
    ASSUME FleetTypes, NEW m \in Models, NEW u \in Uids, stored' = [stored EXCEPT ![m] = u]
    PROVE  StoredTyped /\ F!Keyed' = F!Keyed \cup {m}
  BY StoreAssumption DEF FleetTypes, StoredTyped, F!Keyed

LEMMA KeyDropped ==
    ASSUME FleetTypes, NEW m \in Models, stored' = [stored EXCEPT ![m] = NoBox]
    PROVE  StoredTyped /\ F!Keyed' = F!Keyed \ {m}
  BY DEF FleetTypes, StoredTyped, F!Keyed

LEMMA KeysSame ==
    ASSUME FleetTypes, stored' = stored PROVE StoredTyped /\ F!Keyed' = F!Keyed
  BY DEF FleetTypes, StoredTyped, F!Keyed

(* The shapes of the steps.                                                    *)
LEMMA Afterwards ==
    ASSUME NEW s
    PROVE  /\ F!AfterLaunch(s) \in {"store", "book"}
           /\ F!AfterLaunch(s) = "book" => s = Supervisor
  BY DEF F!AfterLaunch

LEMMA LookShape ==
    ASSUME FleetTypes, NEW s \in F!Starters, F!LookForBox(s)
    PROVE  /\ start[s].at = "look"
           /\ \E p \in {F!AfterLaunch(s), "remove", "create"} : Goes(s, p)
           /\ UNCHANGED <<row, box, stop, excused, stored, cut>>
<1>1. start[s].at = "look" /\ UNCHANGED <<row, box, stop, excused, stored, cut>>
  BY DEF F!LookForBox, F!keys
<1>2. \E p \in {F!AfterLaunch(s), "remove", "create"} : F!GoOn(s, p)
  BY DEF F!LookForBox
<1> QED
  BY <1>1, <1>2, StartGoesOn, Afterwards DEF StartPlaces, NoUid

LEMMA RemoveShape ==
    ASSUME FleetTypes, NEW s \in F!Starters, F!RemoveStopped(s)
    PROVE  /\ start[s].at = "remove" /\ (Goes(s, "create") \/ Ends(s))
           /\ box' = box \/ box' = [box EXCEPT ![start[s].model] = NoBox]
           /\ UNCHANGED <<row, stop, excused, stored, cut>>
  BY StartGoesOn, StartHasEnded DEF F!RemoveStopped, F!keys, StartPlaces, NoUid

Creates(s) ==
    LET m == start[s].model
    IN  /\ m \notin F!Boxes
        /\ box' = [box EXCEPT ![m] = [uid |-> start[s].uid, state |-> "created",
                                      beside |-> start[s].beside]]

LEMMA CreateShape ==
    ASSUME FleetTypes, NEW s \in F!Starters, F!CreateBox(s)
    PROVE  /\ start[s].at = "create"
           /\ (Goes(s, "start") /\ Creates(s)) \/ (Ends(s) /\ box' = box)
           /\ UNCHANGED <<row, stop, excused, stored, cut>>
  BY StartGoesOn, StartHasEnded DEF F!CreateBox, F!keys, StartPlaces, NoUid, Creates

LEMMA StartBoxShape ==
    ASSUME FleetTypes, NEW s \in F!Starters, F!StartBox(s)
    PROVE  /\ start[s].at = "start"
           /\ Goes(s, F!AfterLaunch(s)) \/ Ends(s)
           /\ \/ box' = box
              \/ box' = [box EXCEPT ![start[s].model] = NoBox]
              \/ /\ start[s].model \in F!Boxes
                 /\ box' = [box EXCEPT ![start[s].model].state = "running"]
           /\ UNCHANGED <<row, stop, excused, stored, cut>>
  BY StartGoesOn, StartHasEnded, Afterwards DEF F!StartBox, F!keys, StartPlaces, NoUid

LEMMA StoreShape ==
    ASSUME FleetTypes, NEW s \in F!Starters, F!StoreKey(s)
    PROVE  /\ start[s].at = "store" /\ Goes(s, "book")
           /\ LET m == start[s].model
              IN  \/ /\ StoredTyped /\ F!Keyed' = F!Keyed \cup {m}
                     /\ cut' = cut \ {m}
                  \/ row[m] = "gone" /\ UNCHANGED <<stored, cut>>
                  \/ cut' = (IF m \in F!Keyed THEN cut ELSE cut \cup {m}) /\ stored' = stored
           /\ UNCHANGED <<row, box, stop, excused>>
<1> DEFINE m == start[s].model
<1>1. /\ start[s].at = "store" /\ F!GoOn(s, "book")
      /\ UNCHANGED <<row, box, stop, excused>>
      /\ \/ stored' = [stored EXCEPT ![m] = start[s].uid] /\ cut' = cut \ {m}
         \/ row[m] = "gone" /\ UNCHANGED <<stored, cut>>
         \/ cut' = (IF m \in F!Keyed THEN cut ELSE cut \cup {m}) /\ stored' = stored
  BY DEF F!StoreKey, F!keys
<1>2. Goes(s, "book") /\ start[s].uid \in Uids /\ m \in Models
  <2>1. start[s].at \notin {"new", "done"} /\ start[s].at \notin NoUid
    BY <1>1 DEF NoUid
  <2>2. start[s].uid \in Uids /\ m \in Models
    BY <2>1 DEF FleetTypes, StartRecs
  <2> QED
    BY <1>1, <2>1, <2>2, StartGoesOn DEF StartPlaces
<1>3. ASSUME stored' = [stored EXCEPT ![m] = start[s].uid]
      PROVE  StoredTyped /\ F!Keyed' = F!Keyed \cup {m}
  BY <1>2, <1>3, KeyPut
<1> QED
  BY <1>1, <1>2, <1>3

LEMMA BookShape ==
    ASSUME FleetTypes, NEW s \in F!Starters, F!Book(s)
    PROVE  /\ start[s].at = "book" /\ Ends(s)
           /\ row' = F!Marked(start[s].model, "loaded") \/ row' = row
           /\ UNCHANGED <<box, stop, excused, stored, cut>>
  BY StartHasEnded DEF F!Book, F!keys

(* A start, or a restart, of m begins to run beside the others.                *)
Joins(s, m) ==
    /\ ~F!Launching(s) /\ F!Launching(s)' /\ row[m] # "gone" /\ start' \in [F!Starters -> StartRecs]
    /\ start'[s].model = m /\ m # NoModel
    /\ start'[s].at \in NoUid \/ start'[s].uid \in Uids
    /\ F!Others(m) \subseteq start'[s].beside
    /\ \A t \in F!Starters \ {s} :
          /\ start'[t].at = start[t].at /\ start'[t].model = start[t].model
          /\ start'[t].todo = start[t].todo /\ start'[t].used = start[t].used
          /\ start'[t].uid = start[t].uid
          /\ start'[t].beside = IF ~F!Launching(t) \/ start[t].model = m THEN start[t].beside
                                ELSE start[t].beside \cup {m}
    /\ stop' \in [Stops -> StopRecs]
    /\ \A d \in Stops :
          /\ stop'[d].at = stop[d].at /\ stop'[d].model = stop[d].model
          /\ stop'[d].excuse = (stop[d].excuse \/ stop[d].model = m)
    /\ UNCHANGED <<row, box, excused, stored, cut>>

LEMMA JoinShape ==
    ASSUME FleetTypes, NoModel \notin Models, NEW s \in F!Starters, NEW m \in Models, NEW j \in StartRecs,
           ~F!Launching(s), j.at \in StartPlaces \ {"new", "probe", "dead", "done"}, j.model = m,
           j.at \in NoUid \/ j.uid \in Uids, F!Others(m) \subseteq j.beside,
           row[m] # "gone", F!Launches(s, m, j), UNCHANGED <<row, box, excused, stored, cut>>
    PROVE  Joins(s, m) /\ start'[s] = j
<1>1. /\ start' = [t \in F!Starters |->
                     IF t = s THEN j
                     ELSE IF ~F!Launching(t) \/ start[t].model = m THEN start[t]
                     ELSE [start[t] EXCEPT !.beside = @ \cup {m}]]
      /\ stop' = [d \in Stops |-> [stop[d] EXCEPT !.excuse = @ \/ stop[d].model = m]]
  BY DEF F!Launches
<1>5. ASSUME NEW t \in F!Starters \ {s}
      PROVE  /\ start'[t] \in StartRecs
             /\ start'[t].at = start[t].at /\ start'[t].model = start[t].model
             /\ start'[t].todo = start[t].todo /\ start'[t].used = start[t].used
             /\ start'[t].uid = start[t].uid
             /\ start'[t].beside = IF ~F!Launching(t) \/ start[t].model = m THEN start[t].beside
                                   ELSE start[t].beside \cup {m}
  <2>1. start[t] \in StartRecs
    BY DEF FleetTypes
  <2>2. CASE ~F!Launching(t) \/ start[t].model = m
    BY <1>1, <2>1, <2>2
  <2>3. CASE ~(~F!Launching(t) \/ start[t].model = m)
    <3>1. start'[t] = [start[t] EXCEPT !.beside = @ \cup {m}]
      BY <1>1, <2>3
    <3> QED
      BY <2>1, <2>3, <3>1 DEF StartRecs
  <2> QED
    BY <2>2, <2>3
<1>6. start' \in [F!Starters -> StartRecs] /\ start'[s] = j
  BY <1>1, <1>5
<1>7. ASSUME NEW d \in Stops
      PROVE  /\ stop'[d] \in StopRecs
             /\ stop'[d].at = stop[d].at /\ stop'[d].model = stop[d].model
             /\ stop'[d].excuse = (stop[d].excuse \/ stop[d].model = m)
  BY <1>1 DEF FleetTypes, StopRecs
<1>8. stop' \in [Stops -> StopRecs]
  BY <1>1, <1>7
<1>9. F!Launching(s)'
  BY <1>6 DEF F!Launching
<1> QED
  BY <1>5, <1>6, <1>7, <1>8, <1>9 DEF Joins

LEMMA OthersAreModels == ASSUME FleetTypes, NEW m PROVE F!Others(m) \subseteq Models
<1>1. \A u \in F!Starters : F!Launching(u) => start[u].model \in Models
  BY DEF FleetTypes, StartRecs, F!Launching
<1> QED
  BY <1>1 DEF F!Others

(* The record of a new start, by its fields.                                   *)
LEMMA BeginShape ==
    ASSUME FleetTypes, NoModel \notin Models, NEW s \in F!Starters, NEW m \in Models, F!StartBegin(s, m)
    PROVE  Joins(s, m) /\ start'[s].at = "inspect" /\ start'[s].todo = F!Boxes
<1> DEFINE b == F!Others(m)
           x == F!Boxes
           j == [F!NoStart EXCEPT !.at = "inspect", !.model = m, !.todo = x, !.beside = b]
<1>1. /\ start[s].at = "new" /\ row[m] # "gone" /\ F!Launches(s, m, j)
      /\ UNCHANGED <<row, box, excused, stored, cut>>
  BY DEF F!StartBegin, F!keys
<1>2. b \subseteq Models /\ x \subseteq Models
  BY OthersAreModels DEF F!Boxes
<1>4. /\ j \in StartRecs /\ j.at = "inspect" /\ j.model = m /\ j.todo = x /\ j.beside = b
  <2> HIDE DEF b, x
  <2> QED
    BY <1>2, NewStart DEF StartRecs, StartPlaces
<1> HIDE DEF b, x, j
<1>5. ~F!Launching(s) /\ j.at \in NoUid /\ j.at \in StartPlaces \ {"new", "probe", "dead", "done"}
  BY <1>1, <1>4 DEF F!Launching, NoUid, StartPlaces
<1>6. F!Others(m) \subseteq j.beside
  BY <1>4 DEF b
<1>7. Joins(s, m) /\ start'[s] = j
  BY <1>1, <1>4, <1>5, <1>6, JoinShape
<1> QED
  BY <1>4, <1>7 DEF x

LEMMA ReviveShape ==
    ASSUME FleetTypes, NoModel \notin Models, F!Revive
    PROVE  \E m \in Models :
              /\ m \in F!Keyed /\ Joins(Supervisor, m)
              /\ start'[Supervisor].at = "look" /\ start'[Supervisor].uid = stored[m]
              /\ start'[Supervisor].beside = IF m \in F!Boxes /\ box[m].uid = stored[m]
                                             THEN box[m].beside \cup F!Others(m) ELSE Models \ {m}
<1> DEFINE m == start[Supervisor].model
           u == stored[m]
           b == IF m \in F!Boxes /\ box[m].uid = u THEN box[m].beside \cup F!Others(m) ELSE Models \ {m}
           j == [F!NoStart EXCEPT !.at = "look", !.model = m, !.uid = u, !.beside = b]
<1>1. /\ start[Supervisor].at = "dead" /\ row[m] # "gone" /\ m \in F!Keyed
      /\ F!Launches(Supervisor, m, j)
      /\ UNCHANGED <<row, box, excused, stored, cut>>
  BY DEF F!Revive, F!keys
<1>2. m \in Models /\ u \in Uids
  BY <1>1 DEF F!Keyed, FleetTypes
<1>3. F!Others(m) \subseteq Models /\ F!Others(m) \subseteq Models \ {m}
  BY OthersAreModels DEF F!Others
<1>4. m \in F!Boxes => box[m].beside \subseteq Models
  BY <1>2 DEF FleetTypes, F!Boxes, BoxRecs
<1>5. b \subseteq Models /\ F!Others(m) \subseteq b
  BY <1>3, <1>4
<1> HIDE DEF b, u, m
<1>7. /\ j \in StartRecs /\ j.at = "look" /\ j.model = m /\ j.uid = u /\ j.beside = b
  BY <1>2, <1>5, NewStart DEF StartRecs, StartPlaces
<1> HIDE DEF j
<1>8. ~F!Launching(Supervisor) /\ j.at \in StartPlaces \ {"new", "probe", "dead", "done"}
  BY <1>1, <1>7 DEF F!Launching, StartPlaces
<1>9. Joins(Supervisor, m) /\ start'[Supervisor] = j
  BY <1>1, <1>2, <1>5, <1>7, <1>8, TheSupervisor, JoinShape
<1> QED
  BY <1>1, <1>2, <1>7, <1>9 DEF b, u

LEMMA InspectShape ==
    ASSUME FleetTypes, NEW s \in F!Starters, F!InspectUid(s)
    PROVE  /\ start[s].at = "inspect" /\ StartTurn(s)
           /\ start'[s].at = "inspect" /\ start'[s].model = start[s].model
           /\ \E x \in Models :
                 /\ start'[s].todo = start[s].todo \ {x}
                 /\ \/ /\ x \in F!Boxes /\ start'[s].used = start[s].used \cup {box[x].uid}
                       /\ start'[s].beside = start[s].beside
                    \/ /\ start'[s].used = start[s].used
                       /\ start'[s].beside = start[s].beside \cup ({x} \ {start[s].model})
                    \/ /\ x \notin F!Boxes /\ start'[s].used = start[s].used
                       /\ start'[s].beside = start[s].beside
           /\ UNCHANGED <<row, box, stop, excused, stored, cut>>
<1>1. start[s].at = "inspect" /\ UNCHANGED <<row, box, stop, excused, stored, cut>>
  BY DEF F!InspectUid, F!keys
<1>2. start[s] \in StartRecs /\ start[s].model # NoModel /\ start[s].model \in Models
      /\ start[s].todo \subseteq Models /\ start[s].used \subseteq Uids
      /\ start[s].beside \subseteq Models
  BY <1>1 DEF FleetTypes, StartRecs
<1>3. PICK x \in start[s].todo :
         \/ /\ x \in F!Boxes
            /\ start' = [start EXCEPT ![s].todo = @ \ {x}, ![s].used = @ \cup {box[x].uid}]
         \/ /\ x \in F!Boxes
            /\ start' = [start EXCEPT ![s].todo = @ \ {x},
                                      ![s].beside = @ \cup ({x} \ {start[s].model})]
         \/ x \notin F!Boxes /\ start' = [start EXCEPT ![s].todo = @ \ {x}]
  BY DEF F!InspectUid
<1>4. x \in Models /\ (x \in F!Boxes => box[x].uid \in Uids)
  BY <1>2 DEF FleetTypes, F!Boxes, BoxRecs
<1> DEFINE v == box[x].uid
           b == {x} \ {start[s].model}
<1>5. b \subseteq Models
  BY <1>4
<1>6. ASSUME NEW j, start' = [start EXCEPT ![s] = j], j \in StartRecs, j.at = "inspect",
             j.model = start[s].model
      PROVE  StartTurn(s) /\ start'[s] = j
  <2>1. start \in [F!Starters -> StartRecs] /\ start[s].at = "inspect"
    BY <1>1 DEF FleetTypes
  <2>2. start' \in [F!Starters -> StartRecs] /\ start'[s] = j
        /\ \A t \in F!Starters \ {s} : start'[t] = start[t]
    BY <1>6, <2>1
  <2> QED
    BY <1>2, <1>6, <2>2 DEF StartTurn, NoUid
<1> HIDE DEF v, b
<1>7. CASE x \in F!Boxes /\ start' = [start EXCEPT ![s].todo = @ \ {x}, ![s].used = @ \cup {v}]
  <2> DEFINE j == [start[s] EXCEPT !.todo = @ \ {x}, !.used = @ \cup {v}]
  <2>1. start' = [start EXCEPT ![s] = j]
    BY <1>7
  <2>2. /\ j \in StartRecs /\ j.at = start[s].at /\ j.model = start[s].model
        /\ j.todo = start[s].todo \ {x} /\ j.used = start[s].used \cup {v}
        /\ j.beside = start[s].beside
    BY <1>2, <1>4, <1>7 DEF StartRecs, v
  <2> HIDE DEF j
  <2> QED
    BY <1>1, <1>4, <1>6, <1>7, <2>1, <2>2 DEF v
<1>8. CASE start' = [start EXCEPT ![s].todo = @ \ {x}, ![s].beside = @ \cup b]
  <2> DEFINE j == [start[s] EXCEPT !.todo = @ \ {x}, !.beside = @ \cup b]
  <2>1. start' = [start EXCEPT ![s] = j]
    BY <1>8
  <2>2. /\ j \in StartRecs /\ j.at = start[s].at /\ j.model = start[s].model
        /\ j.todo = start[s].todo \ {x} /\ j.used = start[s].used
        /\ j.beside = start[s].beside \cup b
    BY <1>2, <1>5 DEF StartRecs
  <2> HIDE DEF j
  <2> QED
    BY <1>1, <1>4, <1>6, <2>1, <2>2 DEF b
<1>9. CASE x \notin F!Boxes /\ start' = [start EXCEPT ![s].todo = @ \ {x}]
  <2> DEFINE j == [start[s] EXCEPT !.todo = @ \ {x}]
  <2>1. start' = [start EXCEPT ![s] = j]
    BY <1>9
  <2>2. /\ j \in StartRecs /\ j.at = start[s].at /\ j.model = start[s].model
        /\ j.todo = start[s].todo \ {x} /\ j.used = start[s].used
        /\ j.beside = start[s].beside
    BY <1>2 DEF StartRecs
  <2> HIDE DEF j
  <2> QED
    BY <1>1, <1>4, <1>6, <1>9, <2>1, <2>2
<1> QED
  BY <1>3, <1>7, <1>8, <1>9 DEF v, b

LEMMA PickShape ==
    ASSUME FleetTypes, NEW s \in F!Starters, F!PickUid(s)
    PROVE  /\ start[s].at = "inspect" /\ start[s].todo = {}
           /\ \/ /\ StartTurn(s) /\ start'[s].at = "look" /\ start'[s].model = start[s].model
                 /\ start'[s].uid \notin start[s].used /\ start'[s].beside = start[s].beside
              \/ Ends(s)
           /\ UNCHANGED <<row, box, stop, excused, stored, cut>>
<1>1. /\ start[s].at = "inspect" /\ start[s].todo = {}
      /\ UNCHANGED <<row, box, stop, excused, stored, cut>>
  BY DEF F!PickUid, F!keys
<1>2. start[s] \in StartRecs /\ start[s].model # NoModel
  BY <1>1 DEF FleetTypes
<1>3. ASSUME NEW u \in Uids \ start[s].used,
             start' = [start EXCEPT ![s].uid = u, ![s].at = "look", ![s].used = {}]
      PROVE  /\ StartTurn(s) /\ start'[s].at = "look" /\ start'[s].model = start[s].model
             /\ start'[s].uid \notin start[s].used /\ start'[s].beside = start[s].beside
  <2> DEFINE j == [start[s] EXCEPT !.uid = u, !.at = "look", !.used = {}]
  <2>1. start' = [start EXCEPT ![s] = j]
    BY <1>3
  <2>2. /\ j \in StartRecs /\ j.at = "look" /\ j.model = start[s].model /\ j.uid = u
        /\ j.beside = start[s].beside
    BY <1>2 DEF StartRecs, StartPlaces
  <2> HIDE DEF j
  <2> QED
    BY <1>2, <2>1, <2>2 DEF FleetTypes, StartTurn
<1>4. (\E u \in Uids \ start[s].used :
          start' = [start EXCEPT ![s].uid = u, ![s].at = "look", ![s].used = {}])
      \/ F!StartEnds(s)
  BY DEF F!PickUid, F!Free
<1> QED
  BY <1>1, <1>3, <1>4, StartHasEnded

(* The steps of the stops.                                                     *)
StopTurn(d) ==
    /\ stop' \in [Stops -> StopRecs]
    /\ \A e \in Stops \ {d} : stop'[e] = stop[e]
    /\ stop'[d].at \in {"new", "done"} <=> stop'[d].model = NoModel

StopGoes(d, p) ==
    /\ StopTurn(d) /\ stop'[d].at = p /\ stop'[d].model = stop[d].model
    /\ stop[d].excuse => stop'[d].excuse

StopIsOver(d) == StopTurn(d) /\ stop'[d].at = "done" /\ stop'[d].model = NoModel

LEMMA StopGoesOn ==
    ASSUME FleetTypes, NEW d \in Stops, NEW p \in StopPlaces \ {"new", "done"},
           NEW x \in {stop[d].excuse, TRUE}, stop[d].at \notin {"new", "done"},
           stop' = [stop EXCEPT ![d] = [stop[d] EXCEPT !.at = p, !.excuse = x]]
    PROVE  StopGoes(d, p) /\ stop'[d].excuse = x
<1> DEFINE j == [stop[d] EXCEPT !.at = p, !.excuse = x]
<1>1. stop[d] \in StopRecs /\ stop' = [stop EXCEPT ![d] = j]
  BY DEF FleetTypes
<1>2. j \in StopRecs /\ j.at = p /\ j.model = stop[d].model /\ j.excuse = x
  BY <1>1 DEF StopRecs
<1> HIDE DEF j
<1>3. stop \in [Stops -> StopRecs] /\ stop[d].model # NoModel
  BY DEF FleetTypes
<1>4. /\ stop' \in [Stops -> StopRecs] /\ stop'[d] = j
      /\ \A e \in Stops \ {d} : stop'[e] = stop[e]
  BY ONLY <1>1, <1>2, <1>3, d \in Stops
<1>5. stop[d].excuse => x = TRUE
  OBVIOUS
<1> QED
  BY <1>2, <1>3, <1>4, <1>5 DEF StopTurn, StopGoes

LEMMA StopPlain ==
    ASSUME FleetTypes, NEW d \in Stops, NEW p
    PROVE  [stop[d] EXCEPT !.at = p] = [stop[d] EXCEPT !.at = p, !.excuse = stop[d].excuse]
  BY DEF FleetTypes, StopRecs

LEMMA StopHasEnded ==
    ASSUME FleetTypes, NEW d \in Stops, stop' = [stop EXCEPT ![d] = F!Stopped]
    PROVE  StopIsOver(d)
  BY NewStart DEF FleetTypes, StopTurn, StopIsOver

LEMMA StopBeginShape ==
    ASSUME FleetTypes, NEW d \in Stops, NEW m \in Models, F!StopBegin(d, m), NoModel \notin Models
    PROVE  /\ stop[d].at = "new" /\ StopTurn(d) /\ stop'[d].at \in {"row", "stop"}
           /\ stop'[d].model = m
           /\ stop'[d].excuse = (F!Starting(m) \/ (row[m] # "loaded" /\ m \in F!Boxes))
           /\ stop'[d].at = "row" => row[m] # "loaded"
           /\ UNCHANGED <<row, box, start, excused, stored, cut>>
<1>1. stop[d].at = "new" /\ UNCHANGED <<row, box, start, excused, stored, cut>>
  BY DEF F!StopBegin, F!keys
<1> DEFINE x == F!Starting(m) \/ (row[m] # "loaded" /\ m \in F!Boxes)
<1>2. x \in BOOLEAN
  OBVIOUS
<1>3. PICK deletes \in BOOLEAN :
         stop' = [stop EXCEPT ![d] = [at |-> IF deletes /\ row[m] # "loaded" THEN "row" ELSE "stop",
                                      model |-> m, delete |-> deletes, excuse |-> x]]
  BY DEF F!StopBegin
<1> HIDE DEF x
<1> DEFINE p == IF deletes /\ row[m] # "loaded" THEN "row" ELSE "stop"
<1>4. p \in {"row", "stop"} /\ (p = "row" => row[m] # "loaded")
  OBVIOUS
<1>5. stop' = [stop EXCEPT ![d] = [at |-> p, model |-> m, delete |-> deletes, excuse |-> x]]
  BY <1>3
<1> HIDE DEF p
<1>6. [at |-> p, model |-> m, delete |-> deletes, excuse |-> x] \in StopRecs
  BY <1>2, <1>4 DEF StopRecs, StopPlaces
<1>7. stop' \in [Stops -> StopRecs]
      /\ stop'[d] = [at |-> p, model |-> m, delete |-> deletes, excuse |-> x]
      /\ \A e \in Stops \ {d} : stop'[e] = stop[e]
  BY <1>5, <1>6 DEF FleetTypes
<1> QED
  BY <1>1, <1>2, <1>4, <1>7 DEF StopTurn, x

LEMMA StopBoxShape ==
    ASSUME FleetTypes, NEW d \in Stops, F!StopBox(d)
    PROVE  /\ stop[d].at = "stop"
           /\ \/ box' = [box EXCEPT ![stop[d].model] = NoBox] /\ StopGoes(d, "cleanup")
              \/ /\ \/ box' = box
                    \/ /\ stop[d].model \in F!Boxes
                       /\ box' = [box EXCEPT ![stop[d].model].state = "exited"]
                 /\ (StopGoes(d, "cleanup") /\ stop'[d].excuse) \/ StopIsOver(d)
           /\ UNCHANGED <<row, start, excused, stored, cut>>
<1>1. stop[d].at = "stop" /\ UNCHANGED <<row, start, excused, stored, cut>>
  BY DEF F!StopBox, F!keys
<1>2. "cleanup" \in StopPlaces \ {"new", "done"} /\ stop[d].at \notin {"new", "done"}
  BY <1>1 DEF StopPlaces
<1>3. ASSUME stop' = [stop EXCEPT ![d].at = "cleanup"] PROVE StopGoes(d, "cleanup")
  BY <1>2, <1>3, StopPlain, StopGoesOn
<1>4. ASSUME stop' = [stop EXCEPT ![d].at = "cleanup", ![d].excuse = TRUE]
      PROVE  StopGoes(d, "cleanup") /\ stop'[d].excuse
  <2>1. stop' = [stop EXCEPT ![d] = [stop[d] EXCEPT !.at = "cleanup", !.excuse = TRUE]]
    BY <1>4
  <2> QED
    BY <1>2, <2>1, StopGoesOn
<1> QED
  BY <1>1, <1>3, <1>4, StopHasEnded DEF F!StopBox

LEMMA DropKeyShape ==
    ASSUME FleetTypes, NEW d \in Stops, F!DropKey(d)
    PROVE  /\ stop[d].at = "cleanup" /\ StopGoes(d, "unload")
           /\ LET m == stop[d].model
              IN  \/ /\ StoredTyped /\ F!Keyed' = F!Keyed \ {m}
                     /\ cut' = IF \E s \in F!Starters : F!CountsOnKey(s) /\ start[s].model = m
                               THEN cut \cup {m} ELSE cut
                  \/ UNCHANGED <<stored, cut>>
           /\ UNCHANGED <<row, box, start, excused>>
<1>1. /\ stop[d].at = "cleanup" /\ stop' = [stop EXCEPT ![d].at = "unload"]
      /\ UNCHANGED <<row, box, start, excused>>
      /\ LET m == stop[d].model
         IN  \/ /\ stored' = [stored EXCEPT ![m] = NoBox]
                /\ cut' = IF \E s \in F!Starters : F!CountsOnKey(s) /\ start[s].model = m
                          THEN cut \cup {m} ELSE cut
             \/ UNCHANGED <<stored, cut>>
  BY DEF F!DropKey, F!keys
<1>4. stop[d].model \in Models
  BY <1>1 DEF FleetTypes, StopRecs
<1>2. "unload" \in StopPlaces \ {"new", "done"}
  BY DEF StopPlaces
<1>3. StopGoes(d, "unload")
  BY <1>1, <1>2, StopPlain, StopGoesOn
<1> QED
  BY <1>1, <1>3, <1>4, KeyDropped

LEMMA UnloadShape ==
    ASSUME FleetTypes, NEW d \in Stops, F!Unload(d)
    PROVE  /\ stop[d].at = "unload" /\ (StopGoes(d, "row") \/ StopIsOver(d))
           /\ LET m == stop[d].model
              IN  \/ row' = F!Marked(m, "idle") /\ cut' = cut
                  \/ cut' = cut \cup {m} /\ row' = row
           /\ UNCHANGED <<box, start, excused, stored>>
<1>1. /\ stop[d].at = "unload" /\ UNCHANGED <<box, start, excused, stored>>
      /\ stop' = [stop EXCEPT ![d] = IF stop[d].delete THEN [stop[d] EXCEPT !.at = "row"]
                                     ELSE F!Stopped]
      /\ LET m == stop[d].model
         IN  \/ row' = F!Marked(m, "idle") /\ cut' = cut
             \/ cut' = cut \cup {m} /\ row' = row
  BY DEF F!Unload, FleetTypes
<1>2. "row" \in StopPlaces \ {"new", "done"}
  BY DEF StopPlaces
<1>3. StopGoes(d, "row") \/ StopIsOver(d)
  BY <1>1, <1>2, StopPlain, StopGoesOn, StopHasEnded
<1> QED
  BY <1>1, <1>3

LEMMA DeleteShape ==
    ASSUME FleetTypes, NEW d \in Stops, F!DeleteRow(d)
    PROVE  /\ stop[d].at = "row" /\ StopIsOver(d)
           /\ LET m == stop[d].model
              IN  \/ /\ row' = [row EXCEPT ![m] = "gone"]
                     /\ StoredTyped /\ F!Keyed' = F!Keyed \ {m}
                     /\ excused' = IF stop[d].excuse THEN excused \cup {m} ELSE excused
                  \/ UNCHANGED <<row, excused, stored>>
           /\ UNCHANGED <<box, start, cut>>
<1> DEFINE m == stop[d].model
<1>1. /\ stop[d].at = "row" /\ stop' = [stop EXCEPT ![d] = F!Stopped]
      /\ \/ /\ row' = [row EXCEPT ![m] = "gone"] /\ stored' = [stored EXCEPT ![m] = NoBox]
            /\ excused' = IF stop[d].excuse THEN excused \cup {m} ELSE excused
         \/ UNCHANGED <<row, excused, stored>>
      /\ UNCHANGED <<box, start, cut>>
  BY DEF F!DeleteRow
<1>2. m \in Models
  BY <1>1 DEF FleetTypes, StopRecs
<1> QED
  BY <1>1, <1>2, StopHasEnded, KeyDropped

LEMMA MarkedShape ==
    ASSUME FleetTypes, NEW m \in Models, NEW v \in {"idle", "loaded"}, row' = F!Marked(m, v)
    PROVE  /\ row' \in [Models -> {"gone", "idle", "loaded"}]
           /\ row'[m] = IF row[m] = "gone" THEN "gone" ELSE v
           /\ \A n \in Models \ {m} : row'[n] = row[n]
  BY DEF FleetTypes, F!Marked

CrashShapes ==
    /\ start' \in [F!Starters -> StartRecs] /\ stop' \in [Stops -> StopRecs]
    /\ \A s \in F!Starters : start'[s].model = NoModel /\ start'[s].at \in {"new", "done"}
    /\ \A d \in Stops : stop'[d].model = NoModel /\ stop'[d].at \in {"new", "done"}

(* recover_gate_state takes marks away.                                        *)
MarksFall == /\ row' \in [Models -> {"gone", "idle", "loaded"}]
             /\ \A m \in Models : row'[m] = row[m] \/ (row[m] = "loaded" /\ row'[m] = "idle")

LEMMA CrashShape ==
    ASSUME FleetTypes, F!Crash
    PROVE  /\ CrashShapes /\ MarksFall
           /\ cut' = cut \cup {stop[d].model : d \in {d \in Stops : stop[d].at = "unload"}}
           /\ cut' \subseteq Models
           /\ UNCHANGED <<box, excused, stored>>
<1>1. /\ start' = [s \in F!Starters |-> IF start[s].model = NoModel THEN start[s] ELSE F!Over(s)]
      /\ stop' = [d \in Stops |-> IF stop[d].model = NoModel THEN stop[d] ELSE F!Stopped]
      /\ cut' = cut \cup {stop[d].model : d \in {d \in Stops : stop[d].at = "unload"}}
      /\ UNCHANGED <<box, excused, stored>>
  BY DEF F!Crash
<1>2. CrashShapes
  BY <1>1, NewStart, OverStart DEF FleetTypes, CrashShapes
<1>3. \A d \in Stops : stop[d].at = "unload" => stop[d].model \in Models
  BY DEF FleetTypes, StopRecs
<1>4. cut' \subseteq Models
  BY <1>1, <1>3 DEF FleetTypes
<1>5. PICK dead : /\ dead \subseteq {m \in F!Keyed : row[m] = "loaded"}
                  /\ row' = [m \in Models |-> IF m \in dead THEN "idle" ELSE row[m]]
  BY DEF F!Crash
<1>6. MarksFall
  BY <1>5 DEF FleetTypes, MarksFall
<1> QED
  BY <1>1, <1>2, <1>4, <1>6

LEMMA DiesShape ==
    ASSUME FleetTypes, NEW m \in Models, F!Dies(m)
    PROVE  /\ m \in F!Boxes /\ box' = [box EXCEPT ![m].state = "exited"]
           /\ UNCHANGED <<row, start, stop, excused, stored, cut>>
  BY DEF F!Dies, F!Running, F!keys

LEMMA ProbeShape ==
    ASSUME FleetTypes, NoModel \notin Models, NEW m \in Models, F!Probe(m)
    PROVE  /\ StartTurn(Supervisor) /\ start'[Supervisor].at = "probe"
           /\ UNCHANGED <<row, box, stop, excused, stored, cut>>
<1> DEFINE j == [F!NoStart EXCEPT !.at = "probe", !.model = m]
<1>1. start' = [start EXCEPT ![Supervisor] = j] /\ UNCHANGED <<row, box, stop, excused, stored, cut>>
  BY DEF F!Probe, F!keys
<1>3. j \in StartRecs /\ j.at = "probe" /\ j.model = m
  BY NewStart DEF StartRecs, StartPlaces
<1> HIDE DEF j
<1> QED
  BY <1>1, <1>3, TheSupervisor DEF FleetTypes, StartTurn, NoUid

LEMMA ReconcileShape ==
    ASSUME FleetTypes, F!Reconcile
    PROVE  /\ start[Supervisor].at = "probe"
           /\ \/ Ends(Supervisor) /\ row' = row
              \/ /\ Goes(Supervisor, "dead")
                 /\ row' = row \/ row' = F!Marked(start[Supervisor].model, "idle")
           /\ UNCHANGED <<box, stop, excused, stored, cut>>
<1>1. /\ start[Supervisor].at = "probe"
      /\ \/ F!StartEnds(Supervisor) /\ row' = row
         \/ /\ F!GoOn(Supervisor, "dead")
            /\ row' = row \/ row' = F!Marked(start[Supervisor].model, "idle")
      /\ UNCHANGED <<box, stop, excused, stored, cut>>
  BY DEF F!Reconcile, F!keys
<1>2. "dead" \in StartPlaces \ {"new", "done"}
  BY DEF StartPlaces
<1> QED
  BY <1>1, <1>2, TheSupervisor, StartHasEnded, StartGoesOn

LEMMA QuarantineShape ==
    ASSUME FleetTypes, F!Quarantine
    PROVE  Ends(Supervisor) /\ UNCHANGED <<row, box, stop, excused, stored, cut>>
  BY TheSupervisor, StartHasEnded DEF F!Quarantine, F!keys

(* The types.                                                                  *)
BoxTyped == box' \in [Models -> BoxRecs \cup {NoBox}]
RowTyped == row' \in [Models -> {"gone", "idle", "loaded"}]

LEMMA RowSame == ASSUME FleetTypes, row' = row PROVE RowTyped
  BY DEF FleetTypes, RowTyped

LEMMA BoxStays == ASSUME FleetTypes, box' = box PROVE BoxTyped /\ \A n \in Models : BoxKept(n)
  BY BoxSame DEF FleetTypes, BoxTyped

LEMMA StartTurnTypes ==
    ASSUME FleetTypes, NEW s \in F!Starters, StartTurn(s), stop' = stop, BoxTyped, RowTyped,
           StoredTyped, cut' \subseteq Models
    PROVE  FleetTypes'
<1>1. start' \in [F!Starters -> StartRecs]
  BY DEF StartTurn
<1>2. \A t \in F!Starters : /\ start'[t].at \in {"new", "done"} <=> start'[t].model = NoModel
                            /\ start'[t].at \in NoUid \/ start'[t].uid \in Uids
  BY DEF FleetTypes, StartTurn
<1> QED
  BY <1>1, <1>2 DEF FleetTypes, BoxTyped, RowTyped, StoredTyped

LEMMA StopTurnTypes ==
    ASSUME FleetTypes, NEW d \in Stops, StopTurn(d), start' = start, BoxTyped, RowTyped,
           StoredTyped, cut' \subseteq Models
    PROVE  FleetTypes'
<1>1. stop' \in [Stops -> StopRecs]
  BY DEF StopTurn
<1>2. \A e \in Stops : stop'[e].at \in {"new", "done"} <=> stop'[e].model = NoModel
  BY DEF FleetTypes, StopTurn
<1> QED
  BY <1>1, <1>2 DEF FleetTypes, BoxTyped, RowTyped, StoredTyped

LEMMA StartsSame == ASSUME FleetTypes, start' = start PROVE \A t \in F!Starters : StartKeeps(t)
  BY DEF StartKeeps, F!Launching

LEMMA ActiveModel ==
    ASSUME FleetTypes
    PROVE  /\ \A s \in F!Starters : start[s].at \notin {"new", "done"} => start[s].model \in Models
           /\ \A s \in F!Starters : F!Launching(s) => start[s].model \in Models
           /\ \A d \in Stops : stop[d].at \notin {"new", "done"} => stop[d].model \in Models
  BY DEF FleetTypes, StartRecs, StopRecs, F!Launching

(* The choice of a UID.                                                        *)
LEMMA UidsJoin ==
    ASSUME FleetTypes, UidsInv, NEW s \in F!Starters, NEW m \in Models, Joins(s, m),
           \A n \in F!Boxes : n # m => ApartFrom(s, n)'
    PROVE  FleetTypes' /\ UidsInv'
<1>1. /\ start' \in [F!Starters -> StartRecs]
      /\ \A t \in F!Starters \ {s} :
            /\ start'[t].at = start[t].at /\ start'[t].todo = start[t].todo
            /\ start'[t].used = start[t].used /\ start'[t].uid = start[t].uid
      /\ stop' \in [Stops -> StopRecs]
      /\ \A d \in Stops : stop'[d].at = stop[d].at /\ stop'[d].model = stop[d].model
  BY DEF Joins
<1>2. row' = row /\ box' = box /\ stored' = stored /\ cut' = cut
  BY DEF Joins
<1>8. /\ start'[s].model = m /\ m # NoModel /\ F!Launching(s)' /\ F!Others(m) \subseteq start'[s].beside
      /\ start'[s].at \in NoUid \/ start'[s].uid \in Uids
  BY DEF Joins
<1>9. \A t \in F!Starters \ {s} : start'[t].model = start[t].model
  BY DEF Joins
<1>11. \A t \in F!Starters \ {s} :
          start'[t].beside = IF ~F!Launching(t) \/ start[t].model = m THEN start[t].beside
                             ELSE start[t].beside \cup {m}
  BY DEF Joins
<1>10. \A t \in F!Starters \ {s} : start[t].beside \subseteq start'[t].beside
  BY <1>11
<1>12. \A t \in F!Starters \ {s} : F!Launching(t)' <=> F!Launching(t)
  BY <1>1 DEF F!Launching
<1>3. FleetTypes'
  <2>1. \A t \in F!Starters : /\ start'[t].at \in {"new", "done"} <=> start'[t].model = NoModel
                              /\ start'[t].at \in NoUid \/ start'[t].uid \in Uids
    <3> SUFFICES ASSUME NEW t \in F!Starters
                 PROVE  /\ start'[t].at \in {"new", "done"} <=> start'[t].model = NoModel
                        /\ start'[t].at \in NoUid \/ start'[t].uid \in Uids
      OBVIOUS
    <3>1. CASE t = s
      BY <1>8, <3>1 DEF F!Launching
    <3>2. CASE t # s
      <4>1. /\ start'[t].at = start[t].at /\ start'[t].model = start[t].model
            /\ start'[t].uid = start[t].uid
        BY <1>1, <1>9, <3>2
      <4> QED
        BY <4>1 DEF FleetTypes
    <3> QED
      BY <3>1, <3>2
  <2>2. \A d \in Stops : stop'[d].at \in {"new", "done"} <=> stop'[d].model = NoModel
    BY <1>1 DEF FleetTypes
  <2> QED
    BY <1>1, <1>2, <2>1, <2>2 DEF FleetTypes
<1>4. KnowEachOther'
  <2> SUFFICES ASSUME NEW t \in F!Starters, NEW u \in F!Starters, F!Launching(t)', F!Launching(u)',
                      start'[t].model # start'[u].model
               PROVE  start'[u].model \in start'[t].beside
    BY DEF KnowEachOther
  <2>1. CASE t = s
    <3>1. u # s /\ F!Launching(u) /\ start[u].model # m /\ start'[u].model = start[u].model
      BY <1>8, <1>9, <1>12, <2>1
    <3>2. start[u].model \in F!Others(m)
      BY <3>1 DEF F!Others
    <3> QED
      BY <1>8, <2>1, <3>1, <3>2
  <2>2. CASE t # s /\ u = s
    <3>1. F!Launching(t) /\ start[t].model # m
      BY <1>8, <1>9, <1>12, <2>2
    <3> QED
      BY <1>8, <1>11, <2>2, <3>1
  <2>3. CASE t # s /\ u # s
    <3>1. start'[t].model = start[t].model /\ start'[u].model = start[u].model
          /\ start[t].beside \subseteq start'[t].beside /\ F!Launching(t) /\ F!Launching(u)
      BY <1>9, <1>10, <1>12, <2>3
    <3>2. start[u].model \in start[t].beside
      BY <3>1 DEF UidsInv, KnowEachOther
    <3> QED
      BY <3>1, <3>2
  <2> QED
    BY <2>1, <2>2, <2>3
<1>5. F!Boxes' = F!Boxes
  BY <1>2 DEF F!Boxes
<1>6. StartsApart'
  <2> SUFFICES ASSUME NEW t \in F!Starters, NEW n \in F!Boxes, n # start'[t].model
               PROVE  ApartFrom(t, n)'
    BY <1>5 DEF StartsApart
  <2>1. CASE t = s
    BY <1>8, <2>1
  <2>2. CASE t # s
    <3>1. ApartFrom(t, n)
      BY <1>9, <2>2 DEF UidsInv, StartsApart
    <3>4. Beside(t, n) => Beside(t, n)'
      BY ONLY <1>2, <1>9, <1>10, <2>2, t \in F!Starters DEF Beside
    <3>3. /\ start'[t].at = start[t].at /\ start'[t].todo = start[t].todo
          /\ start'[t].used = start[t].used /\ start'[t].uid = start[t].uid /\ box' = box
      BY <1>1, <1>2, <2>2
    <3> QED
      BY ONLY <3>1, <3>3, <3>4 DEF ApartFrom
  <2> QED
    BY <2>1, <2>2
<1>7. F!UidsApart'
  BY <1>2, <1>5 DEF UidsInv, F!UidsApart
<1> QED
  BY <1>3, <1>4, <1>6, <1>7 DEF UidsInv

LEMMA UidsBegin ==
    ASSUME FleetTypes, UidsInv, NoModel \notin Models, NEW s \in F!Starters, NEW m \in Models,
           F!StartBegin(s, m)
    PROVE  FleetTypes' /\ UidsInv'
<1>1. Joins(s, m) /\ start'[s].at = "inspect" /\ start'[s].todo = F!Boxes
  BY BeginShape
<1>2. \A n \in F!Boxes : ApartFrom(s, n)'
  BY <1>1 DEF ApartFrom
<1> QED
  BY <1>1, <1>2, UidsJoin

(* A stored UID is apart from the containers the model's own was apart from.   *)
LEMMA UidsRevive ==
    ASSUME FleetTypes, UidsInv, NoModel \notin Models, F!Revive
    PROVE  FleetTypes' /\ UidsInv'
<1>1. PICK m \in Models :
         /\ m \in F!Keyed /\ Joins(Supervisor, m)
         /\ start'[Supervisor].at = "look" /\ start'[Supervisor].uid = stored[m]
         /\ start'[Supervisor].beside = IF m \in F!Boxes /\ box[m].uid = stored[m]
                                        THEN box[m].beside \cup F!Others(m) ELSE Models \ {m}
  BY ReviveShape
<1>2. start'[Supervisor].model = m /\ box' = box
  BY <1>1 DEF Joins
<1>3. ASSUME NEW n \in F!Boxes, n # m PROVE ApartFrom(Supervisor, n)'
  <2>1. n \in Models
    BY DEF F!Boxes
  <2>2. box[n].uid = stored[m] => n \in start'[Supervisor].beside \/ m \in box[n].beside
    BY <1>1, <1>3, <2>1 DEF UidsInv, F!UidsApart
  <2> QED
    BY <1>1, <1>2, <2>2 DEF ApartFrom, Beside
<1> QED
  BY <1>1, <1>3, TheSupervisor, UidsJoin

LEMMA UidsTurn ==
    ASSUME FleetTypes, UidsInv, NEW s \in F!Starters, F!Launching(s), StartTurn(s), box' = box,
           start'[s].model = start[s].model, start[s].beside \subseteq start'[s].beside,
           \A n \in F!Boxes : n # start[s].model => ApartFrom(s, n)'
    PROVE  UidsInv'
<1>1. /\ \A t \in F!Starters \ {s} : start'[t] = start[t]
      /\ F!Boxes' = F!Boxes
  BY DEF StartTurn, F!Boxes
<1>2. KnowEachOther'
  BY <1>1 DEF UidsInv, KnowEachOther, F!Launching
<1>3. StartsApart'
  <2> SUFFICES ASSUME NEW t \in F!Starters \ {s}, NEW n \in F!Boxes, n # start[t].model
               PROVE  ApartFrom(t, n)'
    BY <1>1 DEF StartsApart
  <2> QED
    BY <1>1 DEF UidsInv, StartsApart, ApartFrom, Beside
<1>4. F!UidsApart'
  BY <1>1 DEF UidsInv, F!UidsApart
<1> QED
  BY <1>2, <1>3, <1>4 DEF UidsInv

LEMMA UidsInspect ==
    ASSUME FleetTypes, UidsInv, NEW s \in F!Starters, F!InspectUid(s)
    PROVE  FleetTypes' /\ UidsInv'
<1>1. /\ start[s].at = "inspect" /\ StartTurn(s)
      /\ start'[s].at = "inspect" /\ start'[s].model = start[s].model
      /\ UNCHANGED <<row, box, stop, excused, stored, cut>>
  BY InspectShape
<1>2. PICK x \in Models :
         /\ start'[s].todo = start[s].todo \ {x}
         /\ \/ /\ x \in F!Boxes /\ start'[s].used = start[s].used \cup {box[x].uid}
               /\ start'[s].beside = start[s].beside
            \/ /\ start'[s].used = start[s].used
               /\ start'[s].beside = start[s].beside \cup ({x} \ {start[s].model})
            \/ /\ x \notin F!Boxes /\ start'[s].used = start[s].used
               /\ start'[s].beside = start[s].beside
  BY InspectShape
<1>3. FleetTypes'
  BY <1>1, RowSame, BoxStays, KeysSame, StartTurnTypes DEF FleetTypes
<1>4. ASSUME NEW n \in F!Boxes, n # start[s].model PROVE ApartFrom(s, n)'
  <2>1. ApartFrom(s, n)
    BY <1>4 DEF UidsInv, StartsApart
  <2> QED
    BY <1>1, <1>2, <1>4, <2>1 DEF ApartFrom, Beside
<1>5. UidsInv'
  BY <1>1, <1>2, <1>4, UidsTurn DEF F!Launching
<1> QED
  BY <1>3, <1>5

LEMMA UidsPick ==
    ASSUME FleetTypes, UidsInv, NEW s \in F!Starters, F!PickUid(s)
    PROVE  FleetTypes' /\ UidsInv'
<1>1. /\ start[s].at = "inspect" /\ start[s].todo = {}
      /\ \/ /\ StartTurn(s) /\ start'[s].at = "look" /\ start'[s].model = start[s].model
            /\ start'[s].uid \notin start[s].used /\ start'[s].beside = start[s].beside
         \/ Ends(s)
      /\ UNCHANGED <<row, box, stop, excused, stored, cut>>
  BY PickShape
<1>2. FleetTypes'
  BY <1>1, RowSame, BoxStays, KeysSame, StartTurnTypes DEF FleetTypes, Ends
<1>3. CASE Ends(s)
  BY <1>1, <1>2, <1>3, StartKept, BoxStays, UidsKept
<1>4. CASE /\ StartTurn(s) /\ start'[s].at = "look" /\ start'[s].model = start[s].model
           /\ start'[s].uid \notin start[s].used /\ start'[s].beside = start[s].beside
  <2>1. ASSUME NEW n \in F!Boxes, n # start[s].model PROVE ApartFrom(s, n)'
    <3>1. ApartFrom(s, n)
      BY <2>1 DEF UidsInv, StartsApart
    <3> QED
      BY <1>1, <1>4, <2>1, <3>1 DEF ApartFrom, Beside
  <2> QED
    BY <1>1, <1>2, <1>4, <2>1, UidsTurn DEF F!Launching
<1> QED
  BY <1>1, <1>2, <1>3, <1>4

LEMMA UidsCreate ==
    ASSUME FleetTypes, UidsInv, NEW s \in F!Starters, F!CreateBox(s)
    PROVE  FleetTypes' /\ UidsInv'
<1> DEFINE m == start[s].model
<1>1. /\ start[s].at = "create"
      /\ (Goes(s, "start") /\ Creates(s)) \/ (Ends(s) /\ box' = box)
      /\ UNCHANGED <<row, stop, excused, stored, cut>>
  BY CreateShape
<1>2. m \in Models /\ start[s].uid \in Uids /\ start[s].beside \subseteq Models
      /\ F!Launching(s)
  <2>1. start[s].at = "create" /\ start[s] \in StartRecs
    BY <1>1 DEF FleetTypes
  <2>2. F!Launching(s) /\ start[s].uid \in Uids /\ m \in Models
    BY <2>1, ActiveModel DEF FleetTypes, F!Launching, NoUid
  <2>3. start[s].beside \subseteq Models
    BY <2>1 DEF StartRecs
  <2> QED
    BY <2>2, <2>3
<1>3. \A t \in F!Starters : StartKeeps(t)
  BY <1>1, <1>2, StartKept
<1>4. CASE Ends(s) /\ box' = box
  BY <1>1, <1>3, <1>4, RowSame, BoxStays, KeysSame, StartTurnTypes, UidsKept DEF FleetTypes, Ends
<1>5. CASE Goes(s, "start") /\ Creates(s)
  <2> DEFINE b == [uid |-> start[s].uid, state |-> "created", beside |-> start[s].beside]
  <2>1. m \notin F!Boxes /\ box' = [box EXCEPT ![m] = b]
    BY <1>5 DEF Creates
  <2>2. b \in BoxRecs /\ b.uid = start[s].uid /\ b.beside = start[s].beside
    BY <1>2 DEF BoxRecs
  <2> HIDE DEF b
  <2>3. BoxTyped /\ box'[m] = b /\ \A n \in Models \ {m} : box'[n] = box[n]
    BY <1>2, <2>1, <2>2 DEF FleetTypes, BoxTyped
  <2>4. FleetTypes'
    BY <1>1, <1>5, <2>3, RowSame, KeysSame, StartTurnTypes DEF FleetTypes, Goes
  <2>5. \A n \in F!Boxes' : n # m => n \in F!Boxes /\ box'[n] = box[n]
    BY <2>3 DEF F!Boxes
  <2>6. KnowEachOther'
    BY <1>3 DEF UidsInv, KnowEachOther, F!Launching, StartKeeps
  <2>7. StartsApart'
    <3> SUFFICES ASSUME NEW t \in F!Starters, NEW n \in F!Boxes', n # start'[t].model
                 PROVE  ApartFrom(t, n)'
      BY DEF StartsApart
    <3>1. CASE t = s
      BY <1>5, <3>1 DEF Goes, ApartFrom
    <3>2. CASE t # s /\ ~F!Launching(t)
      BY <1>5, <3>2 DEF Goes, StartTurn, ApartFrom, F!Launching
    <3>3. CASE t # s /\ F!Launching(t) /\ n = m
      <4>1. start'[t] = start[t] /\ start[t].model # m
        BY <1>5, <3>3 DEF Goes, StartTurn
      <4>2. start[t].model \in start[s].beside
        BY <1>2, <3>3, <4>1 DEF UidsInv, KnowEachOther
      <4>3. Beside(t, n)'
        BY <2>2, <2>3, <3>3, <4>1, <4>2 DEF Beside
      <4> QED
        BY <4>3 DEF ApartFrom
    <3>4. CASE t # s /\ n # m
      <4>1. start'[t] = start[t]
        BY <1>5, <3>4 DEF Goes, StartTurn
      <4>2. ApartFrom(t, n)
        BY <2>5, <3>4, <4>1 DEF UidsInv, StartsApart
      <4> QED
        BY <2>5, <3>4, <4>1, <4>2 DEF ApartFrom, Beside
    <3> QED
      BY <3>1, <3>2, <3>3, <3>4
  <2>8. F!UidsApart'
    <3>1. ASSUME NEW n \in F!Boxes, n # m, box[n].uid = start[s].uid
          PROVE  n \in start[s].beside \/ m \in box[n].beside
      <4>1. ApartFrom(s, n)
        BY <3>1 DEF UidsInv, StartsApart
      <4> QED
        BY <1>1, <3>1, <4>1 DEF ApartFrom, Beside
    <3>2. \A n \in F!Boxes' : n # m /\ box'[n].uid = box'[m].uid
              => n \in box'[m].beside \/ m \in box'[n].beside
      BY <2>2, <2>3, <2>5, <3>1
    <3> QED
      BY <2>5, <3>2 DEF UidsInv, F!UidsApart
  <2> QED
    BY <2>4, <2>6, <2>7, <2>8 DEF UidsInv
<1> QED
  BY <1>1, <1>4, <1>5

(* Every other step keeps what UidsKept asks for.                              *)
LEMMA UidsOfStart ==
    ASSUME FleetTypes, NEW s \in F!Starters,
           F!LookForBox(s) \/ F!RemoveStopped(s) \/ F!StartBox(s) \/ F!StoreKey(s) \/ F!Book(s)
    PROVE  /\ FleetTypes' /\ \A t \in F!Starters : StartKeeps(t)
           /\ \A n \in Models : BoxKept(n)
<1> DEFINE m == start[s].model
           Goal == /\ FleetTypes' /\ \A t \in F!Starters : StartKeeps(t)
                   /\ \A n \in Models : BoxKept(n)
<1>1. cut \subseteq Models /\ (stored' = stored => StoredTyped)
  BY KeysSame DEF FleetTypes
<1>2. \A p : Goes(s, p) \/ Ends(s) => StartTurn(s)
  BY DEF Goes, Ends
<1> SUFFICES ASSUME TRUE PROVE Goal
  OBVIOUS
<1> HIDE DEF Goal
<1>3. ASSUME F!LookForBox(s) PROVE Goal
  <2>1. /\ start[s].at = "look"
        /\ \E p \in {F!AfterLaunch(s), "remove", "create"} : Goes(s, p)
        /\ UNCHANGED <<row, box, stop, excused, stored, cut>>
    BY <1>3, LookShape
  <2>2. \A t \in F!Starters : StartKeeps(t)
    BY <2>1, Afterwards, StartKept DEF F!Launching
  <2> QED
    BY <1>1, <1>2, <2>1, <2>2, RowSame, BoxStays, StartTurnTypes DEF Goal
<1>4. ASSUME F!RemoveStopped(s) PROVE Goal
  <2>1. /\ start[s].at = "remove" /\ (Goes(s, "create") \/ Ends(s))
        /\ box' = box \/ box' = [box EXCEPT ![m] = NoBox]
        /\ UNCHANGED <<row, stop, excused, stored, cut>>
    BY <1>4, RemoveShape
  <2>2. \A t \in F!Starters : StartKeeps(t)
    BY <2>1, StartKept
  <2>3. BoxTyped /\ \A n \in Models : BoxKept(n)
    BY <2>1, ActiveModel, BoxStays, BoxGone DEF BoxTyped
  <2> QED
    BY <1>1, <1>2, <2>1, <2>2, <2>3, RowSame, StartTurnTypes DEF Goal
<1>5. ASSUME F!StartBox(s) PROVE Goal
  <2>1. /\ start[s].at = "start"
        /\ Goes(s, F!AfterLaunch(s)) \/ Ends(s)
        /\ \/ box' = box
           \/ box' = [box EXCEPT ![m] = NoBox]
           \/ m \in F!Boxes /\ box' = [box EXCEPT ![m].state = "running"]
        /\ UNCHANGED <<row, stop, excused, stored, cut>>
    BY <1>5, StartBoxShape
  <2>2. \A t \in F!Starters : StartKeeps(t)
    BY <2>1, Afterwards, StartKept DEF F!Launching
  <2>3. BoxTyped /\ \A n \in Models : BoxKept(n)
    BY <2>1, ActiveModel, BoxStays, BoxGone, BoxMarked DEF BoxTyped
  <2> QED
    BY <1>1, <1>2, <2>1, <2>2, <2>3, RowSame, StartTurnTypes DEF Goal
<1>6. ASSUME F!StoreKey(s) PROVE Goal
  <2>1. /\ start[s].at = "store" /\ Goes(s, "book")
        /\ StoredTyped \/ stored' = stored
        /\ cut' \subseteq cut \cup {m}
        /\ UNCHANGED <<row, box, stop, excused>>
    BY <1>6, StoreShape
  <2>2. \A t \in F!Starters : StartKeeps(t)
    BY <2>1, StartKept DEF F!Launching
  <2>3. StoredTyped /\ cut' \subseteq Models
    BY <1>1, <2>1, ActiveModel
  <2> QED
    BY <1>2, <2>1, <2>2, <2>3, RowSame, BoxStays, StartTurnTypes DEF Goal
<1>7. ASSUME F!Book(s) PROVE Goal
  <2>1. /\ start[s].at = "book" /\ Ends(s) /\ (row' = F!Marked(m, "loaded") \/ row' = row)
        /\ UNCHANGED <<box, stop, excused, stored, cut>>
    BY <1>7, BookShape
  <2>2. \A t \in F!Starters : StartKeeps(t)
    BY <2>1, StartKept
  <2>3. RowTyped
    BY <2>1, ActiveModel, RowSame, MarkedShape DEF RowTyped
  <2> QED
    BY <1>1, <1>2, <2>1, <2>2, <2>3, BoxStays, StartTurnTypes DEF Goal
<1> QED
  BY <1>3, <1>4, <1>5, <1>6, <1>7

(* The supervisor's steps outside a restart.                                   *)
LEMMA UidsOfSupervisor ==
    ASSUME FleetTypes, NoModel \notin Models,
           (\E m \in Models : F!Probe(m)) \/ F!Reconcile \/ F!Quarantine
    PROVE  /\ FleetTypes' /\ \A t \in F!Starters : StartKeeps(t)
           /\ StartTurn(Supervisor) /\ ~F!Launching(Supervisor)'
           /\ RowTyped /\ (\A m \in Models : row'[m] = row[m] \/ (row[m] # "gone" /\ row'[m] = "idle"))
           /\ UNCHANGED <<box, stop, excused, stored, cut>>
<1>1. /\ StartTurn(Supervisor) /\ start'[Supervisor].at \in {"new", "probe", "dead", "done"}
      /\ UNCHANGED <<box, stop, excused, stored, cut>>
  BY ProbeShape, ReconcileShape, QuarantineShape DEF Ends, Goes
<1>2. ~F!Launching(Supervisor)' /\ \A t \in F!Starters : StartKeeps(t)
  BY <1>1 DEF StartTurn, StartKeeps, F!Launching
<1>3. \/ row' = row
      \/ start[Supervisor].at = "probe" /\ row' = F!Marked(start[Supervisor].model, "idle")
  BY ProbeShape, ReconcileShape, QuarantineShape
<1>4. RowTyped /\ \A m \in Models : row'[m] = row[m] \/ (row[m] # "gone" /\ row'[m] = "idle")
  BY <1>3, TheSupervisor, ActiveModel, RowSame, MarkedShape DEF RowTyped
<1>5. FleetTypes'
  BY <1>1, <1>4, TheSupervisor, BoxStays, KeysSame, StartTurnTypes DEF FleetTypes
<1> QED
  BY <1>1, <1>2, <1>4, <1>5

LEMMA UidsOfStop ==
    ASSUME FleetTypes, NoModel \notin Models, NEW d \in Stops,
           \/ \E m \in Models : F!StopBegin(d, m)
           \/ F!StopBox(d) \/ F!DropKey(d) \/ F!Unload(d) \/ F!DeleteRow(d)
    PROVE  FleetTypes' /\ start' = start /\ \A n \in Models : BoxKept(n)
<1> DEFINE m == stop[d].model
           Goal == FleetTypes' /\ start' = start /\ \A n \in Models : BoxKept(n)
<1>1. cut \subseteq Models /\ (stored' = stored => StoredTyped)
  BY KeysSame DEF FleetTypes
<1>2. \A p : StopGoes(d, p) \/ StopIsOver(d) => StopTurn(d)
  BY DEF StopGoes, StopIsOver
<1> SUFFICES ASSUME TRUE PROVE Goal
  OBVIOUS
<1> HIDE DEF Goal
<1>3. ASSUME NEW n \in Models, F!StopBegin(d, n) PROVE Goal
  <2>1. StopTurn(d) /\ UNCHANGED <<row, box, start, excused, stored, cut>>
    BY <1>3, StopBeginShape
  <2> QED
    BY <1>1, <2>1, RowSame, BoxStays, StopTurnTypes DEF Goal
<1>4. ASSUME F!StopBox(d) PROVE Goal
  <2>1. /\ stop[d].at = "stop" /\ StopTurn(d)
        /\ \/ box' = [box EXCEPT ![m] = NoBox]
           \/ box' = box
           \/ m \in F!Boxes /\ box' = [box EXCEPT ![m].state = "exited"]
        /\ UNCHANGED <<row, start, excused, stored, cut>>
    BY <1>2, <1>4, StopBoxShape
  <2>2. BoxTyped /\ \A n \in Models : BoxKept(n)
    BY <2>1, ActiveModel, BoxStays, BoxGone, BoxMarked DEF BoxTyped
  <2> QED
    BY <1>1, <2>1, <2>2, RowSame, StopTurnTypes DEF Goal
<1>5. ASSUME F!DropKey(d) PROVE Goal
  <2>1. /\ stop[d].at = "cleanup" /\ StopTurn(d)
        /\ StoredTyped \/ stored' = stored
        /\ cut' \subseteq cut \cup {m}
        /\ UNCHANGED <<row, box, start, excused>>
    BY <1>2, <1>5, DropKeyShape
  <2>2. StoredTyped /\ cut' \subseteq Models
    BY <1>1, <2>1, ActiveModel
  <2> QED
    BY <2>1, <2>2, RowSame, BoxStays, StopTurnTypes DEF Goal
<1>6. ASSUME F!Unload(d) PROVE Goal
  <2>1. /\ stop[d].at = "unload" /\ StopTurn(d)
        /\ \/ row' = F!Marked(m, "idle") /\ cut' = cut
           \/ cut' = cut \cup {m} /\ row' = row
        /\ UNCHANGED <<box, start, excused, stored>>
    BY <1>2, <1>6, UnloadShape
  <2>2. cut' \subseteq Models /\ RowTyped
    BY <1>1, <2>1, ActiveModel, RowSame, MarkedShape DEF RowTyped
  <2> QED
    BY <1>1, <2>1, <2>2, BoxStays, StopTurnTypes DEF Goal
<1>7. ASSUME F!DeleteRow(d) PROVE Goal
  <2>1. /\ stop[d].at = "row" /\ StopTurn(d)
        /\ \/ row' = [row EXCEPT ![m] = "gone"] /\ StoredTyped
           \/ UNCHANGED <<row, stored>>
        /\ UNCHANGED <<box, start, cut>>
    BY <1>2, <1>7, DeleteShape
  <2>2. RowTyped /\ StoredTyped
    BY <1>1, <2>1, RowSame DEF RowTyped, FleetTypes
  <2> QED
    BY <1>1, <2>1, <2>2, BoxStays, StopTurnTypes DEF Goal
<1> QED
  BY <1>3, <1>4, <1>5, <1>6, <1>7

LEMMA UidsStep ==
    ASSUME FleetTypes, UidsInv, NoModel \notin Models, [F!Next]_fleet
    PROVE  FleetTypes' /\ UidsInv'
<1>1. CASE UNCHANGED fleet
  <2>1. /\ row' = row /\ box' = box /\ start' = start /\ stop' = stop /\ stored' = stored
        /\ cut' = cut
    BY <1>1 DEF fleet
  <2>2. FleetTypes'
    BY <2>1 DEF FleetTypes
  <2> QED
    BY <2>1, <2>2, StartsSame, BoxSame, UidsKept
<1>2. ASSUME NEW s \in F!Starters,
             F!LookForBox(s) \/ F!RemoveStopped(s) \/ F!StartBox(s) \/ F!StoreKey(s) \/ F!Book(s)
      PROVE  FleetTypes' /\ UidsInv'
  BY <1>2, UidsOfStart, UidsKept
<1>3. ASSUME NEW d \in Stops,
             \/ \E m \in Models : F!StopBegin(d, m)
             \/ F!StopBox(d) \/ F!DropKey(d) \/ F!Unload(d) \/ F!DeleteRow(d)
      PROVE  FleetTypes' /\ UidsInv'
  BY <1>3, UidsOfStop, StartsSame, UidsKept
<1>4. ASSUME NEW m \in Models, F!Dies(m) PROVE FleetTypes' /\ UidsInv'
  <2>1. /\ m \in F!Boxes /\ box' = [box EXCEPT ![m].state = "exited"]
        /\ UNCHANGED <<row, start, stop, excused, stored, cut>>
    BY <1>4, DiesShape
  <2>2. BoxTyped /\ \A n \in Models : BoxKept(n)
    BY <2>1, BoxMarked DEF BoxTyped
  <2>3. FleetTypes'
    BY <2>1, <2>2 DEF FleetTypes, BoxTyped
  <2> QED
    BY <2>1, <2>2, <2>3, StartsSame, UidsKept
<1>5. ASSUME \/ \E m \in Models : F!Probe(m)
             \/ F!Reconcile \/ F!Quarantine
      PROVE  FleetTypes' /\ UidsInv'
  BY <1>5, UidsOfSupervisor, BoxSame, UidsKept
<1>6. CASE F!Crash
  <2>1. CrashShapes /\ cut' \subseteq Models /\ MarksFall /\ UNCHANGED <<box, excused, stored>>
    BY <1>6, CrashShape
  <2>2. FleetTypes'
    <3>1. /\ start' \in [F!Starters -> StartRecs] /\ stop' \in [Stops -> StopRecs]
          /\ \A s \in F!Starters : start'[s].at \in {"new", "done"} <=> start'[s].model = NoModel
          /\ \A s \in F!Starters : start'[s].at \in NoUid \/ start'[s].uid \in Uids
          /\ \A d \in Stops : stop'[d].at \in {"new", "done"} <=> stop'[d].model = NoModel
      BY <2>1 DEF CrashShapes, NoUid
    <3> QED
      BY <2>1, <3>1 DEF FleetTypes, MarksFall
  <2>3. \A t \in F!Starters : StartKeeps(t)
    BY <2>1 DEF CrashShapes, StartKeeps
  <2> QED
    BY <2>1, <2>2, <2>3, BoxSame, UidsKept
<1> QED
  BY <1>1, <1>2, <1>3, <1>4, <1>5, <1>6, UidsBegin, UidsRevive, UidsInspect, UidsPick,
     UidsCreate, AStart DEF F!Next

LEMMA UidsStart == ASSUME F!Init PROVE FleetTypes /\ UidsInv
<1>1. /\ \A s \in F!Starters : start[s] = F!NoStart
      /\ \A d \in Stops : stop[d] = F!NoStop
      /\ F!Boxes = {}
  BY DEF F!Init, F!Boxes
<1>2. FleetTypes
  <2>1. start \in [F!Starters -> StartRecs] /\ stop \in [Stops -> StopRecs]
    BY NewStart DEF F!Init
  <2>2. row \in [Models -> {"gone", "idle", "loaded"}]
        /\ box \in [Models -> BoxRecs \cup {NoBox}] /\ cut = {}
        /\ stored \in [Models -> Uids \cup {NoBox}]
    BY DEF F!Init
  <2> QED
    BY <1>1, <2>1, <2>2, NewStart DEF FleetTypes, NoUid
<1>3. UidsInv
  BY <1>1, NewStart DEF UidsInv, KnowEachOther, F!Launching, StartsApart, F!UidsApart
<1> QED
  BY <1>2, <1>3

(* A model deleted beside a start of it, with a stop that failed, or with a    *)
(* container it was not marked loaded for, is excused, and the stop that is    *)
(* about to delete it knows.                                                   *)
Late == {"cleanup", "unload", "row"}

RowExcused(m) == row[m] = "gone" /\ (m \in F!Boxes \/ F!Starting(m)) => m \in excused

StopExcused(d) ==
    LET m == stop[d].model
    IN  /\ stop[d].at = "stop" /\ F!Starting(m) => stop[d].excuse
        /\ stop[d].at \in Late /\ (F!Starting(m) \/ m \in F!Boxes) => stop[d].excuse

OrphansInv == (\A m \in Models : RowExcused(m)) /\ (\A d \in Stops : StopExcused(d))

BoxesFall == \A m \in Models : m \in F!Boxes' => m \in F!Boxes \/ F!Starting(m)
StartsFall == \A m \in Models : F!Starting(m)' => F!Starting(m)
RowsFall == \A m \in Models : row'[m] = "gone" => row[m] = "gone" \/ RowExcused(m)'
StopFalls(d) ==
    \/ StopExcused(d)'
    \/ stop'[d] = stop[d]
    \/ /\ stop[d].at \in Late /\ stop'[d].at \in Late /\ stop'[d].model = stop[d].model
       /\ stop[d].excuse => stop'[d].excuse

LEMMA OrphansKept ==
    ASSUME FleetTypes, OrphansInv, BoxesFall, StartsFall, RowsFall, excused \subseteq excused',
           \A d \in Stops : StopFalls(d)
    PROVE  OrphansInv'
<1>1. ASSUME NEW m \in Models PROVE RowExcused(m)'
  <2>1. RowExcused(m)
    BY DEF OrphansInv
  <2> QED
    BY <2>1 DEF RowExcused, BoxesFall, StartsFall, RowsFall
<1>2. ASSUME NEW d \in Stops PROVE StopExcused(d)'
  <2>1. StopExcused(d) /\ (stop[d].at \in Late \cup {"stop"} => stop[d].model \in Models)
    BY ActiveModel DEF OrphansInv, Late
  <2>2. CASE stop'[d] = stop[d]
    BY <2>1, <2>2 DEF StopExcused, BoxesFall, StartsFall, Late
  <2>3. CASE /\ stop[d].at \in Late /\ stop'[d].at \in Late /\ stop'[d].model = stop[d].model
             /\ stop[d].excuse => stop'[d].excuse
    BY <2>1, <2>3 DEF StopExcused, BoxesFall, StartsFall, Late
  <2> QED
    BY <2>2, <2>3 DEF StopFalls
<1> QED
  BY <1>1, <1>2 DEF OrphansInv

LEMMA StartsFalling ==
    ASSUME NoModel \notin Models,
           \A t \in F!Starters : F!Launching(t)' => F!Launching(t) /\ start'[t].model = start[t].model
    PROVE  StartsFall
  BY DEF StartsFall, F!Starting

LEMMA KeptFalls ==
    ASSUME NoModel \notin Models, \A t \in F!Starters : StartKeeps(t)
    PROVE  StartsFall
  BY StartsFalling DEF StartKeeps, F!Launching

LEMMA BoxesFalling == ASSUME \A n \in Models : BoxKept(n) PROVE BoxesFall
  BY DEF BoxKept, BoxesFall

LEMMA StopTurnFalls ==
    ASSUME NEW d \in Stops, StopTurn(d), StopFalls(d)
    PROVE  \A e \in Stops : StopFalls(e)
  BY DEF StopTurn, StopFalls

LEMMA StopOver ==
    ASSUME NEW d \in Stops, StopIsOver(d) PROVE \A e \in Stops : StopFalls(e)
<1>1. StopExcused(d)'
  BY DEF StopIsOver, StopExcused, Late
<1> QED
  BY <1>1, StopTurnFalls DEF StopIsOver, StopFalls

LEMMA StopsSame == ASSUME stop' = stop PROVE \A d \in Stops : StopFalls(d)
  BY DEF StopFalls

LEMMA OrphansJoin ==
    ASSUME FleetTypes, OrphansInv, NEW s \in F!Starters, NEW m \in Models, Joins(s, m)
    PROVE  OrphansInv'
<1>2. row[m] # "gone" /\ row' = row /\ box' = box /\ excused' = excused
  BY DEF Joins
<1>3. F!Boxes' = F!Boxes
  BY <1>2 DEF F!Boxes
<1>4. /\ start'[s].model = m
      /\ \A t \in F!Starters \ {s} : start'[t].model = start[t].model /\ start'[t].at = start[t].at
      /\ \A d \in Stops : /\ stop'[d].at = stop[d].at /\ stop'[d].model = stop[d].model
                          /\ stop'[d].excuse = (stop[d].excuse \/ stop[d].model = m)
  BY DEF Joins
<1>5. \A n \in Models : F!Starting(n)' => F!Starting(n) \/ n = m
  BY <1>4 DEF F!Starting, F!Launching
<1>6. ASSUME NEW n \in Models PROVE RowExcused(n)'
  <2>1. RowExcused(n)
    BY DEF OrphansInv
  <2> QED
    BY <1>2, <1>3, <1>5, <2>1 DEF RowExcused
<1>7. ASSUME NEW d \in Stops PROVE StopExcused(d)'
  <2>1. StopExcused(d) /\ (stop[d].at \in Late \cup {"stop"} => stop[d].model \in Models)
    BY ActiveModel DEF OrphansInv, Late
  <2>2. /\ stop'[d].at = stop[d].at /\ stop'[d].model = stop[d].model
        /\ stop'[d].excuse = (stop[d].excuse \/ stop[d].model = m)
    BY <1>4
  <2> QED
    BY <1>3, <1>5, <2>1, <2>2 DEF StopExcused, Late
<1> QED
  BY <1>6, <1>7 DEF OrphansInv

LEMMA OrphansOfStop ==
    ASSUME FleetTypes, OrphansInv, NoModel \notin Models, NEW d \in Stops,
           \/ \E m \in Models : F!StopBegin(d, m)
           \/ F!StopBox(d) \/ F!DropKey(d) \/ F!Unload(d) \/ F!DeleteRow(d)
    PROVE  OrphansInv'
<1> DEFINE m == stop[d].model
<1>1. StopExcused(d) /\ (stop[d].at \notin {"new", "done"} => m \in Models)
  BY ActiveModel DEF OrphansInv
<1>2. start' = start /\ \A n \in Models : BoxKept(n)
  BY UidsOfStop
<1>3. BoxesFall /\ StartsFall /\ \A n \in Models : F!Starting(n)' <=> F!Starting(n)
  BY <1>2, BoxesFalling, StartsFalling DEF F!Starting, F!Launching
<1>4. \A n \in Models : n \in F!Boxes' => n \in F!Boxes
  BY <1>2 DEF BoxKept
<1>5. ASSUME NEW n \in Models, F!StopBegin(d, n) PROVE OrphansInv'
  <2>1. /\ StopTurn(d) /\ stop'[d].at \in {"row", "stop"} /\ stop'[d].model = n
        /\ stop'[d].excuse = (F!Starting(n) \/ (row[n] # "loaded" /\ n \in F!Boxes))
        /\ stop'[d].at = "row" => row[n] # "loaded"
        /\ row' = row /\ excused' = excused
    BY <1>5, StopBeginShape
  <2>2. StopExcused(d)'
    BY <1>3, <1>4, <2>1 DEF StopExcused, Late
  <2>3. \A e \in Stops : StopFalls(e)
    BY <2>1, <2>2, StopTurnFalls DEF StopFalls
  <2> QED
    BY <1>3, <2>1, <2>3, OrphansKept DEF RowsFall
<1>6. ASSUME F!StopBox(d) PROVE OrphansInv'
  <2>1. /\ stop[d].at = "stop"
        /\ \/ box' = [box EXCEPT ![m] = NoBox] /\ StopGoes(d, "cleanup")
           \/ (StopGoes(d, "cleanup") /\ stop'[d].excuse) \/ StopIsOver(d)
        /\ row' = row /\ excused' = excused
    BY <1>6, StopBoxShape
  <2>2. CASE StopIsOver(d)
    BY <1>3, <2>1, <2>2, StopOver, OrphansKept DEF RowsFall
  <2>3. CASE StopGoes(d, "cleanup") /\ stop'[d].excuse
    <3>1. StopExcused(d)'
      BY <2>3 DEF StopExcused
    <3>2. \A e \in Stops : StopFalls(e)
      BY <2>3, <3>1, StopTurnFalls DEF StopFalls, StopGoes
    <3> QED
      BY <1>3, <2>1, <3>2, OrphansKept DEF RowsFall
  <2>4. CASE box' = [box EXCEPT ![m] = NoBox] /\ StopGoes(d, "cleanup")
    <3>1. m \in Models /\ m \notin F!Boxes'
      BY <1>1, <2>1, <2>4, BoxGone
    <3>2. StopExcused(d)'
      BY <1>1, <1>3, <2>1, <2>4, <3>1 DEF StopExcused, StopGoes, Late
    <3>3. \A e \in Stops : StopFalls(e)
      BY <2>4, <3>2, StopTurnFalls DEF StopFalls, StopGoes
    <3> QED
      BY <1>3, <2>1, <3>3, OrphansKept DEF RowsFall
  <2> QED
    BY <2>1, <2>2, <2>3, <2>4
<1>7. ASSUME F!DropKey(d) PROVE OrphansInv'
  <2>1. stop[d].at = "cleanup" /\ StopGoes(d, "unload") /\ row' = row /\ excused' = excused
    BY <1>7, DropKeyShape
  <2>2. \A e \in Stops : StopFalls(e)
    BY <2>1, StopTurnFalls DEF StopFalls, StopGoes, Late
  <2> QED
    BY <1>3, <2>1, <2>2, OrphansKept DEF RowsFall
<1>8. ASSUME F!Unload(d) PROVE OrphansInv'
  <2>1. /\ stop[d].at = "unload" /\ (StopGoes(d, "row") \/ StopIsOver(d))
        /\ (row' = F!Marked(m, "idle") \/ row' = row) /\ excused' = excused
    BY <1>8, UnloadShape
  <2>2. RowsFall
    BY <1>1, <2>1, MarkedShape DEF RowsFall
  <2>3. \A e \in Stops : StopFalls(e)
    <3>1. CASE StopGoes(d, "row")
      BY <2>1, <3>1, StopTurnFalls DEF StopFalls, StopGoes, Late
    <3> QED
      BY <2>1, <3>1, StopOver
  <2> QED
    BY <1>3, <2>1, <2>2, <2>3, OrphansKept
<1>9. ASSUME F!DeleteRow(d) PROVE OrphansInv'
  <2>1. /\ stop[d].at = "row" /\ StopIsOver(d)
        /\ \/ /\ row' = [row EXCEPT ![m] = "gone"]
              /\ excused' = IF stop[d].excuse THEN excused \cup {m} ELSE excused
           \/ row' = row /\ excused' = excused
    BY <1>9, DeleteShape
  <2>2. \A n \in Models : n = m /\ (n \in F!Boxes' \/ F!Starting(n)') => stop[d].excuse
    BY <1>1, <1>3, <1>4, <2>1 DEF StopExcused, Late
  <2>3. RowsFall
    BY <2>1, <2>2 DEF RowsFall, RowExcused, FleetTypes
  <2> QED
    BY <1>3, <2>1, <2>3, StopOver, OrphansKept
<1> QED
  BY <1>5, <1>6, <1>7, <1>8, <1>9

LEMMA OrphansStep ==
    ASSUME FleetTypes, OrphansInv, NoModel \notin Models, [F!Next]_fleet
    PROVE  OrphansInv'
<1>1. CASE UNCHANGED fleet
  <2>1. row' = row /\ box' = box /\ start' = start /\ stop' = stop /\ excused' = excused
    BY <1>1 DEF fleet
  <2>2. BoxesFall /\ StartsFall /\ RowsFall
    BY <2>1 DEF BoxesFall, StartsFall, RowsFall, F!Boxes, F!Starting, F!Launching
  <2> QED
    BY <2>1, <2>2, StopsSame, OrphansKept
<1>2. ASSUME NEW s \in F!Starters,
             F!LookForBox(s) \/ F!RemoveStopped(s) \/ F!StartBox(s) \/ F!StoreKey(s) \/ F!Book(s)
      PROVE  OrphansInv'
  <2>1. BoxesFall /\ StartsFall
    BY <1>2, UidsOfStart, BoxesFalling, KeptFalls
  <2>2. /\ stop' = stop /\ excused' = excused
        /\ \/ row' = row
           \/ start[s].at = "book" /\ row' = F!Marked(start[s].model, "loaded")
    BY <1>2, LookShape, RemoveShape, StartBoxShape, StoreShape, BookShape
  <2>3. RowsFall
    BY <2>2, ActiveModel, MarkedShape DEF RowsFall
  <2> QED
    BY <2>1, <2>2, <2>3, StopsSame, OrphansKept
<1>3. ASSUME NEW s \in F!Starters, F!InspectUid(s) \/ F!PickUid(s) PROVE OrphansInv'
  <2>1. UNCHANGED <<row, box, stop, excused>>
    BY <1>3, InspectShape, PickShape
  <2>2. \A t \in F!Starters : F!Launching(t)' => F!Launching(t) /\ start'[t].model = start[t].model
    BY <1>3, InspectShape, PickShape DEF StartTurn, Ends, F!Launching
  <2>3. BoxesFall /\ StartsFall /\ RowsFall
    BY <2>1, <2>2, BoxSame, BoxesFalling, StartsFalling DEF RowsFall
  <2> QED
    BY <2>1, <2>3, StopsSame, OrphansKept
<1>4. ASSUME NEW s \in F!Starters, F!CreateBox(s) PROVE OrphansInv'
  <2>1. /\ start[s].at = "create"
        /\ (Goes(s, "start") /\ Creates(s)) \/ (Ends(s) /\ box' = box)
        /\ UNCHANGED <<row, stop, excused>>
    BY <1>4, CreateShape
  <2>2. \A t \in F!Starters : F!Launching(t)' => F!Launching(t) /\ start'[t].model = start[t].model
    BY <2>1 DEF Goes, Ends, StartTurn, F!Launching
  <2>5. F!Launching(s)
    BY <2>1 DEF F!Launching
  <2>3. BoxesFall
    BY <2>1, <2>5 DEF BoxesFall, Creates, F!Boxes, F!Starting, FleetTypes
  <2>4. StartsFall /\ RowsFall
    BY <2>1, <2>2, StartsFalling DEF RowsFall
  <2> QED
    BY <2>1, <2>3, <2>4, StopsSame, OrphansKept
<1>5. ASSUME NEW m \in Models, F!Dies(m) PROVE OrphansInv'
  <2>1. /\ m \in F!Boxes /\ box' = [box EXCEPT ![m].state = "exited"]
        /\ UNCHANGED <<row, start, stop, excused>>
    BY <1>5, DiesShape
  <2>2. BoxesFall /\ StartsFall /\ RowsFall
    BY <2>1, BoxMarked, BoxesFalling, StartsFalling DEF RowsFall, F!Launching
  <2> QED
    BY <2>1, <2>2, StopsSame, OrphansKept
<1>6. ASSUME (\E m \in Models : F!Probe(m)) \/ F!Reconcile \/ F!Quarantine PROVE OrphansInv'
  <2>1. /\ \A t \in F!Starters : StartKeeps(t)
        /\ \A m \in Models : row'[m] = row[m] \/ (row[m] # "gone" /\ row'[m] = "idle")
        /\ UNCHANGED <<box, stop, excused>>
    BY <1>6, UidsOfSupervisor
  <2>2. BoxesFall /\ StartsFall /\ RowsFall
    BY <2>1, BoxSame, BoxesFalling, KeptFalls DEF RowsFall
  <2> QED
    BY <2>1, <2>2, StopsSame, OrphansKept
<1>7. CASE F!Crash
  <2>1. CrashShapes /\ MarksFall /\ UNCHANGED <<box, excused>>
    BY <1>7, CrashShape
  <2>2. BoxesFall /\ StartsFall /\ RowsFall
    BY <2>1, BoxSame, BoxesFalling, StartsFalling DEF RowsFall, MarksFall, CrashShapes, F!Launching
  <2>3. \A d \in Stops : StopFalls(d)
    BY <2>1 DEF CrashShapes, StopFalls, StopExcused, Late
  <2> QED
    BY <2>1, <2>2, <2>3, OrphansKept
<1>8. ASSUME NEW s \in F!Starters, NEW m \in Models, F!StartBegin(s, m) PROVE OrphansInv'
  BY <1>8, BeginShape, OrphansJoin
<1>9. CASE F!Revive
  BY <1>9, ReviveShape, TheSupervisor, OrphansJoin
<1> QED
  BY <1>1, <1>2, <1>3, <1>4, <1>5, <1>6, <1>7, <1>8, <1>9, OrphansOfStop, AStart DEF F!Next

(* A start that counts on the key has it, or the model has no row, or the key  *)
(* was dropped meanwhile.                                                      *)
HasKey(m) == m \in F!Keyed \cup cut \/ row[m] = "gone"
BooksKeyed == \A s \in F!Starters : F!CountsOnKey(s) => HasKey(start[s].model)
HasUnload(m) == \E d \in Stops : stop[d].at = "unload" /\ stop[d].model = m
Listed(m) == row[m] = "loaded" /\ m \notin F!Keyed => m \in cut \/ HasUnload(m)

UnlistedInv == BooksKeyed /\ \A m \in Models : Listed(m)

KeysStay == \A m \in Models : HasKey(m) => HasKey(m)'
ListedStay ==
    \A m \in Models : Listed(m) => Listed(m)'
UnloadsStay == \A m \in Models : HasUnload(m) => HasUnload(m)'

LEMMA CountingLaunches ==
    /\ \A s : F!CountsOnKey(s) => F!Launching(s)
    /\ \A s : F!CountsOnKey(s)' => F!Launching(s)'
  BY DEF F!CountsOnKey, F!Launching

LEMMA UnlistedKept ==
    ASSUME FleetTypes, UnlistedInv, KeysStay, ListedStay,
           \A s \in F!Starters : F!CountsOnKey(s)' =>
               /\ start'[s].model \in Models
               /\ (F!CountsOnKey(s) /\ start'[s].model = start[s].model)
                  \/ \E m \in Models : start'[s].model = m /\ HasKey(m)'
    PROVE  UnlistedInv'
<1>1. ASSUME NEW s \in F!Starters, F!CountsOnKey(s)'
      PROVE  \E m \in Models : start'[s].model = m /\ HasKey(m)'
  BY <1>1 DEF UnlistedInv, BooksKeyed, KeysStay
<1>2. BooksKeyed'
  BY <1>1 DEF BooksKeyed, HasKey
<1>3. \A m \in Models : Listed(m)'
  BY DEF UnlistedInv, ListedStay
<1> QED
  BY <1>2, <1>3 DEF UnlistedInv

(* Most steps leave the keys and the marks, and no start comes to its mark.    *)
NoneBooks ==
    \A s \in F!Starters : F!CountsOnKey(s)' =>
        F!CountsOnKey(s) /\ start'[s].model = start[s].model

LEMMA UnlistedQuiet ==
    ASSUME FleetTypes, UnlistedInv, NoneBooks, KeysStay, ListedStay
    PROVE  UnlistedInv'
<1>1. \A s \in F!Starters : F!CountsOnKey(s) => start[s].model \in Models
  BY ActiveModel, CountingLaunches
<1>2. \A s \in F!Starters : F!CountsOnKey(s)' =>
         /\ start'[s].model \in Models
         /\ F!CountsOnKey(s) /\ start'[s].model = start[s].model
  BY <1>1 DEF NoneBooks
<1> QED
  BY <1>2, UnlistedKept

LEMMA SameKeys ==
    ASSUME row' = row, stored' = stored, cut' = cut, UnloadsStay
    PROVE  KeysStay /\ ListedStay
  BY DEF KeysStay, HasKey, ListedStay, Listed, UnloadsStay, F!Keyed

LEMMA NoneBooking ==
    ASSUME NEW s \in F!Starters, StartTurn(s),
           F!CountsOnKey(s)' => F!CountsOnKey(s) /\ start'[s].model = start[s].model
    PROVE  NoneBooks
  BY DEF StartTurn, NoneBooks, F!CountsOnKey, F!Launching

LEMMA StartsStay == ASSUME start' = start PROVE NoneBooks
  BY DEF NoneBooks, F!CountsOnKey, F!Launching

LEMMA NoneLaunching ==
    ASSUME NEW s \in F!Starters, StartTurn(s), ~F!Launching(s)' PROVE NoneBooks
  BY CountingLaunches, NoneBooking

(* On its way a request does not count on the key yet, a restart does already. *)
LEMMA GoingCounts ==
    ASSUME NEW s \in F!Starters, NEW p, Goes(s, p), F!Launching(s), p = "book" => s = Supervisor
    PROVE  NoneBooks
  BY NoneBooking DEF Goes, F!CountsOnKey

LEMMA EndingCounts == ASSUME NEW s \in F!Starters, Ends(s) PROVE NoneBooks
  BY NoneLaunching DEF Ends, F!Launching

LEMMA StopsStay == ASSUME stop' = stop PROVE UnloadsStay
  BY DEF UnloadsStay, HasUnload

LEMMA UnloadsOthers ==
    ASSUME NEW d \in Stops, StopTurn(d), stop[d].at # "unload" PROVE UnloadsStay
  BY DEF UnloadsStay, HasUnload, StopTurn

LEMMA UnlistedChoice ==
    ASSUME FleetTypes, UnlistedInv, NEW s \in F!Starters, s # Supervisor,
           F!InspectUid(s) \/ F!PickUid(s)
    PROVE  UnlistedInv'
<1>1. /\ UNCHANGED <<row, stop, stored, cut>>
      /\ StartTurn(s) /\ start'[s].at # "book"
  BY InspectShape, PickShape DEF Ends
<1>2. ~F!CountsOnKey(s)'
  BY <1>1 DEF F!CountsOnKey
<1> QED
  BY <1>1, <1>2, StopsStay, SameKeys, NoneBooking, UnlistedQuiet

LEMMA UnlistedOfStart ==
    ASSUME FleetTypes, UnlistedInv, NEW s \in F!Starters,
           F!LookForBox(s) \/ F!RemoveStopped(s) \/ F!CreateBox(s) \/ F!StartBox(s)
    PROVE  UnlistedInv'
<1>1. /\ UNCHANGED <<row, stop, stored, cut>>
      /\ start[s].at \in {"look", "remove", "create", "start"}
      /\ Ends(s) \/ \E p \in {F!AfterLaunch(s), "remove", "create", "start"} : Goes(s, p)
  BY LookShape, RemoveShape, CreateShape, StartBoxShape
<1>2. F!Launching(s)
  BY <1>1 DEF F!Launching
<1>3. NoneBooks
  BY <1>1, <1>2, Afterwards, GoingCounts, EndingCounts
<1> QED
  BY <1>1, <1>3, StopsStay, SameKeys, UnlistedQuiet

LEMMA UnlistedStore ==
    ASSUME FleetTypes, UnlistedInv, NEW s \in F!Starters, F!StoreKey(s)
    PROVE  UnlistedInv'
<1> DEFINE m == start[s].model
<1>1. /\ start[s].at = "store" /\ Goes(s, "book")
      /\ \/ F!Keyed' = F!Keyed \cup {m} /\ cut' = cut \ {m}
         \/ row[m] = "gone" /\ F!Keyed' = F!Keyed /\ cut' = cut
         \/ cut' = (IF m \in F!Keyed THEN cut ELSE cut \cup {m}) /\ F!Keyed' = F!Keyed
      /\ row' = row /\ stop' = stop
  BY StoreShape, KeysSame
<1>2. m \in Models /\ UnloadsStay
  BY <1>1, ActiveModel, StopsStay
<1>3. \A n \in Models : n = m => HasKey(n)'
  BY <1>1 DEF HasKey
<1>4. KeysStay
  BY <1>1 DEF KeysStay, HasKey
<1>5. ListedStay
  BY <1>1, <1>2 DEF ListedStay, Listed, UnloadsStay
<1>6. \A t \in F!Starters \ {s} : start'[t] = start[t]
  BY <1>1 DEF Goes, StartTurn
<1>7. start'[s].model = m
  BY <1>1 DEF Goes
<1>9. \A t \in F!Starters \ {s} : F!CountsOnKey(t)' => F!CountsOnKey(t)
  BY <1>6 DEF F!CountsOnKey, F!Launching
<1>8. \A t \in F!Starters : F!CountsOnKey(t)' =>
         /\ start'[t].model \in Models
         /\ (F!CountsOnKey(t) /\ start'[t].model = start[t].model)
            \/ \E n \in Models : start'[t].model = n /\ HasKey(n)'
  BY <1>2, <1>3, <1>6, <1>7, <1>9, ActiveModel, CountingLaunches
<1> QED
  BY <1>4, <1>5, <1>8, UnlistedKept

LEMMA UnlistedBook ==
    ASSUME FleetTypes, UnlistedInv, NEW s \in F!Starters, F!Book(s)
    PROVE  UnlistedInv'
<1> DEFINE m == start[s].model
<1>1. /\ F!CountsOnKey(s) /\ Ends(s)
      /\ row' = F!Marked(m, "loaded") \/ row' = row
      /\ stop' = stop /\ cut' = cut /\ F!Keyed' = F!Keyed
  BY BookShape, KeysSame DEF F!CountsOnKey
<1>2. m \in Models /\ HasKey(m)
  BY <1>1, ActiveModel, CountingLaunches DEF UnlistedInv, BooksKeyed
<1>3. /\ row'[m] = (IF row[m] = "gone" THEN "gone" ELSE "loaded") \/ row'[m] = row[m]
      /\ \A n \in Models \ {m} : row'[n] = row[n]
  BY <1>1, <1>2, MarkedShape
<1>4. KeysStay
  BY <1>1, <1>3 DEF KeysStay, HasKey
<1>5. UnloadsStay
  BY <1>1, StopsStay
<1>6. ListedStay
  BY <1>1, <1>2, <1>3, <1>5 DEF ListedStay, Listed, UnloadsStay, HasKey
<1> QED
  BY <1>1, <1>4, <1>6, EndingCounts, UnlistedQuiet

LEMMA UnlistedOfStop ==
    ASSUME FleetTypes, UnlistedInv, NoModel \notin Models, NEW d \in Stops,
           \/ \E m \in Models : F!StopBegin(d, m)
           \/ F!StopBox(d) \/ F!DropKey(d) \/ F!Unload(d) \/ F!DeleteRow(d)
    PROVE  UnlistedInv'
<1> DEFINE m == stop[d].model
<1>1. NoneBooks
  BY UidsOfStop, StartsStay
<1>2. stop[d].at \notin {"new", "done"} => m \in Models
  BY ActiveModel
<1>3. ASSUME NEW n \in Models, F!StopBegin(d, n) PROVE UnlistedInv'
  <2>1. stop[d].at = "new" /\ StopTurn(d) /\ row' = row /\ stored' = stored /\ cut' = cut
    BY <1>3, StopBeginShape
  <2> QED
    BY <1>1, <2>1, UnloadsOthers, SameKeys, UnlistedQuiet
<1>4. ASSUME F!StopBox(d) PROVE UnlistedInv'
  <2>1. stop[d].at = "stop" /\ StopTurn(d) /\ row' = row /\ stored' = stored /\ cut' = cut
    BY <1>4, StopBoxShape DEF StopGoes, StopIsOver
  <2> QED
    BY <1>1, <2>1, UnloadsOthers, SameKeys, UnlistedQuiet
<1>5. ASSUME F!DropKey(d) PROVE UnlistedInv'
  <2>1. /\ stop[d].at = "cleanup" /\ StopGoes(d, "unload")
        /\ \/ /\ F!Keyed' = F!Keyed \ {m}
              /\ cut' = IF \E s \in F!Starters : F!CountsOnKey(s) /\ start[s].model = m
                        THEN cut \cup {m} ELSE cut
           \/ F!Keyed' = F!Keyed /\ cut' = cut
        /\ row' = row /\ start' = start
    BY <1>5, DropKeyShape, KeysSame
  <2>2. UnloadsStay
    BY <2>1, UnloadsOthers DEF StopGoes
  <2>3. stop'[d].at = "unload" /\ stop'[d].model = m
    BY <2>1 DEF StopGoes
  <2>4. \A n \in Models : n = m => HasUnload(n)'
    BY <2>3 DEF HasUnload
  <2>5. ListedStay
    BY <2>1, <2>2, <2>4 DEF ListedStay, Listed, UnloadsStay
  <2>6. ASSUME NEW s \in F!Starters, F!CountsOnKey(s)'
        PROVE  \E n \in Models : start'[s].model = n /\ HasKey(n)'
    <3>0. F!CountsOnKey(s)
      BY <2>1, <2>6 DEF F!CountsOnKey, F!Launching
    <3>1. F!CountsOnKey(s) /\ start[s].model \in Models /\ HasKey(start[s].model)
      BY <3>0, ActiveModel, CountingLaunches DEF UnlistedInv, BooksKeyed
    <3>2. \A n \in Models : start[s].model = n => HasKey(n)'
      BY <2>1, <3>1 DEF HasKey
    <3> QED
      BY <2>1, <3>1, <3>2
  <2>7. BooksKeyed'
    BY <2>6 DEF BooksKeyed, HasKey
  <2> QED
    BY <2>5, <2>7 DEF UnlistedInv, ListedStay
<1>6. ASSUME F!Unload(d) PROVE UnlistedInv'
  <2>1. /\ stop[d].at = "unload" /\ StopTurn(d)
        /\ \/ row' = F!Marked(m, "idle") /\ cut' = cut
           \/ cut' = cut \cup {m} /\ row' = row
        /\ F!Keyed' = F!Keyed
    BY <1>6, UnloadShape, KeysSame DEF StopGoes, StopIsOver
  <2>2. \A n \in Models \ {m} : HasUnload(n) => HasUnload(n)'
    BY <2>1 DEF HasUnload, StopTurn
  <2>3. CASE row' = F!Marked(m, "idle") /\ cut' = cut
    <3>1. /\ row'[m] = IF row[m] = "gone" THEN "gone" ELSE "idle"
          /\ \A n \in Models \ {m} : row'[n] = row[n]
      BY <1>2, <2>1, <2>3, MarkedShape
    <3>2. KeysStay /\ ListedStay
      BY <2>1, <2>2, <2>3, <3>1 DEF KeysStay, HasKey, ListedStay, Listed
    <3> QED
      BY <1>1, <3>2, UnlistedQuiet
  <2>4. CASE cut' = cut \cup {m} /\ row' = row
    <3>1. KeysStay /\ ListedStay
      BY <2>1, <2>2, <2>4 DEF KeysStay, HasKey, ListedStay, Listed
    <3> QED
      BY <1>1, <3>1, UnlistedQuiet
  <2> QED
    BY <2>1, <2>3, <2>4
<1>7. ASSUME F!DeleteRow(d) PROVE UnlistedInv'
  <2>1. /\ stop[d].at = "row" /\ StopTurn(d)
        /\ \/ row' = [row EXCEPT ![m] = "gone"] /\ F!Keyed' = F!Keyed \ {m}
           \/ row' = row /\ stored' = stored
        /\ cut' = cut
    BY <1>7, DeleteShape DEF StopIsOver
  <2>2. UnloadsStay
    BY <2>1, UnloadsOthers
  <2>3. CASE row' = [row EXCEPT ![m] = "gone"] /\ F!Keyed' = F!Keyed \ {m}
    <3>1. row'[m] = "gone" /\ \A n \in Models \ {m} : row'[n] = row[n]
      BY <1>2, <2>1, <2>3 DEF FleetTypes
    <3>2. KeysStay /\ ListedStay
      BY <2>1, <2>2, <2>3, <3>1 DEF KeysStay, HasKey, ListedStay, Listed, UnloadsStay
    <3> QED
      BY <1>1, <3>2, UnlistedQuiet
  <2>4. CASE row' = row /\ stored' = stored
    BY <1>1, <2>1, <2>2, <2>4, SameKeys, UnlistedQuiet
  <2> QED
    BY <2>1, <2>3, <2>4
<1> QED
  BY <1>3, <1>4, <1>5, <1>6, <1>7

LEMMA UnlistedJoin ==
    ASSUME FleetTypes, UnlistedInv, NEW s \in F!Starters, NEW m \in Models, Joins(s, m),
           F!CountsOnKey(s)' => HasKey(m)
    PROVE  UnlistedInv'
<1>1. /\ row' = row /\ stored' = stored /\ cut' = cut /\ start'[s].model = m
      /\ \A t \in F!Starters \ {s} : start'[t].at = start[t].at /\ start'[t].model = start[t].model
      /\ \A d \in Stops : stop'[d].at = stop[d].at /\ stop'[d].model = stop[d].model
  BY DEF Joins
<1>2. UnloadsStay
  BY <1>1 DEF UnloadsStay, HasUnload
<1>3. KeysStay /\ ListedStay
  BY <1>1, <1>2, SameKeys
<1>4. \A t \in F!Starters \ {s} : F!CountsOnKey(t)' => F!CountsOnKey(t)
  BY <1>1 DEF F!CountsOnKey, F!Launching
<1>5. \A t \in F!Starters : F!CountsOnKey(t)' =>
         /\ start'[t].model \in Models
         /\ (F!CountsOnKey(t) /\ start'[t].model = start[t].model)
            \/ \E n \in Models : start'[t].model = n /\ HasKey(n)'
  BY <1>1, <1>3, <1>4, ActiveModel, CountingLaunches DEF KeysStay
<1> QED
  BY <1>3, <1>5, UnlistedKept

LEMMA UnlistedStep ==
    ASSUME FleetTypes, UnlistedInv, NoModel \notin Models, [F!Next]_fleet
    PROVE  UnlistedInv'
<1>1. CASE UNCHANGED fleet
  BY <1>1, StartsStay, StopsStay, SameKeys, UnlistedQuiet DEF fleet
<1>2. ASSUME NEW s \in Starts, NEW m \in Models, F!StartBegin(s, m) PROVE UnlistedInv'
  <2>1. Joins(s, m) /\ start'[s].at = "inspect" /\ s \in F!Starters /\ s # Supervisor
    BY <1>2, BeginShape, AStart
  <2>2. ~F!CountsOnKey(s)'
    BY <2>1 DEF F!CountsOnKey
  <2> QED
    BY <2>1, <2>2, UnlistedJoin
<1>3. CASE F!Revive
  <2>1. PICK m \in Models : m \in F!Keyed /\ Joins(Supervisor, m)
    BY <1>3, ReviveShape
  <2> QED
    BY <2>1, TheSupervisor, UnlistedJoin DEF HasKey
<1>4. ASSUME NEW m \in Models, F!Dies(m) PROVE UnlistedInv'
  <2>1. UNCHANGED <<row, start, stop, stored, cut>>
    BY <1>4, DiesShape
  <2> QED
    BY <2>1, StartsStay, StopsStay, SameKeys, UnlistedQuiet
<1>5. ASSUME (\E m \in Models : F!Probe(m)) \/ F!Reconcile \/ F!Quarantine PROVE UnlistedInv'
  <2>1. /\ StartTurn(Supervisor) /\ ~F!Launching(Supervisor)'
        /\ \A m \in Models : row'[m] = row[m] \/ (row[m] # "gone" /\ row'[m] = "idle")
        /\ F!Keyed' = F!Keyed /\ stop' = stop /\ cut' = cut
    BY <1>5, UidsOfSupervisor, KeysSame
  <2>2. KeysStay
    BY <2>1 DEF KeysStay, HasKey
  <2>3. ListedStay
    BY <2>1, StopsStay DEF ListedStay, Listed, UnloadsStay
  <2> QED
    BY <2>1, <2>2, <2>3, TheSupervisor, NoneLaunching, UnlistedQuiet
<1>6. CASE F!Crash
  <2>1. /\ CrashShapes /\ MarksFall /\ F!Keyed' = F!Keyed
        /\ cut' = cut \cup {stop[d].model : d \in {d \in Stops : stop[d].at = "unload"}}
    BY <1>6, CrashShape, KeysSame
  <2>2. NoneBooks
    BY <2>1, CountingLaunches DEF CrashShapes, NoneBooks, F!Launching
  <2>3. \A m \in Models : HasUnload(m) => m \in cut'
    BY <2>1 DEF HasUnload
  <2>4. cut \subseteq cut'
    BY <2>1
  <2>5. KeysStay /\ ListedStay
    BY <2>1, <2>3, <2>4 DEF KeysStay, HasKey, ListedStay, Listed, MarksFall
  <2> QED
    BY <2>2, <2>5, UnlistedQuiet
<1> QED
  BY <1>1, <1>2, <1>3, <1>4, <1>5, <1>6, UnlistedChoice, UnlistedOfStart, UnlistedStore,
     UnlistedBook, UnlistedOfStop, AStart DEF F!Next

(* The whole of it.                                                            *)
FleetInv == FleetTypes /\ UidsInv /\ OrphansInv /\ UnlistedInv

LEMMA FleetStart == ASSUME F!Init PROVE FleetInv
<1>1. /\ \A s \in F!Starters : start[s] = F!NoStart
      /\ \A d \in Stops : stop[d] = F!NoStop
      /\ \A m \in Models : row[m] = "idle"
  BY DEF F!Init
<1>2. OrphansInv
  BY <1>1, NewStart DEF OrphansInv, RowExcused, StopExcused, Late, F!Starting, F!Launching, F!Boxes
<1>3. UnlistedInv
  BY <1>1, NewStart DEF UnlistedInv, BooksKeyed, Listed, F!CountsOnKey, F!Launching
<1> QED
  BY <1>2, <1>3, UidsStart DEF FleetInv

LEMMA FleetStep ==
    ASSUME FleetInv, NoModel \notin Models, [F!Next]_fleet PROVE FleetInv'
  BY UidsStep, OrphansStep, UnlistedStep DEF FleetInv

LEMMA FleetSafe == ASSUME FleetInv PROVE F!UidsApart /\ F!LeftoversExplained
<1>1. F!OrphansExplained
  BY DEF FleetInv, OrphansInv, RowExcused, F!OrphansExplained, F!Boxes
<1>2. F!UnlistedExplained
  BY DEF FleetInv, UnlistedInv, Listed, HasUnload, F!UnlistedExplained
<1> QED
  BY <1>1, <1>2 DEF FleetInv, UidsInv, F!LeftoversExplained

-----------------------------------------------------------------------------
(* The resolution of models.                                                   *)

RowRecs == [id : Models, loaded : BOOLEAN]
ModelRecs == [repo : Repos, category : Categories \cup {None}, loaded : BOOLEAN]
CategoryRecs == [name : Names, preferred : Models \cup {None}]
CallRecs == [at : {"idle", "pin", "id", "name", "preferred", "loaded", "done"},
             pin : Models \cup {None}, scope : Categories \cup {None},
             name : Models \cup Repos \cup Names \cup {None}, within : Categories \cup {None},
             prefer : RowRecs \cup {None}, answer : RowRecs \cup {None}]

RoutingTypes ==
    /\ model \in [Models -> ModelRecs \cup {None}]
    /\ category \in [Categories -> CategoryRecs \cup {None}]
    /\ call \in CallRecs
    /\ call.scope \in {None, call.within}
    /\ call.at \in {"idle", "pin", "id", "name"} => call.within = None
    /\ call.at \in {"preferred", "loaded"} => call.within # None

(* What Observe notes of a category.                                           *)
Inside(c) == {m \in Models : \/ m = (IF category[c] = None THEN None ELSE category[c].preferred)
                             \/ model[m] # None /\ model[m].category = c}
LoadedOf(c) == {m \in Models : model[m] # None /\ model[m].category = c /\ model[m].loaded}

(* While a call searches, what is now in its category has been noted, and what *)
(* was loaded all along is loaded now; the preferred model it keeps was noted. *)
Searching ==
    call.at \in {"preferred", "loaded"} =>
        \A c \in Categories : c = call.within =>
            Inside(c) \subseteq seen.inside /\ seen.steady \subseteq LoadedOf(c)

PreferNoted == call.at = "loaded" => call.prefer = None \/ call.prefer.id \in seen.inside

RoutingInv == RoutingTypes /\ Searching /\ PreferNoted /\ R!RightModel

Fresh == call.within = None \/ (call.at = "done" /\ call'.at # "done")

LEMMA Observed ==
    ASSUME R!Observe
    PROVE  /\ call'.within = None => seen'.inside = {} /\ seen'.steady = {}
           /\ \A c \in Categories : c = call'.within /\ c # None =>
                 /\ Fresh => seen'.inside = Inside(c)' /\ seen'.steady = LoadedOf(c)'
                 /\ ~Fresh /\ call.at = "done" => seen' = seen
                 /\ ~Fresh /\ call.at # "done" =>
                       /\ seen'.inside = seen.inside \cup Inside(c)'
                       /\ seen'.steady = seen.steady \cap LoadedOf(c)'
<1>1. call'.within = None => seen'.inside = {} /\ seen'.steady = {}
  BY DEF R!Observe
<1>2. ASSUME NEW c \in Categories, c = call'.within, c # None
      PROVE  /\ Fresh => seen'.inside = Inside(c)' /\ seen'.steady = LoadedOf(c)'
             /\ ~Fresh /\ call.at = "done" => seen' = seen
             /\ ~Fresh /\ call.at # "done" =>
                   /\ seen'.inside = seen.inside \cup Inside(c)'
                   /\ seen'.steady = seen.steady \cap LoadedOf(c)'
  <2> DEFINE i == Inside(c)'
             l == LoadedOf(c)'
  <2>1. seen' = IF Fresh THEN [inside |-> i, steady |-> l]
                ELSE IF call.at = "done" THEN seen
                ELSE [inside |-> seen.inside \cup i, steady |-> seen.steady \cap l]
    BY <1>2 DEF R!Observe, Fresh, Inside, LoadedOf
  <2> HIDE DEF i, l
  <2> QED
    BY <2>1 DEF i, l
<1> QED
  BY <1>1, <1>2

(* How a step changes the call.                                                *)
Answers(x) ==
    /\ call' \in CallRecs /\ call'.at = "done" /\ call'.answer = x
    /\ call'.scope = call.scope /\ call'.within = call.within

LEMMA AnswerShape ==
    ASSUME call \in CallRecs, NEW x \in RowRecs \cup {None}, R!Answer(x) PROVE Answers(x)
  BY DEF R!Answer, Answers, CallRecs

LEMMA GoToShape ==
    ASSUME call \in CallRecs, R!GoTo("name")
    PROVE  /\ call' \in CallRecs /\ call'.at = "name"
           /\ call'.scope = call.scope /\ call'.within = call.within
  BY DEF R!GoTo, CallRecs

LEMMA SearchShape ==
    ASSUME call \in CallRecs, NEW c \in Categories, R!SearchIn(c)
    PROVE  /\ call' \in CallRecs /\ call'.at = "preferred"
           /\ call'.scope = call.scope /\ call'.within = c
  BY DEF R!SearchIn, CallRecs

LEMMA PreferShape ==
    ASSUME call \in CallRecs, NEW x \in RowRecs \cup {None},
           call' = [call EXCEPT !.at = "loaded", !.prefer = x]
    PROVE  /\ call' \in CallRecs /\ call'.at = "loaded" /\ call'.prefer = x
           /\ call'.scope = call.scope /\ call'.within = call.within
  BY DEF CallRecs

LEMMA QuietShape ==
    /\ R!Quiet \in CallRecs /\ R!Quiet.at = "idle" /\ R!Quiet.scope = None
    /\ R!Quiet.within = None
  BY DEF R!Quiet, CallRecs

LEMMA BeginCall ==
    ASSUME R!Begin
    PROVE  /\ call.at \in {"idle", "done"} /\ call' \in CallRecs
           /\ \/ call'.at \in {"pin", "id"} /\ call'.scope = None /\ call'.within = None
              \/ /\ call'.at = "preferred" /\ call'.within \in Categories
                 /\ call'.scope = call'.within
           /\ UNCHANGED <<model, category>>
<1> DEFINE q == R!Quiet
<1>1. q \in CallRecs /\ q.scope = None /\ q.within = None
  BY QuietShape
<1>2. /\ call.at \in {"idle", "done"} /\ UNCHANGED <<model, category>>
      /\ \/ \E m \in Models : call' = [q EXCEPT !.at = "pin", !.pin = m]
         \/ \E c \in R!Cats, n \in Models \cup Repos \cup Names :
              call' = [q EXCEPT !.at = "preferred", !.scope = c, !.within = c, !.name = n]
         \/ \E n \in Models \cup Repos \cup Names : call' = [q EXCEPT !.at = "id", !.name = n]
  BY DEF R!Begin, R!Tables
<1> HIDE DEF q
<1>3. ASSUME NEW m \in Models, call' = [q EXCEPT !.at = "pin", !.pin = m]
      PROVE  call' \in CallRecs /\ call'.at = "pin" /\ call'.scope = None /\ call'.within = None
  BY <1>1, <1>3 DEF CallRecs
<1>4. ASSUME NEW n \in Models \cup Repos \cup Names, call' = [q EXCEPT !.at = "id", !.name = n]
      PROVE  call' \in CallRecs /\ call'.at = "id" /\ call'.scope = None /\ call'.within = None
  BY <1>1, <1>4 DEF CallRecs
<1>5. ASSUME NEW c \in R!Cats, NEW n \in Models \cup Repos \cup Names,
             call' = [q EXCEPT !.at = "preferred", !.scope = c, !.within = c, !.name = n]
      PROVE  /\ call' \in CallRecs /\ call'.at = "preferred" /\ call'.within \in Categories
             /\ call'.scope = call'.within
  <2> DEFINE e == [at |-> "preferred", pin |-> q.pin, scope |-> c, name |-> n, within |-> c,
                   prefer |-> q.prefer, answer |-> q.answer]
  <2>1. c \in Categories
    BY DEF R!Cats
  <2>2. call' = e
    BY <1>1, <1>5 DEF CallRecs
  <2>3. e.at = "preferred" /\ e.scope = c /\ e.within = c
    OBVIOUS
  <2>4. e \in CallRecs
    BY <1>1, <2>1 DEF CallRecs
  <2> HIDE DEF e
  <2> QED
    BY <2>1, <2>2, <2>3, <2>4
<1> QED
  BY <1>2, <1>3, <1>4, <1>5

(* A step of the call that leaves the tables and does not end it.              *)
LEMMA SearchGoesOn ==
    ASSUME RoutingInv, R!Observe, None \notin Categories, RoutingTypes',
           call'.at # "done", call.at \notin {"preferred", "loaded"}, PreferNoted'
    PROVE  RoutingInv'
<1>1. ASSUME NEW c \in Categories, c = call'.within, call'.at \in {"preferred", "loaded"}
      PROVE  Inside(c)' \subseteq seen'.inside /\ seen'.steady \subseteq LoadedOf(c)'
  <2>1. Fresh
    BY <1>1 DEF RoutingInv, RoutingTypes, Fresh, CallRecs
  <2> QED
    BY <1>1, <2>1, Observed
<1>2. Searching'
  BY <1>1 DEF Searching
<1>3. R!RightModel'
  BY DEF R!RightModel, R!ScopedStaysInside, R!LoadedIsFound
<1> QED
  BY <1>2, <1>3 DEF RoutingInv

(* An answer outside any category, and one of a search in a category.          *)
LEMMA AnswersOutside ==
    ASSUME RoutingInv, R!Observe, None \notin Categories, NEW x, Answers(x), RoutingTypes',
           call.at \in {"pin", "id", "name"}
    PROVE  RoutingInv'
<1>1. call'.within = None /\ call'.scope = None /\ call'.at = "done"
  BY DEF RoutingInv, RoutingTypes, Answers
<1>2. seen'.steady = {}
  BY <1>1, Observed
<1> QED
  BY <1>1, <1>2 DEF RoutingInv, Searching, PreferNoted, R!RightModel, R!ScopedStaysInside,
                    R!LoadedIsFound

LEMMA AnswersInside ==
    ASSUME RoutingInv, R!Observe, None \notin Categories, NEW x \in RowRecs \cup {None},
           Answers(x), RoutingTypes', UNCHANGED <<model, category>>,
           call.at \in {"preferred", "loaded"},
           x # None => x.id \in seen.inside \cup Inside(call.within),
           (x # None /\ x.loaded) \/ LoadedOf(call.within) = {}
    PROVE  RoutingInv'
<1>1. PICK c \in Categories : c = call.within /\ c # None
  BY DEF RoutingInv, RoutingTypes, CallRecs
<1>2. call'.within = c /\ call'.at = "done" /\ call'.answer = x
  BY <1>1 DEF Answers
<1>3. ~Fresh /\ call.at # "done"
  BY <1>1 DEF Fresh
<1>4. Inside(c)' = Inside(c) /\ LoadedOf(c)' = LoadedOf(c)
  BY DEF Inside, LoadedOf
<1>5. seen'.inside = seen.inside \cup Inside(c) /\ seen'.steady = seen.steady \cap LoadedOf(c)
  BY <1>1, <1>2, <1>3, <1>4, Observed
<1>6. R!ScopedStaysInside'
  BY <1>1, <1>2, <1>5 DEF R!ScopedStaysInside
<1>7. R!LoadedIsFound'
  BY <1>1, <1>2, <1>5 DEF R!LoadedIsFound
<1> QED
  BY <1>2, <1>6, <1>7 DEF RoutingInv, Searching, PreferNoted, R!RightModel

LEMMA TablesSame ==
    ASSUME RoutingTypes, UNCHANGED <<model, category>>, call' \in CallRecs,
           call'.scope \in {None, call'.within},
           call'.at \in {"idle", "pin", "id", "name"} => call'.within = None,
           call'.at \in {"preferred", "loaded"} => call'.within # None
    PROVE  RoutingTypes'
  BY DEF RoutingTypes

LEMMA RowShape ==
    ASSUME RoutingTypes, NEW m \in R!Rows
    PROVE  /\ m \in Models /\ model[m] \in ModelRecs /\ R!Row(m) \in RowRecs /\ R!Row(m).id = m
           /\ R!Row(m).loaded = model[m].loaded
  BY DEF RoutingTypes, R!Rows, R!Row, RowRecs, ModelRecs

LEMMA AnswerTypes ==
    ASSUME RoutingTypes, UNCHANGED <<model, category>>, NEW x, Answers(x) PROVE RoutingTypes'
  BY TablesSame DEF Answers, RoutingTypes

LEMMA RoutingOutside ==
    ASSUME RoutingInv, R!Observe, None \notin Categories,
           R!Begin \/ R!Pinned \/ R!ByIdOrRepo \/ R!ByName
    PROVE  RoutingInv'
<1>1. RoutingTypes /\ call \in CallRecs
  BY DEF RoutingInv, RoutingTypes
<1>2. CASE R!Begin
  <2>1. /\ call.at \in {"idle", "done"} /\ call' \in CallRecs
        /\ \/ call'.at \in {"pin", "id"} /\ call'.scope = None /\ call'.within = None
           \/ call'.at = "preferred" /\ call'.within \in Categories /\ call'.scope = call'.within
        /\ UNCHANGED <<model, category>>
    BY <1>2, BeginCall
  <2>2. RoutingTypes' /\ PreferNoted'
    BY <1>1, <2>1, TablesSame DEF PreferNoted
  <2> QED
    BY <2>1, <2>2, SearchGoesOn
<1>3. ASSUME NEW x \in RowRecs \cup {None}, R!Answer(x), call.at \in {"pin", "id", "name"},
             UNCHANGED <<model, category>>
      PROVE  RoutingInv'
  BY <1>1, <1>3, AnswerShape, AnswerTypes, AnswersOutside
<1>4. CASE R!Pinned
  <2>1. /\ call.at = "pin" /\ UNCHANGED <<model, category>>
        /\ (\E m \in R!Rows : R!Answer(R!Row(m))) \/ R!Answer(None)
    BY <1>4 DEF R!Pinned, R!Refuse, R!Tables
  <2> QED
    BY <1>1, <1>3, <2>1, RowShape
<1>5. CASE R!ByIdOrRepo
  <2>1. /\ call.at = "id" /\ UNCHANGED <<model, category>>
        /\ (\E m \in R!Rows : R!Answer(R!Row(m))) \/ R!GoTo("name")
    BY <1>5 DEF R!ByIdOrRepo, R!Matching, R!Tables
  <2>2. CASE \E m \in R!Rows : R!Answer(R!Row(m))
    BY <1>1, <1>3, <2>1, <2>2, RowShape
  <2>3. CASE R!GoTo("name")
    <3>1. /\ call' \in CallRecs /\ call'.at = "name"
          /\ call'.scope = call.scope /\ call'.within = call.within
      BY <1>1, <2>3, GoToShape
    <3>2. RoutingTypes' /\ PreferNoted'
      BY <1>1, <2>1, <3>1, TablesSame DEF RoutingTypes, PreferNoted
    <3> QED
      BY <2>1, <3>1, <3>2, SearchGoesOn
  <2> QED
    BY <2>1, <2>2, <2>3
<1>6. CASE R!ByName
  <2>1. /\ call.at = "name" /\ UNCHANGED <<model, category>>
        /\ (\E c \in Categories : R!SearchIn(c)) \/ R!Answer(None)
    BY <1>6 DEF R!ByName, R!Named, R!Cats, R!Refuse, R!Tables
  <2>2. CASE R!Answer(None)
    BY <1>3, <2>1, <2>2
  <2>3. ASSUME NEW c \in Categories, R!SearchIn(c) PROVE RoutingInv'
    <3>1. /\ call' \in CallRecs /\ call'.at = "preferred"
          /\ call'.scope = call.scope /\ call'.within = c
      BY <1>1, <2>3, SearchShape
    <3>2. call.scope = None
      BY <1>1, <2>1 DEF RoutingTypes
    <3>3. RoutingTypes' /\ PreferNoted'
      BY <1>1, <2>1, <3>1, <3>2, TablesSame DEF PreferNoted
    <3> QED
      BY <2>1, <3>1, <3>3, SearchGoesOn
  <2> QED
    BY <2>1, <2>2, <2>3
<1> QED
  BY <1>2, <1>4, <1>5, <1>6

LEMMA PreferredShape ==
    ASSUME RoutingTypes, NEW c \in Categories, R!PreferredOf(c) # None
    PROVE  R!PreferredOf(c) \in RowRecs /\ R!PreferredOf(c).id \in Inside(c)
<1>1. /\ c \in R!Cats /\ category[c].preferred \in R!Rows
      /\ R!PreferredOf(c) = R!Row(category[c].preferred)
  BY DEF R!PreferredOf
<1>2. category[c] # None
  BY <1>1 DEF R!Cats
<1> QED
  BY <1>1, <1>2, RowShape DEF Inside

LEMMA RoutingInside ==
    ASSUME RoutingInv, R!Observe, None \notin Categories, None \notin RowRecs,
           R!Preferred \/ R!Fallback
    PROVE  RoutingInv'
<1>1. RoutingTypes /\ call \in CallRecs /\ UNCHANGED <<model, category>>
      /\ call.at \in {"preferred", "loaded"}
  BY DEF RoutingInv, RoutingTypes, R!Preferred, R!Fallback, R!Tables
<1>2. PICK c \in Categories : c = call.within /\ c # None
  BY <1>1 DEF RoutingTypes, CallRecs
<1>3. ASSUME NEW x \in RowRecs \cup {None}, R!Answer(x),
             x # None => x.id \in seen.inside \cup Inside(c),
             (x # None /\ x.loaded) \/ LoadedOf(c) = {}
      PROVE  RoutingInv'
  BY <1>1, <1>2, <1>3, AnswerShape, AnswerTypes, AnswersInside
<1>4. CASE R!Preferred
  <2> DEFINE p == R!PreferredOf(c)
  <2>1. /\ p # None => p \in RowRecs /\ p.id \in Inside(c)
        /\ p \in RowRecs \cup {None}
    BY <1>1, PreferredShape
  <2>2. (p # None /\ p.loaded /\ R!Answer(p))
        \/ call' = [call EXCEPT !.at = "loaded", !.prefer = p]
    BY <1>2, <1>4 DEF R!Preferred
  <2> HIDE DEF p
  <2>3. CASE p # None /\ p.loaded /\ R!Answer(p)
    BY <1>3, <2>1, <2>3
  <2>4. CASE call' = [call EXCEPT !.at = "loaded", !.prefer = p]
    <3>1. /\ call' \in CallRecs /\ call'.at = "loaded" /\ call'.prefer = p
          /\ call'.scope = call.scope /\ call'.within = c
      BY <1>1, <1>2, <2>1, <2>4, PreferShape
    <3>2. RoutingTypes'
      BY <1>1, <1>2, <3>1, TablesSame DEF RoutingTypes
    <3>3. Inside(c)' = Inside(c)
      BY <1>1 DEF Inside
    <3>4. seen'.inside = seen.inside \cup Inside(c)' /\ seen'.steady = seen.steady \cap LoadedOf(c)'
      BY <1>1, <1>2, <3>1, Observed DEF Fresh
    <3>5. Searching'
      BY <1>2, <3>1, <3>4 DEF Searching
    <3>6. PreferNoted'
      BY <2>1, <3>1, <3>3, <3>4 DEF PreferNoted
    <3> QED
      BY <3>1, <3>2, <3>5, <3>6 DEF RoutingInv, R!RightModel, R!ScopedStaysInside, R!LoadedIsFound
  <2> QED
    BY <2>2, <2>3, <2>4
<1>5. CASE R!Fallback
  <2>1. /\ call.at = "loaded"
        /\ \/ \E m \in R!LoadedIn(c) : R!Answer(R!Row(m))
           \/ R!LoadedIn(c) = {} /\ R!Answer(call.prefer)
    BY <1>2, <1>5 DEF R!Fallback
  <2>2. CASE R!LoadedIn(c) = {} /\ R!Answer(call.prefer)
    <3>1. LoadedOf(c) = {}
      BY <2>2 DEF LoadedOf, R!LoadedIn, R!Rows
    <3>2. call.prefer \in RowRecs \cup {None}
      BY <1>1 DEF CallRecs
    <3>3. call.prefer = None \/ call.prefer.id \in seen.inside
      BY <2>1 DEF RoutingInv, PreferNoted
    <3> QED
      BY <1>3, <2>2, <3>1, <3>2, <3>3
  <2>3. ASSUME NEW m \in R!LoadedIn(c), R!Answer(R!Row(m)) PROVE RoutingInv'
    <3>1. m \in R!Rows /\ model[m].category = c /\ model[m].loaded
      BY DEF R!LoadedIn
    <3>2. R!Row(m) \in RowRecs /\ R!Row(m).id = m /\ R!Row(m).loaded /\ m \in Inside(c)
      BY <1>1, <3>1, RowShape DEF Inside, R!Rows
    <3> QED
      BY <1>3, <2>3, <3>2
  <2> QED
    BY <2>1, <2>2, <2>3
<1> QED
  BY <1>4, <1>5

(* What the administrators change.                                             *)
LEMMA TablesTyped ==
    ASSUME RoutingTypes, R!Administer
    PROVE  /\ call' = call
           /\ model' \in [Models -> ModelRecs \cup {None}]
           /\ category' \in [Categories -> CategoryRecs \cup {None}]
<1>0. model \in [Models -> ModelRecs \cup {None}]
      /\ category \in [Categories -> CategoryRecs \cup {None}]
  BY DEF RoutingTypes
<1>1. ASSUME NEW c \in Categories, R!SaveCategory(c) \/ R!DeleteCategory(c)
      PROVE  /\ call' = call /\ model' = model
             /\ category' \in [Categories -> CategoryRecs \cup {None}]
  BY <1>0, <1>1 DEF R!SaveCategory, R!DeleteCategory, CategoryRecs
<1>2. ASSUME NEW m \in Models, R!RegisterModel(m)
      PROVE  /\ call' = call /\ category' = category
             /\ model' \in [Models -> ModelRecs \cup {None}]
  BY <1>0, <1>2 DEF R!RegisterModel, R!Cats, ModelRecs
<1>3. ASSUME NEW m \in Models, R!UpdateModel(m)
      PROVE  /\ call' = call /\ category' = category
             /\ model' \in [Models -> ModelRecs \cup {None}]
  <2>1. model[m] \in ModelRecs
    BY <1>0, <1>3 DEF R!UpdateModel, R!Rows
  <2>2. PICK c \in Categories \cup {None} : model' = [model EXCEPT ![m].category = c]
    BY <1>3 DEF R!UpdateModel, R!Cats
  <2>3. [model[m] EXCEPT !.category = c] \in ModelRecs
    BY <2>1 DEF ModelRecs
  <2> QED
    BY <1>0, <1>3, <2>2, <2>3 DEF R!UpdateModel
<1>4. ASSUME NEW m \in Models, R!SetLoaded(m)
      PROVE  /\ call' = call /\ category' = category
             /\ model' \in [Models -> ModelRecs \cup {None}]
  <2>1. model[m] \in ModelRecs
    BY <1>0, <1>4 DEF R!SetLoaded, R!Rows
  <2>2. [model[m] EXCEPT !.loaded = ~@] \in ModelRecs
    BY <2>1 DEF ModelRecs
  <2> QED
    BY <1>0, <1>4, <2>2 DEF R!SetLoaded
<1>5. ASSUME NEW m \in Models, R!DeleteModel(m)
      PROVE  /\ call' = call /\ category' = category
             /\ model' \in [Models -> ModelRecs \cup {None}]
  BY <1>0, <1>5 DEF R!DeleteModel
<1> QED
  BY <1>0, <1>1, <1>2, <1>3, <1>4, <1>5 DEF R!Administer

LEMMA RoutingAdministered ==
    ASSUME RoutingInv, R!Observe, None \notin Categories, R!Administer
    PROVE  RoutingInv'
<1>1. RoutingTypes' /\ call' = call
  <2>1. RoutingTypes
    BY DEF RoutingInv
  <2> QED
    BY <2>1, TablesTyped DEF RoutingTypes
<1>2. CASE call.at \in {"idle", "pin", "id", "name"}
  BY <1>1, <1>2, SearchGoesOn DEF PreferNoted
<1>3. CASE call.at \in {"preferred", "loaded"}
  <2>1. PICK c \in Categories : c = call.within /\ c # None
    BY <1>3 DEF RoutingInv, RoutingTypes, CallRecs
  <2>2. seen'.inside = seen.inside \cup Inside(c)' /\ seen'.steady = seen.steady \cap LoadedOf(c)'
    BY <1>1, <1>3, <2>1, Observed DEF Fresh
  <2>3. Searching'
    BY <1>1, <2>1, <2>2 DEF Searching
  <2>4. PreferNoted'
    BY <1>1, <2>2 DEF RoutingInv, PreferNoted
  <2> QED
    BY <1>1, <1>3, <2>3, <2>4 DEF RoutingInv, R!RightModel, R!ScopedStaysInside, R!LoadedIsFound
<1>4. CASE call.at = "done" /\ call.within = None
  <2>1. seen'.steady = {} /\ call.scope = None
    BY <1>1, <1>4, Observed DEF RoutingInv, RoutingTypes
  <2> QED
    BY <1>1, <1>4, <2>1 DEF RoutingInv, Searching, PreferNoted, R!RightModel,
                            R!ScopedStaysInside, R!LoadedIsFound
<1>5. CASE call.at = "done" /\ call.within # None
  <2>1. PICK c \in Categories : c = call.within
    BY <1>5 DEF RoutingInv, RoutingTypes, CallRecs
  <2>2. seen' = seen
    BY <1>1, <1>5, <2>1, Observed DEF Fresh
  <2> QED
    BY <1>1, <1>5, <2>2 DEF RoutingInv, Searching, PreferNoted, R!RightModel,
                            R!ScopedStaysInside, R!LoadedIsFound
<1> QED
  BY <1>2, <1>3, <1>4, <1>5 DEF RoutingInv, RoutingTypes, CallRecs

LEMMA RoutingStep ==
    ASSUME RoutingInv, None \notin Categories, None \notin RowRecs, [R!Next]_routing
    PROVE  RoutingInv'
<1>1. CASE UNCHANGED routing
  BY <1>1 DEF routing, RoutingInv, RoutingTypes, Searching, PreferNoted, Inside, LoadedOf,
              R!RightModel, R!ScopedStaysInside, R!LoadedIsFound
<1> QED
  BY <1>1, RoutingOutside, RoutingInside, RoutingAdministered DEF R!Next, R!Resolve

LEMMA RoutingStart == ASSUME R!Init PROVE RoutingInv
<1>1. call = R!Quiet
  BY DEF R!Init
<1>2. model \in [Models -> ModelRecs \cup {None}]
      /\ category \in [Categories -> CategoryRecs \cup {None}]
  BY DEF R!Init
<1>3. /\ call \in CallRecs /\ call.at = "idle" /\ call.scope = None /\ call.within = None
  BY <1>1, QuietShape
<1> QED
  BY <1>2, <1>3 DEF RoutingInv, RoutingTypes, Searching, PreferNoted,
                    R!RightModel, R!ScopedStaysInside, R!LoadedIsFound

-----------------------------------------------------------------------------
(* The parts do not touch each other's variables.                              *)

PartsInv ==
    /\ part = "settings" => SettingsInv
    /\ part = "secrets" => SecretsInv
    /\ part = "fleet" => FleetInv
    /\ part = "routing" => RoutingInv

LEMMA PartsStart == ASSUME Init PROVE PartsInv
  BY SettingsStart, SecretsStart, FleetStart, RoutingStart DEF Init, PartsInv

LEMMA PartsStep ==
    ASSUME PartsInv, [Next]_<<part, settings, secrets, fleet, routing>> PROVE PartsInv'
<1>1. /\ NoModel \notin Models /\ None \notin Categories /\ None \notin RowRecs
  BY StoreAssumption DEF RowRecs
<1>2. /\ part' = part
      /\ part = "settings" => [S!Next]_settings
      /\ part = "secrets" => [E!Next]_secrets
      /\ part = "fleet" => [F!Next]_fleet
      /\ part = "routing" => [R!Next]_routing
  BY DEF Next
<1>3. CASE part = "settings"
  BY <1>2, <1>3, SettingsStep DEF PartsInv
<1>4. CASE part = "secrets"
  BY <1>2, <1>4, SecretsStep DEF PartsInv
<1>5. CASE part = "fleet"
  BY <1>1, <1>2, <1>5, FleetStep DEF PartsInv
<1>6. CASE part = "routing"
  BY <1>1, <1>2, <1>6, RoutingStep DEF PartsInv
<1> QED
  BY <1>2, <1>3, <1>4, <1>5, <1>6 DEF PartsInv

(* Every state of every part satisfies its invariant.                          *)
THEOREM StoreInvariant == Spec => []PartsInv
<1>1. Init => PartsInv
  BY PartsStart
<1>2. PartsInv /\ [Next]_<<part, settings, secrets, fleet, routing>> => PartsInv'
  BY PartsStep
<1> QED
  BY <1>1, <1>2, PTL DEF Spec

(* The limits the scheduler works with are those of the table whenever no      *)
(* update is under way, unless an update that wrote rows was cut short or ran  *)
(* beside another and none has since run alone (update_settings).              *)
THEOREM SettingsStayFresh == Spec => []CacheFollowsRows
<1>1. PartsInv => CacheFollowsRows
  BY SettingsSafe DEF PartsInv, CacheFollowsRows
<1> QED
  BY <1>1, StoreInvariant, PTL

(* Under the rotation rule of config.rs, every client secret reads back after  *)
(* a migration that finished, however many before it stopped half way.         *)
THEOREM SecretsStayReadable == Spec => []SecretsReadBack
<1>1. PartsInv => SecretsReadBack
  BY SecretsSafe DEF PartsInv, SecretsReadBack
<1> QED
  BY <1>1, StoreInvariant, PTL

(* Two containers share a UID only if one was started or restarted beside the  *)
(* other, its inspection failed, or restart_after_crash made it with a stored  *)
(* UID that its model's container did not have (allocate_uid, restart.rs).     *)
THEOREM UidsStayApart == Spec => []UidsApart
<1>1. PartsInv => UidsApart
  BY FleetSafe DEF PartsInv, UidsApart
<1> QED
  BY <1>1, StoreInvariant, PTL

(* A container without a row was left by a deletion beside a start or a        *)
(* restart, after a stop that failed, or of a model not marked loaded; a       *)
(* loaded model without a key by one of the cuts UnlistedExplained lists, the  *)
(* stop during an automatic restart among them (delete_model, StoreKey,        *)
(* post_stop_cleanup, restart_after_crash).                                    *)
THEOREM LeftoversStayExplained == Spec => []LeftoversExplained
<1>1. PartsInv => LeftoversExplained
  BY FleetSafe DEF PartsInv, LeftoversExplained
<1> QED
  BY <1>1, StoreInvariant, PTL

(* A token scoped to a category is answered from inside it, and a member that  *)
(* stays loaded while the request searches is enough for a loaded answer, for  *)
(* any interleaving of the administrators' changes with the queries of         *)
(* resolve_model.                                                              *)
THEOREM RightModelAlways == Spec => []RightModel
<1>1. PartsInv => RightModel
  BY DEF PartsInv, RoutingInv, RightModel
<1> QED
  BY <1>1, StoreInvariant, PTL
=============================================================================
