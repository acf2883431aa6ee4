-------------------------------- MODULE Secrets --------------------------------
(* The client secrets of the identity providers, encrypted at rest, and the    *)
(* migration at startup that brings every row to the configured key: from an   *)
(* older key, from the older key derivation, from the empty key, from          *)
(* plaintext.  A row is the sequence of the encryptions around its secret, the *)
(* outermost first: <<>> is plaintext, and a second layer means that           *)
(* ciphertext was taken for a plaintext.                                       *)
EXTENDS Naturals, Sequences

CONSTANTS Rows,     \* the rows of idp_configs there may be
          Keys,     \* values of DB_ENCRYPTION_KEY
          Empty,    \* the empty string an older docker-compose passed as the key
          NoKey,    \* the variable unset, or set to the empty string
          NoRow,
          MaxBoots  \* starts of the program

VARIABLES row,      \* idp_configs.client_secret_enc
          key, old, \* DB_ENCRYPTION_KEY and DB_ENCRYPTION_KEY_OLD of this start
          at,       \* "down", "migrate" or "serve"
          todo,     \* the rows the migration has still to visit
          finished, \* the last migration visited every row
          careful,  \* the operator followed the rule of config.rs
          boots

vars == <<row, key, old, at, todo, finished, careful, boots>>

Hkdf(k) == [derive |-> "hkdf", key |-> k]
Sha(k) == [derive |-> "sha256", key |-> k]
Layers == {Hkdf(k) : k \in Keys \cup {Empty}} \cup {Sha(k) : k \in Keys}
Existing == {r \in Rows : row[r] # NoRow}

Encrypt(value, k) == <<Hkdf(k)>> \o value
Under(value, layer) == value # <<>> /\ Head(value) = layer

(* What an older version left: its key, and rows of any of the ages the        *)
(* migration knows.                                                            *)
Init == /\ key \in Keys \cup {NoKey} /\ old = NoKey
        /\ row \in [Rows -> {NoRow, <<>>}
                     \cup {<<l>> : l \in {Hkdf(k) : k \in {Empty, key} \ {NoKey}}
                                     \cup {Sha(k) : k \in {key} \ {NoKey}}}]
        /\ at = "down" /\ todo = {} /\ finished = TRUE
        /\ careful = TRUE /\ boots = 0

(* "Set this to the old key when rotating [...] Remove after one successful    *)
(* startup cycle": the key changes, and the old one is dropped, only after a   *)
(* migration that finished, and encryption is not switched off again.          *)
ByTheRule(k, o) ==
    \/ k = key /\ (finished \/ o = old)
    \/ finished /\ k # NoKey /\ (key = NoKey \/ o = key)

(* main runs the migration before it serves; without a key there is none. *)
Boot(k, o) ==
    /\ at = "down" /\ boots < MaxBoots
    /\ key' = k /\ old' = o /\ boots' = boots + 1
    /\ careful' = (careful /\ ByTheRule(k, o))
    /\ at' = IF k = NoKey THEN "serve" ELSE "migrate"
    /\ todo' = IF k = NoKey THEN {} ELSE Existing
    /\ finished' = (k = NoKey)
    /\ UNCHANGED row

Olds == IF old = NoKey THEN <<>> ELSE <<old>>
(* A mutant: the older derivation of the old key is not tried. *)
TriedWithoutOldSha == <<Hkdf(key)>> \o [i \in DOMAIN Olds |-> Hkdf(Olds[i])]
                      \o <<Sha(key), Hkdf(Empty)>>

(* The decryptions that are tried in turn, the first that succeeds counts. *)
Tried == <<Hkdf(key)>>
         \o [i \in DOMAIN Olds |-> Hkdf(Olds[i])]
         \o <<Sha(key)>>
         \o [i \in DOMAIN Olds |-> Sha(Olds[i])]
         \o <<Hkdf(Empty)>>

Opening(value) == {i \in DOMAIN Tried : Under(value, Tried[i])}

(* One row: left alone under the current key, re-encrypted when something      *)
(* opens it, and otherwise taken for plaintext.                                *)
Migrated(value) ==
    IF Under(value, Hkdf(key)) THEN value
    ELSE Encrypt(IF Opening(value) # {} THEN Tail(value) ELSE value, key)

MigrateRow(r) ==
    /\ at = "migrate" /\ r \in todo
    /\ row' = [row EXCEPT ![r] = Migrated(@)]
    /\ todo' = todo \ {r}
    /\ UNCHANGED <<key, old, at, finished, careful, boots>>

MigrationDone ==
    /\ at = "migrate" /\ todo = {}
    /\ at' = "serve" /\ finished' = TRUE
    /\ UNCHANGED <<row, key, old, todo, careful, boots>>

(* The first error ends the migration; main logs it and serves all the same. *)
MigrationFails ==
    /\ at = "migrate"
    /\ at' = "serve" /\ todo' = {}
    /\ UNCHANGED <<row, key, old, finished, careful, boots>>

Stop == /\ at # "down"
        /\ at' = "down" /\ todo' = {}
        /\ UNCHANGED <<row, key, old, finished, careful, boots>>

(* create_idp, and update_idp with a client_secret.  The row of the bootstrap  *)
(* provider is left out: its secret is empty and nothing reads it.             *)
SaveSecret(r) ==
    /\ at = "serve"
    /\ row' = [row EXCEPT ![r] = IF key = NoKey THEN <<>> ELSE Encrypt(<<>>, key)]
    /\ UNCHANGED <<key, old, at, todo, finished, careful, boots>>

Next == \/ \E k \in Keys \cup {NoKey}, o \in Keys \cup {NoKey} : Boot(k, o)
        \/ \E r \in Rows : MigrateRow(r) \/ SaveSecret(r)
        \/ MigrationDone \/ MigrationFails \/ Stop

Spec == Init /\ [][Next]_vars

-----------------------------------------------------------------------------
(* build_oidc_client: one decryption with the current key, or the bare value. *)
Reads(r) == IF key = NoKey THEN row[r] = <<>> ELSE row[r] = <<Hkdf(key)>>

TypeOK == /\ \A r \in Existing : row[r] \in Seq(Layers) /\ Len(row[r]) <= MaxBoots + 1
          /\ todo \subseteq Existing
          /\ at \in {"down", "migrate", "serve"}

(* When an operator rotates keys by the rule of config.rs, every stored client *)
(* secret reads back, as the secret it was, after a migration that finished,   *)
(* however many migrations before it stopped half way.                         *)
SecretsReadBack ==
    at = "serve" /\ key # NoKey /\ finished /\ careful
        => \A r \in Existing : Reads(r)
=============================================================================
