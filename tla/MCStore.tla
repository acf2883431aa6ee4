-------------------------------- MODULE MCStore --------------------------------
(* Four parts whose state is in the database and in Docker, and which do not   *)
(* interact: the settings, the providers' secrets, the containers, the         *)
(* resolution of models.  A behaviour runs one of them, and the variables of   *)
(* the others are off.                                                         *)
EXTENDS TLC

CONSTANTS SettingKeys, Handlers, Unknown, Good, Bad, NotScalar, NoRow, Default,
          SecretRows, EncryptionKeys, Empty, NoKey, MaxBoots,
          Models, Starts, Stops, Supervisor, Uids, NoModel, NoBox, MaxFaults,
          Categories, Repos, Names, None, Off

(* What stands for "nothing" is not one of the things it stands for.           *)
ASSUME StoreAssumption ==
    /\ NoModel \notin Models /\ NoBox \notin Uids /\ Supervisor \notin Starts
    /\ None \notin Models \cup Categories
    /\ None \notin [id : Models, loaded : BOOLEAN]

VARIABLES part,
          rows, cache, job, behind,
          secret, key, old, at, todo, finished, careful, boots,
          row, box, start, stop, excused, stored, cut, watch, faults,
          model, category, call, seen

settings == <<rows, cache, job, behind>>
secrets == <<secret, key, old, at, todo, finished, careful, boots>>
fleet == <<row, box, start, stop, excused, stored, cut, watch, faults>>
routing == <<model, category, call, seen>>

Bodies == (UNION {[K -> Good \cup {Bad, NotScalar}] : K \in SUBSET SettingKeys})
          \cup {[k \in {Unknown} \cup K |-> Bad] : K \in SUBSET SettingKeys}

S == INSTANCE Settings WITH Keys <- SettingKeys, Requests <- Bodies
E == INSTANCE Secrets WITH Rows <- SecretRows, Keys <- EncryptionKeys, row <- secret
F == INSTANCE Fleet WITH key <- stored
R == INSTANCE Resolver

SettingsOff == rows = Off /\ cache = Off /\ job = Off /\ behind = Off
SecretsOff == /\ secret = Off /\ key = Off /\ old = Off /\ at = Off /\ todo = Off
              /\ finished = Off /\ careful = Off /\ boots = Off
FleetOff == /\ row = Off /\ box = Off /\ start = Off /\ stop = Off /\ excused = Off
            /\ stored = Off /\ cut = Off /\ watch = Off /\ faults = Off
RoutingOff == model = Off /\ category = Off /\ call = Off /\ seen = Off

Init == \/ part = "settings" /\ S!Init /\ SecretsOff /\ FleetOff /\ RoutingOff
        \/ part = "secrets" /\ E!Init /\ SettingsOff /\ FleetOff /\ RoutingOff
        \/ part = "fleet" /\ F!Init /\ SettingsOff /\ SecretsOff /\ RoutingOff
        \/ part = "routing" /\ R!Init /\ SettingsOff /\ SecretsOff /\ FleetOff

Next == \/ part = "settings" /\ S!Next /\ UNCHANGED <<part, secrets, fleet, routing>>
        \/ part = "secrets" /\ E!Next /\ UNCHANGED <<part, settings, fleet, routing>>
        \/ part = "fleet" /\ F!Next /\ UNCHANGED <<part, settings, secrets, routing>>
        \/ part = "routing" /\ R!Next /\ UNCHANGED <<part, settings, secrets, fleet>>

Spec == Init /\ [][Next]_<<part, settings, secrets, fleet, routing>>

Symmetry == Permutations(Models) \union Permutations(Starts) \union Permutations(Uids)
-----------------------------------------------------------------------------
TypeOK == CASE part = "settings" -> S!TypeOK
            [] part = "secrets" -> E!TypeOK
            [] part = "fleet" -> F!TypeOK
            [] part = "routing" -> R!TypeOK

(* Settings: with no update under way the scheduler works with what the table  *)
(* says, unless one was cut short or ran beside another.                       *)
CacheFollowsRows == part = "settings" => S!CacheFollowsRows

(* Secrets: after a finished migration every stored secret reads back.         *)
SecretsReadBack == part = "secrets" => E!SecretsReadBack

(* Fleet: two containers share a UID only if one was started beside the other, *)
(* unseen by it, or was restarted with a UID that is not its own any more.     *)
UidsApart == part = "fleet" => F!UidsApart

(* Fleet: a container without a row, and a loaded model without a key, each    *)
(* have one of few explanations.                                               *)
LeftoversExplained == part = "fleet" => F!LeftoversExplained

(* Resolution: a scoped token stays in its category, and a member that stays   *)
(* loaded is enough to get a loaded model.                                     *)
RightModel == part = "routing" => R!RightModel
=============================================================================
