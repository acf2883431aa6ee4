------------------------------- MODULE Resolver -------------------------------
(* How a request is given a model: by the token's pinned model, by the token's *)
(* category, or by the name in the request (a model id, a repository, or a     *)
(* category's name).  Each step is one SELECT, and the administrators change   *)
(* models and categories between them.                                         *)
EXTENDS FiniteSets

CONSTANTS Models, Categories, Repos,
          Names,    \* names of categories
          None

VARIABLES model,     \* the rows of `models`
          category,  \* the rows of `model_categories`
          call,      \* one call of resolve_model
          seen       \* what held while it ran, see Observe

vars == <<model, category, call, seen>>

Rows == {m \in Models : model[m] # None}
Cats == {c \in Categories : category[c] # None}
Named(n) == {c \in Cats : category[c].name = n}

Quiet == [at |-> "idle", pin |-> None, scope |-> None, name |-> None,
          within |-> None, prefer |-> None, answer |-> None]

Init == /\ model = [m \in Models |-> None]
        /\ category = [c \in Categories |-> None]
        /\ call = Quiet
        /\ seen = [inside |-> {}, steady |-> {}]

(* A row as a SELECT returns it. *)
Row(m) == [id |-> m, loaded |-> model[m].loaded]
Answer(row) == call' = [call EXCEPT !.at = "done", !.answer = row]
Refuse == Answer(None)
GoTo(place) == call' = [call EXCEPT !.at = place]
SearchIn(c) == call' = [call EXCEPT !.at = "preferred", !.within = c]
Tables == <<model, category>>

-----------------------------------------------------------------------------
(* A token with a pin, with a category (that exists: category_id is a foreign  *)
(* key), or with neither.                                                      *)
Begin ==
    /\ call.at \in {"idle", "done"}
    /\ \/ \E m \in Models : call' = [Quiet EXCEPT !.at = "pin", !.pin = m]
       \/ \E c \in Cats, n \in Models \cup Repos \cup Names :
            call' = [Quiet EXCEPT !.at = "preferred", !.scope = c, !.within = c, !.name = n]
       \/ \E n \in Models \cup Repos \cup Names : call' = [Quiet EXCEPT !.at = "id", !.name = n]
    /\ UNCHANGED Tables

(* resolve_specific_model *)
Pinned ==
    /\ call.at = "pin"
    /\ IF call.pin \in Rows THEN Answer(Row(call.pin)) ELSE Refuse
    /\ UNCHANGED Tables

(* resolve_by_id_or_repo: of several rows of one repository, any. *)
Matching == {m \in Rows : call.name \in {m, model[m].repo}}

ByIdOrRepo ==
    /\ call.at = "id"
    /\ \/ \E m \in Matching : Answer(Row(m))
       \/ Matching = {} /\ GoTo("name")
    /\ UNCHANGED Tables

(* resolve_from_category_name *)
ByName ==
    /\ call.at = "name"
    /\ \/ \E c \in Named(call.name) : SearchIn(c)
       \/ Named(call.name) = {} /\ Refuse
    /\ UNCHANGED Tables

(* resolve_from_category_id: the preferred model if it is loaded ... *)
PreferredOf(c) ==
    IF c \in Cats /\ category[c].preferred \in Rows THEN Row(category[c].preferred) ELSE None

(* A mutant: the preferred model is returned, loaded or not. *)
PreferredAlways ==
    /\ call.at = "preferred"
    /\ LET row == PreferredOf(call.within) IN
       IF row # None THEN Answer(row) ELSE GoTo("loaded")
    /\ UNCHANGED Tables

Preferred ==
    /\ call.at = "preferred"
    /\ LET row == PreferredOf(call.within) IN
       IF row # None /\ row.loaded THEN Answer(row)
       ELSE call' = [call EXCEPT !.at = "loaded", !.prefer = row]
    /\ UNCHANGED Tables

(* ... else a loaded model of the category, else the preferred one as it was.  *)
(* A token's category ends there, a category named by the request as well.     *)
LoadedIn(c) == {m \in Rows : model[m].category = c /\ model[m].loaded}

Fallback ==
    /\ call.at = "loaded"
    /\ \/ \E m \in LoadedIn(call.within) : Answer(Row(m))
       \/ LoadedIn(call.within) = {} /\ Answer(call.prefer)
    /\ UNCHANGED Tables

-----------------------------------------------------------------------------
(* create_category and update_category.  A name is taken once.  The preferred  *)
(* model is any string: no foreign key, and no check that it is of the         *)
(* category.                                                                   *)
SaveCategory(c) ==
    /\ \E n \in Names, p \in Models \cup {None} :
         /\ Named(n) \subseteq {c}
         /\ c \in Cats => p # None \/ category[c].preferred = None
         /\ category' = [category EXCEPT ![c] = [name |-> n, preferred |-> p]]
    /\ UNCHANGED <<model, call>>

(* delete_category: refused while a model or a token refers to it. *)
DeleteCategory(c) ==
    /\ c \in Cats /\ call.scope # c
    /\ \A m \in Rows : model[m].category # c
    /\ category' = [category EXCEPT ![c] = None]
    /\ UNCHANGED <<model, call>>

(* register_model; a repository may be registered again under another id. *)
RegisterModel(m) ==
    /\ m \notin Rows
    /\ \E r \in Repos, c \in Cats \cup {None} :
         model' = [model EXCEPT ![m] = [repo |-> r, category |-> c, loaded |-> FALSE]]
    /\ UNCHANGED <<category, call>>

(* update_model: the category is what the request says, none when it says      *)
(* nothing.                                                                    *)
UpdateModel(m) ==
    /\ m \in Rows
    /\ \E c \in Cats \cup {None} : model' = [model EXCEPT ![m].category = c]
    /\ UNCHANGED <<category, call>>

(* start_container_core, post_stop_cleanup and the supervisor. *)
SetLoaded(m) ==
    /\ m \in Rows
    /\ model' = [model EXCEPT ![m].loaded = ~@]
    /\ UNCHANGED <<category, call>>

DeleteModel(m) ==
    /\ m \in Rows
    /\ model' = [model EXCEPT ![m] = None]
    /\ UNCHANGED <<category, call>>

Resolve == Begin \/ Pinned \/ ByIdOrRepo \/ ByName \/ Preferred \/ Fallback

Administer == \/ \E c \in Categories : SaveCategory(c) \/ DeleteCategory(c)
              \/ \E m \in Models : \/ RegisterModel(m) \/ UpdateModel(m)
                                   \/ SetLoaded(m) \/ DeleteModel(m)

(* The models that were of the call's category, as member or as preferred      *)
(* model, at some moment of the search in it, and the loaded members that were *)
(* so at every moment.                                                         *)
Observe ==
    LET c == call'.within
        inside == {m \in Models : \/ m = (IF category'[c] = None THEN None ELSE category'[c].preferred)
                                  \/ model'[m] # None /\ model'[m].category = c}
        loaded == {m \in Models : model'[m] # None /\ model'[m].category = c /\ model'[m].loaded}
    IN seen' = IF c = None THEN [inside |-> {}, steady |-> {}]
               ELSE IF call.within = None \/ (call.at = "done" /\ call'.at # "done")
                    THEN [inside |-> inside, steady |-> loaded]
               ELSE IF call.at = "done" THEN seen
               ELSE [inside |-> seen.inside \cup inside, steady |-> seen.steady \cap loaded]

Next == (Resolve \/ Administer) /\ Observe

Spec == Init /\ [][Next]_vars

-----------------------------------------------------------------------------
TypeOK == /\ \A m \in Rows : /\ model[m].category \in Categories \cup {None}
                             /\ model[m].repo \in Repos
          /\ call.at \in {"idle", "pin", "id", "name", "preferred", "loaded", "done"}

(* A token scoped to a category gets a model that was of the category, or its  *)
(* preferred one, while it asked, and never one by the name in its request.    *)
ScopedStaysInside ==
    call.at = "done" /\ call.scope # None /\ call.answer # None
        => call.answer.id \in seen.inside

(* A category with a member that stays loaded while a request asks gives that  *)
(* request a loaded model, whatever its preferred model is.                    *)
LoadedIsFound ==
    call.at = "done" /\ seen.steady # {} => call.answer # None /\ call.answer.loaded

(* What a caller may rely on (resolve_model), though models and categories     *)
(* change between the queries.                                                 *)
RightModel == ScopedStaysInside /\ LoadedIsFound
=============================================================================
