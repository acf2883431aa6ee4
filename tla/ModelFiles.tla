------------------------------- MODULE ModelFiles -------------------------------
(* Which files of a repository are downloaded, and which of them a model's row *)
(* names.  A name is a record: its directory, its place in the alphabet, its   *)
(* extension, whether it says mmproj, the precision it names.  The files of a  *)
(* download arrive one after the other, and it may end after any of them; one  *)
(* download of the repository runs at a time.                                  *)
EXTENDS Naturals, Sequences, FiniteSetsExt

CONSTANTS Listings,   \* what HuggingFace's tree answers: sequences of names with sizes
          Filters,    \* the files a user asks for: sets of places, or All
          All,
          ModelIds,
          None

(* A tree names each path once. *)
IsListing(l) == /\ l \in Seq({l[i] : i \in DOMAIN l})
                /\ \A i \in DOMAIN l : l[i].place \in Nat
                /\ \A i, j \in DOMAIN l : l[i].place = l[j].place => i = j

VARIABLES listing, tokenizer,  \* the repository, and the places that have a tokenizer config
          disk, rows,          \* its directory, and its rows of `models`
          task,                \* a download: the positions it is for, and those left
          lost                 \* history: files a download did not bring, or that were removed

vars == <<listing, tokenizer, disk, rows, task, lost>>

(* is_mmproj_filename *)
IsMmproj(f) == ~f.nested /\ f.mmproj /\ f.ext = "gguf"

(* A mutant: the projectors have to be asked for. *)
IncludedAsked(f, filter) == f.ext # "git" /\ (filter = All \/ f.place \in filter)

(* list_downloadable_files, should_include: what was asked for and every       *)
(* projector, without git's own files.                                         *)
Included(f, filter) == f.ext # "git" /\ (IsMmproj(f) \/ filter = All \/ f.place \in filter)
Downloadable(filter) == {i \in DOMAIN listing : Included(listing[i], filter)}
FilesAt(at) == {listing[i] : i \in at}

(* detect_primary_file: of the largest, the first listed. *)
Largest(at, ext) ==
    LET of == {i \in at : listing[i].ext = ext}
        largest == {i \in of : \A j \in of : listing[j].size <= listing[i].size} IN
    IF of = {} THEN None ELSE listing[Min(largest)].place

Primary(at) == IF Largest(at, "gguf") # None THEN Largest(at, "gguf")
               ELSE Largest(at, "safetensors")

(* The first in the alphabet of the best precision: F16, BF16, F32, any. *)
Preferred(fs) ==
    LET of(p) == {f \in fs : f.precision = p}
        best == IF of("f16") # {} THEN of("f16") ELSE IF of("bf16") # {} THEN of("bf16")
                ELSE IF of("f32") # {} THEN of("f32") ELSE fs
    IN IF fs = {} THEN None ELSE Min({f.place : f \in best})

(* detect_mmproj_file *)
Detected(fs) == Preferred({f \in fs : IsMmproj(f)})

(* fetch_tokenizer_config: the first place that has one. *)
TokenizerFrom == IF tokenizer = <<>> THEN None ELSE tokenizer[1]

Free(id) == \A r \in rows : r.id # id

(* No download is under way: it is for no file. *)
Idle == [at |-> {}, left |-> {}]

(* run_download: the listing, filtered by the files a user asks for.           *)
Start ==
    /\ task = Idle
    /\ \E filter \in Filters :
         /\ Downloadable(filter) # {}
         /\ task' = [at |-> Downloadable(filter), left |-> Downloadable(filter)]
    /\ UNCHANGED <<listing, tokenizer, disk, rows, lost>>

(* download_single_file: the next of them, in the listing's order.             *)
NextFile == listing[Min(task.left)]

FetchFile ==
    /\ task.left # {}
    /\ disk' = disk \cup {NextFile}
    /\ task' = [task EXCEPT !.left = @ \ {Min(@)}]
    /\ UNCHANGED <<listing, tokenizer, rows, lost>>

(* The download ends before the next file is whole: cancelled or refused       *)
(* before it is created, broken off while it is written, by the program's end  *)
(* too, or cancelled then, which removes it.  What is there stays, and there   *)
(* is no row.                                                                  *)
CutShort ==
    /\ task.left # {}
    /\ disk' \in {disk, disk \cup {NextFile}, disk \ {NextFile}}
    /\ lost' = lost \cup FilesAt(task.left)
    /\ task' = Idle
    /\ UNCHANGED <<listing, tokenizer, rows>>

(* insert_downloaded_model, after all files; it may fail.                      *)
Finish ==
    /\ task # Idle /\ task.left = {}
    /\ \/ UNCHANGED rows
       \/ \E id \in ModelIds :
             /\ Free(id)
             /\ rows' = rows \cup {[id |-> id, downloaded |-> TRUE, primary |-> Primary(task.at),
                                   mmproj |-> Detected(FilesAt(task.at)),
                                   tokenizer |-> TokenizerFrom]}
    /\ task' = Idle
    /\ UNCHANGED <<listing, tokenizer, disk, lost>>

(* register_model: a row that names no file. *)
Register ==
    /\ \E id \in ModelIds :
         /\ Free(id)
         /\ rows' = rows \cup {[id |-> id, downloaded |-> FALSE, primary |-> None,
                               mmproj |-> None, tokenizer |-> None]}
    /\ UNCHANGED <<listing, tokenizer, disk, task, lost>>

(* backfill_mmproj_filename, pick_mmproj_variant, at a start of the program:   *)
(* plain files of the directory itself, by name.                               *)
OnDisk == {f \in disk : ~f.nested /\ f.mmproj /\ f.ext = "gguf"}
Picked == Preferred(OnDisk)

Backfill ==
    /\ task = Idle /\ \E r \in rows : r.mmproj = None
    /\ rows' = {[r EXCEPT !.mmproj = IF @ = None THEN Picked ELSE @] : r \in rows}
    /\ UNCHANGED <<listing, tokenizer, disk, task, lost>>

(* delete_model: the row, and then the directory with all that is in it, which *)
(* may fail.                                                                   *)
Delete ==
    /\ \E r \in rows : rows' = rows \ {r}
    /\ \/ disk' = {} /\ lost' = lost \cup disk
       \/ UNCHANGED <<disk, lost>>
    /\ UNCHANGED <<listing, tokenizer, task>>

Init == /\ listing \in Listings
        /\ tokenizer \in {<<>>, <<"base_model">>, <<"repo", "base_model">>, <<"local", "repo">>}
        /\ disk = {} /\ rows = {} /\ task = Idle /\ lost = {}

Next == Start \/ FetchFile \/ CutShort \/ Finish \/ Register \/ Backfill \/ Delete
Spec == Init /\ [][Next]_vars

-----------------------------------------------------------------------------
(* The projector of a repository: of those at its root the one of the best     *)
(* precision, and of several such the first by name.                           *)
Rank(f) == CASE f.precision = "f16" -> 1 [] f.precision = "bf16" -> 2
             [] f.precision = "f32" -> 3 [] OTHER -> 4
Projectors == {f \in FilesAt(DOMAIN listing) : f.ext = "gguf" /\ f.mmproj /\ ~f.nested}
Before(f, g) == Rank(f) < Rank(g) \/ (Rank(f) = Rank(g) /\ f.place <= g.place)

(* Every download's row names it, whatever files the user asked for; any other *)
(* row names none, or a projector that only files which were cut short or      *)
(* removed come before; and a named projector is on the disk unless it was     *)
(* itself cut short or removed (detect_mmproj_file, should_include,            *)
(* pick_mmproj_variant, download_files_to_disk).                               *)
OneProjector ==
    \A r \in rows :
        LET named == {f \in Projectors : f.place = r.mmproj}
            best == {f \in Projectors : \A g \in Projectors : Before(f, g)} IN
        /\ IF r.downloaded THEN named = best ELSE r.mmproj = None \/ named # {}
        /\ \A f \in named : \A g \in Projectors : Before(f, g) \/ g \in lost
        /\ named \subseteq disk \cup lost

(* What a row that a start of the program completes would name if downloads    *)
(* were never cut short.                                                       *)
BackfillNamesTheBest ==
    \A r \in rows : \A f \in Projectors : f.place = r.mmproj =>
        \A g \in Projectors : Before(f, g)
=============================================================================
