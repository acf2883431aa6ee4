------------------------------ MODULE Conversions ------------------------------
(* Four parts of the program that make one description of another, and share   *)
(* no state: of a repository's listing the files and rows of a model, of a     *)
(* model file's header the metadata, of the metadata the memory a model needs, *)
(* and of an Anthropic conversation the backend's messages.  A behaviour runs  *)
(* one of them; the others' variables are off.                                 *)
EXTENDS Integers, Sequences

CONSTANTS Headers, Fields, HeadCountKv, Pattern, U32, MaxPairs, Unreadable,
          Metas, Contexts, Parallels, U64,
          Listings, Filters, All, ModelIds,
          System, Openings, Remarks, Replies, CallIds, NoId, Inputs, EmptyInput,
          Unparsable, Finishes, NoFinish, MaxTurns,
          None, Off

VARIABLES part,
          entries, pos, got, meta,
          file, row, ask,
          listing, tokenizer, disk, rows, task, lost,
          history, stop, sent, said, made

reader == <<entries, pos, got, meta>>
memory == <<file, row, ask>>
repository == <<listing, tokenizer, disk, rows, task, lost>>
conversation == <<history, stop, sent, said, made>>

G == INSTANCE Gguf WITH Entries <- Headers, n <- got
K == INSTANCE KvCache WITH meta <- file
D == INSTANCE ModelFiles
A == INSTANCE Translation

ASSUME ConversionsAssumption ==
    /\ None \notin Nat /\ U32 \in Nat \ {0} /\ MaxPairs \in Nat
    /\ HeadCountKv # Pattern /\ HeadCountKv \notin Fields /\ Pattern \notin Fields
    /\ \A e \in Headers : G!IsSequence(e) /\ \A i \in DOMAIN e : G!WellFormed(e[i].value)
    /\ Metas \subseteq K!Described /\ Contexts \subseteq Nat /\ Parallels \subseteq Nat \ {0}
    /\ U64 \in Nat \ {0}
    /\ \A l \in Listings : D!IsListing(l)

ReaderOff == entries = Off /\ pos = Off /\ got = Off /\ meta = Off
MemoryOff == file = Off /\ row = Off /\ ask = Off
RepositoryOff ==
    listing = Off /\ tokenizer = Off /\ disk = Off /\ rows = Off /\ task = Off /\ lost = Off
ConversationOff == history = Off /\ stop = Off /\ sent = Off /\ said = Off /\ made = Off

ConversionsInit ==
    \/ part = "reader" /\ G!Init /\ MemoryOff /\ RepositoryOff /\ ConversationOff
    \/ part = "memory" /\ K!Init /\ ReaderOff /\ RepositoryOff /\ ConversationOff
    \/ part = "files" /\ D!Init /\ ReaderOff /\ MemoryOff /\ ConversationOff
    \/ part = "conversation" /\ A!Init /\ ReaderOff /\ MemoryOff /\ RepositoryOff

ConversionsNext ==
    /\ UNCHANGED part
    /\ \/ part = "reader" /\ G!Next /\ UNCHANGED <<memory, repository, conversation>>
       \/ part = "memory" /\ K!Next /\ UNCHANGED <<reader, repository, conversation>>
       \/ part = "files" /\ D!Next /\ UNCHANGED <<reader, memory, conversation>>
       \/ part = "conversation" /\ A!Next /\ UNCHANGED <<reader, memory, repository>>

ConversionsSpec ==
    ConversionsInit /\ [][ConversionsNext]_<<part, reader, memory, repository, conversation>>
-----------------------------------------------------------------------------
(* Model files: while the head counts are regular the reader is where a pair   *)
(* begins, with what the pairs say, or has refused the file for one of the     *)
(* reasons it has (read_gguf_metadata).                                        *)
ReaderInStep == part = "reader" => G!ReaderInStep

(* Memory: where the row has aggregates in which nothing has wrapped, the      *)
(* estimate is the sum over the layers, or the largest number                  *)
(* (compute_kv_aggregates, estimate_kv_cache_mb).                              *)
EstimateIsTheLayers == part = "memory" => K!EstimateIsTheLayers

(* Files: a downloaded row names the repository's projector; another row names *)
(* none or one that only lost files come before; a named one is on the disk or *)
(* lost itself (detect_mmproj_file, backfill_mmproj_filename).                 *)
OneProjector == part = "files" => D!OneProjector

(* Conversation: it survives being translated both ways, turn after turn.      *)
ConversationKept == part = "conversation" => A!ConversationKept
=============================================================================
