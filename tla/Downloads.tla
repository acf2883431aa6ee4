------------------------------ MODULE Downloads ------------------------------
(***************************************************************************)
(* Model downloads from HuggingFace (api/hf.rs) and the deletion of models *)
(* (delete_model of api/admin.rs), on the shared map of downloads, the     *)
(* models table and the model directory.                                   *)
(*                                                                         *)
(* A download is a task that runs beside the handlers.  Its files are kept *)
(* as inodes: a path names at most one inode, a task keeps writing to the  *)
(* inode it opened even when the path has been removed, and the space of   *)
(* an inode is freed when no path names it and no task has it open.  Every *)
(* file has Chunks chunks of one unit.  A chunk is written behind the back *)
(* of the task (tokio::fs::File), which goes on at once: a failure is told *)
(* to the next write of the file, and nobody after the last one.  The file *)
(* tree and the sizes come from the HuggingFace API, which is outside the  *)
(* program: any step that asks it may fail.                                *)
(***************************************************************************)
EXTENDS Naturals, Sequences, FiniteSets, FiniteSetsExt

CONSTANTS
    Tasks,       \* download ids; each names the row its task may insert
    Repos,       \* hf_repo values
    Dirs,        \* directories under model_path
    SafeRepo,    \* the directory of each repository, which two may share:
                 \* replace('/', "--") makes one of "a/b--c" and "a--b/c"
    Files,       \* file names of a repository
    Wanted,      \* the file lists a request may resolve to
    Chunks,      \* chunks of every file
    Capacity,    \* size of the disk in chunks
    Limit,       \* the use, in chunks, that reaches 95 percent
    MaxFaults,   \* failures of df, of the network, of the disk and restarts
    NoTask

ASSUME DownloadsAssumption ==
    /\ Wanted \subseteq Seq(Files) /\ Wanted # {} /\ <<>> \notin Wanted
    /\ Chunks \in Nat \ {0} /\ MaxFaults \in Nat
    /\ Capacity \in Nat /\ Limit \in 1 .. Capacity
    /\ NoTask \notin Tasks
    /\ IsFiniteSet(Tasks) /\ IsFiniteSet(Files) /\ Repos # {}
    /\ SafeRepo \in [Repos -> Dirs]

VARIABLES
    dl,      \* the map of downloads: status, total_bytes and progress_bytes
    job,     \* the task (or start handler) of each download
    link,    \* the inode each path names, known by the task that created it
    data,    \* the chunks each inode holds
    failing, \* tasks whose open file the disk refused a chunk of: the next write
             \* of the file says so
    refused, \* inodes whose last chunk the disk refused, which nobody was told
    models,  \* rows of the models table that a download inserted
    del,     \* delete_model between its commit and the removal of the files
    missed,  \* history: chunks written that no space check could have seen
    faults   \* failures so far

vars == <<dl, job, link, data, failing, refused, models, del, missed, faults>>

Statuses == {"none", "Downloading", "Complete", "Failed", "Cancelled", "gone"}
Places   == {"none", "insert", "list", "df", "count", "open", "check", "write",
             "register", "complete", "end"}
Rows     == [by : Tasks, repo : Repos, files : Wanted]

\* repo and files come with the request; file is the index of the file at hand,
\* pos its chunks so far, ino the inode that is open, used what df answered.
\* early, blind and raced are history: cancelled with a check still to come,
\* admitted without a space check, started beside another start of the repo.
Unused == [at |-> "none", repo |-> CHOOSE r \in Repos : TRUE,
           files |-> CHOOSE w \in Wanted : TRUE, file |-> 1, pos |-> 0,
           ino |-> NoTask, used |-> 0, early |-> FALSE, blind |-> FALSE, raced |-> FALSE]

Idle == [on |-> FALSE, repo |-> CHOOSE r \in Repos : TRUE]

Init ==
    /\ dl = [t \in Tasks |-> [status |-> "none", total |-> 0, progress |-> 0]]
    /\ job = [t \in Tasks |-> Unused]
    /\ link = [p \in Dirs \X Files |-> NoTask]
    /\ data = [i \in Tasks \X Files |-> {}] /\ failing = {} /\ refused = {}
    /\ models = {} /\ del = Idle /\ missed = 0 /\ faults = 0

-----------------------------------------------------------------------------
File(t) == job[t].files[job[t].file]
Dir(t)  == SafeRepo[job[t].repo]
Path(t) == <<Dir(t), File(t)>>
Size(w) == Chunks * Len(w)

\* An inode is known by its creator and its file name.
Linked(i) == \E d \in Dirs : link[<<d, i[2]>>] = i[1]
Opened(i) == \E t \in Tasks : job[t].ino = i[1] /\ File(t) = i[2]
Used == MapThenSumSet(LAMBDA i : Cardinality(data[i]),
                      {i \in Tasks \X Files : Linked(i) \/ Opened(i)})

\* What df may answer t: the chunk that each of the others wrote last may
\* still be on its way to the disk.
Answers(t) ==
    {n \in 0 .. Used : Used <= n + Cardinality({u \in Tasks \ {t} : dl[u].progress > 0})}

Downloading(t) == dl[t].status = "Downloading"
Remaining(t)   == dl[t].total - dl[t].progress
InFlight(t)    == MapThenSumSet(Remaining, {u \in Tasks \ {t} : Downloading(u)})

Goto(t, p)      == job' = [job EXCEPT ![t].at = p]
SetStatus(t, s) == dl' = [dl EXCEPT ![t].status = s]
Fault           == faults < MaxFaults /\ faults' = faults + 1

\* The task of t ends, whatever it has open is closed.
Quit(t) == job' = [job EXCEPT ![t] =
    [@ EXCEPT !.at = "end", !.ino = NoTask, !.file = 1, !.pos = 0, !.used = 0]]

\* set_download_error overwrites any status, Cancelled too.
SetErrorSilently(t) == Quit(t) /\ UNCHANGED dl
SetError(t) == SetStatus(t, "Failed") /\ Quit(t)

Fail(t) == SetError(t) /\ Fault /\ UNCHANGED <<link, data, failing, refused, models, del, missed>>

-----------------------------------------------------------------------------
(* start_download: the checks, then the insertion and the spawn. *)

DuplicateUnchecked(t, r) == TRUE

NotDownloading(t, r) == \A u \in Tasks : ~(Downloading(u) /\ job[u].repo = r)
\* df is asked first; when it fails the request goes on.
StartCheck(t) ==
    \E r \in Repos, w \in Wanted :
        /\ job[t].at = "none" /\ dl[t].status = "none"
        /\ ((\E n \in Answers(t) : n < Limit) /\ UNCHANGED faults) \/ Fault
        /\ NotDownloading(t, r)
        /\ LET beside == {u \in Tasks : job[u].at = "insert" /\ job[u].repo = r}
           IN  job' = [u \in Tasks |->
                  IF u = t THEN [Unused EXCEPT !.at = "insert", !.repo = r, !.files = w,
                                               !.raced = beside # {}]
                  ELSE IF u \in beside THEN [job[u] EXCEPT !.raced = TRUE] ELSE job[u]]
        /\ UNCHANGED <<dl, link, data, failing, refused, models, del, missed>>

StartInsert(t) ==
    /\ job[t].at = "insert"
    /\ SetStatus(t, "Downloading")
    /\ Goto(t, "list")
    /\ UNCHANGED <<link, data, failing, refused, models, del, missed, faults>>

-----------------------------------------------------------------------------
(* run_download *)

\* The file list is fetched and filtered; total_bytes is known from here on.
ListFiles(t) ==
    /\ job[t].at = "list"
    /\ \/ /\ dl' = [dl EXCEPT ![t].total = Size(job[t].files)]
          /\ Goto(t, "df")
          /\ UNCHANGED <<link, data, failing, refused, models, del, missed, faults>>
       \/ Fail(t)

\* validate_disk_space asks df first, and counts the other downloads later.
AskDf(t) ==
    /\ job[t].at = "df"
    /\ \/ \E n \in Answers(t) :
             /\ job' = [job EXCEPT ![t].at = "count", ![t].used = n]
             /\ missed' = missed + (Used - n)
             /\ UNCHANGED faults
       \/ /\ job' = [job EXCEPT ![t].at = "open", ![t].blind = TRUE]
          /\ Fault /\ UNCHANGED missed
    /\ UNCHANGED <<dl, link, data, failing, refused, models, del>>

Fits(used, required) == required <= Capacity - used /\ used + required < Limit

RequiredAlone(t) == dl[t].total

Required(t) == dl[t].total + InFlight(t)
CountSpace(t) ==
    /\ job[t].at = "count"
    /\ IF Fits(job[t].used, Required(t))
       THEN job' = [job EXCEPT ![t].at = "open", ![t].used = 0] /\ UNCHANGED dl
       ELSE SetError(t)
    /\ UNCHANGED <<link, data, failing, refused, models, del, missed, faults>>

Cancelled(t) == dl[t].status = "Cancelled"

\* Between files: the check for a cancellation, the request for the next file
\* and File::create, which truncates the inode the path names or makes one.
OpenFile(t) ==
    /\ job[t].at = "open"
    /\ \/ /\ Cancelled(t)
          /\ Quit(t)
          /\ UNCHANGED <<dl, link, data, failing, refused, models, del, missed, faults>>
       \/ /\ ~Cancelled(t)
          /\ LET i == IF link[Path(t)] = NoTask THEN t ELSE link[Path(t)]
             IN  /\ link' = [link EXCEPT ![Path(t)] = i]
                 /\ data' = [data EXCEPT ![<<i, File(t)>>] = {}]
                 /\ refused' = refused \ {<<i, File(t)>>}
                 /\ job' = [job EXCEPT ![t].at = "check", ![t].pos = 0, ![t].ino = i]
          /\ UNCHANGED <<dl, failing, models, del, missed, faults>>
       \/ ~Cancelled(t) /\ Fail(t)

CheckNoChunk(t) ==
    /\ job[t].at = "check"
    /\ Goto(t, "write")
    /\ UNCHANGED <<dl, link, data, failing, refused, models, del, missed, faults>>

\* Each chunk that arrives is preceded by a check for a cancellation, which
\* removes the file the path names by then.
CheckChunk(t) ==
    /\ job[t].at = "check"
    /\ IF Cancelled(t)
       THEN Quit(t) /\ link' = [link EXCEPT ![Path(t)] = NoTask]
       ELSE Goto(t, "write") /\ UNCHANGED link
    /\ UNCHANGED <<dl, data, failing, refused, models, del, missed, faults>>

\* No space check that is under way, or to come, counts this chunk.
Unseen(t) == ~Downloading(t) \/ \E u \in Tasks \ {t} : job[u].at = "count"

\* The offset counts the files already written.
Progress(t)      == Chunks * (job[t].file - 1) + job[t].pos + 1

\* The chunk is handed over, and the task goes on.  The lock for the progress
\* is taken after the write; until then a space check counts the chunk twice.
HandOver(t) ==
    /\ dl' = [dl EXCEPT ![t].progress = Progress(t)]
    /\ job' = IF job[t].pos + 1 < Chunks
              THEN [job EXCEPT ![t].at = "check", ![t].pos = @ + 1]
              ELSE IF job[t].file < Len(job[t].files)
              THEN [job EXCEPT ![t].at = "open", ![t].file = @ + 1, ![t].ino = NoTask]
              ELSE [job EXCEPT ![t].at = "register", ![t].ino = NoTask]

\* The chunk reaches the disk; or it does not, because the disk refuses it or
\* the program is killed before, and the next write of the file fails.  The
\* file is neither flushed nor synced, so nobody hears of its last chunk.
WriteChunk(t) ==
    LET i == <<job[t].ino, File(t)>> IN
    /\ job[t].at = "write"
    /\ \/ /\ t \notin failing /\ HandOver(t)
          /\ data' = [data EXCEPT ![i] = @ \union {job[t].pos + 1}]
          /\ missed' = IF Unseen(t) THEN missed + 1 ELSE missed
          /\ UNCHANGED <<link, failing, refused, models, del, faults>>
       \/ /\ t \notin failing /\ HandOver(t) /\ Fault
          /\ IF job[t].pos + 1 < Chunks
             THEN failing' = failing \union {t} /\ UNCHANGED refused
             ELSE refused' = refused \union {i} /\ UNCHANGED failing
          /\ UNCHANGED <<link, data, models, del, missed>>
       \/ /\ t \in failing /\ SetError(t)
          /\ UNCHANGED <<link, data, failing, refused, models, del, missed, faults>>
       \/ Fail(t)

\* The tokenizer and the metadata are read, which may fail without effect, and
\* the row is inserted.
RegisterModel(t) ==
    /\ job[t].at = "register"
    /\ \/ /\ models' = models \union
                {[by |-> t, repo |-> job[t].repo, files |-> job[t].files]}
          /\ Goto(t, "complete")
          /\ UNCHANGED <<dl, link, data, failing, refused, del, missed, faults>>
       \/ Fail(t)

\* The status becomes Complete whatever it was.
Complete(t) ==
    /\ job[t].at = "complete"
    /\ dl' = [dl EXCEPT ![t].status = "Complete", ![t].progress = Size(job[t].files)]
    /\ Quit(t)
    /\ UNCHANGED <<link, data, failing, refused, models, del, missed, faults>>

-----------------------------------------------------------------------------
(* The other handlers, and the program's end. *)

LastChunk(t) == job[t].pos + 1 = Chunks /\ job[t].file = Len(job[t].files)

\* A check for a cancellation still lies ahead of the task.
CheckAhead(t) ==
    \/ job[t].at \in {"list", "df", "count", "open", "check"}
    \/ job[t].at = "write" /\ ~LastChunk(t)

\* cancel_download refuses whatever is not Downloading.
CancelDownload(t) ==
    /\ Downloading(t)
    /\ SetStatus(t, "Cancelled")
    /\ job' = [job EXCEPT ![t].early = CheckAhead(t)]
    /\ UNCHANGED <<link, data, failing, refused, models, del, missed, faults>>

\* delete_model: the transaction deletes the row, then the directory of the
\* repository is removed with all that is in it.
DeleteRow(m) ==
    /\ ~del.on /\ m \in models
    /\ models' = models \ {m}
    /\ del' = [on |-> TRUE, repo |-> m.repo]
    /\ UNCHANGED <<dl, job, link, data, failing, refused, missed, faults>>

DeleteAllFiles ==
    /\ del.on
    /\ link' = [p \in Dirs \X Files |-> NoTask]
    /\ del' = Idle
    /\ UNCHANGED <<dl, job, data, failing, refused, models, missed, faults>>

DeleteFiles ==
    /\ del.on
    /\ \/ /\ link' = [p \in Dirs \X Files |-> IF p[1] = SafeRepo[del.repo] THEN NoTask
                                             ELSE link[p]]
          /\ UNCHANGED faults
       \/ Fault /\ UNCHANGED link
    /\ del' = Idle
    /\ UNCHANGED <<dl, job, data, failing, refused, models, missed>>

\* The map and the tasks live in memory; files and rows stay.
Restart ==
    /\ Fault
    /\ dl' = [t \in Tasks |-> IF dl[t].status = "none" THEN dl[t]
                              ELSE [dl[t] EXCEPT !.status = "gone"]]
    /\ job' = [t \in Tasks |-> IF job[t].at \in {"none", "insert"} THEN Unused
                               ELSE [job[t] EXCEPT !.at = "end", !.ino = NoTask, !.file = 1,
                                                   !.pos = 0, !.used = 0]]
    /\ del' = Idle
    /\ UNCHANGED <<link, data, failing, refused, models, missed>>

TaskStep(t) ==
    \/ StartInsert(t) \/ ListFiles(t) \/ AskDf(t) \/ CountSpace(t) \/ OpenFile(t)
    \/ CheckChunk(t) \/ WriteChunk(t) \/ RegisterModel(t) \/ Complete(t)

Next ==
    \/ \E t \in Tasks : StartCheck(t) \/ TaskStep(t) \/ CancelDownload(t)
    \/ \E m \in models : DeleteRow(m)
    \/ DeleteFiles
    \/ Restart

\* A task is scheduled and HuggingFace answers or breaks the connection.
Fairness == \A t \in Tasks : WF_vars(TaskStep(t))
Spec == Init /\ [][Next]_vars /\ Fairness

-----------------------------------------------------------------------------
TypeOK ==
    /\ dl \in [Tasks -> [status : Statuses, total : Nat, progress : Nat]]
    /\ job \in [Tasks -> [at : Places, repo : Repos, files : Wanted, file : Nat, pos : 0 .. Chunks,
                          ino : Tasks \union {NoTask}, used : Nat,
                          early : BOOLEAN, blind : BOOLEAN, raced : BOOLEAN]]
    /\ link \in [Dirs \X Files -> Tasks \union {NoTask}]
    /\ data \in [Tasks \X Files -> SUBSET (1 .. Chunks)]
    /\ failing \subseteq Tasks /\ refused \subseteq Tasks \X Files
    /\ models \subseteq Rows
    /\ del \in [on : BOOLEAN, repo : Repos]
    /\ missed \in Nat /\ faults \in 0 .. MaxFaults
    /\ \A t \in Tasks :
          /\ dl[t].progress <= Size(job[t].files)
          /\ job[t].ino # NoTask => job[t].at \in {"check", "write"}

Admitted(t) == job[t].at \in {"open", "check", "write", "register", "complete"}

\* What is used, with what the admitted downloads have yet to write, stays
\* below the 95 percent limit, but for chunks no check could see: those on their
\* way to the disk when df looked, those written between a df and its count,
\* and those of a task that has not noticed its cancellation.  Each download
\* counts the others' total_bytes, which are set before they ask
\* (validate_disk_space of api/hf.rs).
SpaceBounded ==
    (\A t \in Tasks : ~job[t].blind) =>
        Used + MapThenSumSet(Remaining, {t \in Tasks : Admitted(t) /\ Downloading(t)})
            < Limit + missed

\* A file is whole but for a last chunk that the disk refused.
Whole(i) == \A c \in 1 .. Chunks : c \in data[i] \/ (c = Chunks /\ i \in refused)

HasFiles(m) ==
    \A k \in DOMAIN m.files :
        LET i == <<link[<<SafeRepo[m.repo], m.files[k]>>], m.files[k]>>
        IN  i[1] # NoTask /\ Whole(i)

\* A row inserted by a download has all its files on the disk, through failures,
\* cancellations, restarts and deletions of other models, as long as nobody else
\* asked for a repository of its directory, and whole but for a last chunk that
\* the disk refused after the task had closed the file (run_download,
\* stream_response_to_file, delete_model).
SoleOwnerHasFiles ==
    \A m \in models :
        (\A t \in Tasks \ {m.by} : job[t].at # "none" => Dir(t) # SafeRepo[m.repo]) =>
            HasFiles(m)

\* Two downloads of one repository run at once only if the second checked for
\* duplicates before the first was inserted (start_download of api/hf.rs).
OneDownloadPerRepo ==
    \A t, u \in Tasks :
        /\ t # u /\ Downloading(t) /\ Downloading(u)
        /\ job[t].repo = job[u].repo
        => job[t].raced /\ job[u].raced

\* A download cancelled while a check for it lay ahead registers no model; one
\* cancelled later may still be registered and shown as Complete
\* (cancel_download, stream_response_to_file of api/hf.rs).
CancelInTimeHolds == \A m \in models : ~job[m.by].early

\* Removing the files of a deleted model takes none from a model that stays, of
\* the same repository or of another that shares its directory.  The comment of
\* delete_model says that it never leaves an orphaned row.
DeletionSparesOthers ==
    [][del.on /\ ~del'.on => \A m \in models' : HasFiles(m) => HasFiles(m)']_vars

\* A download does not stay Downloading: it completes, fails, is cancelled, or
\* the program ends.  A download that never ends blocks its repository and the
\* space it counts for (run_download of api/hf.rs).
EveryDownloadEnds == \A t \in Tasks : Downloading(t) ~> ~Downloading(t)

=============================================================================
