# Sovereign Engine: a TLA+ verification project

Sovereign Engine is a Rust reverse proxy (`src/proxy`) that starts LLM backends
in Docker containers, hands out bounded access to them, lets a user book the
whole system for a time, and restarts or quarantines backends that die.  This
directory holds TLA+ modules of the parts of the proxy whose correctness depends
on the order in which concurrent tasks, statements and containers take their
steps, the TLC configurations that check them, and TLAPS proofs about them.

Contents

1. The system: components, state, operations, interactions
2. The modules and how they correspond to the code
3. The runs: what is checked, with which bounds, and why they are enough
4. Fairness
5. The proofs
6. Where the code and its documents disagree
7. What is only model-checked, and what is not modelled
8. The plan

## 1. The system

All of it is one process on the Tokio runtime: HTTP handlers, background tasks
and the tasks they spawn interleave at every `.await`.  A handler whose client
disconnects is *dropped* at the await it has reached, and runs no further
statement.  State lives in three places that no transaction spans: memory
(behind `RwLock`/`Mutex`, lost at a restart), SQLite (one statement at a time;
the code uses almost no transactions), and Docker (containers that outlive the
proxy).

| component | state it keeps | operations | correct when |
|---|---|---|---|
| Concurrency gate `scheduler/gate.rs`, queue `scheduler/queue.rs` | per model: `in_flight`, `max_slots`, a vector of waiting entries with a oneshot each; guards held by handlers | `register`, `unregister`, `acquire_with_timeout`, guard drop → spawned `release_and_wake`, `enqueue`, `dequeue`, `retain` on timeout | never more calls than slots; no slot lost; every call answered; a wake-up reaches somebody who can use it |
| Priority and settings `scheduler/fairness.rs`, `settings.rs`, `usage.rs` | the `settings` table, a copy in memory, the usage log | score of a call at enqueueing; partial updates of settings, reload | the copy follows the table; a later call with equal claims does not pass an earlier one |
| Reservations `scheduler/reservation.rs`, `api/reservation.rs` | the `reservations` table; one cached active reservation | create, approve, reject, cancel, force-activate, force-deactivate, delete; the 30 s tick; recovery at startup | bookings do not overlap; the state machine of ADR 018; cache and table agree; a reservation ends |
| Supervisor `supervisor/mod.rs`, `restart.rs`, `capture.rs` | per model: a state (Starting, Healthy, Suspect, Crashed, Quarantined), failure counter, pause; the `worked` flag in memory and in `models.worked` | kick (every 10 s, and on a failing request), probe, inspect, transition, reconcile, restart, quarantine | a dead backend is noticed, unloaded and decided upon; a backend that worked is restarted, one that never worked is quarantined |
| Container lifecycle `api/common.rs`, `docker/llamacpp.rs`, `main.rs` | `models.loaded`, `container_secrets`, the gate's and supervisor's entries, the container | start, stop with clean-up, recovery of loaded models at startup | database, gate, supervisor and container tell the same story when nothing is under way; the stored key opens the container |
| Request path `api/openai.rs`, `api/anthropic.rs`, `proxy/streaming.rs` | a handler's local state, the guard it holds | resolve the model, check the reservation, take a slot, call the backend, stream, record that it worked | a slot is held exactly while the backend works, and comes back whatever breaks; reserved time is respected |
| Anthropic endpoint `api/anthropic.rs` | a streaming task's open blocks and tool calls, a usage accumulator it shares with a logging task | translate requests, answers and streamed chunks; log the usage | the events form a well-bracketed message; the whole usage is logged once |
| Fleet of containers `docker/mod.rs`, `api/admin.rs` | Docker's containers by name and label, their UIDs, rows and stored keys | allocate a UID, create, start, stop, delete a model, reconcile | no two containers share a UID; no container without a row; no loaded model without a key |
| Model resolution `scheduler/resolver.rs` | models, categories | pinned model, category, id or repository, category name; preferred, then any loaded member | a scoped token stays in its category; a loaded member is found |
| Downloads `api/hf.rs` | a map of running downloads, files on disk, the models' rows | start, list, check the disk, stream, cancel, register, delete | one download per repository; the disk is not overfilled; a row has its files; a cancelled download is not registered |
| Model files `api/hf.rs`, `main.rs` | names and header of the files | choose files and projector, read GGUF metadata, compute and estimate the KV cache | every row names the right projector; the header is read in step; the estimate is the sum over the layers |
| Logins, users, sessions `auth/*`, `api/admin.rs` | users, sessions, providers, states of pending logins, rate-limit buckets | OIDC login and callback, break-glass login, promote, disable, expire | one first administrator; a disabled provider's users are out; the limit limits |
| Tokens `auth/tokens.rs`, `api/user.rs` | API, meta and internal tokens | create, revoke, delete, ensure the meta and the internal token, unpin | one meta token per user; a pin stays; the configured key opens |
| Secrets and key rotation `db/crypto.rs` | encrypted columns, the keys of this start | encrypt, decrypt, migrate | every stored secret reads back after rotations and half migrations |
| Metrics, Open WebUI proxy, configuration, web UI | little of their own | see `PROJECT.json` | — |

How they interact:

- A request checks the cached reservation, asks the gate for a slot, which may
  park it in the queue; a guard that is dropped spawns a task that gives the
  slot back and wakes the best waiting entry.
- Start, stop, the supervisor's reconciliation and restart, and startup recovery
  all register and unregister models with the gate, with guards outstanding.
- A 2xx answer records the `worked` flag, which the supervisor reads when it
  decides between restart and quarantine; a start resets it.
- The supervisor's kick copies the entry of a model, awaits an HTTP probe and a
  Docker inspection, and writes an entry back; start and stop handlers replace or
  remove the same entry meanwhile.
- The reservation handlers, the tick and startup access a row and then a cache
  in separate steps; so do the updates of settings.
- Deleting a model goes through tokens, container, rows and files, one after the
  other, while downloads, starts and requests go on with each of them.
- A request is resolved by several queries while administrators change models and
  categories, and startup migrates secrets and provides tokens before it serves.

The behaviours that are hard to test are exactly these windows between two
steps, the lost wake-ups, the handlers that are dropped half way, restarts of
the proxy with containers alive, and registrations under outstanding guards.
`PROJECT.json` lists them one by one (`hazards`), each at its line and with the
properties that would notice.

## 2. The modules and the code

`PROJECT.json` (`map`) gives the lines every definition stands for.

### Admission, ConcurrencyGate, GateRefinement

`Admission` is the abstract promise.  While the gate is open (no backend is
registered) everybody is admitted; while it is limited, at most `limit` calls are
granted at any time.  A call admitted while it was open, or under a limit that has
been replaced, is *exempt*: the present limit does not apply to it, and when it
ends it gives back a slot it never took, which is what `register` on an entry in
use costs.  A call that asked is granted, denied or abandoned.

`ConcurrencyGate` describes the gate and the queue of one model; both maps of the
code are keyed by model and no operation touches two keys.  Its actions are cut
where the code releases a lock: `FastPath`/`Contended` is `try_acquire`,
`Enqueue` the second critical section (a database query lies between them),
`ReAcquire`/`WokenTooLate` what happens after the oneshot, `Expire` and
`RemoveExpired` the timeout and the later `retain`; dropping a guard takes
`DropGuard` (the spawn), `Release` (saturating decrement), `DequeueBest` or
`NobodyWaiting`, `SendWake`.  `Disconnect` drops the future of a call at any of
its awaits, which runs no code of the gate and leaves its entry in the queue.
`Register` overwrites an existing entry, as `HashMap::insert` does, and forgets
its count.  `gen`, `epoch` and `stale` are auxiliary: they remember under which
registration a guard was counted and how many guards of another registration
have been released since the last one; no guard of an action reads them.

A call is enqueued with one score, chosen freely: the formula of
`calculate_user_priority` reads a usage log, and its wait term is always zero,
since its only caller passes a wait of 0.0.

`GateRefinement` maps a call's program counter to what its caller knows (`Seen`),
the guards the present limit applies to (`Covered`) to the granted calls, and
`maxSlots + stale` to the limit (`Allowance`), and states that the gate implements
`Admission` through every sequence of registrations.

### Reservations, Booking, ReservationRefinement

One SQL statement or one access to the cache is one action; a handler with
several is several actions that share a `job`, so `approve` is `Approve` (read
the status), `CheckOverlap`, `WriteApproved` (an UPDATE by id only), and
`force_activate` is `ForceActivate` (read the cache), `SelectApproved`,
`WriteActive`, `SetCache`.  The tick is the seven `Tick...` actions in the order
of `tick_reservations`, with the time it read at its start.  `Restart` loses
every task and the cache and reads one active row back.  Statements fail where
the code goes on regardless: an overlap query that fails is read as "no
overlap", an UPDATE that fails in `force_activate` is ignored.  Times are slots
of half an hour; the window of a reservation never changes and is fixed with its
id.

`serial` chooses, once per behaviour, whether requests and ticks happen to come
one at a time.  The code enforces nothing of the kind, so properties that only
hold in serial behaviours say so in their name; they state what the code's logic
achieves when nothing races, and the violation runs show what races do to it.

`Booking` is the abstract promise: a book of requests and the one who holds the
system.  A grant clashes with nothing granted or in force; one granted request at a
time comes into force (`Enforce`), takes the system (`Hold`), ends (`End`), and the
system is let go (`LetGo`) before anybody else's time begins.  It promises this of
orderly behaviours only.  `ReservationRefinement` maps a status to a page of the book
(`Page`), the cache to the holder and `Undisturbed` to `orderly`; what reads or waits
is stuttering, and a restart in the middle of something is a `Hold` or a `LetGo`.

### Supervisor

One model's backend: the supervisor's task (`sup`), start and stop handlers
(`hand`), the hot path's flag (`answered`, `writing`), the row, the maps, and the
container (`box`), which is external and modelled from what the code assumes of
Docker and llama-server: it loads, serves, hangs, recovers and exits.

`Kick` copies the entry; `Probe` is the HTTP request and, when it succeeds, the
transition; `Inspect` is the Docker inspection and the transition; the transition
*replaces* the entry whatever became of it meanwhile.  After a crash come
`Unload`, `Drop` (both of `reconcile_state`), `LogCrash`, `Decide` (worked flag
from the map, then from the column), and either `Lookup`, `SupLaunch`,
`ResetWorked`, `Register`, `MarkLoaded` (`restart_after_crash`) or `Quarantine`.
`Transition` is the pure function of the same name; its failure counter stops at
the threshold, the only value it is compared with.  `Start ... Unquarantine` is
`start_container_core`, `Stop ... StopUnload` the stop handlers with
`post_stop_cleanup`, statement by statement, and `ProxyRestart` is a restart with
`recover_gate_state`.  Both kinds of `backend_type` are there: a kick on a model
of an unknown type panics in `backend_base_url`, which ends the one task that
supervises every model (`sup.at = "dead"`).

As in `Reservations`, `serial` makes the actors take turns, and failures are
counted against `MaxFaults`: a failing statement or call, a dropped handler, a
restart of the proxy amid activity.

`served` is auxiliary: in serial behaviours, whether the container has answered a
request since it was created, and whether a start has found it running since.  Such a
start leaves the container as it is and resets the `worked` flag all the same, so
what the backend has proved before is forgotten (section 6, `ServedIsRestarted`).

### RequestPath

One handler per request, `proxy_completion` and `messages` alike, from the
resolution of the model to the end of its answer.  It is the composition of the
three modules above at the level a request sees them: the gate is `Admission`
(its `Grant`, `Ask`, `Deny`, `Finish` are instantiated), while the reservation in
force, `models.loaded`, the container and the gate's registration are changed by
the environment at any time and in any order, which covers every order in which
start, stop, reconciliation, the tick and the reservation handlers change them.
`at` is the place of the handler: `Resolve`, `CheckReservation`, `Acquire` (at once
or into the queue), `Dequeue`/`QueueTimeout`, `Send` (a failed connection is an
answer, too), `Answer` (the head; a streamed request returns here) and `Collect`
(the body, or the break).  The guard is a local variable: `GiveBack` follows the
handler's return or its being dropped by `Disconnect`.  Awaits whose result decides
nothing later (the key, the user to bill, the usage log) are left out.  An error
status on a streamed request of the Anthropic endpoint, whose body is collected
before the handler returns, is the `Collect` that starts from `sent`.
`earlier` is auxiliary: who had passed the check when the reservation last changed.

### AnthropicStream

The task of `transform_stream` and the logging task of one streamed answer.  The
events of a chunk are computed by one action (`TakeText`, `TakeTool`, `TakeUsage`,
`End`) and leave one by one (`Send`), since each `send` is an await at which the
client may turn out to be gone (`SendFails`, which stores the usage so far and
quits).  The flags of the code are kept as they are: `text_block_started` with its
index, the vector of tool calls with their `started`, `next_block_index`.  Texts,
arguments and the stop reason are dropped; a chunk with several choices or tool
calls acts as several chunks; a stream that breaks ends like one that is complete.
`Log` is the poll every 500 ms and `Deadline` its 300 s.

### Downloads

The start handler, the task of each download and the disk.  `StartCheck` and
`StartInsert` are the two critical sections of `start_download`; the task then
lists the files (`ListFiles`, from here on `total_bytes` is known), asks `df`
(`AskDf`) and later counts the other downloads (`CountSpace`), opens each file
(`OpenFile`, which truncates whatever has that name), checks for a cancellation
before each chunk (`CheckChunk`), writes it (`WriteChunk`), inserts the row
(`RegisterModel`) and sets `Complete` whatever the status was.  A file is an inode
with the chunks it holds, so two tasks that write to one path and a file that is
removed while it is open behave as they do on disk.  Its directory is
`SafeRepo[repo]`, and two repositories may share one: `replace('/', "--")` is not
injective.  `DeleteRow`/`DeleteFiles` are the end of `delete_model`, `Restart` loses
map and tasks and keeps files and rows.

A `tokio::fs::File` takes a chunk and writes it behind the back of the task, and the
code neither flushes nor syncs it.  So `WriteChunk` has, beside the write that
reaches the disk and the download that fails at once, a chunk that the disk refuses
(or that dies with the program) after the task has gone on: the next write of the
same file says so (`failing`), and after a file's last chunk nobody does (`refused`):
the file stays short and the row is registered.  For the same reason `df` may miss
the chunk that each other task wrote last (`Answers`).

`missed`, `early`, `blind`, `raced` and `refused` are auxiliary.

### Conversions: ModelFiles, Gguf, KvCache, Translation

Four parts of the program that make one description of another and share no state.
`Conversions` holds them side by side (`part` says which one a behaviour runs, as in
`MCStore` below), declares their inputs and what is assumed of them
(`ConversionsAssumption`), and is what `MCOps` gives values to and what the proofs
are about.

`ModelFiles` chooses from a repository's listing: what is downloaded, the primary
file, the tokenizer's source, the projector (`detect_mmproj_file`), and for rows
without one what is on the disk (`backfill_mmproj_filename`).  A download is a `Start`,
one `FetchFile` per file in the listing's order, and `Finish`, which inserts the row or
fails; `CutShort` ends it at any file (a failure, a cancellation, the end of the
program), with the files before it left on the disk and of that file nothing, a part,
or not even what was there.  `lost` is auxiliary: the files that a download did not
bring, or that were removed with a model.

`Gguf` is the reader of a model's header as a position in a file of cells: `File` is
the pairs written one after the other, and every value a pair may have, of the type
expected or of another, must be consumed exactly once.  Its position is `Lost` once it
has asked for another width than the one at hand, and `Failed` once it has returned an
error: for more than `MaxPairs` pairs, or for a string that is `Unreadable` (over
1,000,000 bytes, or not UTF-8).

`KvCache` is what ingestion computes from the metadata (`Ingest`), what the start of
the program adds to rows without a count of layers (`Backfill`), rows of older releases
included (`Older`), and the estimate the administrator is shown of it.  Numbers keep
their width: lengths add up in 32 bits, aggregates and the older formula wrap in 64,
the products of the estimate saturate.  `U32` and `U64` are constants.  `Translation` is a client that keeps an Anthropic
history and sends all of it each time, a backend that answers in OpenAI form, and the
endpoint that translates both ways (`translate_request`,
`translate_openai_response`).  Texts are sequences of pieces, so that order and loss
show.

### Logins, RateLimit

A login is a browser's attempt; the callback runs statement by statement beside
other callbacks (`LoadIdp`, `Exchange`, `SelectUser`, `CountUsers`, `InsertUser`,
`CreateSession`), and `BootstrapLogin` beside both.  Administrators enable and
disable providers and promote and demote users.  Discovery, exchange and
verification are one step that succeeds or ends the attempt.  `RateLimit` is
`check_rate_limit` with the key it takes from the headers, against a clock.

### Tokens

The table of tokens statement by statement: users' own tokens, `ensure_meta_token`
(look, then insert), the part of `delete_model` that revokes and unpins, and
`ensure_internal_token` at each start, with any key and a stop anywhere.  Hashes
are UNIQUE as in the schema.

### Settings, Secrets, Fleet, Resolver

`Settings`: an update saves its keys one by one in any order (`Save`), may end
short (`Reject`, `CutShort`), then reads the table (`Load`) and replaces the copy
(`Store`).

`Secrets`: a secret is the sequence of encryptions around it, so encrypting twice
and taking ciphertext for plaintext are visible.  `Boot` starts the program with
any keys, `MigrateRow` and `MigrationFails` are the migration, which may stop at
any row; `careful` remembers whether the operator followed the rule in `config.rs`.
The row of the bootstrap provider is left out: its secret is empty and unread.

`Fleet`: starts (`StartBegin`, `InspectUid`, `PickUid`, `LookForBox`,
`RemoveStopped`, `CreateBox`, `StartBox`, `StoreKey`, `Book`) and stops or
deletions (`StopBegin`, `StopBox`, `DropKey`, `Unload`, `DeleteRow`) of several
models between Docker calls and statements, with failing calls and backends that
die.  The supervisor is one more actor: it probes a model of its map (`Probe`), finds
it well or dead, running or not (`Reconcile`), and quarantines it or restarts it
(`Quarantine`, `Revive`), which goes on with the same `LookForBox` ... `Book` as a
start does, but with the UID `key` stores and without storing one.  `Crash` ends the
proxy and runs `recover_gate_state`.  `Supervisor` has one model with every detail of
its supervision; `Fleet` has several, and of their supervision what creates containers
and writes rows.  `excused`, `cut` and the `beside` of starts and containers are
auxiliary.

`Resolver`: `resolve_model` query by query; models and categories change between
the queries.  `seen` is auxiliary: what was in the category, and which of its
members stayed loaded, while the request asked.

### MCStore, MCAccess and MCOps

Each of these runs holds several modules that share no state (those of `MCOps` by way
of `Conversions`); a behaviour chooses one (`part`) and leaves the variables of the
others off, or where they start (`MCAccess`).  They are independent questions asked in one run, not a composition.

## 3. The runs

Bounds are named constants in the guards: `MaxGenerations`, `MaxTime`,
`MaxFaults`, `MaxStarts`, `MaxTroubles`, `MaxChanges`, `MaxChunks`, `MaxTokens`,
`MaxBoots`, `MaxTurns`, `Horizon`; all else is finite by the sets given.
`MaxPairs`, `U32` and `U64` are not bounds of the models but limits of the code
(10,000, 2^32, 2^64) given small values, so that they are met.  Where a
module has serial and racing behaviours, the bounds of `Supervisor` are functions of
the mode: actors that take turns need longer stories than actors that race.

| run | instance | shows |
|---|---|---|
| `gate` | 3 calls, 1 or 2 slots, 2 scores, up to 2 registrations, unregistered at any time | `NoSlotLeak`: what is counted as in flight is owned by a guard that will come back. `OvershootBounded`: the limit is exceeded by no more than the releases of guards of another registration. `OneWakerEach`: an entry or a dequeued waker belongs to a call that may still be woken and to one releasing task at most, and no call waits without a sender somebody will use, so the "channel closed" branch is unreachable. `ImplementsAdmission`: with every interleaving of timeout, wake-up, disconnection, newcomers and registrations, the gate is the abstract admission control. `EveryCallReturns` |
| `res_rules` | 2 reservations over 3 windows, 1 handler, the tick, restarts, one fault, serial and racing | `SerialNoOverlap`, `SerialCacheAgrees`, `SerialReservationEnds`: the booking rules hold when nothing races, and whoever holds the system lets go. `ImplementsBooking`: under the same conditions the whole is the abstract book, with nothing that is over revived and nothing brought into force beside another, restarts in the middle of an activation or of an early end included. `OnlyApprovedHoldSystem`: even when everything races and a statement fails, the system is only held for a reservation an admin approved |
| `res_stuck` | 1 reservation, racing, no fault | a race that breaks what RESERVATIONS.md says (section 6) |
| `sup_life` | 1 handler, both kinds of rows. Racing: 1 start, 1 exit or hang, 1 fault. Serial: 3 starts, 3 exits or hangs, no fault | `NoDeadEnd`: whatever interleaves with a kick, no entry stays Crashed (kicks pass over such an entry, so it would never be looked at again). `SerialConsistent`: row, gate, map and key agree whenever nothing is under way, across starts, stops, crashes, restarts, quarantine and restarts of the proxy. `SerialFairQuarantine`: no container that answered since it was created is quarantined as never having worked, unless a start has found it running since. `SerialDeadIsNoticed` |
| `sup_hung` | serial, no fault | a statement about restarts that the code contradicts |
| `req_paths` | 2 requests (one of a user, one of Open WebUI), 1 slot, 4 changes of the environment | `BufferedWithinLimit`: an answer that is read to its end holds a slot all the while, and these never exceed the limit in force. `OnlyEarlierPass`: in somebody else's reserved time only requests proceed that had passed the check before. `SlotsComeBack`: whatever breaks, a slot returns, unless the backend is still at work for it |
| `anth_stream` | 5 chunks, 2 tool calls | `WellBracketed`: a block starts once and stops at most once, deltas in between, and a complete message leaves none open, also with text after tool calls and calls that are never named. `LogsWholeUsage`: usage logged before the deadline is that of the whole stream. `EveryStreamEnds`: a client that stays gets its last event, and every stream is logged |
| `downloads` | 2 downloads, 3 repositories of one or two files of 2 chunks, two of which share a directory, a disk of 7 chunks with its limit at 6, 1 fault or restart | `SpaceBounded`: what is used and what admitted downloads have yet to write stays below the limit, but for chunks no check could have seen. `OneDownloadPerRepo`: two at once only if the second was checked before the first was inserted. `SoleOwnerHasFiles`: a row has all its files, unless somebody else asked for its directory, and each whole, unless the disk refused its last chunk. `CancelInTimeHolds`: who cancels while a check lies ahead gets no model. `EveryDownloadEnds` |
| `logins` | 2 browsers, 2 providers with one subject each, the bootstrap user, 2 changes by administrators | `DisabledIdpDrains`: once a provider stays disabled, its users' last sessions end and none is created, callbacks under way included |
| `access` | tokens: 3 rows, 2 users, 1 model, 2 keys, 2 requests, 2 starts; logins: as in `logins`; the limit: 2 client keys, 2 attempts per window of 3 over 6 ticks | `OneMetaToken`: one per user, or the insertions overlapped. `PinKept`: a usable token made for one model is pinned to it, unless it was made while that model was deleted. `InternalTokenCurrent`: after a start with a key that key opens and no earlier one does. `AutoAdminsRaced`: two automatic administrators only if their counts and insertions overlapped, even over two providers. `RateBound`: no stretch of a window's length sees twice the limit |
| `store` | 2 settings and 2 updates; 2 secrets, 2 keys, 4 starts; 2 models, 2 UIDs, 2 starts, 1 stop or deletion, the supervisor, 1 fault, crashes; 2 models, 2 categories, 1 repository | `CacheFollowsRows`: with no update under way the scheduler works with the table, unless one was cut short or ran beside another since the last complete one. `SecretsReadBack`: with keys rotated by the rule, every secret reads back after a migration that finished, whatever stopped before. `UidsApart`: one UID twice only for containers started or restarted beside each other, after a failed inspection, or when a restart used a stored UID that was not that of the container it replaced. `LeftoversExplained`: a container without a row, or a loaded model without a key, has one of the few causes named there. `RightModel`: a scoped token stays in its category, and a member that stays loaded is enough to get a loaded model |
| `ops` | headers of 3 pairs, and of 4, which are too many; models of up to 3 layers in numbers of 2 and 5 bits; listings of 3 files, downloads cut short anywhere; 2 turns with up to 2 calls | `ReaderInStep`: where a pair begins, with what the pairs before it say, or refused with a reason. `EstimateIsTheLayers`: unless an aggregate wrapped, the estimate is the sum over the layers, or the largest number. `OneProjector`: rows name the projector of the reference order, but for what was cut short or removed, and it is on disk. `ConversationKept`: answers read back, each call has its one result, nothing the user wrote changes place |

Why these bounds: with one slot and three calls a release meets a waiting call, a
newcomer and a timed-out one at once, and the second slot lets two guards be
released concurrently.  A second registration is the first that can meet a guard
of an earlier one, or a guard granted while there was no entry; the proofs remove
both bounds.  Two reservations with a handler and the tick are the fewest with a
lost update, and three windows give every relation of two bookings (disjoint and
adjacent, overlapping, equal).  One handler beside the supervisor's task is the
fewest that can pull an entry out from under a kick, and three starts and troubles
in the serial behaviours go through crash, restart, second crash, quarantine and
recovery from it.  Two requests on one slot are a request that runs and one that
waits; four changes are, for instance, a reservation, a stop in two steps, and a
start.  Five chunks are text, a tool call in two chunks, text again and the usage.
On a disk of six usable chunks a repository of four and one of two each fit and
together do not, so the second check depends on what the first download has
written.  Two of everything that checks and then inserts (browsers, requests,
updates, starts) is the fewest that race; four starts of the program are two
rotations with a half migration each; two starts and one stop of containers meet
each other at every pair of Docker calls, and with two UIDs for two models every
start that does not see the other container may draw its UID.  In two bits the sum of
a key's and a value's length wraps, and in five the products saturate; a header of
four pairs is one too many, and one of its strings is too long.  Two turns of a conversation translate an
answer with calls, its results, and the next answer.

The runs of the gate, the request path, the stream, the downloads, `access`,
`store` and `ops` say `CHECK_DEADLOCK FALSE`: every call, request or start is made
once or counted, so these systems end.  Those of `Reservations`, `Supervisor` and
`Logins` never stop, as the tick, the restart and the next login are always
possible, and are checked for deadlock.

Every property of a passing run has a mutant in its module: the form of one action
or operator that a plausible slip would give it (a dropped status check, an
inclusive limit, a `retain` left out, a quarantine that forgets the map, a space
check that forgets the other downloads, an older key that is not tried), with which
TLC finds the property violated.

## 4. Fairness

- Gate: weak fairness of what the runtime does by itself (`Progress`): tasks are
  polled, timers fire.  Clients owe nothing: a guard may be held for ever, and
  nobody has to disconnect.  `EveryCallReturns` therefore rests on the timer.
- Reservations: weak fairness of the clock and of every accepted request; strong
  fairness of the tick.  The interval timer fires every 30 s whatever else goes
  on; it is strong because in serial behaviours the tick waits its turn, and other
  requests could otherwise always come first.
- Supervisor: weak fairness of the supervisor's task, of handlers in progress, of
  recording and persisting the worked flag and of the end of the 60 s pause;
  strong fairness of the kick, for the same reason as the tick.  The container owes
  nothing: it may load for ever or never recover.
- Request path: weak fairness of each handler's own steps (tasks are polled, the
  timer of the queue fires).  The backend owes no answer, the client neither
  patience nor departure, and nobody has to change anything.
- Downloads: weak fairness of each task's steps: it is scheduled, and HuggingFace
  answers or the connection breaks.  The client has no read timeout, so a server
  that keeps a connection open and sends nothing is outside the assumption, and such a
  download does stay.  Nobody has to cancel or delete.
- Logins: weak fairness of handlers under way and of expiry: rows of pending logins
  are good for ten minutes and sessions end.  Nobody has to log in, and no
  administrator has to do anything.
- Streams: weak fairness of the transform task where it can go on (a client that
  stays reads, so the channel's 32 places drain), of the poll and of its deadline.
  The backend may never send another chunk.

## 5. The proofs

Each is for every value of the constants; the only assumptions are the named
`ASSUME` of each module, which TLC evaluates in the runs: sets of actors whose
cardinality or sum is used are finite (`Requests` of the gate, `Calls` of the request
path, `Tasks` and `Files`
of the downloads), bounds are naturals (of starts and of the limit's attempts at
least one), and values that stand for "none" are none of the values proper
(`NoneIsNoRow`, `NoEntryIsNoState`, `StoreAssumption`).  `ConversionsAssumption` says
what the inputs of the conversions are: sequences of pairs whose values have types the
format knows and whose arrays are not nested, metadata of the shape `Described`,
listings that name a path once, keys that differ, and limits (`MaxPairs`, `U32`,
`U64`) that are naturals.  `SafeRepo` is any function from repositories to directories.  Every invariant and every
action property that a run checks is proved, and so are both refinements; one
invariant of `ops` (`ConversationKept`, section 7) and liveness are not.

`TypeOK` is a conjunct of most of the invariants.  What an invariant adds is what
the code relies on between two of its steps: a property speaks of two rows, or of
a row and a cache; a handler that has read one and will write the other is the
reason why the property alone is not inductive.

`GateProofs`, about `ConcurrencyGate`:

- `GateTypes`: `Spec => []TypeOK`; `inFlight \in Nat` is the fact that matters,
  since a counter that goes below zero would wrap.
- `GateInvariant`: `Spec => []GateInv`, where `GateInv` is
  `TypeOK /\ EpochsPast /\ CounterSound`.  Neither `NoSlotLeak` nor
  `OvershootBounded` is inductive: a guard of an earlier registration may
  decrement a counter that never counted it, so the counter and the set of guards
  must be related from both sides, with the stale releases as the only slack
  (`inFlight <= |Counted| <= inFlight + stale`), together with the gate's own
  limit (`inFlight <= maxSlots`) and the fact that guards remember registrations
  that have happened (`EpochsPast`), without which a new registration could count
  an old guard.
- `GateLosesNoSlot`, `GateOvershoot`: `NoSlotLeak` and `OvershootBounded` follow.
- `SteadyLimit`: while a model stays registered the limit is exact, since then no
  release is stale.
- `GateImplementsAdmission`: `Spec => ImplementsAdmission`: initial states map to
  initial states, and every action maps to one action of `Admission` or to a
  stutter.  `Grant` needs `CounterSound`; the release of an exempt guard is the
  abstract `FinishExempt`, which is why the abstract limit grows by the stale
  releases.
- `GateWakersOwned`: `Spec => []OneWakerEach`, by `WakerInv`
  (`GateInv /\ OneWakerEach`).  The property is inductive once the queue is known to
  hold entries of calls; the work is in queues of any length: removing the best
  entry, and one that has timed out, must leave every other sender in place, which
  the lemmas on `RemoveAt` say.

`ReservationProofs`, about `Reservations`: `ReservationTypes`, and
`OnlyApprovedEverHold` (`Spec => []OnlyApprovedHoldSystem`), racing and failing
included.  The property speaks of the cache alone; the invariant `ResInv` follows
the approval to where it comes from: rows that are approved or active, the row a
handler or the tick has selected and is about to activate or to cache
(`ApprovedFirst`), and the fact that a handler at work names a reservation
(`JobsNameRes`).

The properties of serial behaviours have an invariant of their own, `SerialInv`
(`SerialReservations`).  `SerialNoOverlap` and `SerialCacheAgrees` hold of a table
and a cache that several statements change one after the other, so the invariant
says for each statement a handler (`JobSound`) or the tick (`TickSound`) has yet to
execute what it may count on: the row a handler approves still overlaps nothing
booked, a row about to be cached is the only active one, a cache about to be cleared
names no active row.  `OneAtWork` keeps the others from disturbing it, and
`AtMostOneActive` makes the one cached reservation the one active row.
`SerialBookingsApart`, `SerialCacheRight` and, as a property of every step,
`SerialFollowsStateMachine` follow.  So does `ReservationsImplementBooking`
(`Spec => ImplementsBooking`): a statement that writes one row turns one page
(`PageTurned`), of a request that is as the handler last saw it; the tick completes
the one row that holds the system, or none (`TickCompleteTurns`); and since the cache
is near the table even in the middle of something (`CacheIsNear`: it names the one
active row, or nothing, or nothing is active), a restart takes up what is in force or
lets it go.  The state machine alone allows a second activation, and the agreement of
cache and table says nothing of moments in between; the book forbids both.

`SupervisorProofs`, about `Supervisor`: `SupervisorTypes`, and `NoCrashIsForgotten`
(`Spec => []NoDeadEnd`).  `NoDeadEnd` speaks of the moments between kicks; the
invariant `SupInv` says of all others that an entry is Crashed only while the kick
that found the crash is being followed up (`CrashIsFollowedUp`), which every action
of a handler, a failure and a restart must keep, and that a kick under way has an
entry in its hands (`KickHasCopy`), without which it could write back nothing.
`SerialAtRest` (`SerialConsistent`) and `SerialQuarantineFair`
(`SerialFairQuarantine`) rest on `Orderly` (`SerialOrder`): what row, gate, entry, key
and the two `worked` flags say at each statement of a start, a stop, a kick, a
restart and the recovery (`HandlerKnows`, `KickKnows`), that a quarantine's reason
stays true while it lasts (`ReasonsHold`), and that an answer is recorded, or about
to be, as long as its container stands and no start has looked at it (`AnswerKept`).

`RequestPathProofs`, about `RequestPath`: `RequestTypes`, `BufferedStayWithinLimit`
and `OnlyEarlierRequestsPass`.  The invariant `RequestInv` relates the place of a
handler to what the gate has told it (`PlaceAndStatus`), the backend's work to
handlers that await it or streams handed out (`WorkIsAwaited`), and keeps the
abstract limit (`LimitKept`) through `Replace` and `FinishExempt`.

`StreamProofs`, about `AnthropicStream`: `StreamBracketed` (`WellBracketed`) and
`UsageIsWhole` (`LogsWholeUsage`), for streams of any length.  A chunk's events are
computed at once and sent one by one, so the invariant `BracketInv`
(`StreamInvariant`) is about `All`, what was sent followed by what is pending: it is
bracketed, the blocks it leaves open are those that the flags `text_block_started`
and the vector of tool calls say (`ReadingKnows`), and no two of these share an index
(`BlocksApart`).  A prefix of a bracketed sequence is bracketed, which is what a
client that leaves has received.  `UsageIsWhole` is a property of the logging step:
the accumulator is empty while the transform task works and then holds all of the
usage (`UsageKnown`).

`DownloadProofs`, about `Downloads`.  `Base` (`DownloadsInPhase`) relates a task's
place and offset to the progress its entry shows.  On it rest

- `OneDownload` (`OneDownloadPerRepo`): `PairsRaced` says the same of downloads about
  to be inserted, which have checked already;
- `CancelledInTime` (`CancelInTimeHolds`): `EarlyHeeded` says that such a cancellation
  is still ahead of the task, or has ended it;
- `SoleOwnersKeepFiles` (`SoleOwnerHasFiles`): `OwnFilesWritten` follows each file
  from its truncation, chunk by chunk, to the row: a chunk that is refused before the
  last leaves the task failing, so only a last one can be missing (`Whole`).
  `InodesAtHome` says that inodes stay in the directory they were made for, so that
  tasks and deletions of other directories do not touch them;
- `SpaceStaysBounded` (`SpaceBounded`): `DfHolds` says that an answer of `df` misses
  only the chunks counted as missed, those on their way when it looked included.  The bound adds up chunks over inodes and over
  tasks; that a sum over a finite set changes by what one member changes is derived
  from the library's definition of the fold and the well-foundedness of the
  naturals, since no rule of induction can be instantiated directly.

The same module proves what is said of a downloaded file (`Conversions`), since
positions in a file and costs of layers are sums over sets as well.  `ConversionsInv`
(`ConversionsInvariant`) has a part for each:

- `HeadersAreRead` (`ReaderInStep`), for headers of any length, those the reader
  refuses included: a pair begins where the ones before it end, so what is to be shown is that the cells at `Start(n)` are those
  of pair `n` and of no other (`StartNext`, `StartLater`, `PairFound`, `FileCell`), that
  one turn of the reader consumes exactly them whatever the type of the value, or ends
  in an error when one of their strings is unreadable (`TurnEnds`), and that what it then
  holds is what the pairs so far say (`SaidNext`, `MetaOf`).  `ReaderInv` adds to the
  property only that the file is a header and that the reader has not passed its end.  It needs the head counts to be regular; without
  that the property is false (`AlwaysInStep`, section 6).
- `EstimatesAddUp` (`EstimateIsTheLayers`), for any number of layers and any width of
  numbers: the estimate is computed from aggregates that ingestion, the backfill or an
  older release stored, at another time, so `MemoryInv` says that every column is empty
  or what the file says, and that a row with aggregates has all the others (`IsRowOf`,
  `OfTheFile`).  The premise `Fits` says that no sum of lengths and no aggregate has
  wrapped; the products of the estimate saturate, and a sum of saturated parts is the
  saturated sum.  That aggregates times tokens are the sum over the layers is
  `ByLayerSum`, from `TotalSplit` (windowed layers and the others) and `TotalTimes` (a
  factor comes out of a sum).
- `RowsNameTheProjector` (`OneProjector`): the backfill looks at the disk, the download at
  the listing.  `FilesInv` says that once anything of the repository is on the disk, or a
  download under way, every projector is on the disk, was cut short or removed, or is
  still to come, so that what the backfill picks comes after lost files only; `RowFits`
  says the same of what the rows already name.

`AccessProofs`, about `Tokens`, `Logins` and `RateLimit` as `MCAccess` holds them
(`AccessStaysSafe` is about that module's behaviours, the others about each
part's own).  `TokInv` (`TokensInvariant`) says what a request that found no meta
token (`AsksAlone`), a deletion between its statements (`DeletionSound`) and a startup
that has revoked and not yet inserted (`BootSound`) may count on in the table, whose
hashes are apart; `MetaTokenIsOne`, `PinsAreKept` and `InternalTokenIsCurrent` follow.
`FirstAdminsOverlapped` (`AutoAdminsRaced`): `LoginInv` extends the property to
browsers that were promised to be administrators and are about to be inserted.
`LimitIsKept` (`RateBound`): a sliding stretch may straddle two fixed windows, so the
invariant (`Limited`) bounds what was let through since every second: at most the
limit less one before the present window, since a window's first attempt came when
it started, plus those counted in it.  The window's length is any number of ticks,
so a tick may be as short as one likes.

`StoreProofs`, about `MCStore`, part by part (`PartsInv`, `StoreInvariant`):

- `SettingsStayFresh` (`CacheFollowsRows`): a handler that runs alone has read what
  the table holds (`AloneReads`), and while nothing written is under way or behind,
  so has every other (`UpToDate`);
- `SecretsStayReadable` (`SecretsReadBack`): while the operator keeps the rule, every
  stored secret is in the clear or encrypted once, under a key (derived in the new or
  the old way) that this start can try (`RowsOpenable`), and rows the migration has passed are under the present one;
- `UidsStayApart` (`UidsApart`): starts and the supervisor's restart know of each other
  while they launch (`KnowEachOther`), and a container whose UID a start has not listed
  was started beside it, or is one of those it could not inspect (`StartsApart`).  A
  restart draws no UID: it is apart from the others only while the one stored with the
  key is that of the container it replaces;
- `LeftoversStayExplained` (`LeftoversExplained`): a stop that goes on to delete a
  model with a container, or with a start or restart under way, knows its excuse
  (`OrphansInv`), and whoever is about to set the mark, a start that has stored the key or
  a restart that has read it, still has it or has lost it to a stop (`UnlistedInv`, with
  `BooksKeyed` for those that count on a key);
- `RightModelAlways` (`RightModel`): while a call searches, what is in its category
  has been noted, and what was loaded all along is loaded now (`Searching`,
  `PreferNoted`).

The argument is laid out alike in all eight: lemmas on the operators (cardinalities,
sequences, sums, what a transition returns, what a step of a job keeps), one lemma or
step per action, and a last temporal step.

`Started` and `StartedTool` of `AnthropicStream` name the tools that were started and
their order, and say without a filter what the code's loop does; filters over a
sequence are defined by recursion, of which the provers know little.

## 6. Where the code and its documents disagree

Two are runs that TLC finds violated (`findings` in `PROJECT.json` quotes the
sentence and the line):

- `res_stuck` (`ReservationEnds`): the tick empties the cache only when it completes
  a row; a cache set for a row that is no longer active is never emptied.
- `sup_hung` (`RestartReplacesBackend`): the automatic restart of a hung backend
  finds its container running and leaves it as it is.

The following are stated in the modules as properties that no run lists; TLC finds
each violated when it is given to the run named, with the constants named:

- `LongerWaitFirst` (`gate`): `docs/THREAT_MODEL.md:106` says the priority grows
  with the waiting time.  It is computed once, for a wait of zero; among equal
  scores `max_by` returns the last, so the newest call goes first.
- `NoOverlap` (`res_rules`, racing with two handlers, no fault):
  `docs/RESERVATIONS.md:54` allows no overlap; two approvals that both check before
  either writes book overlapping windows.
- `ServedIsRestarted` (`sup_life`): `CHANGELOG.md:46` restarts a backend that served a
  2xx since its container started.  A start that finds the container running leaves it
  and resets the flag (`llamacpp.rs:157`, `common.rs:444`), and what then exits is
  quarantined as never having worked; `SerialFairQuarantine` names that exception.
- `StoredKeyOpensContainer` (`sup_life`, serial, two starts): ADR 015 line 10 has
  keys generated at container creation; starting a running model stores a new key
  while the container keeps the old one.
- `WorkHoldsSlot` (`req_paths`): ADR 017 line 10 has handlers hold their guard for
  the lifetime of the backend request.  The handler of a streamed request returns
  when the head of the answer has come, and its slot goes to the next while the
  backend still generates.
- `ExclusiveUse` (`req_paths`): `docs/THREAT_MODEL.md:158` gives reserved time to the
  holder alone; a request that passed the check before, and waited in the queue, is
  sent all the same.
- `DeletionSparesOthers` (`downloads`, no fault): the comment in `delete_model`
  (`admin.rs`, above the handler) says a failure never leaves an orphaned row or
  orphaned files.  Deleting one of two rows of a repository removes the directory both
  share, and so does deleting a row of another repository whose name gives the same
  directory.
- `UidsUnique` (`store`): ADR 008 line 25 guarantees that a UID is unique against
  running containers when it is allocated.  Two starts at once may draw the same one,
  an inspection that fails hides one, and a model that was started again while it ran is
  later restarted with the UID that second start stored, which another model may have by
  then.
- `EveryKeyIsProvided` (`access`, three starts): the comment at `tokens.rs:187` says
  a changed key makes the proxy revoke the old tokens and create a new one.  Going
  back to a key that was used before fails at the UNIQUE hash of its revoked row,
  and the error ends the program.
- `AlwaysInStep` (`Gguf` in `ops`): the comment in `hf.rs:1684` says the value was
  not consumed when it is skipped; an array of head counts that are no integers was,
  and is skipped a second time.
- `MatchesOlderEstimator` (`ops`, of `KvCache`): the comment at `hf.rs:1387-1388` says
  that without per-layer data the aggregates match the estimator there was before
  exactly.  Where `n_heads` or `embedding_length` is missing that one gives 0 and the
  aggregates do not; and where the numbers are too large one saturates and the other
  wraps.
- `BackfillReachesAll` (`ops`, of `KvCache`): `CHANGELOG.md:111` says that the backfill
  at startup also populates the new columns of models that were ingested before.  Its
  query asks for rows without `n_layers` (`main.rs:257`), and such models have it.
- `BootstrapIsAdmin` (`logins`): ADR 005 line 18 says the bootstrap user is always
  treated as admin; `update_user` can demote it.

Seen while modelling, without a document that says otherwise:

- `BackfillNamesTheBest` (`ops`, of `ModelFiles`) does not hold: a download whose first
  projector is whole and whose better one is cut short leaves the first, and a row that
  is completed from the disk at the next start names it.
- A model whose last chunk the disk refused is registered all the same: the file is not
  flushed before the download reports success (`hf.rs:714`, `hf.rs:743`).  `Whole` in
  `SoleOwnerHasFiles` excepts that chunk.

- ADR 017 reads as if a call is either granted or found by the next release.
  Between the failed fast path and the enqueueing (`gate.rs:169-190`) lies a query;
  a slot released meanwhile leaves the call parked beside a free slot until another
  release or its timeout.
- The comment at `gate.rs:214-216` takes a woken call that finds no slot for
  impossible, while `WokenTooLate` is reachable.
- The startup grace promised by `restart.rs:248-251` does not apply to the Healthy
  state the entry is seeded with (`mod.rs:203`).
- "If no content blocks were emitted at all, emit an empty text block pair"
  (`anthropic.rs:918`) is not what happens when the only tool call never gets a
  name: the vector is not empty, so nothing is emitted and the message has no block.
- "Log usage after stream completes" (`anthropic.rs:1269`): a stream longer than
  300 s is logged with zeros while it is still running.
- "First OIDC user for an IdP gets admin" (`oidc.rs:654`): the count is over all
  providers but the bootstrap one, so only the first user of any gets it.
- API tokens of the users of a disabled provider stay valid.
- `delete_model` stops a container only when the row says `loaded = 1`; that of a
  crashed or quarantined model stays, without a row.
- `preferred_model_id` has no foreign key, and a preferred model need not belong to
  its category.
- Where several rows have one repository, a request by repository may get one that
  is not loaded beside one that is.
- GGUF metadata is read from the first readable `.gguf` file of the listing, which
  may be the projector; the largest `.gguf` is the primary file, projector or not.
- A user's text before a tool result becomes a user message between the tool calls
  and their results; text after a tool use moves before it; images, and tool blocks
  in the other role's messages, are dropped.

## 7. Only model-checked, and not modelled

Liveness (`EveryCallReturns`, `SerialReservationEnds`, `SerialDeadIsNoticed`,
`SlotsComeBack`, `EveryStreamEnds`, `EveryDownloadEnds`, `DisabledIdpDrains`) stays
with TLC: fairness and ENABLED are beyond the proof system.  So does one invariant,
`ConversationKept` of `ops`: it says what folds and filters over a conversation of any
length return (`FoldLeft`, `FlattenSeq`, `SelectSeq`), which takes induction over
sequences, and the library's rules of induction cannot be instantiated here.  Sums and
maxima over finite sets are folds too, but the few facts that are needed of them can be
derived from well-foundedness (section 5).  No module declares a RECURSIVE operator.
Everything else the runs check is proved.

The type invariants of the gate, the reservations, the supervisor and the request
path, and the edges of the state machine of ADR 018 (`SerialStateMachine`, of which
the book keeps the order), are theorems and no longer part of a run; the type
invariants of the other modules are defined beside their properties, and the
invariants of the proofs say as much of types as they need.

Abstracted: the score formula and the usage log; the texts of times; names, URLs,
GPUs and launch parameters; the crash log's contents and its garbage collection;
the capacity of the kick channel (a lost kick is followed by the next interval);
request bodies and texts of streams; signatures, cookies and ciphers; the expiry
of single tokens; the sizes of files beyond a few chunks.  `status` snapshots, searches and
lists for the UI change nothing and are left out.

Not modelled: the web UI, metrics and broadcasters (nothing depends on them),
the Open WebUI proxy (stateless), configuration and TLS (read once), the
argument building of the Docker manager, and the text of times: that it sorts as
times do is an assumption of `Reservations`, which a request with unpadded fields
breaks (`api/reservation.rs:78`).

## 8. The plan

Done, in this order: the gate with its abstract specification, refinement and
proofs; the reservations; the life of a backend; the request path that composes
them; the streamed answers of the Anthropic endpoint; downloads and model files,
logins and tokens, settings, secrets, the fleet of containers, resolution, and the
translation of conversations, model-checked; the proofs of their invariants and action
properties, those of the conversions last; and the abstract book that the reservations
implement, with its proof.

Next, by weight:

1. Refinements between neighbours: that the environment of `RequestPath` allows what
   `Reservations` does to the cache and `Supervisor` to the row and the gate, so that
   what is proved of requests holds beside the real tasks.
2. An abstract store of settings that `Settings` implements between updates, and an
   abstract download (asked, admitted, written, registered) that `Downloads` implements.
3. `ConversationKept` for conversations of any length, once a prover takes induction
   over sequences.
4. The remaining lines of the download and administration handlers, where a state
   change hides in what is abstracted now (the expiry of single tokens, the capacity
   of the kick channel).
