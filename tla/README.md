# TeleDrive WebDAV bridge: formal models

The bridge mounts a Telegram-backed drive as a WebDAV share. A write lands in a
local staging directory and is acknowledged; a background loop later uploads it
to Telegram through one of several accounts and registers it with the TeleDrive
backend; only then is the local copy deleted. A read goes the other way: path,
listing, part table, messages, bytes. Around that the bridge packs games, downloads
and launches them, and counts how long they are played. This directory holds TLA+
models of those parts, the TLC instances that check them, and proofs TLAPS checks.

## 1. Inventory

| Component | Source | State it keeps | Operations | Model |
|---|---|---|---|---|
| Segment scheduler | `segment_scheduler.py` | per segment: state, attempt, account, progress, RPC tokens, lease, reservation, revoke handle; a version and a condition | register, claim, bind, progress, flood, migrate, drain, grant, complete, fail, wait | `SegmentScheduler` |
| Account pool, activity registry | `telegram_accounts.py`, `upload_activity.py` | slots (bounded semaphore), jobs, request tokens, reservation and idle snapshot per account; round-robin cursor | acquire, acquire exact, release, reserve, activate, stop | `AccountPool` |
| Upload engine, one big file | `upload_engine.py` 942-1078 | the loop's futures, an executor thread per attempt | loop, executor action, completions | `SegmentScheduler` |
| Part sends | `tgupload.py` | per part: the RPC and its retries; late answers | send, answer, flood, timeout, settle, revoke | `SegmentScheduler`, `UploadLimiter` |
| Upload limiter | `upload_limiter.py` | rate, ceiling, penalty, mode, probe; the saved rate; a token bucket | pace, success, flood, load, save | `UploadLimiter` (not the bucket) |
| Upload engine, batches | `upload_engine.py` | fingerprint claims, album queues, registration futures | inspect, dedup, upload, album, register | `UploadBatch` |
| Plain upload stager | `uploadstage.py` | staged files, pending units, the queue file | create, begin/end write, forget, due, process, settle, adopt | `UploadStager` |
| Game stager | `gamestage.py`, `rarconvert.py` | staged units, packs | write, due, pack, convert, upload, clear, adopt | `GameStager` |
| WebDAV server | `bridge.py` | open handles; resources and providers; RPC routing | PUT, COPY, MOVE, DELETE, MKCOL, GET, RPCs | inside the models of what it calls |
| REST client | `tdapi.py` | token, listings in memory and on disk, part tables | list, resolve, register, move, trash, duplicate | `DriveIndex` |
| Byte transport | `tgio.py`, `zipfs.py` | connections, cached documents, a reader's blocks | map ranges, read, refresh | `RemoteFile` |
| Game downloads | `gamestate.py`, `fetchlocal.py` | jobs, root map, completion marker, `.part` files | fetch, cancel, states, copy | `GameDownload` |
| Game launch | `gamelaunch.py` | sessions and their processes, monitor threads | launch, poll, claim, end, recover | `Playtime` |
| Playtime | `playtime.py` | running sessions and a queue, both durable | append, ack, repair, finish, send | `Playtime` |
| Sessions | `sessionctl.py`, `telegram_sessions.py` | session files | discover, migrate | not modelled |
| Warm-up | `warmup.py` | a work queue | warm | not modelled |
| Mount, config, installers, thumbnails, shell extension, scripts | the rest | none worth modelling | I/O | not modelled |

How they interact. WebDAV handler threads call the stagers under the stagers'
locks. Each stager owns a daemon thread that picks what is due and hands it to the
one `UploadEngine`. The engine hashes, asks the backend for an existing copy, and
uploads: a large file is cut into segments, and a `SegmentScheduler` made for that
file drives one executor thread per attempt. All engines' work shares one
`TelegramAccountPool`; each account has a worker with its own asyncio loop, whose
callbacks (part answers, floods, settled RPCs) call back into the scheduler, and one
limiter that all its senders pass. Locks are taken in the order scheduler, pool,
activity. Registration results come back on another thread pool and decide whether
the stager deletes the source. Reads resolve paths through the cached listings that
the registrations and moves of other threads invalidate, and fetch bytes through the
documents all readers of an account share. The web page's RPCs start download jobs
and launches; Explorer's verb copies into the same folders as a job.

What is hard here: events of superseded attempts arriving late; a lease that six
places may close; migration racing finalisation (two messages for one segment);
a version-checked wait whose wakeups come from four kinds of callback; writes,
reads and deletes racing the batch that uploads the same file; a file that is
the only copy and crashes in between; equal files of two batches that share one
upload under two names; a listing that is stored after the change it missed; two
copies into one `.part` file; an append that failed half-way; floods that arrive
while others sleep. `PROJECT.json` lists every hazard with its line and the
property that covers it.

What makes each part correct:

* pool: a slot per job, never leaked or released twice; a reserved account stays idle;
* scheduler: at most one message per segment, made of fully confirmed parts;
  attempts never overlap; outcomes are final; nothing is left behind; it ends;
* batches: one upload per content and name, every request answered once, and what was
  reported stored has a complete set of rows under its name;
* stagers: an acknowledged write is never lost, truncated files are not uploaded,
  retries are bounded, and everything staged is uploaded or given up;
* limiter: a FLOOD_WAIT is obeyed by everybody, learning stays within its bounds;
* index: caches agree with the backend or say how old they are, part tables are exact;
* reads: exactly the bytes of the file, whatever is cached, renewed or wrong;
* downloads: a file under its own name, and a game marked ready, is whole;
* playtime: a session that was saved once is counted once and never lost.

## 2. The modules

`AccountPool` is the shared state of `TelegramAccountPool` and
`AccountActivityRegistry`. Each of their methods runs under one lock, so it is an
operator over the primed pool variables that a composing module conjoins to its own
step. `slots`, `jobs`, `requests`, `reserved`, `snap` are the semaphore, the work
ids, the RPC tokens, the reservation and whether the idle snapshot is live.
`Others` are uploads outside the modelled file. Every step ends in `ChangeLocked`
(`_change_locked`), which freezes or drops idle snapshots.

`SegmentScheduler` extends it with one file's upload. One action stands for one
call that holds `_condition`, or for one step of a thread between two such calls:

* parts (`tgupload.send_part`): `BeginRequest`, `BeginRequestRejected`,
  `RequestSucceeded`, `PremiumFlood`, `RequestFailed`, `RequestSettled`,
  `LateRequestSucceeded`, `RevokeLands`;
* executor (`_execute_scheduler_action`): `BorrowRuntime` ... `AttemptQuiesced`,
  `EnqueueExecutorCompletion`, with each `except`, early return and `finally` an
  action or a branch; the thread's place is `pc`;
* loop (`_run_scheduler_loop`): take completions, finish each, break or select,
  submit, wait. `select_next_action` is split into its outcomes:
  `SelectReplacement`, `SelectReplacementFails`, `CommitMigration`,
  `SelectPending`, `SelectNothing`;
* surroundings: `FloodAges` (time), `PoolStep` (other uploads, pool shutdown).

`changed` stands for "`_version` differs from what the loop read last", so the
lost-wakeup question is about exactly the comparison `wait_for_change` makes.
`messages` and `confirmed` are what Telegram holds; they are not visible to the code.

`SegmentOnce` is the abstract promise: one permit per segment, used at most
once, a segment done only with its message. `SegmentScheduler` maps to it with
`Outcome` and `Permit`; `ImplementsSegmentOnce` is the refinement.

`UploadStager` has WebDAV clients, the stager's loop with its batch and crashes.
`disk` is the staging directory, `unit` is `_pending`, `saved` the queue file,
`docs` the rows of the backend, `head` the content of the newest row. A PUT is
`PutBegin` (`create_file`, `begin_write`), `PutOpen` (truncation), `PutClose` or
`PutBreak`, `PutEnd` or `PutEndFailed` (`end_write`); COPY, GET and DELETE are the
other requests of a staged resource. A PUT is taken as acknowledged (`acked`) when no
other PUT of the same file is still under way. The batch goes file by file through
`RequestFor`, `Inspect`, `UploadStart`, `UploadEnd`, `RegisterResult` (or
`StepFails`), then `BatchDone` and `Complete`, `CompleteRaises` or
`RecordFailure`. `acked` and `tries` are history: what clients were told, and
failures since the last write.

`UploadBatch` is `transfer_batch` and `register_result` for several batches that share
one engine. `insp` is the look-ahead inspection, `claims`, `fut` and `future` the
fingerprint claims and their futures, `queue` an album queue per batch and account,
`rows` the backend's table with `file_id` as its key. A batch streams its requests
(`InspectionFailed`, `Reuse`, `Alias`, `Claim`), uploads what it owns (`UploadFresh`,
`PrepareAlbum`), sends or falls back for albums (`SendAlbum`, `SendAlbumFails`,
`Fallback`), flushes in its `finally` and collects the futures. Registration goes part by
part. `drive` is history: what a user was told is stored under a name; `Rename` is a MOVE.

`GameStager` is the loop of `gamestage.py` with the clients that write below `/game`.
`tree` holds the staged members of each unit, `unit` is `_units`, `pack` the zip in the
pack directory (none, torn, or what it holds), `due` what `_due` has returned and
`_process` has yet to take, `archives` what was registered. Packing adds one member per
step, so writes fall between members.

`Playtime` joins `gamelaunch.py` and `playtime.py` for one game folder: `books` is the
launcher's memory, `store` and `queue` are the two durable files, the latter with `synced`
(lines that were fsynced), `torn` and `failed` (the latch). A monitor takes its
snapshot, claims, assigns and decides in separate critical sections (`Mon...`), ends with
`FinishAppend`, `FinishRemove`, `FinishPop`; the sender posts in order (`Send...`);
`Killed`, `PowerLost`, `Shutdown`, `Start` and `Recover...` are the life of the process.

`RemoteFile` is one reader of `tgio.py`. A byte is named by its message and its place, so
a shifted or foreign byte shows. `PartTable`, `Clip`, `MapRange`, `DocRead`, `Runs`,
`Assembled` and `Remember` are the code's arithmetic, with `Slice` and `Joined` for Python's
slices and `b"".join`; the table is made of the sizes `Clip` leaves, and the check of a
message's media (`IsExpected`) compares with those. The actions are a read's steps
(`ReadBegin`, `DocCached`, `DocFetch`, `DocStore`, `PieceRead`, `ReferenceExpired`,
`ReadEnds`) and what other readers and Telegram do meanwhile. The reference is the file
itself: `ReadIsExact` compares with `FileSlice`.

`DriveIndex` is `tdapi.py` with the request threads that use it. `rows` is the backend,
`memory` and `disk` are the cached listings, `tables` the part tables kept for ever. A
thread walks a path folder by folder (`MemoryHit`, `DiskHit`, `Miss`, `ReadPage`,
`KeepListing`, `Persist`), then posts its change and drops caches in the code's order
(`Post`, `PopMemory`, `UnlinkDisk`). `read` and `suspect` are history of a listing.

`GameDownload` is `GameState`'s job and `LocalFetcher.fetch_segments`, which also runs
for Explorer's verb. `dest` and `part` are the files under their own and their `.part`
names, as sequences of chunks; the marker and the map are separate steps
(`Start`, `SaveRoot`, `Complete`). `whole` and `suspect` are history.

`UploadLimiter` has the senders of one account in `pace` (`Admission`, `Wake`, `Send`),
the answers (`Success`, `Flood`, `Fails`), restarts with the saved rate, and a clock in
milliseconds that stops whenever somebody has to wake. Its constants are those of
`LimiterConfig.web_defaults`.

Module graph: `SegmentScheduler` EXTENDS `AccountPool` and instantiates
`SegmentOnce`; every module X that runs has an `MCX` that EXTENDS it and an `XProofs`, but
for `DriveIndex` and `RemoteFile`, which share `DriveProofs` and the order of a set of
numbers (`Ordered`).
The components meet at interfaces that both sides
model: a batch's answer per request is what `UploadStager` calls upload and registration
of a file; the success or failure of a big file in `UploadBatch` is the end of a
`SegmentScheduler`; a registered file is the `put` of `DriveIndex`; its part table is the
input of `RemoteFile`. Definitions named `Mut...` are deliberately wrong variants of
a neighbouring definition: with one put in the other's place, the property it is paired
with in `PROJECT.json` fails. Every module has a `TypeOK`; the runs check those the proofs
are about, the others are there for whoever changes the module.

### Abstractions to know about

* `SegmentScheduler`: clocks and scores are left open: whether a candidate is old enough
  and scores above the threshold, when floods and snapshots age. Every migration the
  arithmetic could allow is allowed (and some it would not).
* The flood, RPC failure and exception budget is `MaxFaults`; an RPC's retries are
  bounded by it instead of `PART_RETRIES`.
* `UploadStager`: `_save` is atomic with the change it records. `SENDING` is folded
  into `uploading`. The rows of a multi-part file are one row, and the last one
  registered is what the drive shows. A content is its own sampled hash. Bytes are one of
  `Contents`, `Empty`, `Partial`, or `Mixed` (two PUTs wrote at once); a PUT carries one
  of `Contents`, a PUT of no bytes is not modelled. A DELETE does not overlap a PUT of
  the same file (clients lock or serialise them); whether PUTs overlap each other or a
  batch is a constant. Stopping the bridge is modelled as a crash; with
  `ShutdownDuringBatch` also as an interpreter that refuses work to executors while
  the daemon thread goes on.
* Windows file semantics everywhere: an open file is neither unlinked nor renamed.
* `GameStager`: units have distinct pack names; the members of a folder are flat and
  numbered in packing order; debounce and retry delays end at any time.
* `UploadBatch`: accounts are picked arbitrarily; a refused fallback and a failed one are
  the same; equal big files do not stand in one batch (`Init`).
* `Playtime`: one folder; time is the number of processes born; the running file is
  replaced atomically, which is what `os.replace` after fsync gives.
* `RemoteFile`: sizes are small integers in the proportions of the code's constants; one
  reader is followed and the others are what they do to the shared document cache.
* `DriveIndex`: a row's number is its `created_at`; a folder's tree has two levels; a
  move or copy goes to a free name. The token refresh is part of a call.
* `GameDownload`: the listing and the planned sizes are one step; a plan has a fixed
  order; chunks stand for the copy's buffer.
* `UploadLimiter`: floats become integers, rounded down; a sleeper wakes on time. The
  clock does not advance between admission and sending.

## 3. Runs

All twelve runs must pass; each takes less than three minutes with two workers.

| Run | Instance | Distinct states | What it shows |
|---|---|---|---|
| `scheduler_migration` | 2 accounts, 1 slot, 2 segments of 1 part, 2 faults | 713 k | types, slots, leases, one message, whole messages, one live attempt, no silent return, a clean exit, final outcomes |
| `scheduler_shared` | 2 accounts, 1 segment of 2 parts, 1 other upload, pool may stop, 1 fault | 341 k | a reservation is exclusive under competition; refinement of `SegmentOnce` |
| `scheduler_liveness` | 2 accounts, 2 segments, 1 fault, fair | 81 k | the upload ends |
| `stager_recovery` | 1 file, 2 clients whose PUTs overlap, 2 contents, 2 attempts, 1 fault, 1 crash, fair | 474 k | no lost write; what is uploaded is what was hashed; an acknowledged write reaches the drive or is given up |
| `stager_copy` | 2 files, readers, copies, shutdown during a batch, 3 faults | 477 k | types, bounded retries, no truncated file is uploaded |
| `game_recovery` | 2 folders of 2 members, a file, a rar, 3 requests, 2 faults, 1 crash, fair | 670 k | no lost file, no truncated member, everything staged is uploaded or given up |
| `batch_aliases` | 3 requests in 2 batches, 2 names, 1 payload of any kind, 2 accounts, 2 faults, 1 MOVE, fair | 219 k | nothing stored vanishes, one upload, every request answered, every batch ends |
| `playtime_counted` | 2 sessions, 2 processes, one refused record, 1 crash, 1 failed write, fair | 200 k | no session lost, the index holds durable records, playtime reaches the server |
| `remote_reads` | 2 parts, padded tail, 2 heads, 2 seeks besides sequential reads, 2 cached blocks, 1 renewal | 122 k | reads and cached blocks are exact |
| `drive_cache` | 2 threads, 2 of 8 requests, 3 rows and 2 more, pages of 1, 2 ticks, 1 restart, 1 lost answer | 692 k | caches agree, answers are recent, part tables are exact |
| `game_download` | 2 files of up to 2 chunks, 2 versions, 2 fetches, 1 Explorer copy, 1 upload, 2 faults, fair | 537 k | files are whole, ready means whole, a job ends |
| `limiter_learning` | 2 senders, 4 requests, 2 pauses of 1 or 5 minutes, 2 troubles | 2.34 M | learning is sane, floods are honoured, bursts bounded, raises only after quiet |

Why the bounds are enough. Scheduler: two accounts are the least that allow a migration,
and a segment migrates at most once. Two segments are the least for ordering between
tasks and for an abort that hits a sibling. Two parts are needed for one part to be
in flight or late while another is done; that question is per segment, so the run
with two parts has one segment. Two faults give a flood followed by a failure. One slot
per account makes every contention happen. `scheduler_shared` does not check deadlock:
after `stop()` a pending segment waits until the process exits.

Stagers: two clients make overlapping requests, two contents distinguish an overwrite,
`MaxAttempts = 2` separates "failed" from "abandoned"; two files make a batch whose
members can differ; three faults are more than one file survives. `game_recovery` has
every kind of unit, folders of two members so that requests fall between them, and three
requests: write, overwrite or move, and one more around the packing.

`UploadBatch`: three requests in batches of two put two aliases in one batch and one in
another; two names make an alias under another name; an album of two items can be full,
or be flushed with one; two faults make an album and its fallback fail. `Playtime`: two
sessions contend for a process and stand in the queue together; two processes give a
launcher and its child. `RemoteFile`: the parts, blocks, requests and the alignment are
small and coprime enough that every kind of edge occurs; two cached blocks evict.
`DriveIndex`: two threads, two terms of the cache, one restart; pages of one row, so every
listing of two rows spans pages. `GameDownload`: two files, of which one changes its length
with the version; a second fetch after a cancelled or failed one. `UploadLimiter`: two
senders, four requests, two pauses that end a clean window or a probe's cool-down.

Runs without a deadlock check belong to systems that stop when their budgets are spent
(`game_recovery`, `batch_aliases`, `drive_cache`, `game_download`, `limiter_learning`).

Constants that keep a known departure (section 6) out of a run: `WritesDuringBatch`,
`LongWrites` and, in `stager_copy`, `ConcurrentPuts` of `UploadStager`; `BusyWrites`,
`LongWrites`, `CrashDuringPut` and `PackMayFail` of `GameStager`; `ReuseMovedNames` of
`UploadBatch`; the list of `Asks` of `DriveIndex`; `AlienSize` of `RemoteFile`.

### Fairness

* Scheduler: weak fairness of the loop, of each executor thread and of each part's RPC
  (an RPC is answered or times out after 120 s, and its `finally` runs). Nothing is assumed
  of other uploads, clocks or the pool's shutdown.
* Stagers: weak fairness of the daemon's steps (it ticks as long as the process lives),
  of time, and of a request that has been accepted. No client has to send anything and
  no fault has to happen.
* `UploadBatch`: weak fairness of the batch threads, the inspection threads and the
  registration threads: each RPC of theirs is answered or times out.
* `Playtime`: weak fairness of the monitors and the sender, and strong fairness of a record
  that is posted again and again being answered: the sender repeats it as long as the
  bridge is up, and a server that never answers cannot count anything.
* `GameDownload`: weak fairness of the job's thread only.
* `RemoteFile`, `DriveIndex` and `UploadLimiter` state no liveness.

## 4. Proofs

Eight modules hold 36 theorems about the nine specifications that run; every invariant and
every action property that a run checks is stated by one of them. Each theorem is for every value of the constants that the module's ASSUME admits: sizes are
numbers, positive where there must be one of a thing, sets of threads are finite, and a
placeholder (`None`, `NoName`, `Absent`) is none of the values it stands beside. No
theorem assumes more, except for conditions that its statement names: each of these
excludes a departure of section 6, mostly as the negation of the constant that lets it in,
and TLC shows, for each, that without it the property is false. The proofs have the same
shape everywhere: the property is not inductive; an invariant made of named parts is; TLC
checked that invariant on the run's instance before it was proved; one lemma per action
keeps it.

### `SegmentSchedulerProofs`

* `TypeCorrect == Spec => []TypeOK`
* `OutcomeStaysFinal == Spec => OutcomeIsFinal`
* `OneMessage == Spec => []AtMostOneMessage`

`TypeOK` is not inductive: a migration adds one to an attempt number, which stays in `1..2`
only because a segment that has not migrated is not at its second attempt, and
`ReleaseLeases` adds a cardinality, an integer only because the set of leases is finite.
`TypeInv` adds `AttemptInv` and `SubmitInv`. `LifeStep(t)` says all that any step can do to a
segment's state, attempt and result; finality follows by looking at it alone.

For `OneMessage` the invariant is `GrantInv`: an attempt that has been granted, or has made
its message, is the current attempt of a segment that is finalising or terminal. With
two such attempts both would be the current one. It rests on two facts of the code:
`grant_finalize` is refused unless the segment is active, and `commit_migration` (through
`_candidate_locked`) only moves an active one.

Its second half is about leases, slots, reservations and messages:

* `SlotsAccountedFor`, `LeaseOutlivesRpcs`, `ReplacementRunsAlone`, `MessagesAreWhole`,
  `EveryReturnReports`, `ReservationIsExclusive`, `ExitIsClean`: the other invariants of the
  scheduler's runs;
* `ImplementsOnce == Spec => ImplementsSegmentOnce`: the refinement.

One invariant serves them all, `SchedulerInv`, next to `TypeInv` and `GrantInv`. A lease is
open from `acquire_upload_lease` until exactly one `close`, and jobs and slots count open
leases (`LeaseInv`, `SlotAccounting`). An RPC token stands for an RPC, and the executor's
place says how far its RPCs are (`RpcInv`), so the lease is closed after the last. Attempt
2 is claimed only after attempt 1 has reported that it is quiescent (`ClaimInv`,
`CurrentInv`). The loop's books say when a claimed attempt has not reached an executor
yet (`LoopInv`); the rest is about confirmed parts, requests and reservations. For the
refinement, each action is shown to be a step of `SegmentOnce` or invisible to it.

### `UploadStagerProofs`

* `StagerTypes == Spec => []TypeOK`, `BoundedRetries == Spec => []RetriesBounded`
* `RowsHashTheirBytes == Apart => (Spec => []HashMatchesContent)`
* `AcknowledgedWritesLast == Orderly => (Spec => []NoLostWrite)`
* `RegisteredFilesAreWhole == OneByOne => (Spec => []WholeFilesOnly)`

`TypeOK` says that no unit has more than `MaxAttempts` attempts, and `RecordFailure` adds
one. So a unit with none left must never be in a batch. `AttemptInv` adds that such a unit
is abandoned, in memory and in the queue file, that an abandoned file is in no batch, and
that the failures since the last write are at most the attempts in either place, from
which a restart reads them. The saved half rests on `_save` being atomic with the change it
records (section 2): two saves that overtake each other could leave an older count.

`Apart` excludes writes during a batch and PUTs longer than the debounce (departures 2 and 4).
Then the writer count is the number of PUTs under way (`WriterInv`), nobody writes a file of
a batch, and its bytes are what was hashed and sent (`ContentInv`). `Orderly` adds that no
executor refuses work (departure 3), and that COPYs and overlapping PUTs do not come
together, because a broken PUT would discard what a COPY has put in its place (departure
7). Then what was acknowledged is staged, or on the drive (`AckInv`). `OneByOne` adds to
`Apart` that PUTs do not overlap and nothing crashes (departure 4): a partial file has its
writer under way (`WholeInv`).

### `UploadBatchProofs`

* `OneUploadPerClaim == Spec => []OneUpload`
* `BatchesAreComplete == Spec => []BatchIsComplete`
* `NothingVanishes == ~ReuseMovedNames => (Spec => []NoFileVanishes)`

`EngineInv` has, for each request, on whose future it waits and that it has its answer when
that future is settled and not before (`InspInv`, `WaitInv`); that a claim belongs to the one
owner of the key that has not failed (`ClaimInv`); and for each batch, which of its requests
its thread has handled, and that every owner whose future is pending is where the thread
will come to: in the upload under way, in the album or fallback in hand, or in a queue
(`BatchInv`). So nothing is pending when `_flush` and collection are done, also after a
failure in the middle of an album's fallback.

`FileInv` adds the rows. A document has rows of another name than its request asked for
only when all uploads to that name are settled, as a MOVE waits for them (`RowInv`); the
rows that a request has registered keep its name until it settles (`RegInv`, `FlightInv`);
they are all of one group because equal big files come one after the other (`TurnInv`).
The condition excludes departure 11.

### `GameStagerProofs`

* `GameTypes == Spec => []TypeOK`
* `ArchivesAreWhole == Calm /\ ~CrashDuringPut => (Spec => []WholeMembersOnly)`
* `NoGameIsLost == Calm /\ ~PackMayFail => (Spec => []NoLostGame)`

`Calm` excludes requests to a unit that the loop has in hand, and PUTs longer than the writer
timeout (departures 8 and 10). `CalmInv` is then that a unit counts its open PUTs and that one
which `_due` returned has none. `WholeInv` adds that what is staged without a PUT and what is
in the pack is whole. `LostInv` adds that a pack holds what is staged (`PackInv`: also a pack
left by an earlier try, which is where departure 9 comes in), and that what `_process` is
about to delete is in an archive (`LoopInv`).

### `PlaytimeProofs`

* `DurableIndex == Spec => []IndexIsDurable`
* `SessionsSurvive == Spec => []NoSessionLost`

Whether a session may leave the running file depends on what the removing step has seen of
the queue. The invariant adds that a monitor about to remove a session has put it away
(`RemoveInv`), that a record about to be acknowledged is counted (`SendInv`), that lines the
queue counts on are fsynced, and that nothing survives in memory while the bridge is down
(`DownInv`), so nobody appends before the next start has read the queue. A poll that takes
several sessions out is a fold over a finite set; its lemma goes by induction on subsets.

### `GameDownloadProofs`

* `FilesWhole == Spec => []FilesAreWhole`
* `ReadyWhole == Spec => []ReadyIsWhole`

The `.part` file of a copy that nobody disturbed is the prefix it has written of its version
(`PartInv`); only a full one is renamed. The marker is gone while a job's copy works
(`JobInv`), the files the job has done have the planned size (`DoneInv`), and so has every
file when the marker is written (`ReadyInv`). Departure 14 is exempt in the properties
themselves (`suspect`).

### `UploadLimiterProofs`

* `Bursts == Spec => []BurstBounded`, `Floods == Spec => []FloodIsHonoured`
* `LearnedSane == Spec => []LearningIsSane`, `Raises == Spec => RaiseAfterQuiet`

`RateInv` is inductive for rate, ceiling and probe, with the real percentages and bounds of
`LimiterConfig.web_defaults`. `QuietInv` says that a frozen or cautious limiter opened its
clean window behind the last FLOOD_WAIT. The pacing properties speak of what was sent,
but what bounds it is how the senders that still wait have reserved: `PaceInv` says, for
every moment, that those who wait for it or later go an interval apart but for the burst,
and without the burst behind a FLOOD_WAIT. It is kept by every admission, also of a sender
that was asleep when the FLOOD_WAIT arrived and asks again.

### `DriveProofs`: the index

* `DriveTypes == Spec => []TypeOK`, `RecentAnswers == Spec => []AnswerIsRecent`
* `CachesAgree == Spec => []CacheAgrees`
* `ExactParts == Spec /\ []CopiesFromMain => []PartsAreExact`

`TypeInv` has what a request knows at each place: the rows it has found exist, what it may
still register belongs to an upload or a copied file, a deleted row is dead. `AgeInv` says
when the listing that a worker is about to keep was read: at its start, or, if it comes
from the disk, at most a term before. So the age in memory is less than two terms.

`CacheAgrees` says nothing of a folder while a change of it is being made. `CacheInv` does:
the row of a delete is taken out of memory before the disk copy is unlinked, so memory is
the folder and the rows about to go (`Dying`), unless the whole listing is (`Popping`), and
the disk is right while nothing is about to be unlinked (`Dropping`). A listing under way
that no change has overlapped has the first `count` rows of each kind, in the order of
the pages (`Seen`), so with the last page it has them all (`PageSeen`); the theorem covers
any page size and number of rows. A change may be lost, doubted or made at the web page, and
the bridge may restart in between (`CachePost`, `CachePostLost`, `CacheWeb`, `CacheRestart`).

`PartsInv` says that the parts of a row, each kept once, begin its content, and with the
parts its worker has left are all of it (`Rest`); that no two workers add to one row (`Owns`);
and that a table read while all rows were there is the content. `CopiesFromMain` is the
one hypothesis about behaviours: files that are copied lie in the main account. It excludes
departure 12, is an invariant of the run's instance, and concerns nothing else. The
constants are assumed to be what a drive can hold: files whose rows, each part kept once,
begin their content (`FilesAssumption`), and requests with paths that are not empty.

### `DriveProofs`: reads

* `ExactReads == ~AlienFits /\ ReaderSpec => []ReadIsExact`
* `ExactBlocks == ~AlienFits /\ ReaderSpec => []CacheIsExact`

`AlienFits` is departure 16 as a condition on the constants: the media of another file has a
size that `_size_confirms` takes for the last part's. Without it a document that passed the
check is of a message that holds this file.

Most of the argument is arithmetic of edges, in lemmas that later ones cite:

* `Before` counts the bytes in front of a part as a cardinality, so one part more adds its size
  (no recursion); places in the table and in the file agree up to the file's end, where
  the padding of the last part begins.
* A slice of a slice is a slice, two that meet join to one, and requests of `REQUEST_SIZE`
  from an aligned place, joined and cut, are the slice of the message that was asked for.
* What `MapRange` returns is a chain (`Chain`): each piece begins in the file where the one
  before it ended, the first at the start of the range and the last at its end.

`ReaderInv` then has for each step of a read: a run under way holds the file from its first
block up to where its remaining pieces chain on to its end (`RunOK`), a fetched run all of its
blocks (`DoneOK`), the blocks needed are in the cache or in a run (`Gathers`), and a document
that is used or cached belongs to a message with this file's media (`Checked`,
`DocsChecked`). A run may hold less than the table promises, where the file ends earlier
than its parts were registered with; `Assembled` stops there, which is where the file ends.
TLC checked `ReaderInv` on the instance of `remote_reads` before it was proved.

### Induction

What is needed over finite sets and sequences (the fold above, a set without a member, a
least element, a set of numbers as an ordered list) is proved from `WFMin` for the strict
subset order of `WellFoundedInduction`, by a least counterexample, or from the facts of
`FiniteSetTheorems` that take no operator. What a recursive definition computes for every
input would need the induction theorems that do, which the provers cannot instantiate.
`DriveIndex` and `RemoteFile` therefore order sets with `InOrder`, a `CHOOSE` whose list
`ListExists` and `ListUnique` show to exist and to be the only one, and `RemoteFile` adds
up sizes as cardinalities.

### Only model-checked

Liveness under fairness, which is beyond the prover: `Termination`, `AckedIsUploaded` of both
stagers, `BatchEnds`, `DownloadEnds`, `PlaytimeReachesServer`.

## 5. Not modelled

* `sessionctl.py`, `telegram_sessions.py`: one thread at start-up that reads, decrypts and
  migrates session files; nothing interleaves.
* `warmup.py`: which thumbnails are made and how its job file is written. What it does to
  shared caches is one more listing thread of `DriveIndex` and `OtherStores` of `RemoteFile`.
* `MessageTokenBucket` of `upload_limiter.py`; connections, their pool and the read-ahead
  in `tgio.py`; login and token refresh of `tdapi.py`; zip browsing, thumbnails, `WriteGuard`
  and page authentication in `bridge.py`; executable choice in `gamelaunch.py`.
* Account start-up and linking, speed tracking and transfer status (they never feed back
  except through the score, which is left open).
* Mount control, configuration, installers, the shell extension (C++), `scripts/`: thin
  calls of other programs or pure I/O.
* Everywhere: logging, redaction, diagnostics, thumbnails (but for their failure).

## 6. Known departures

What the models do, because the code does it, and what the runs therefore keep out with a
constant. Each can be seen by changing the constant in the run's configuration.

1. A slot freed by another upload wakes nobody: `notify_account_changed` has no caller,
   although `docs/superpowers/plans/2026-09-10-sqlite-sessions-and-idle-segment-failover.md`
   line 1774 lists account idle transitions among the callbacks that notify. With one account,
   `Others = {other}` and `NumTasks = 1` in `scheduler_liveness`, `Termination` fails: a
   pending segment waits beside an idle account.
2. `uploadstage.py` 496: a PUT over a file whose batch is running is acknowledged, then
   deleted by `_complete` (lines 20-21: the staged source is the only copy). `stager_recovery`
   with `WritesDuringBatch = TRUE` and one client breaks `NoLostWrite`.
3. `uploadstage.py` 455: an executor that refuses work at interpreter shutdown ends the batch
   without a recorded failure, and files never uploaded are deleted. `stager_recovery`
   with `ShutdownDuringBatch = TRUE` breaks `NoLostWrite`.
4. `uploadstage.py` 291: a crash during a PUT leaves a truncated file that is adopted and
   uploaded (`stager_copy` with `MaxCrashes = 1` breaks `WholeFilesOnly`). So do two
   overlapping PUTs of which one breaks off (`ConcurrentPuts = TRUE`, two clients), and
   a COPY longer than the debounce window (`LongWrites = TRUE`).
5. `uploadstage.py` 162: `touch` resets only a failed unit; new content over an abandoned
   one is never tried. `AckedIsUploaded` counts a unit that was given up as settled.
6. `uploadstage.py` 496: a reader with the staged file open makes `unlink` raise; the loop
   over the dispatched files stops there, and the rest stays in an in-flight stage
   until a restart. `stager_copy` has the behaviour and no liveness.
7. `uploadstage.py` 247: a hung PUT that fails after its retry was acknowledged discards the
   retried file, or a COPY that took its place (only below `/game` does the server hold a lock
   that prevents the overlap). `UploadStager` takes a PUT as acknowledged only when it
   overlapped no other.
8. `gamestage.py` 348, 404: files written while their folder is packed or uploaded, or after a
   pack was made that is then reused, are removed with the folder. `game_recovery` with
   `BusyWrites = TRUE` breaks `NoLostGame`.
9. `gamestage.py` 401: a member that cannot be read ends the packing, but the zip that is left
   has a central directory and is taken for the pack at the next try; the folder is then
   deleted. `PackMayFail = TRUE` breaks `NoLostGame`.
10. Below `/game`, a crash in a PUT or a PUT longer than the writer timeout puts a truncated
    member into an archive (`CrashDuringPut`, `LongWrites`; `WholeMembersOnly`).
11. `upload_engine.py` 272: claims live as long as the process. A file written again under a
    name from which an equal file was moved away is an alias of the old upload, whose
    row has another name by then: re-registration takes that row over. `batch_aliases` with
    `ReuseMovedNames = TRUE` breaks `NoFileVanishes`.
12. `tdapi.py` 868: `duplicate` keeps one row per message number and does not hand on the
    account of a part, so a copy of a file whose parts lie in several accounts reads
    other messages. Adding a COPY of `d/s` to `MCAsks` breaks `PartsAreExact`.
13. `tdapi.py` 551: a listing that overlapped a change is stored after the caches were dropped
    and served until its term ends. `CacheAgrees` exempts it (`suspect`).
14. `fetchlocal.py` 181: a download job and Explorer's copy share `.part` files and can
    leave a file of the right size with a hole or a mixture, which later jobs skip.
    `FilesAreWhole` exempts a file both had in hand (`suspect`).
15. `upload_limiter.py` 221: a premium FLOOD_WAIT during a probe leaves the mode frozen, then
    cautious, and the probe open: the rate stays above the ceiling it was probing.
    `LearningIsSane` allows that (`probe # None`).
16. `tgio.py` 165: media whose id does not match is accepted when its size is less than one
    request below the size the part is read with, so a message that holds another file
    of such a size is passed off as this one. The tolerance is meant for padded sizes; the
    size compared is the one `_clip_parts` leaves, which is exact where the hash records
    the length. `remote_reads` with `AlienSize = 3` breaks `ReadIsExact`. Rows whose
    `file_id` is no number are not checked at all (line 187); they are not modelled.

## 7. Plan

Done: `SegmentScheduler` on `AccountPool` with `SegmentOnce`, `UploadStager`, `UploadBatch`,
`GameStager`, `UploadLimiter`, `Playtime`, `DriveIndex`, `RemoteFile`, `GameDownload`; the
proofs of section 4. Left, most important first:

1. A weaker condition for `AcknowledgedWritesLast` and `RegisteredFilesAreWhole`: crashes
   between PUTs.
2. Models: `MessageTokenBucket`, the token refresh of `tdapi.py`, warm-up's job file.
