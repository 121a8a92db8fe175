# Verification of eh_archive

TLA+ models of eh_archive, the program in this repository that collects,
downloads, validates, uploads and cleans up galleries. The models are
translated from `src/eh_archive/`, checked with TLC on small instances, and the
core of them is proved correct with TLAPS for instances of every size.

1. [The system](#the-system) is the inventory: parts, state, operations, interactions.
2. [The models](#the-models) says which module models what, and how.
3. [What is checked](#what-is-checked) and [what is proved](#what-is-proved).
4. [Where the code and its documents disagree](#where-the-code-and-its-documents-disagree).
5. [What is not modelled](#what-is-not-modelled), and what is left to do.

## The system

Everything the parts share is in one PostgreSQL database and on the disk. There
are no threads that share memory across parts; concurrency is between
*processes* and their *transactions* (isolation READ COMMITTED).

| Part | State it keeps | Operations | Interacts with |
|---|---|---|---|
| Archive states (`domain/states.py`) | none: tables | legal status changes | everybody |
| Task queue (`db/repository.py`, `db/models.py`) | `manga` rows (status, download method and identity, lease, active attempt), `job_attempt` rows | claim, renew, fenced read, effect mark, finish, complete cancellations | called by executor, Supervisor, Web |
| Task executor (`tasks/runner.py`) | one process per operation: claimed attempt, the columns its session loaded, what it has staged | details, torrent download and check, direct download, validate, prepare, upload, cleanup, delete | task queue, files, qBittorrent, aria2, H@H, LANraragi |
| Supervisor (`supervisor/app.py`) | `system_control` rows (its lease, control states, triggers), child processes | tick: heartbeat, reap, complete cancellations, start modules and special jobs, drain | starts executors and special workers |
| Web archive service (`web/services.py`) | none of its own | action buttons, status override, lease release, conflict resolution, control changes | rows under `SELECT ... FOR UPDATE` |
| Replacement chains (`db/repository.py`) | `superseded_by_id` of each row | discover, advance, mark parents outdated, block upload and download, allow delete | executor, Supervisor, Web |
| Special core (`special/core/`) | `special_workflow`, `special_job`, resource claims | create, queue, claim, succeed, fail, cancel, stop, recover | Supervisor, special workers, Web |
| Special modules (`special/modules/`) | payloads of their workflows | manual torrent, video archive, full collect, download cleanup, LANraragi metadata and compare | special core |
| Artifact files (`services/paths.py`, validator, preparer) | files by location, generation and attempt | promote, rename, quarantine, delete | executor |
| Uploaders (`services/uploader/`) | remote staging and final files, LANraragi import | stage, verify, publish, wait | executor |
| Collector and screening | new rows; choice among versions | collect run, screen batch | task queue |
| Management executor (`management/`) | operation directories, deployment lock | update, apply configuration, start/stop/drain, recover | Supervisor through `system_control`, systemd |

**How work flows.** The Supervisor starts a task process for an operation that
has work. The process claims one row in a transaction that locks it
(`FOR UPDATE SKIP LOCKED`), creates a `job_attempt` and gives the row a lease.
A second transaction does the work. Whenever it is about to write, it *fences*:
it selects the row with the attempt's identity in the `WHERE` clause. It then
stages its changes on the loaded object, and they become an `UPDATE` by primary
key when the session is flushed. Meanwhile the Web may change the status of the
row (a cancellation above all), the lease may run out, an administrator may
release it, the process may die, and the daily maintenance window may stop it.

**What is hard, and what makes each part correct.**

- *Task queue and executor.* Fence and write are not atomic; a lease may change
  hands under a live process; a cancellation may fall between a read and a
  write. Correct when a row has one executor, row and attempt never disagree, a
  process that lost its row writes nothing, accepted cancellations are honoured,
  and every attempt is settled.
- *Replacement chains.* Three writers of one relation, only one of which takes
  the advisory lock. Correct when the relation has no cycle, no row is deleted
  before its replacement is under way, and nothing waits for ever.
- *Pipeline of one archive.* Fallbacks, retries and manual resumes. Correct when
  no copy that was registered is lost, only whole copies reach the library, and
  every archive comes to rest.
- *Special core.* Jobs, workflows and resources settled by workers, the Web and
  recovery after a restart. Correct when a resource has one holder, no claim
  leaks, and an operation with an unverified effect is never repeated.
- *Supervisor and management.* Leases, drains and triggers. Correct when there
  is one scheduling Supervisor, a drain completes or is withdrawn, and a manual
  trigger runs at most once.
- *Files and uploads.* Disk and database commit separately. Correct when a
  registered artifact exists after any crash, and a published file is recognised.

`PROJECT.json` lists every hazard at the line where it bites, with the
properties that watch it, or why none does.

## The models

### `ArchiveStates`

The shared vocabulary: `Status`, `TRANSITIONS`, `CanTransition`,
`ClaimableStates` and `ExecutionState` (the two halves of `OPERATION_STATES`),
`HandlerOutcome` (the event, if any, that each operation passes to `finish()`,
and whether it passes an error code with it), `WebActionEvent` (`_ACTION_EVENTS`)
and the targets of a manual override.

### `TaskLease`

The core: task processes, rows and attempts, the Web, the maintenance window and
the Supervisor's tick.

| State | Code |
|---|---|
| `row[m].status`, `.method`, `.external` | `manga.status`, `.download_method`, `.external_download_id IS NOT NULL` |
| `row[m].active` | `active_attempt_id`, `lease_token`, `lease_owner`: always written together |
| `row[m].lease` | `lease_until`: `NULL`, in the future, in the past |
| `attempt[a]` | the `job_attempt` row; `effect` is `external_effect_started_at IS NOT NULL` |
| `proc[w].loaded` | the columns the SQLAlchemy session loaded at the start |
| `proc[w].pend` | what is staged between the fenced read and the flush |

| Action | Code |
|---|---|
| `Claim` | `claim_next` (one transaction) |
| `Load` | `_run_once` opens its second session and loads the row |
| `FenceEffect`, `FlushEffect` | `begin_external_effect`: fenced read, then the commit |
| `FenceExternal`, `FlushExternal` | `set_external_id` and its commit |
| `FenceFinish`, `FlushFinish` | `finish`: fenced read and decision, then flush and commit |
| `FenceLost` | `finish` when the fence does not match |
| `Escape` | `finish` rejects the retry event of the error handler |
| `Renew` | the upload's progress callbacks |
| `SettleMaintenance` | rollback, then `_settle_maintenance_attempt` |
| `Crash`, `Reap` | a process dies; the Supervisor reaps it and starts another |
| `WebAction`, `OverrideStatus`, `ReleaseExpiredLease` | the Web's three ways to change a row |
| `CompleteCancellation` | `complete_cancellations` in the Supervisor's tick |
| `LeaseExpires` | the clock passes `lease_until` |

Two points carry the model:

- **Fence and flush are two steps.** `fenced()` is a plain `SELECT`, so another
  transaction may commit before the flush. Only the promotion of a direct
  download reads the row `FOR UPDATE` (`Locks`); while that transaction is open
  every other writer of the row waits (`RowLocked`, `LockedByOther`).
- **A flush writes only changed columns.** SQLAlchemy's `UPDATE` names the
  columns whose value differs from the loaded one (`Written`), so a stale
  process may leave a newer column alone or overwrite it.

What is abstracted: `method = "aria2"` stands for aria2 and H@H, which behave
alike here; an artifact, an error text and a retry time are not kept; a handler
may report anything the code lets it report, so every property holds whatever
the files and the external services answer.

`Init` puts every row in the details queue. A row gets there from the collector
by way of screening, neither of which takes a lease; all other statuses are reached
by the actions.

### `RowOwnership`

The abstract specification: a row is held by one attempt, an attempt holds a row
once, and it is settled (succeeded, failed or abandoned) in the very step that
frees its row. `TaskLease` implements it with `holder` read off
`row[m].active` and `fate` off `attempt[a].state`.

### `Replacement`

Old and new versions of an archive, over `ArchiveStates`: several rows instead
of one, and of each row only what replacement depends on.

| State | Code |
|---|---|
| `row[m].status` | `manga.status`; `upload_pending` stands for every step from downloaded to the upload queue, `manual_review` for every status a row leaves by hand only |
| `row[m].sup` | `superseded_by_id`, which may name a gallery that is not collected yet |
| `row[m].error` | `last_error_code`: `replacement_invalid`, a duplicate upload, or another |
| `row[m].lease` | which kind of process has the row, if any |
| `worker[w]` | the open transaction of a details or delete process and what it has staged; `locks` is the advisory lock, `parent` a parent it has locked and marked |
| `batch` | the rows the Supervisor has locked and the links it followed |
| `byHand`, `erased`, `missed` | history, for the properties |

| Action | Code |
|---|---|
| `Collect` | `upsert_manga` of a new gallery, and screening |
| `ClaimDetails`, `ClaimDelete`, `ClaimUpload`, `ClaimCleanup` | `claim_next` with the conditions of the operation |
| `Stage` | `_details_task`: the page is read, `set_discovered_replacement` and `mark_parent_outdated` run |
| `Commit` | `finish` and the commit of that transaction |
| `DetailsFail` | `_handle_error` |
| `ReadBatch`, `WriteBatch` | `advance_replacement_chains`: its locking query with the walk along the chains, and its commit |
| `CheckDelete`, `Erase`, `FinishDelete` | `_delete`: the second look at the replacement, the external effect, the end |
| `Crash` | a process dies: rollback, and the lease stays |
| `Pipeline`, `EndUpload`, `EndCleanup` | the other operations, by their results |
| `Override`, `Resume`, `ResolveConflict`, `Release` | the Web's `override_status`, `action`, `resolve_conflict_versions` and `release_expired_lease` |

- **Staging and committing are two steps.** The walk along a chain
  (`replacement_target`) reads rows without locking them, and the link is written
  when the transaction commits. `set_discovered_replacement` therefore takes an
  advisory lock for the rest of its transaction (`Busy`); the marking of parents
  relies on row locks (`Locked`), and so does the Supervisor's batch. An
  administrator takes neither: a Web transaction locks the rows it writes only.
- **A chain is a function on sets.** `Reached` is the smallest set that contains
  a gallery and is closed under the links, so `Newest` needs no recursion and is
  the same for any number of galleries.
- **Pages are adversarial.** A page may name any gallery as its latest version and
  any other as its parent.

What is abstracted: a page names one parent (the code matches every row of a
parent's gallery number), a batch is not limited in size (the code takes the
oldest of them first, and a row it has advanced is the newest), and fences and
lost leases are the subject of `TaskLease`: here a lease is released only when
nobody works on the row. `erased` is cleared when an administrator takes up a
row again or it is uploaded again: from then on the archive is there, or a
person has answered for it.

### The pipeline of one archive: `Pipeline` and its parts

One archive from its discovery to the library. `ArchiveRow` has the state, the
end of an attempt and what is common to all operations; `Discovery`,
`Downloading`, `Preparing` and `Uploading` have the operations in the order an
archive meets them; `Pipeline` puts them together with the Supervisor, the
persons and the failures. `TorrentChoice` and `VersionChoice` are the two
decisions, as operators on sets.

| State | Code |
|---|---|
| `row` | the `manga` row: status, download method, whether a download's identity is recorded, the registered file with its generation, size and hash, error, retry count, review of torrent warnings |
| `proc` | the one process that has claimed the row, by its next step; what it has in memory (a temporary file, a permission it has consumed, the torrent it has chosen) |
| `disk` | the files, by place (`ArtifactPaths`) and name, each whole (`zip`, `dir`), cut short or rotten |
| `links` | the files a rename has given a second name and not yet unlinked under the first |
| `torrent`, `remote` | the gallery in qBittorrent; the order in aria2 or H@H |
| `share`, `index` | LANraragi's directory, and under which file it knows this archive |
| `witness` | history, for the properties: a whole copy was registered, a person removed it from the library, what persons have accepted |

A step ends wherever the process could be killed between two effects on the
world, so one handler is several actions: `BeginTorrent`, `Submit`,
`RecordTorrent` are `_torrent_download`; `TransferDirect`, `PromoteDirect`,
`RegisterDirect` are `_direct_download`; `BeginRename`, `UnlinkSource`,
`Validate`, `MoveToQuarantine`, `Quarantine` are `_validate`; `Pack`,
`PromotePrepared`, `RegisterPrepared` are `_prepare`; `BeginUpload`,
`PutArchive` or `TransferFile`, `Publish`, `AwaitImport`, then `Confirm` are
`_upload`; `CheckLibrary`, `RemoveFiles`, `EndCleanup` are `_cleanup`. `Finish`
is the commit that ends an attempt: the request to cancel wins, an event the
status does not allow becomes a review, a success renews the retry budget.
`Crash` leaves the row leased until `ReleaseExpiredLease`, `Pause` is the
maintenance window, and each service has its ways to fail (`Outage`).

What is abstracted: ownership and the unlocked fence are `TaskLease`'s subject,
so here a row has one process and `finish()` is atomic; replacement is
`Replacement`'s, so an outdated row has ended here. A hash or a size is only
present or absent. A file in the library's directory is the archive's own bytes or
somebody else's. A torrent's list is a set of records, and a person's acceptance is
bound to what the code hashes into its scope.

Two things about files matter to the proofs. A conflict rename links the new name
and then unlinks the old one, and a later attempt recognises the two names with
`samefile`: `links` tells two names of one file, which a rename may finish, from two
files, which it must refuse, and damage to the one shows under the other. And
qBittorrent deletes a torrent's files: those of a stalled torrent were not
whole, those of a torrent that a person tagged failed are given up (`Discarded`).

### Special processing: `SpecialWork` and its parts

`SpecialModules` is the catalogue (kinds, operations, the flags of each
definition), `SpecialJobs` the core: workflows, jobs, resource claims, the
Supervisor that schedules jobs, and the processes that run them. `VideoArchive`,
`ManualTorrent`, `MetadataUpdate`, `LibraryScans` (comparison and download
cleanup) and `FullCollect` are the six modules; `SpecialWork` composes them.

| State | Code |
|---|---|
| `db.wf[w]` | `special_workflow` with its `special_job` rows and resource claims; `data` is what its module keeps in the payload |
| `db.row[m]` | the `manga` row as far as special processing reads or writes it |
| `sup` | the Supervisor that lives, its incarnation, what it remembers of its children |
| `proc[p]` | a worker process, the claim it was started with, how far it is |
| `qbit[m]` | the torrents in qBittorrent |

Every command and every result is one transaction under an advisory lock, hence
one step, written as a composition of the operators the code's functions
became (`Queue`, `Succeed`, `Fail`, `Release`, `Restore`, ...). What a worker does outside
the database lies between two steps: there it may fail, die, stall past its
lease, or be told to stop. Commands come from pages that may be stale
(`row_version`). `PipelineMoves` and `EditRow` are what the ordinary pipeline and
the Web do to a row that no workflow keeps.

### Deployment: `Supervisor`, `Management`, `Deployment`

`Supervisor` is the scheduling process: heartbeat and lease, reaping, interval
modules with their timers and manual runs, work modules, cooldowns, drain and
exit code, under a systemd unit. A start is three steps, as in the code (claim of the
request, `Popen`, verdict), so that a crash may fall between them.
`Management` is the operations: `Program` is the list of steps an operation
takes, by kind and units; `Rollback` and `Ending` are what its `except` and `finally` branches add; an
executor that dies leaves an operation for the next one to interrupt and to
restore. `Deployment` composes both with the web interface and systemd's restarts.

| State | Code |
|---|---|
| `sup`, `unit` | the Supervisor's memory and loop; its systemd unit |
| `ctl`, `mods` | the rows of `system_control` |
| `ops[o]` | the directory of an operation and its executor |
| `lock`, `live`, `web`, `write` | the deployment lock, the live configuration, the web service, a control change it has checked and not yet written |
| `want`, `served` | history: the state the operator asked for, the starts of a manual run |

### The `MC` modules

Definitions for the configurations: the instances, and the symmetries (used only
by runs without liveness properties).

## What is checked

| Run | Question | Instance | Result |
|---|---|---|---|
| `lease_protocol` | Is ownership exclusive, do the tables agree, does everything end? | 1 row, 2 processes, 2 attempts, all operations; a lease is released only after its process stopped; fairness | all nine properties hold, 230 thousand states |
| `stale_process` | What survives when leases are released under running processes? | the same rows and processes, details and direct download | the promotion is exclusive, effect marks are fenced, one million states |
| `stale_write` | Can a process that lost its lease write the row? | as above, all operations | it can (see below) |
| `lost_cancel` | Does an accepted cancellation stop the archive? | 1 row, 1 process | not always |
| `unsettled_failure` | Does a failing process always settle its attempt? | 1 row, 1 process | not always |
| `replacement_chains` | Are links sound, whoever writes them, and does a version always remain? | 3 rows, one of them administered, 2 processes | four properties hold, 2.2 million states |
| `chains_advance` | Does a row that waits on a superseded replacement get past it? | 3 rows, no administrator, 1 process; fairness | it does, 95 thousand states |
| `pipeline` | Is a copy ever lost or overwritten, does anything but a whole copy reach the library, does every archive come to rest? | 1 archive, all operations, 6 lists of torrents, 3 versions, 2 failures, 1 decision of a person; fairness | six properties hold, one million states |
| `special_rows` | Do workflows that take over a row keep it, and give it back? | 2 workflows in every mix of kinds about one row, 2 workers, 1 failure per job | seven properties hold |
| `special_library` | Is a job ever taken from a process that can still write, and does none hang? | 2 scans or a full collection, 2 Supervisors one after the other, 2 workers; fairness | five properties hold |
| `deployment` | Do the drain, the rollback and the recovery leave what the operator asked for? | 2 operations in succession, 2 modules, 1 fault at any step; fairness | six properties hold |
| `parent_passed_over` | Is a replaced archive always marked outdated? | 2 rows, no administrator, 1 process; fairness | not always |

The properties, by the hazard they watch:

- *One owner:* `AttemptHoldsItsRow`, `OneExecutor`, `NoAutomaticTakeover`, and
  `ImplementsRowOwnership` as the whole of it.
- *The unlocked fence:* `StaleProcessWritesNothing`,
  `DirectPromotionIsExclusive`, `EffectMarkIsFenced`.
- *Cancellation:* `CancelRequestHonoured` (violated),
  `CancelLostOnlyToEarlierRead` (the exact window in which it is), and
  `CancellationCompletes`.
- *Ends:* `AttemptSettles`, `NoUnsettledFailure` (violated).
- *Links staged on chains that change:* `AcyclicUnlessByHand`, which is what
  the advisory lock is for (that no row is its own replacement is proved, not
  run). Links set by
  hand do form cycles (an administrator may link two rows to each other), and
  replacement must stay safe then.
- *Deletes racing everything else:* `SomeVersionRemains` relates all rows ever
  erased because of a replacement, `LeasedLinkIsStable` keeps the link a delete
  has read.
- *Waiting:* `ChainsAdvance`, `ParentsSuperseded` (violated).
- *Disk and database commit apart:* `NeverLost` (a whole copy, once registered,
  is somewhere until a person removes it) and `WriteOnce` (no finished file is
  written over) across every crash of a rename, a promotion, a quarantine, an
  upload and a cleanup.
- *The library:* `InLibrary`. It takes up whole copies only, although both
  uploaders transfer under temporary names, are killed, and find somebody else's
  file under theirs; and a row counts as uploaded only while the archive is there.
- *Decisions of persons on lists that change:* `AcceptedOnly`.
- *Retries:* `Rests`. A retry budget that is shared by all operations, fallbacks
  that clear it and failures that are not counted could go round for ever.
- *Resources and rows of special workflows:* `ClaimsWhatItUses`, `Exclusive`,
  `RowIsKeptByOne`, `OnlyAsPreviewed`, `SubmissionRemembered`.
- *Jobs that are stopped, abandoned or late:* `OneExecutor`,
  `EndedByItsProcess`, `RecoveryIsSafe`, `CancelledNeverCompletes`,
  `PausedCommitsNothing`, `NoBatchHangs`.
- *Deployment:* `TriggerServedOnce` (a manual run across crashes between claim,
  start and verdict), `ConfigurationSettled` and `ControlReturned` (however an
  operation ends), `CancelledDrainSpares`, `OperationEnds`.

**Bounds.** `MaxAttempt` bounds the attempts ever made. Two are enough for each
hazard here: a stale attempt and its successor, or an attempt and the process
that takes the wrong row. With three attempts the state space is about thirty
times larger. One row is enough because nothing in this model relates
two rows; the proofs below cover any number. `stale_process` schedules details
and direct download only, the operations its two properties are about: with all
nine, late processes of every operation multiply the states beyond what a run
can visit.

Three galleries are the least that make a chain with a middle, a cycle that is
not two rows, and a parent that is not the row's own successor; two processes
race each other and the Supervisor. Administering one of the three keeps
`replacement_chains` within minutes and still closes cycles by hand
(a link by hand to a row that leads back by a discovered one). The proofs cover
any number of galleries, all administered.

`pipeline`: two failures, because one has to stop an operation half way and the
second the one that cleans up after it; one decision of a person, because each
brings the row back into the queue with everything earlier still there. Generations
are numbered without a limit; these two bounds keep them few. The retry limit is two, so that
the budget is met on the second attempt. The lists of torrents meet every branch of the choice:
none, one, no seeders, warnings of each kind, a list that changed under its
acceptance, outdated only. With one failure and two decisions, and with two
failures and two decisions (safety only), an earlier version of this model was
checked to the end as well: 5.3 and 9.5 million states.

`special_rows` and `special_library` have two workflows, the least that compete
for a resource; an operation may be attempted once or twice, so that a stale
process meets its successor. A round of the full collection ends at its second failure: the first one
makes it cool down, the second wait for a repair. `deployment` has two operations, the second to
follow whatever the first left, and one fault, which may be a crash of either
process, an outage, a module that fails severely, or an intervention by the operator.

`CHECK_DEADLOCK` is off in the runs in which the system may stop: without an
administrator (`chains_advance`) or once the bound on decisions is used up, rows come
to rest when they are completed, deleted or under review, and workflows and operations end.
Elsewhere it is on: a process is always able to go on or a row to be
overridden.

**Fairness.** `FairSpec` assumes weak fairness of each process's own steps and of
the Supervisor's completion of cancellations. The first is what the code
provides: every wait of a task process has a timeout, after which the handler
reports an error; a process that is stopped or killed leaves by `Crash`,
which is not fair, and the liveness properties excuse rows whose process is gone
(`Orphaned`), as the manual does. The second is the Supervisor's tick, which
runs every few seconds unless it is paused, draining or in its maintenance
window; an operator who pauses the Supervisor for ever suspends this assumption.
No fairness is assumed of the Web, of leases expiring, or of claims.
`Replacement` adds that the Supervisor advances chains on every tick
(`app.py:783`) and starts each kind of process again while it has work, so its
claims are fair as well. `Pipeline` assumes the same of claims, of a running process and of
screening, and that torrents and remote downloads get on one way or another
(they may fail, and a failed aria2 download rests). It assumes nothing of
persons, failures or the collector: a gallery that is kept back may never be
listed again. `SpecialWork` assumes that a worker goes on, fails or dies, that a Supervisor
which has gone is started again and recovers, that one which drains leaves, and that
the lease of a job without a process runs out; `Deployment`, that processes
which live go on, that systemd restarts what failed, and that a child somebody waits for finishes.

**Discipline.** `ReleaseOnlyStopped` is the operations manual's instruction to
inspect an attempt before releasing its lease. With it the unlocked fence is
safe; without it, it is not. Both settings are checked.

## What is proved

Eight modules hold proofs; the assumptions are those the modules name.

Of `TaskLease`, for every set of rows, of processes and of scheduled operations, and
every bound on attempts, assuming that there is a row, the scheduled operations are operations, the bound is
a number, the discipline is a Boolean.

| Theorem | States |
|---|---|
| `TypeCorrect` | `Spec => []TypeOK`, with or without the discipline |
| `LeaseCorrect` | under `ReleaseOnlyStopped`, the inductive invariant `LeaseInv` |
| `RowAndAttemptAgree` | ... hence `AttemptHoldsItsRow` |
| `MutualExclusion` | ... hence `OneExecutor` |
| `FencedWritesAreOwn` | ... hence `StaleProcessWritesNothing` |
| `ExpiredLeaseWaits` | ... hence `NoAutomaticTakeover` |
| `OwnershipImplemented` | ... hence `ImplementsRowOwnership` |
| `PromotionExclusive` | `Spec => DirectPromotionIsExclusive`, with or without the discipline |
| `MarksAreFenced` | `Spec => EffectMarkIsFenced`, with or without the discipline |
| `CancelLostOnlyEarlier` | `Spec => CancelLostOnlyToEarlierRead`, with or without the discipline |

`AttemptHoldsItsRow` and `OneExecutor` are not inductive: the state of a process
between its fence and its flush says nothing of the row. `LeaseInv` adds what
does: a process works for an attempt exactly while it runs (`ClaimInv`), that
attempt is running and so holds its row (`HolderRuns`), and no two processes have
claimed one attempt (`ClaimsDiffer`). The discipline is used in one place, the
release, which would otherwise break `HolderRuns`. Steps fall into three kinds,
each with a lemma: those that change no ownership (`QuietStep`), those that
settle the attempt of a row (`SettlingStep`), and the claim.

Without the discipline none of that holds, and the last three theorems are about what is
left. `FenceInv` says it: an attempt is claimed once (`ClaimedOnce`), so a stale process cannot be
mistaken for its successor; what a fenced process has staged honours what it has read, and a row it
has read under a lock is still as read (`Fenced`); and a row held by an operation that
marks external effects is in a status such an operation can work on (`HeldStatus`), which the
write-back of a stale read preserves, because the stale process read one of these statuses too.
Claims and fenced reads are the only steps that add to it; the rest are
`Steady`, and one lemma covers them all.

Of `Replacement`, for every set of galleries and processes, from `None \notin Manga`
and that the administered galleries are among them:

| Theorem | States |
|---|---|
| `TypeCorrect` | `Spec => []TypeOK` |
| `NeverItsOwnReplacement` | `Spec => []NoSelfReplacement` |
| `LeasedLinkStable` | `Spec => LeasedLinkIsStable` |
| `AVersionRemains` | `Spec => []SomeVersionRemains` |
| `DiscoveredLinksAcyclic` | `Spec => []AcyclicUnlessByHand` |

All need `HeldInv`: what each open transaction holds (the lease of
its row, a marked parent that is free and unlinked, a batch of free rows), and that
no two transactions hold the same row. `HeldStep` says that a step which writes
only rows nobody else holds keeps all of it. `AVersionRemains` is about *every*
subset of the erased rows, and needs two strengthenings (`EscapeInv`). The rows a process is
about to erase count as well (`Doomed`), since the check comes before the effect: a row
becomes doomed when its replacement is under way, and a row under way is never
doomed, so its link leads out. And the links that count are those of now and
those the Supervisor has planned (`Planned`), since it follows the chains before it
writes them.

That the links themselves form no ring is not inductive either: a new link is checked against
links that may be replaced before it is written. `LinkInv` therefore forbids rings in the union of all links there
are, that have been staged, or that the Supervisor has read (`Leads`). A link is then
only ever added to the end of a chain: nothing leads on from there but the parent of a
transaction without the lock, which leads to that transaction's own row and no further
(`PlainStage`, `AddedLinks`). This is where the advisory lock is used; with two
transactions staging at once, the end of one's chain may be the start of the other's. Shortening a chain is harmless because
a ring through the short cut would be one through the galleries skipped (`WriteNoRing`), and
a row once linked stays linked, so what the Supervisor has read is never a link from
a row that has none (`BatchIsLinked`).

`ArchiveRow_proofs` has the lemmas on the tables: every legal change leads to
a status, and so does a claim or a Web action.

Of `Pipeline`, for every set of finite torrent lists, versions, fallbacks and backends,
and every limit and bound:

| Theorem | Module | States |
|---|---|---|
| `FilesSound` | `Pipeline_proofs` | the inductive invariant `FileInv` |
| `NothingOverwritten` | | ... hence `WriteOnce` |
| `TypesCorrect` | | `Spec => []TypeOK` |
| `PromisesKept` | | the inductive invariant `PromiseInv` |
| `UploadedIsThere` | | ... hence `InLibrary` |
| `DecisionsRespected` | | ... hence `AcceptedOnly` |
| `NothingLost` | | `Spec => []NeverLost` |
| `ChosenIsUsable` | `ArchiveRow_proofs` | whatever the list, the ranking and its fallbacks take a current, original torrent with seeders |
| `NothingIsOpen` | | a torrent is taken without asking only if each warning is accepted for this list |

`WriteOnce` needs an invariant because the code looks at a name and uses it later. A
prepared archive's name is found free when packing starts and used when it ends;
`NameReserved` says it is free all along, whatever failures, other steps and
persons come in between, since only the process that packs gives names in that place
and generation. H@H and qBittorrent write on their own, which is why `HahInv` is
part of it, and `LinksInv` says that a file's second name is there and holds the same.
Every step falls under `StepOK`: the invariant holds after it and names keep what
they hold; the lemmas on ended attempts (`EndedStep`) and on steps that touch no
file (`GoesOnStep`) do most of the actions.

`TypeOK` needs two facts about processes (`AtWork`): what is about to be promoted is a whole
archive, and who renames a file has one. The proof has a lemma for each kind of step; nearly all end
the attempt with a typed row (`EndsTyped`) or go on to another step (`Proceeds`).

`InLibrary` and `AcceptedOnly` are each about what a process or a row remembers of
something that may have changed. `ShareInv` says that only whole copies and
other archives' files have names in the library's directory. `UploadedInv` rests on the
tables: of all events only three lead among the uploaded (`OnlyConfirming`), and
each is the end of a check of the index. `DecisionInv` follows a decision from the
person to the hand-over: a review counts nothing as accepted that was not granted for
its own list (`GrantedFor`), the one-shot permission is on the row or with the
process that consumed it, never on both. That the torrent is usable comes from the
choice itself: a finite list has a best torrent (`FiniteHasFirst`, by well-founded
minimality), and no fallback ends with none.

`NeverLost` needs the two moments at which a process is about to remove something: an
old name is unlinked only while its second name is there, and local files go only
while the library knows the archive, which by `ShareInv` holds a whole copy
(`CopyInv`). Everything else keeps whole files under each of their names
(`WholeStay`): a name is only taken when free, by `NameReserved` and the guards. A
rename that meets two different files needs two decisions of a person, which
the run does not allow; the proof covers it.

Of `Deployment` (the Supervisor and the management operations together), for every list
of modules, every list of requested operations and every bound on faults, assuming that the interval
modules are modules (`IntervalModulesAreModules`), that the modules form a list
(`ModulesAreListed`), and that each request is a set of operations, each of a known kind on the two services
(`RequestsAreOperations`):

| Theorem | States |
|---|---|
| `TypeCorrect` | `Spec => []TypeOK` |
| `TriggersServedOnce` | `Spec => []TriggerServedOnce` |
| `CancelledDrainIsHarmless` | `Spec => []CancelledDrainSpares` |
| `ControlStateReturned` | `Spec => []ControlReturned` |
| `ConfigurationIsSettled` | `Spec => []ConfigurationSettled` |

An operation is a program counter in disguise: `todo` is the sequence of steps it
still has to take. All programs and rollbacks take their steps in one order (`Rank`), so two
facts replace the case analysis by kind, units and previous state: `todo` is in order
(`InOrder`) and is the end of the whole (`RestOf`). From "this step is over" follows which others are, for any
program. `OperationOK` says at which of five stages an operation is (`Over`, `Waits`, `Captures`, `Works`,
`Ends`), and `LockInv` that only one is unfinished. `StepCases` then lists what a step of the whole can
be: each executor step is a `MiddleStep`, `CaptureStep`, `DrainStep`, `FinallyStep` or `RecordStep`, and every
invariant is preserved case by case.

- `TriggerInv` adds what the process knows between claiming a request and its verdict
  (`ClaimHeld`): the row still says "starting", is still its own, and has been served as often as the step
  says. A restarted process is not the owner, and expires the request.
- `DrainInv` adds that a process which leaves without draining, and an operation whose cancellation
  was accepted, find the row no longer "draining".
- `ControlInv` follows the control state through an operation: untouched until it is captured, to be put
  back while it works, back when it has ended. An update stops putting it back once it has begun to migrate;
  `Excused` is the exception the property names.
- `ConfigurationInv` says where the live configuration comes from (`LiveInv`: an operation that has
  published and, if it fails, will restore), that the one an operation would go back to is nobody's who may still withdraw it
  (`OrigInv`), and that between drain and start there is no process that could have read the old one (`ProcessInv`).

TLC has checked these invariants as well, on the instance of the run `deployment`, before they were proved.

Of `SpecialWork`, for every finite set of workflows (the identifiers are positive), rows, archives and
processes, every limit and bound, assuming that a round has a page to collect (`RangeAssumption`):

| Theorem | States |
|---|---|
| `NothingIsClaimedTwice` | `Spec => []Exclusive` |
| `UsesAreClaimed` | `Spec => []ClaimsWhatItUses` |
| `OneProcessWrites` | under `ReleaseOnlyStopped`, `Spec => []OneExecutor` |
| `AttemptsEndByTheirProcess` | `Spec => EndedByItsProcess` |
| `NoWriterIsReplaced` | `Spec => RecoveryIsSafe` |
| `CancelledWorkIsNotCompleted` | `Spec => CancelledNeverCompletes` |
| `StaleRowsAreNotMarked` | `Spec => OnlyAsPreviewed` |
| `PausedRoundsStandStill` | `Spec => PausedCommitsNothing` |
| `EveryRowIsKeptByOne` | `Spec => []RowIsKeptByOne` |
| `EverySubmissionIsRemembered` | under `ReleaseOnlyStopped`, `Spec => []SubmissionRemembered` |
| `TypeCorrect` | `Spec => []TypeOK` |

The six kinds of work have some sixty actions, and each is a composition of a dozen operators, so the
proof first forgets what they are for. `SpecialJobs_proofs` has, for each operator, what it makes of the
workflow it is applied to; from these `SpecialWork_proofs` brings every action into one of six forms
(`NextMoves`): a workflow goes on, begins or closes (`CalmStep`); a process ends, and with it its job
(`EndStep`); a job is given up by hand (`GiveUpStep`), claimed (`ClaimStep`) or recovered (`RecoverStep`); the
Supervisor changes (`SupervisorMoves`). Only these have to keep the invariant `Sound`:

- `WorkInv`, of each workflow: one job runs at most, and in a status that permits it; a claim belongs to the
  active workflow or to the attempt that runs; the rows and what the running job needs are among the claims.
  (`ClaimsWhatItUses` alone is not kept: the end of a job releases by operation and attempt, and only because
  nothing else has been claimed under that number does it release just enough.)
- `ClaimsDisjoint`: a claim is only ever made for a key nobody has.
- `AttemptsSpent` and `AttemptsApart`: the attempt number of a job goes up each time a round is queued, so a process
  that was replaced never has the number of its successor, although both run. `ExitsSeen`: whose exit the Supervisor has on
  record has no process any more. `RecoveryIsSafe` rests on these and on the fence: a
  Supervisor that scans has an incarnation of its own, which a worker of the one before does not have.
- `Alone`, with the discipline: outside of the full collection a process runs just the attempt that is
  recorded as running, so it is the only one of its workflow.

The last three relate the workflows to the rows of the pipeline and to qBittorrent (`SpecialRows_proofs`).
The six forms do not help there, for they forget the rows; but few steps touch a row, or what a
workflow must have in order to keep one. `RowMoves` lists them: a workflow begins and takes rows (`Begins`), ends
and gives them back (`GivesBack`), a metadata update reserves, writes or releases (`Updates`), the pipeline or
a person moves a row nobody keeps (`Pipes`), a verification forgets a submission that came to nothing
(`FindsNothing`), a round commits a page (`CommitsPage`); everything else leaves the rows alone (`Rests`).
`NextMovesRows` brings every action under one of them. The invariant is `AllKept`:

- `RowsIn`: a row in special processing is kept by a workflow that is able to give it back (`Keeps`), and a
  video archive or a manual torrent keeps all of its rows. `RowIsKeptByOne` alone is not inductive: a metadata
  update keeps a row only while its second operation is open, because what ends that
  operation gives the rows back. So the phase of an update must agree with its
  jobs (`UpdateInOrder`). That no second workflow has the row comes from the claims.
- `CursorIn`: a round has pages left until one that is committed ends it. `Requesting` adds that a
  worker that still can write asks for the page after the cursor, in its own round; a worker whose
  round was taken over has an attempt number of its own (`AttemptsApart`), and its page is refused.

`SubmissionRemembered` needs, beside it, where the worker is: it records its intent before it adds
the torrent, and `Submitting` says that whoever is about to add one is the process of an
active workflow that has the row and the intent on record. Under the discipline nobody else could have withdrawn it
(`Alone`): the workflow stays open until this very process reports. The assumption is needed. When an administrator
releases the lease of a worker that lives, after it has recorded its intent, a verification may look before the torrent is
there, find nothing and forget the submission, and the worker then adds it; TLC finds this in sixteen steps.

TLC has checked these invariants as well, on the instances of both runs of special processing.

Only model-checked: the liveness properties (fairness is out of the prover's reach). Every other
property of the passing runs is proved.

## Where the code and its documents disagree

- **A process that loses its lease can still write** (`stale_write`).
  `docs/operations.md` says it cannot. `fenced()` does not lock the row and the
  `UPDATE` carries no lease condition, so a release (and a new claim) between
  the two is overwritten. It takes an administrator who releases the lease of a
  live process at the wrong moment; the proofs show that nothing else does it.
- **A cancellation can be lost** (`lost_cancel`). The plan says
  `cancel_requested` stops further automatic work. A cancellation committed
  between `finish()`'s read and its flush is overwritten by the attempt's result.
  `CancelLostOnlyToEarlierRead` shows this window is the only one.
- **A failing process can leave its attempt running** (`unsettled_failure`).
  `_handle_system_error` is to release the attempt. When the Web's "upload"
  action has moved a validating row on, its retry event is illegal, `finish()`
  raises, and the row stays leased until an administrator releases it.

- **A replaced archive can stay completed** (`parent_passed_over`). The plan lists
  "uploaded/completed, replaced by a new version: outdated". A parent that is leased for
  its cleanup when the details of its new version are read is skipped, and only
  those details ever look for it; both versions stay in the library.

**Met while modelling, without a run of their own.** The models do what the code
does in each case; where a property would be refuted, its definition
names the exception.

Pipeline:

- A process that is killed (or stopped by an outage) between promoting a prepared
  archive and registering it leaves the next generation's file on disk.
  `FileExistsError` counts as a system error, which is retried without limit:
  the row goes between packing and validation for ever (`Orphaned`).
- An override to "discovered" is not refused while a download is recorded, as the
  direct override to "details_pending" is (`services.py:525`). Screening then queues the row, and
  no operation claims it (`Abandoned`).
- An upload's "retry" and its revalidations, and retries of details, are never limited;
  `PROJECT_PLAN.md:397` and `:503` say retries are.
- A direct download's final name is the gallery's: after a crash between the
  rename and the commit, every later direct download ends in manual review.
- A failed aria2 download is polled for ever (`AtRest` counts it as resting).
- The identity of a finished download is never cleared, so "download again" of a
  quarantined torrent is refused until the row is set to "download_blocked".
- A torrent that a person tagged failed is deleted with its files, whole or not, though the
  row may have been downloaded from it before. A crash during the move to quarantine leaves a file no row
  refers to. A torrent that was packed stays on disk after the cleanup.
- "Confirm uploaded" takes any well-formed archive id.

Special processing:

- A cancellation requested while a video job runs makes that job's own cancelling step fail
  (`_begin_external` raises again): a second cancellation cleans up.
- A command that submits a torrent may fail between adding it and recording it; only the
  manual torrent records its intent before.
- Remarks and priorities are changed without a look at the status
  (`services.py:324`), which makes the claim of a running video job invalid for good;
  dispatching a source cleanup does the same to a metadata preview.

Deployment:

- A cancellation during the drain of a rollback leaves the failure handler: the live
  configuration is restored, the Supervisor keeps running with the withdrawn one. So does a
  Supervisor whose executor died before it restored.
- An interrupted operation leaves the control state "draining" or "paused", as
  `docs/operations.md:55` says; a restore that is refused for a conflict leaves
  the old operation open, and every new one is refused.
- `set_control` reads its row without a lock, so "running" may be written after the Supervisor
  has consumed the drain. A child that fails severely and is started again
  within one tick is never seen to have failed.
- With a poll interval longer than systemd's restart delay, an executor can miss that
  the Supervisor left and wait for ever. (`Restart` assumes the shorter one, which is the default.)

## What is not modelled

- *Times and sizes.* Retry times, priorities, intervals and space limits are
  "may happen" or left out.
- *The delete of an outdated row's files.* `Replacement` has its conditions and
  its order as one effect; that the remote and the local copy are removed one after
  the other is not.
- *Several rows at once in the pipeline.* Groups of versions are screened one row against any
  rivals; torrents and files of other archives appear as a name that is taken.
- *The window between a cleanup's look at the library and its removal of the files*, in which
  a person may remove the archive from the library.
- *The contents of a cleanup's, a comparison's or a composition's work* in the special
  modules, which are pure computations on files and lists.
- *Page parsing, HTTP sessions, logs, rendering and forms of the Web,
  configuration files, schema migrations, the installer and the one-off scripts.*
  They are sequential or pure I/O, and keep no state that other parts see.

Left to do, in this order: the delete of an outdated row as part of `Pipeline`; and a composition of `Pipeline` with the drain of the Supervisor.
