---------------------------- MODULE SpecialJobs ----------------------------
(***************************************************************************)
(* The core of special processing: workflows, their jobs, the resources    *)
(* they claim, the Supervisor that schedules the jobs and the processes    *)
(* that run them.                                                          *)
(*                                                                         *)
(* Every command of the Web, every claim and every result of a worker is   *)
(* one transaction that first takes the scheduling lock, an advisory lock  *)
(* common to all of them, so each is one step.  What a worker does outside *)
(* the database (a torrent added, an archive written) is a step of its own *)
(* between two transactions.  The operators below take the database and    *)
(* return it changed, so that a transaction is written as the composition  *)
(* of what it calls.                                                       *)
(*                                                                         *)
(* A command carries the row_version the page was rendered with and is     *)
(* refused when that has moved, so a command acts on the state it was      *)
(* decided upon.  A lease token is a fresh UUID per claim and a job is     *)
(* claimed at most once, so the attempt number stands for the token.       *)
(***************************************************************************)
EXTENDS SpecialModules, FiniteSets, Sequences, TLC

CONSTANTS
  Workflow,            \* the ids of the workflows
  Manga,               \* the rows of the manga table
  Archive,             \* the archives LANraragi has
  Proc,                \* the worker processes
  Kinds,               \* Kinds[w]: the kinds workflow w may be created with
  Together,            \* bound: the sets of kinds that are created in one run
  MaxConcurrency,      \* special_max_concurrency
  MaxAttempt,          \* bound: MaxAttempt[op], attempts of an operation of a workflow
  MaxOwner,            \* bound: how many times the Supervisor starts
  LastPage,            \* bound: pages of a full collection
  BatchPages,          \* batch_max_pages
  MaxFailures,         \* max_consecutive_failures
  ResumeAfterRestart,  \* resume_after_restart
  ReleaseOnlyStopped   \* the administrator releases a job's lease only after
                       \* the process that held it has stopped

ASSUME WorkflowAssumption == Workflow \subseteq Nat \ {0} /\ IsFiniteSet(Workflow)
ASSUME KindsAssumption == Kinds \in [Workflow -> SUBSET Kind]
ASSUME LimitsAssumption ==
  /\ \A k \in Kind : \A o \in OperationsOf(k) : MaxAttempt[o] \in Nat
  /\ { MaxConcurrency, MaxOwner, LastPage, BatchPages, MaxFailures }
       \subseteq Nat
  /\ { ReleaseOnlyStopped, ResumeAfterRestart } \subseteq BOOLEAN
\* A round starts before its first page: only a page that is committed ends it.
ASSUME RangeAssumption == LastPage > 0

VARIABLES
  db,     \* the database: db.wf, the workflows with their jobs, db.row, the manga
  sup,    \* the Supervisor's row and what the Supervisor process remembers
  proc,   \* proc[p]: a worker process
  qbit    \* qbit[m]: the torrents qBittorrent has for a manga

vars == << db, sup, proc, qbit >>

None == 0
ByWorkflow == "workflow"     \* the scope of a claim that no job owns

----------------------------------------------------------------------------
\* The manga rows, as far as special processing reads and writes them.
RowStatus ==
  { "details_pending", "downloading", "downloaded", "completed",
    "manual_review", "special_processing" }
RowError == { "none", "video_torrent", "torrent_download", "upload", "special" }

Row == [ status : RowStatus, error : RowError, method : { "torrent", "direct" },
         external : BOOLEAN, busy : BOOLEAN ]

\* What a row held when its workflow took it over.
Bound(x) == DOMAIN x.bind
TheManga(x) == CHOOSE m \in Bound(x) : TRUE

Job ==
  [ status : { "none", "queued", "running", "succeeded", "failed", "abandoned",
               "cancelled" },
    no : Nat, owner : 0 .. MaxOwner,
    lease : { "none", "live", "expired" }, effect : BOOLEAN, stop : BOOLEAN ]
NoJob ==
  [ status |-> "none", no |-> 0, owner |-> None, lease |-> "none",
    effect |-> FALSE, stop |-> FALSE ]

\* The payload of each kind of workflow.
InitialData ==
  [ video_archive |->
      [ selected |-> FALSE, torrents |-> {}, cleanup |-> "none", retry |-> "none",
        fresh |-> TRUE ],
    manual_torrent |-> [ choices |-> FALSE, selected |-> FALSE,
                         submission |-> FALSE ],
    lanraragi_metadata |-> [ ready |-> {}, reserved |-> {}, done |-> {}, stale |-> {} ],
    lanraragi_compare |-> << >>,
    download_cleanup |-> [ found |-> FALSE ],
    full_collect |-> [ intent |-> "run", end |-> FALSE, cursor |-> 0,
                       failures |-> 0, owner |-> None, started |-> FALSE,
                       settled |-> << 0, "none" >> ] ]

NoWorkflow ==
  [ kind |-> "none", status |-> "none", phase |-> "none", cancel |-> FALSE,
    claims |-> {}, bind |-> << >>, data |-> << >>, job |-> << >> ]

NewWorkflow(kind) ==
  [ NoWorkflow EXCEPT !.kind = kind, !.status = "active",
      !.phase = InitialPhase[kind], !.data = InitialData[kind],
      !.job = [o \in OperationsOf(kind) |-> NoJob] ]

Exists(d, w) == d.wf[w].kind # "none"
\* A workflow of this kind is yet to be created, within the bounds of the run.
IsNew(w, kind) ==
  /\ ~Exists(db, w) /\ kind \in Kinds[w]
  /\ \E ks \in Together :
       {kind} \cup { db.wf[v].kind : v \in { u \in Workflow : Exists(db, u) } } \subseteq ks
Active(d, w) == d.wf[w].status = "active"
Queued(d, w) == { o \in DOMAIN d.wf[w].job : d.wf[w].job[o].status = "queued" }
Running(d, w) == { o \in DOMAIN d.wf[w].job : d.wf[w].job[o].status = "running" }
Idle(d, w) == Queued(d, w) \cup Running(d, w) = {}
Def(d, w, op) == Definition[d.wf[w].kind][op]

----------------------------------------------------------------------------
\* Resources.  A key is claimed for as long as the workflow is active, or for
\* one attempt of a job.
MangaKey(m) == << "manga", m >>
ArchiveKey(a) == << "archive", a >>        \* an archive in LANraragi
InstanceKey == << "module", "lanraragi_compare" >>
CleanupKey == << "module", "download_cleanup" >>
Key == { MangaKey(m) : m \in Manga } \cup { ArchiveKey(a) : a \in Archive }
         \cup { InstanceKey, CleanupKey }

Keys(d, w) == { c.key : c \in d.wf[w].claims }

\* Mutant: a claim made for a job does not exclude the other workflows.
FreeOfWorkflows(d, w, keys) ==
  \A v \in Workflow \ {w} :
    keys \cap { c.key : c \in { e \in d.wf[v].claims : e.op = ByWorkflow } } = {}

Free(d, w, keys) == \A v \in Workflow \ {w} : Keys(d, v) \cap keys = {}

\* A key the workflow itself holds stays with the workflow.
Acquire(d, w, keys, op, no) ==
  LET own == { c.key : c \in { e \in d.wf[w].claims : e.op = ByWorkflow } } IN
  [ d EXCEPT !.wf[w].claims =
      { c \in @ : c.key \notin keys \/ c.key \in own }
        \cup { [ key |-> k, op |-> op, no |-> no ] : k \in keys \ own } ]

\* Mutant: the end of a job releases whatever its workflow holds.
ReleasesAll(d, w, op) == [ d EXCEPT !.wf[w].claims = {} ]

\* Mutant: the claims of a settled workflow stay.
ReleasesJobOnly(d, w, op) ==
  [ d EXCEPT !.wf[w].claims =
      { c \in @ : ~(c.op = op /\ c.no = d.wf[w].job[op].no) } ]

Release(d, w, op) ==
  [ d EXCEPT !.wf[w].claims =
      { c \in @ : ~ \/ c.op = ByWorkflow /\ d.wf[w].status \in { "completed", "cancelled" }
                    \/ c.op = op /\ c.no = d.wf[w].job[op].no } ]

ReleaseAll(d, w) == [ d EXCEPT !.wf[w].claims = {} ]

\* What a job needs: the rows of its workflow, or the key of its module.
ResourcesOf(d, w) ==
  CASE d.wf[w].kind = "lanraragi_compare" -> { InstanceKey }
    [] d.wf[w].kind = "download_cleanup" -> { CleanupKey }
    [] OTHER -> { MangaKey(m) : m \in Bound(d.wf[w]) }

----------------------------------------------------------------------------
\* Every write of a row bumps its row_version: the version a running video job
\* expects (the claim has taken it) and the one in a metadata snapshot no longer
\* match.
Outdated(x, ms) ==
  CASE ms \cap Bound(x) = {} -> x
    [] x.kind = "video_archive" ->
         [ x EXCEPT !.data.fresh = \A o \in DOMAIN x.job : x.job[o].status # "running" ]
    [] x.kind = "lanraragi_metadata" /\ x.status = "active" ->
         [ x EXCEPT !.data.stale = @ \cup ((ms \cap Bound(x)) \ x.data.done) ]
    [] OTHER -> x
TouchAll(d, ms) == [ d EXCEPT !.wf = [w \in Workflow |-> Outdated(d.wf[w], ms)] ]
Touch(d, m) == TouchAll(d, {m})

\* Writing the summary into the remark records the version the row has now.
SyncRemark(d, w) == [ d EXCEPT !.wf[w].data.fresh = TRUE ]

(***************************************************************************)
(* The integration hooks.  Validate says whether the rows of a workflow    *)
(* still permit a job of it; Changed moves the rows with the workflow, in  *)
(* the same transaction.                                                   *)
(***************************************************************************)
VideoValid(d, x, op, running) ==
  LET r == d.row[TheManga(x)] IN
  /\ r.status = (IF op = "cleanup" THEN "completed" ELSE "special_processing")
  /\ ~r.busy
  /\ running => x.data.fresh

TorrentValid(d, x) ==
  LET r == d.row[TheManga(x)] IN
  r.status = "special_processing" /\ ~r.busy /\ ~r.external

Validate(d, w, op, running) ==
  LET x == d.wf[w] IN
  CASE x.kind = "video_archive" -> VideoValid(d, x, op, running)
    [] x.kind = "manual_torrent" -> TorrentValid(d, x)
    [] x.kind = "full_collect" -> running \/ x.data.intent = "run"
    [] OTHER -> TRUE

VideoChanged(d, w, op, event) ==
  LET m == TheManga(d.wf[w])
      entry == d.wf[w].bind[m]
      failed == event = "failed" /\ op # "cleanup"
      settle == CASE op # "cleanup" -> d.wf[w].data.cleanup
                  [] event = "claimed" -> "running"
                  [] event = "failed" -> "failed"
                  [] OTHER -> d.wf[w].data.cleanup
      row == CASE failed -> [ d.row[m] EXCEPT !.error = "special" ]
               [] event = "succeeded" -> [ d.row[m] EXCEPT !.error = "none" ]
               [] event = "cancelled" -> [ d.row[m] EXCEPT !.status = entry.status,
                                                          !.error = entry.error ]
               [] OTHER -> d.row[m]
  IN SyncRemark([ Touch(d, m) EXCEPT !.row[m] = row, !.wf[w].data.cleanup = settle,
                    !.wf[w].data.retry = IF failed THEN op ELSE @ ], w)

\* Mutant: the row keeps the method it was downloaded with before.
HandedOverAsItWas(d, w, event) ==
  LET m == TheManga(d.wf[w]) IN
  IF event = "succeeded" /\ d.wf[w].status = "completed"
  THEN [ Touch(d, m) EXCEPT !.row[m] =
           [ @ EXCEPT !.status = "downloading", !.error = "none", !.external = TRUE ] ]
  ELSE d

\* The torrent is handed to the ordinary pipeline.
TorrentChanged(d, w, event) ==
  LET m == TheManga(d.wf[w]) IN
  IF event = "succeeded" /\ d.wf[w].status = "completed"
  THEN [ Touch(d, m) EXCEPT !.row[m] =
           [ @ EXCEPT !.status = "downloading", !.error = "none",
                      !.method = "torrent", !.external = TRUE ] ]
  ELSE d

\* The rows set aside for an update go back to where they were.
Restore(d, w, ms) ==
  LET x == d.wf[w]
      back == { m \in ms \cap x.data.reserved :
                  d.row[m].status = "special_processing" /\ ~d.row[m].busy }
  IN [ d EXCEPT !.row = [m \in Manga |-> IF m \in back
                           THEN [ d.row[m] EXCEPT !.status = x.bind[m].status ]
                           ELSE d.row[m]],
                !.wf[w].data.reserved = @ \ back,
                !.wf[w].data.stale = @ \cup back ]

\* Mutant: a cancelled update leaves its rows where they are.
StrandsCancelled(d, w, op, event) ==
  IF op = "apply" /\ event \in { "failed", "succeeded" }
  THEN Restore(d, w, Bound(d.wf[w]))
  ELSE d

MetadataChanged(d, w, op, event) ==
  IF op = "apply" /\ event \in { "failed", "cancelled", "succeeded" }
  THEN Restore(d, w, Bound(d.wf[w]))
  ELSE d

Changed(d, w, op, event) ==
  CASE d.wf[w].kind = "video_archive" -> VideoChanged(d, w, op, event)
    [] d.wf[w].kind = "manual_torrent" -> TorrentChanged(d, w, event)
    [] d.wf[w].kind = "lanraragi_metadata" -> MetadataChanged(d, w, op, event)
    [] OTHER -> d

----------------------------------------------------------------------------
\* A job is queued, unless one of that operation is queued or running already.
MayQueue(d, w, op) ==
  \/ d.wf[w].job[op].status \in { "queued", "running" }
  \/ /\ d.wf[w].status \in Def(d, w, op).statuses
     /\ d.wf[w].phase \in Def(d, w, op).phases
     /\ Validate(d, w, op, FALSE)
     /\ d.wf[w].job[op].no < MaxAttempt[op]

Queue(d, w, op) ==
  IF d.wf[w].job[op].status \in { "queued", "running" } THEN d
  ELSE [ d EXCEPT !.wf[w].job[op] = [ NoJob EXCEPT !.status = "queued",
                                                   !.no = d.wf[w].job[op].no + 1 ] ]

CancelQueued(d, w) ==
  [ d EXCEPT !.wf[w].job =
      [o \in DOMAIN @ |-> IF @[o].status = "queued"
                          THEN [ @[o] EXCEPT !.status = "cancelled" ] ELSE @[o]] ]

\* Its owner, lease and effect are looked at only while it runs.
EndJob(d, w, op, status) ==
  [ d EXCEPT !.wf[w].job[op] =
      [ NoJob EXCEPT !.status = status, !.no = d.wf[w].job[op].no ] ]

EndWorkflow(d, w, status, phase) ==
  [ d EXCEPT !.wf[w].status = status, !.wf[w].phase = phase ]

\* Nothing reads the jobs and the payload of a workflow that is over, but for
\* the operations its status allows: the model drops them.
Dropped(x) ==
  LET left == { o \in DOMAIN x.job : x.status \in Definition[x.kind][o].statuses } IN
  IF x.status = "active" THEN x
  ELSE [ x EXCEPT !.job = [o \in DOMAIN @ |-> IF o \in left THEN @[o] ELSE NoJob],
                  !.data = IF left = {} THEN InitialData[x.kind] ELSE @,
                  !.cancel = FALSE ]
Over(d, w) == [ d EXCEPT !.wf[w] = Dropped(@) ]

\* Mutant: a result is accepted whatever attempt it comes from.
ValidForAnyone(d, c) ==
  LET j == d.wf[c.w].job[c.op] IN
  /\ j.status # "none"
  /\ d.wf[c.w].status \in Def(d, c.w, c.op).statuses
  /\ Validate(d, c.w, c.op, TRUE)

\* Mutant: a result is accepted whoever the Supervisor is by now.
ValidUnfenced(d, c) ==
  LET j == d.wf[c.w].job[c.op] IN
  /\ j.status = "running" /\ j.no = c.no /\ j.owner = c.owner /\ j.lease = "live"
  /\ d.wf[c.w].status \in Def(d, c.w, c.op).statuses
  /\ Validate(d, c.w, c.op, TRUE)

(***************************************************************************)
(* The check before every write of a worker: its attempt still runs, the   *)
(* lease is live, no other Supervisor owns a fenced operation, and the     *)
(* workflow and its rows still permit it.                                  *)
(***************************************************************************)
Valid(d, c) ==
  LET j == d.wf[c.w].job[c.op] IN
  /\ j.status = "running" /\ j.no = c.no /\ j.owner = c.owner /\ j.lease = "live"
  /\ Fenced(d.wf[c.w].kind, c.op) => sup.owner \in { None, c.owner }
  /\ d.wf[c.w].status \in Def(d, c.w, c.op).statuses
  /\ Validate(d, c.w, c.op, TRUE)

\* Mutant: a worker goes on whatever has been asked of its workflow.
NeverStopped(d, c) == FALSE

Stopped(d, c) == d.wf[c.w].cancel /\ ~Def(d, c.w, c.op).cancellation

SetPhase(d, w, op, phase) ==
  IF Def(d, w, op).affects THEN [ d EXCEPT !.wf[w].phase = phase ] ELSE d

\* update_state: the workflow moves on within a job.
Update(d, c, phase) == Changed(SetPhase(d, c.w, c.op, phase), c.w, c.op, "updated")

\* succeed, with the status the workflow ends in or "active".
Succeed(d, c, phase, status) ==
  LET ended == EndJob(Update(d, c, phase), c.w, c.op, "succeeded")
      moved == [ ended EXCEPT !.wf[c.w].status = status ]
  IN Over(Release(Changed(moved, c.w, c.op, "succeeded"), c.w, c.op), c.w)

Fail(d, c) ==
  LET failed == SetPhase(EndJob(d, c.w, c.op, "failed"), c.w, c.op,
                         Def(d, c.w, c.op).failure)
  IN Release(Changed(failed, c.w, c.op, "failed"), c.w, c.op)

CancelComplete(d, c) ==
  LET status == IF Def(d, c.w, c.op).cancellation THEN "succeeded" ELSE "cancelled"
      ended == EndWorkflow(EndJob(d, c.w, c.op, status), c.w, "cancelled", "cancelled")
  IN Over(Release(Changed(ended, c.w, c.op, "cancelled"), c.w, c.op), c.w)

----------------------------------------------------------------------------
\* The worker processes.  proc[p] holds the claim it was started with, where
\* it is in the executor's run, the rows it has still to work through, the one it
\* is at and the pages of its batch.
NoClaim == [ w |-> 0, op |-> "none", no |-> 0, owner |-> None, at |-> "idle",
             todo |-> {}, item |-> "none", page |-> 0 ]
Started(w, op) ==
  [ NoClaim EXCEPT !.w = w, !.op = op, !.no = db.wf[w].job[op].no,
                   !.owner = sup.owner, !.at = "begin" ]

Busy(p) == proc[p].at # "idle"
Going(p) == ~Stopped(db, proc[p])
RunBy(w, op) ==          \* the processes that run this attempt
  { p \in Proc : /\ proc[p].w = w /\ proc[p].op = op
                 /\ proc[p].no = db.wf[w].job[op].no }

Goto(p, at) == proc' = [ proc EXCEPT ![p].at = at ]

\* The process ends.  The Supervisor that started it learns of it; only the
\* exit of a job that still runs can matter to the recovery.
Exits(p) ==
  LET c == proc[p] IN
  /\ proc' = [ proc EXCEPT ![p] = NoClaim ]
  /\ sup' = [ sup EXCEPT !.exited =
                IF c.owner = sup.owner /\ db'.wf[c.w].kind \in Recoverable
                   /\ db'.wf[c.w].job[c.op].status = "running"
                   /\ db'.wf[c.w].job[c.op].no = c.no
                THEN @ \cup { << c.w, c.no >> } ELSE @ ]

\* A worker that ends with an error records it, if its attempt still counts.
\* This is also the end of a job whose process could not be started.
WorkerFails(p) ==
  /\ Busy(p)
  /\ db' = IF Valid(db, proc[p]) THEN Fail(db, proc[p]) ELSE db
  /\ Exits(p)
  /\ UNCHANGED qbit

WorkerDies(p) ==
  /\ Busy(p)
  /\ UNCHANGED << db, qbit >>
  /\ Exits(p)

\* The heartbeat stops with the process, or is held up longer than the lease.
JobLeaseExpires(w, op) ==
  /\ db.wf[w].job[op].status = "running" /\ db.wf[w].job[op].lease = "live"
  /\ db' = [ db EXCEPT !.wf[w].job[op].lease = "expired" ]
  /\ UNCHANGED << sup, proc, qbit >>

----------------------------------------------------------------------------
\* The Supervisor.

\* It took over the expired or released lease of the one before; the workers
\* of that one may still run, and it knows nothing of their exits.
SupervisorStarts ==
  /\ sup.lease # "live" /\ sup.epoch < MaxOwner
  /\ sup' = [ owner |-> sup.epoch + 1, epoch |-> sup.epoch + 1, lease |-> "live",
              state |-> "running", exited |-> {}, scanned |-> FALSE ]
  /\ UNCHANGED << db, proc, qbit >>

\* It crashes, or stalls until its lease has run out.  The last one of the
\* bound does not.
SupervisorDies ==
  /\ sup.lease = "live" /\ sup.epoch < MaxOwner
  /\ sup' = [ sup EXCEPT !.lease = "expired" ]
  /\ UNCHANGED << db, proc, qbit >>

SupervisorDrains ==
  /\ sup.lease = "live" /\ sup.state = "running" /\ sup.epoch < MaxOwner
  /\ sup' = [ sup EXCEPT !.state = "draining" ]
  /\ UNCHANGED << db, proc, qbit >>

\* A draining Supervisor asks its workers to stop, waits for them and gives up
\* the lease.
RequestStop(w, op) ==
  /\ sup.lease = "live" /\ sup.state = "draining"
  /\ db.wf[w].kind \in Recoverable
  /\ db.wf[w].job[op].status = "running" /\ db.wf[w].job[op].owner = sup.owner
  /\ ~db.wf[w].job[op].stop
  /\ \E p \in RunBy(w, op) : TRUE
  /\ db' = [ db EXCEPT !.wf[w].job[op].stop = TRUE ]
  /\ UNCHANGED << sup, proc, qbit >>

SupervisorExits ==
  /\ sup.lease = "live" /\ sup.state = "draining"
  /\ \A p \in Proc : Busy(p) => proc[p].owner # sup.owner
  /\ sup' = [ sup EXCEPT !.owner = None, !.lease = "none", !.state = "paused",
                          !.exited = {} ]
  /\ UNCHANGED << db, proc, qbit >>

RunningJobs == UNION { { << w, o >> : o \in Running(db, w) } : w \in Workflow }

\* Mutant: a workflow with a running job is not passed over.
AdmitsSecondJob(w, op) ==
  /\ sup.lease = "live" /\ sup.state = "running" /\ sup.scanned
  /\ Cardinality(RunningJobs) < MaxConcurrency
  /\ db.wf[w].job[op].status = "queued"
  /\ db.wf[w].status \in Def(db, w, op).statuses
  /\ Validate(db, w, op, FALSE)

\* The jobs claim_next looks at: it passes over the others.
Eligible(w, op) ==
  /\ sup.lease = "live" /\ sup.state = "running" /\ sup.scanned
  /\ Cardinality(RunningJobs) < MaxConcurrency
  /\ db.wf[w].job[op].status = "queued"
  /\ Running(db, w) = {}
  /\ db.wf[w].status \in Def(db, w, op).statuses
  /\ Validate(db, w, op, FALSE)

ClaimJob(w, op, p) ==
  LET keys == ResourcesOf(db, w)
      kept == Acquire(db, w, keys, op, db.wf[w].job[op].no)
      owned == IF db.wf[w].kind \in Recoverable
               THEN [ kept EXCEPT !.wf[w].data.owner = sup.owner,
                                  !.wf[w].data.started = TRUE ] ELSE kept
      run == [ owned EXCEPT !.wf[w].job[op] =
                 [ @ EXCEPT !.status = "running", !.owner = sup.owner,
                            !.lease = "live" ] ]
  IN /\ Eligible(w, op) /\ proc[p] = NoClaim
     /\ db.wf[w].phase \in Def(db, w, op).phases
     /\ Free(db, w, keys)
     /\ db' = Changed(SetPhase(run, w, op, Def(db, w, op).running), w, op, "claimed")
     /\ proc' = [ proc EXCEPT ![p] = Started(w, op) ]
     /\ UNCHANGED << sup, qbit >>

\* A job whose workflow has moved on since it was queued fails when it is met.
FailMisplacedJob(w, op) ==
  /\ Eligible(w, op)
  /\ db.wf[w].phase \notin Def(db, w, op).phases
  /\ db' = Changed(SetPhase(EndJob(db, w, op, "failed"), w, op,
                            Def(db, w, op).failure), w, op, "failed")
  /\ UNCHANGED << sup, proc, qbit >>

----------------------------------------------------------------------------
\* The commands every kind of workflow has, unless its module has its own.
\* (A video archive and a manual torrent are driven by their own pages.)
Settles(kind) == kind \in Kind \ { "video_archive", "manual_torrent" }

QueueOperation(w, op) ==
  /\ Exists(db, w) /\ op \in DOMAIN db.wf[w].job /\ Settles(db.wf[w].kind)
  /\ op # "apply"
  /\ db.wf[w].job[op].status \notin { "queued", "running" }
  /\ MayQueue(db, w, op)
  /\ db' = Queue(db, w, op)
  /\ UNCHANGED << sup, proc, qbit >>

\* The lease of a job is released, once the administrator has made sure that
\* its process has stopped.
ReleaseExpired(w, op) ==
  LET j == db.wf[w].job[op] IN
  /\ Settles(db.wf[w].kind)
  /\ j.status = "running" /\ j.lease = "expired"
  /\ ~(Def(db, w, op).effect = "verify" /\ j.effect)
  /\ ReleaseOnlyStopped => RunBy(w, op) = {}
  /\ db' = Changed(SetPhase(EndJob(Release(db, w, op), w, op, "abandoned"), w, op,
                            Def(db, w, op).failure), w, op, "failed")
  /\ UNCHANGED << sup, proc, qbit >>

\* A running job is asked to stop; without one the workflow ends here.  The
\* rows set aside by a metadata update go back first.
CancelWorkflow(w) ==
  LET asked == [ CancelQueued(db, w) EXCEPT !.wf[w].cancel = TRUE ]
      back == IF db.wf[w].kind = "lanraragi_metadata"
              THEN Restore(asked, w, Bound(db.wf[w])) ELSE asked
  IN /\ db.wf[w].kind \in { "lanraragi_metadata", "lanraragi_compare",
                             "download_cleanup" }
     /\ Active(db, w)
     /\ db' = IF Running(db, w) # {} THEN asked
              ELSE Over(ReleaseAll(EndWorkflow(back, w, "cancelled", "cancelled"), w), w)
     /\ UNCHANGED << sup, proc, qbit >>

----------------------------------------------------------------------------
\* The ordinary pipeline and the pages of an archive.

OrdinaryRow ==
  { [ status |-> "details_pending", error |-> "none", method |-> "direct",
      external |-> FALSE, busy |-> b ] : b \in BOOLEAN }
  \cup { [ status |-> "manual_review", error |-> e, method |-> "torrent",
           external |-> FALSE, busy |-> FALSE ] : e \in { "video_torrent", "upload" } }
  \cup { [ status |-> "completed", error |-> "none", method |-> "torrent",
           external |-> FALSE, busy |-> FALSE ] }

\* The pipeline works on a row that no workflow has taken over.  A torrent it
\* was handed is its own from then on.
PipelineMoves(m) ==
  /\ db.row[m].status # "special_processing"
  /\ \E r \in OrdinaryRow :
       /\ r # db.row[m]
       /\ db' = [ Touch(db, m) EXCEPT !.row[m] = r ]
  /\ qbit' = [ qbit EXCEPT ![m] = IF db.row[m].external THEN @ \ { "manual" } ELSE @ ]
  /\ UNCHANGED << sup, proc >>

\* A remark or a priority is edited, whatever the status of the row.
EditRow(m) ==
  /\ Touch(db, m) # db
  /\ db' = Touch(db, m)
  /\ UNCHANGED << sup, proc, qbit >>
=============================================================================
