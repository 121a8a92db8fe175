----------------------------- MODULE TaskLease -----------------------------
(***************************************************************************)
(* How task processes, the Web and the Supervisor share one manga row.     *)
(*                                                                         *)
(* A task process claims a row in one transaction and works on it in a     *)
(* second one.  Every write of the second transaction is fenced: it reads  *)
(* the row with the attempt's identity in the WHERE clause, and what it    *)
(* staged reaches the database when the session is flushed and committed.  *)
(* That read takes no row lock, so Fence and Flush are two steps here, as  *)
(* they are under PostgreSQL's READ COMMITTED.  The Web reads with FOR     *)
(* UPDATE, so each of its operations is one step.                          *)
(*                                                                         *)
(* active_attempt_id, lease_token and lease_owner are written together and *)
(* identify one attempt, so row[m].active stands for the three of them.    *)
(***************************************************************************)
EXTENDS ArchiveStates

CONSTANTS
  Manga,               \* the rows
  Worker,              \* the task processes
  MaxAttempt,          \* bound: how many attempts are ever made
  Scheduled,           \* the operations the Supervisor schedules
  ReleaseOnlyStopped   \* the administrator releases a lease only after the
                       \* process that held it has stopped

ASSUME MangaAssumption == Manga # {}
ASSUME ScheduledAssumption == Scheduled \subseteq Operation
ASSUME BoundAssumption == MaxAttempt \in Nat
ASSUME DisciplineAssumption == ReleaseOnlyStopped \in BOOLEAN

VARIABLES
  row,       \* row[m]: what the manga table holds
  attempt,   \* attempt[a]: what the job_attempt table holds
  proc       \* proc[w]: the memory of a task process

vars == << row, attempt, proc >>

AttemptId == 1 .. MaxAttempt
None == 0

DownloadMethod == { "unset", "torrent", "direct", "aria2" }
ArchiveRoute == { "direct", "aria2" }

Row ==
  [ status : Status, method : DownloadMethod, external : BOOLEAN,
    active : AttemptId \cup { None }, lease : { "none", "live", "expired" } ]

Attempt ==
  [ state : { "unused", "running", "succeeded", "failed", "abandoned" },
    manga : Manga, op : Operation, effect : BOOLEAN ]

\* What a process read when its session loaded the row.
Loaded == [ status : Status, method : DownloadMethod, external : BOOLEAN ]

\* What it has staged between a fenced read and the flush of its session.
Pending ==
  [ kind : { "effect", "external", "finish" }, snap : Status, target : Status,
    error : BOOLEAN, method : DownloadMethod, external : BOOLEAN,
    locked : BOOLEAN ]

Process ==
  [ pc : { "idle", "claimed", "working", "submitted", "fenced", "exited",
            "failed" },
    claim : AttemptId \cup { None }, loaded : Loaded, pend : Pending ]

TypeOK ==
  /\ row \in [Manga -> Row]
  /\ attempt \in [AttemptId -> Attempt]
  /\ proc \in [Worker -> Process]

NoLoaded == [ status |-> "discovered", method |-> "unset", external |-> FALSE ]
NoPending ==
  [ kind |-> "finish", snap |-> "discovered", target |-> "discovered",
    error |-> FALSE, method |-> "unset", external |-> FALSE, locked |-> FALSE ]
IdleProcess ==
  [ pc |-> "idle", claim |-> None, loaded |-> NoLoaded, pend |-> NoPending ]
ExitedProcess == [ IdleProcess EXCEPT !.pc = "exited" ]   \* killed or stopped
FailedProcess == [ IdleProcess EXCEPT !.pc = "failed" ]   \* by an exception

----------------------------------------------------------------------------
\* The attempt a process works for, its manga and its operation.
Claimed(w) == proc[w].claim
MangaOf(w) == attempt[Claimed(w)].manga
OpOf(w) == attempt[Claimed(w)].op

\* A transaction that read m FOR UPDATE has not committed yet.
RowLocked(m) ==
  \E w \in Worker : proc[w].pc = "fenced" /\ proc[w].pend.locked /\ MangaOf(w) = m

LockedByOther(w) ==
  \E v \in Worker \ {w} : /\ proc[v].pc = "fenced" /\ proc[v].pend.locked
                          /\ MangaOf(v) = MangaOf(w)

\* The WHERE clause of fenced() matches, and the attempt has not been settled.
Holds(w) ==
  /\ row[MangaOf(w)].active = Claimed(w)
  /\ attempt[Claimed(w)].state = "running"

Held(a) == \E w \in Worker : proc[w].claim = a

\* Poll an aria2 or H@H download that an earlier attempt has queued.
Polling(r) == r.method = "aria2" /\ r.external

----------------------------------------------------------------------------
\* The operation's own conditions on a row, beside its status and lease.
Eligible(op, r) ==
  CASE op = "details" -> ~r.external
    [] op = "torrent_download" -> r.method \in { "unset", "torrent" } /\ ~r.external
    [] op = "torrent_check" -> r.method = "torrent" /\ r.external
    [] op = "direct_download" -> r.method # "torrent"
    [] OTHER -> TRUE

\* Mutant: an expired lease is up for grabs.
ClaimableWhenExpired(op, r) ==
  /\ r.status \in ClaimableStates[op]
  /\ r.lease # "live"
  /\ Eligible(op, r)

Claimable(op, r) ==
  /\ r.status \in ClaimableStates[op]
  /\ r.lease = "none"
  /\ Eligible(op, r)

----------------------------------------------------------------------------
NoAttempt ==
  [ state |-> "unused", manga |-> CHOOSE m \in Manga : TRUE, op |-> "details",
    effect |-> FALSE ]

\* Every row has just been queued for its details page.
Init ==
  /\ row = [m \in Manga |-> [ status |-> "details_pending", method |-> "unset",
                              external |-> FALSE, active |-> None, lease |-> "none" ]]
  /\ attempt = [a \in AttemptId |-> NoAttempt]
  /\ proc = [w \in Worker |-> IdleProcess]

(***************************************************************************)
(* The claiming transaction.  FOR UPDATE SKIP LOCKED passes over a row     *)
(* another transaction has locked.                                         *)
(***************************************************************************)
Claim(w, m, op, a) ==
  /\ proc[w].pc = "idle"
  /\ attempt[a].state = "unused"
  /\ \A b \in AttemptId : b < a => attempt[b].state # "unused"
  /\ Claimable(op, row[m])
  /\ ~RowLocked(m)
  /\ attempt' = [attempt EXCEPT ![a] = [ state |-> "running", manga |-> m,
                                         op |-> op, effect |-> FALSE ]]
  /\ row' = [row EXCEPT ![m].status = ExecutionState(op, @),
                        ![m].active = a, ![m].lease = "live"]
  /\ proc' = [proc EXCEPT ![w] = [IdleProcess EXCEPT !.pc = "claimed", !.claim = a]]

\* The executing transaction begins: its session loads the row.
Load(w) ==
  /\ proc[w].pc = "claimed"
  /\ LET r == row[MangaOf(w)] IN
       proc' = [proc EXCEPT ![w].pc = "working",
                            ![w].loaded = [ status |-> r.status, method |-> r.method,
                                            external |-> r.external ]]
  /\ UNCHANGED << row, attempt >>

----------------------------------------------------------------------------
\* An upload's progress callbacks extend the lease in sessions of their own.
Renew(w) ==
  /\ proc[w].pc = "working"
  /\ OpOf(w) = "upload" /\ attempt[Claimed(w)].effect
  /\ row[MangaOf(w)].active = Claimed(w)
  /\ ~RowLocked(MangaOf(w))
  /\ row' = [row EXCEPT ![MangaOf(w)].lease = "live"]
  /\ UNCHANGED << attempt, proc >>

\* The operations that call an external service, and so mark it first.
EffectOperation ==
  { "torrent_download", "torrent_check", "direct_download", "upload", "cleanup",
    "delete" }

FenceEffect(w) ==
  /\ proc[w].pc = "working"
  /\ OpOf(w) \in EffectOperation
  /\ ~attempt[Claimed(w)].effect
  /\ Holds(w)
  /\ proc' = [proc EXCEPT
       ![w].pc = "fenced",
       ![w].pend = [NoPending EXCEPT !.kind = "effect",
                      !.snap = row[MangaOf(w)].status,
                      !.method = proc[w].loaded.method,
                      !.external = proc[w].loaded.external]]
  /\ UNCHANGED << row, attempt >>

\* A torrent, aria2 or H@H download was queued: its identity is about to be stored.
FenceExternal(w) ==
  /\ proc[w].pc = "working"
  /\ attempt[Claimed(w)].effect
  /\ Holds(w)
  /\ \E method \in DownloadMethod :
       /\ \/ OpOf(w) = "torrent_download" /\ method = "torrent"
          \/ /\ OpOf(w) = "direct_download" /\ method = "aria2"
             /\ ~proc[w].loaded.external
             /\ proc[w].loaded.method \in { "unset", "aria2" }
       /\ proc' = [proc EXCEPT
            ![w].pc = "fenced",
            ![w].pend = [NoPending EXCEPT !.kind = "external",
                           !.snap = row[MangaOf(w)].status,
                           !.method = method, !.external = TRUE]]
  /\ UNCHANGED << row, attempt >>

----------------------------------------------------------------------------
(***************************************************************************)
(* finish().  What the handler may report, the columns it has staged by    *)
(* then, and the status that results from the one the fenced read found.   *)
(***************************************************************************)
\* Reports that only make sense after the external service was called.
AfterEffect(op, o) ==
  \/ op = "torrent_check" /\ o.event \in { "fallback", "block" }
  \/ op = "upload" /\ (o.event \in { "uploaded", "quarantine" } \/ o = Fail("revalidate"))

Reports(w) ==
  IF proc[w].pc = "submitted" THEN { Done("none") }
  ELSE { o \in HandlerOutcome[OpOf(w)] :
           /\ AfterEffect(OpOf(w), o) => attempt[Claimed(w)].effect
           /\ OpOf(w) = "direct_download" =>
                IF Polling(proc[w].loaded)
                THEN o.event \in { "none", "downloaded", "retry", "review" }
                ELSE /\ o.event # "none"
                     /\ o.event = "downloaded" =>
                          /\ attempt[Claimed(w)].effect
                          /\ proc[w].loaded.method \in { "unset", "direct" } }

\* A direct download this process has transferred becomes the artifact.
Promotes(w, o) ==
  /\ OpOf(w) = "direct_download" /\ o.event = "downloaded"
  /\ ~Polling(proc[w].loaded)

\* Mutant: the promotion reads the row like any other handler.
LocksNothing(w, o) == FALSE

\* The promotion alone reads the row FOR UPDATE before it moves the file.
Locks(w, o) == Promotes(w, o)

Staged(w, o) ==
  LET r == proc[w].loaded IN
  CASE o.event = "block" -> { << "unset", FALSE >> }
    [] o.event = "fallback" -> ArchiveRoute \X { FALSE }
    [] Promotes(w, o) -> { << "direct", r.external >> }
    [] o.event = "details_ready" ->
         { << r.method, r.external >> } \cup
           (IF r.method \in { "unset", "torrent" } THEN ArchiveRoute \X { r.external }
                                                   ELSE {})
    [] OpOf(w) = "torrent_check" /\ o.event = "review" ->
         { r.method } \X { r.external, FALSE }
    [] OTHER -> { << r.method, r.external >> }

FinishTarget(prev, o, method) ==
  CASE prev = "cancel_requested" ->
         IF method = "direct" THEN "manual_review" ELSE "cancelled"
    [] prev # "cancel_requested" /\ o.event = "none" -> prev
    [] prev # "cancel_requested" /\ o.event # "none" /\ CanTransition(prev, o.event) ->
         TransitionTarget(prev, o.event)
    [] OTHER -> "manual_review"

\* finish() rejects the event, and nothing around the call catches that.
Rejected(prev, o) ==
  /\ prev # "cancel_requested"
  /\ o.event \in RetryEvent
  /\ ~CanTransition(prev, o.event)

\* An event that finish() rejects elsewhere becomes an error for manual review.
IsError(prev, o) ==
  \/ o.error
  \/ prev # "cancel_requested" /\ o.event # "none" /\ ~CanTransition(prev, o.event)

\* Mutant: the status the session loaded when it began.
StatusLoaded(w) == proc[w].loaded.status

\* fenced() refreshes the status of the object the session holds.
StatusRead(w) == row[MangaOf(w)].status

\* What finish() stages behind a fence that matched.
StageFinish(w) ==
  \E o \in Reports(w) : \E c \in Staged(w, o) :
    LET prev == StatusRead(w) IN
    /\ Locks(w, o) => ~RowLocked(MangaOf(w))
    /\ Promotes(w, o) => prev # "cancel_requested"
    /\ ~Rejected(prev, o)
    /\ proc' = [proc EXCEPT
         ![w].pc = "fenced",
         ![w].pend = [ kind |-> "finish", snap |-> row[MangaOf(w)].status,
                       target |-> FinishTarget(prev, o, c[1]),
                       error |-> IsError(prev, o) \/
                                 (prev = "cancel_requested" /\ c[1] = "direct"),
                       method |-> c[1], external |-> c[2],
                       locked |-> Locks(w, o) ]]

\* Mutant: only a process whose lease is still running may finish.
FenceFinishInTime(w) ==
  /\ proc[w].pc \in { "working", "submitted" }
  /\ Holds(w)
  /\ row[MangaOf(w)].lease = "live"
  /\ StageFinish(w)
  /\ UNCHANGED << row, attempt >>

FenceFinish(w) ==
  /\ proc[w].pc \in { "working", "submitted" }
  /\ Holds(w)
  /\ StageFinish(w)
  /\ UNCHANGED << row, attempt >>

\* The exception leaves the executor: rollback, and the process ends with code 1.
Escape(w) ==
  /\ proc[w].pc \in { "working", "submitted" }
  /\ Holds(w)
  /\ \E o \in Reports(w) : Rejected(StatusRead(w), o)
  /\ proc' = [proc EXCEPT ![w] = FailedProcess]
  /\ UNCHANGED << row, attempt >>

\* The fence does not match: nothing is written, an unsettled attempt is abandoned.
FenceLost(w) ==
  /\ proc[w].pc \in { "working", "submitted" }
  /\ ~Holds(w)
  /\ attempt' = [attempt EXCEPT ![Claimed(w)].state =
                   IF @ = "running" THEN "abandoned" ELSE @]
  /\ proc' = [proc EXCEPT ![w] = IdleProcess]
  /\ UNCHANGED row
----------------------------------------------------------------------------
(***************************************************************************)
(* The flush of a fenced session: UPDATE ... WHERE manga_id = ?, with the  *)
(* columns whose value differs from what the session had loaded.  The      *)
(* fence is not part of it, and a row lock of another process delays it.   *)
(***************************************************************************)
Written(new, loaded, old) == IF new # loaded THEN new ELSE old

CanFlush(w) == proc[w].pc = "fenced" /\ ~LockedByOther(w)

\* Mutant: the mark is written whatever the attempt has become.
FlushEffectUnconditionally(w) ==
  LET p == proc[w] m == MangaOf(w) IN
  /\ CanFlush(w)
  /\ p.pend.kind = "effect"
  /\ row' = [row EXCEPT ![m].status = Written(p.pend.snap, p.loaded.status, @)]
  /\ attempt' = [attempt EXCEPT ![p.claim].effect = TRUE]
  /\ proc' = [proc EXCEPT ![w].pc = "working", ![w].loaded.status = p.pend.snap,
                          ![w].pend = NoPending]

FlushEffect(w) ==
  LET p == proc[w] m == MangaOf(w) IN
  /\ CanFlush(w)
  /\ p.pend.kind = "effect"
  /\ row' = [row EXCEPT ![m].status = Written(p.pend.snap, p.loaded.status, @)]
  /\ attempt' = [attempt EXCEPT ![p.claim].effect =
                   @ \/ attempt[p.claim].state = "running"]
  /\ proc' = [proc EXCEPT ![w].pc = "working", ![w].loaded.status = p.pend.snap,
                          ![w].pend = NoPending]

FlushExternal(w) ==
  LET p == proc[w] m == MangaOf(w) IN
  /\ CanFlush(w)
  /\ p.pend.kind = "external"
  /\ row' = [row EXCEPT ![m].status = Written(p.pend.snap, p.loaded.status, @),
                        ![m].method = Written(p.pend.method, p.loaded.method, @),
                        ![m].external = Written(p.pend.external, p.loaded.external, @)]
  /\ proc' = [proc EXCEPT ![w].pc = "submitted",
                          ![w].loaded = [ status |-> p.pend.snap,
                                          method |-> p.pend.method,
                                          external |-> p.pend.external ],
                          ![w].pend = NoPending]
  /\ UNCHANGED attempt

FlushFinish(w) ==
  LET p == proc[w] m == MangaOf(w) IN
  /\ CanFlush(w)
  /\ p.pend.kind = "finish"
  /\ row' = [row EXCEPT ![m] =
       [ status |-> Written(p.pend.target, p.loaded.status, row[m].status),
         method |-> Written(p.pend.method, p.loaded.method, row[m].method),
         external |-> Written(p.pend.external, p.loaded.external, row[m].external),
         active |-> None, lease |-> "none" ]]
  /\ attempt' = [attempt EXCEPT ![p.claim].state =
                   IF p.pend.error THEN "failed" ELSE "succeeded"]
  /\ proc' = [proc EXCEPT ![w] = IdleProcess]

----------------------------------------------------------------------------
(***************************************************************************)
(* The process dies, or its database connection does: whatever it had not  *)
(* committed is gone.  Its attempt keeps the row.                          *)
(***************************************************************************)
Crash(w) ==
  /\ proc[w].pc \notin { "idle", "exited", "failed" }
  /\ proc' = [proc EXCEPT ![w] = ExitedProcess]
  /\ UNCHANGED << row, attempt >>

\* The Supervisor reaps the process; its successor starts with a new identity.
Reap(w) ==
  /\ proc[w].pc \in { "exited", "failed" }
  /\ proc' = [proc EXCEPT ![w] = IdleProcess]
  /\ UNCHANGED << row, attempt >>

\* The retry event an operation's handler and error handler use.
SystemRetry(op) ==
  CASE op = "details" -> { "details_retry" }
    [] op = "cleanup" -> { "cleanup_retry" }
    [] op = "delete" -> { "none" }
    [] op = "validate" -> { "retry", "rename_retry" }
    [] OTHER -> { "retry" }

(***************************************************************************)
(* The daily maintenance window stops the executor.  It rolls back what is *)
(* open and settles its own attempt in one transaction that reads FOR      *)
(* UPDATE: back in the queue when nothing external can have happened (a    *)
(* direct download only leaves a partial file), else to manual review.     *)
(***************************************************************************)
SettleMaintenance(w) ==
  LET m == MangaOf(w) a == Claimed(w) prev == row[m].status IN
  /\ proc[w].pc \in { "claimed", "working", "submitted", "fenced" }
  /\ ~LockedByOther(w)
  /\ proc' = [proc EXCEPT ![w] = ExitedProcess]
  /\ \/ ~Holds(w) /\ UNCHANGED << row, attempt >>
     \/ /\ Holds(w)
        /\ \E target \in Status :
             /\ \/ /\ prev = "cancel_requested"
                   /\ target = FinishTarget(prev, Done("none"), row[m].method)
                \/ /\ prev # "cancel_requested"
                   /\ \/ ~attempt[a].effect
                      \/ /\ OpOf(w) = "direct_download" /\ ~row[m].external
                         /\ row[m].method \in { "unset", "direct" }
                   /\ \E e \in SystemRetry(OpOf(w)) :
                        /\ e = "none" \/ CanTransition(prev, e)
                        /\ target = FinishTarget(prev, Fail(e), row[m].method)
                \/ /\ prev # "cancel_requested"
                   /\ attempt[a].effect
                   /\ target = "manual_review"
             /\ row' = [row EXCEPT ![m].status = target, ![m].active = None,
                                   ![m].lease = "none"]
             /\ attempt' = [attempt EXCEPT ![a].state =
                  IF prev = "cancel_requested" /\ row[m].method # "direct"
                  THEN "succeeded" ELSE "failed"]

----------------------------------------------------------------------------
\* Time passes the end of a lease nobody renewed.
LeaseExpires(m) ==
  /\ row[m].lease = "live"
  /\ row' = [row EXCEPT ![m].lease = "expired"]
  /\ UNCHANGED << attempt, proc >>

\* An action button.  Only a return to the details queue needs an idle row.
WebAction(m) ==
  /\ ~RowLocked(m)
  /\ \E target \in WebTargets(row[m].status) :
       /\ target = "details_pending" =>
            row[m].active = None /\ row[m].lease = "none" /\ ~row[m].external
       /\ row' = [row EXCEPT ![m].status = target]
  /\ UNCHANGED << attempt, proc >>

\* An audited manual change of the status of a row no attempt holds.
OverrideStatus(m) ==
  LET r == row[m] IN
  /\ ~RowLocked(m)
  /\ r.active = None
  /\ r.status # "special_processing"
  /\ \E target \in ManualStatus \ { r.status } :
       /\ target = "force_delete_pending" => r.status \in ForceDeleteSource
       /\ target = "details_pending" => ~r.external
       /\ \E method \in CASE target = "download_blocked" -> { "unset" }
                          [] target \in { "details_pending", "downloaded" } ->
                               DownloadMethod \ { "unset" }
                          [] OTHER -> { r.method } :
            row' = [row EXCEPT ![m].status = target, ![m].method = method,
                               ![m].external = @ /\ method = r.method]
  /\ UNCHANGED << attempt, proc >>

\* Mutant: the attempt is left running.
ReleaseKeepingAttempt(m) ==
  LET a == row[m].active IN
  /\ ~RowLocked(m)
  /\ a # None
  /\ row[m].lease = "expired"
  /\ ReleaseOnlyStopped => ~Held(a)
  /\ row' = [row EXCEPT ![m].status = "manual_review", ![m].active = None,
                        ![m].lease = "none"]
  /\ UNCHANGED << attempt, proc >>

(***************************************************************************)
(* The expired-lease release of the archive page: abandon the attempt, free *)
(* the row and leave it to manual review.                                  *)
(***************************************************************************)
ReleaseExpiredLease(m) ==
  LET a == row[m].active IN
  /\ ~RowLocked(m)
  /\ a # None
  /\ row[m].lease = "expired"
  /\ attempt[a].state = "running"
  /\ ReleaseOnlyStopped => ~Held(a)
  /\ attempt' = [attempt EXCEPT ![a].state = "abandoned"]
  /\ row' = [row EXCEPT ![m].status = "manual_review", ![m].active = None,
                        ![m].lease = "none"]
  /\ UNCHANGED proc

\* Mutant: a direct download's request is left to its process.
CompleteIndirectCancellation(m) ==
  /\ ~RowLocked(m)
  /\ row[m].status = "cancel_requested"
  /\ row[m].active = None
  /\ row[m].method # "direct"
  /\ row' = [row EXCEPT ![m].status = "cancelled"]
  /\ UNCHANGED << attempt, proc >>

\* The Supervisor's tick completes the cancellations nobody works on.
CompleteCancellation(m) ==
  /\ ~RowLocked(m)
  /\ row[m].status = "cancel_requested"
  /\ row[m].active = None
  /\ row' = [row EXCEPT ![m].status = IF row[m].method = "direct"
                                      THEN "manual_review" ELSE "cancelled"]
  /\ UNCHANGED << attempt, proc >>

----------------------------------------------------------------------------
Step(w) ==
  \/ Load(w) \/ FenceEffect(w) \/ FenceExternal(w) \/ FenceFinish(w) \/ FenceLost(w)
  \/ Escape(w) \/ FlushEffect(w) \/ FlushExternal(w) \/ FlushFinish(w)

Next ==
  \/ \E w \in Worker, m \in Manga, op \in Scheduled, a \in AttemptId : Claim(w, m, op, a)
  \/ \E w \in Worker : Step(w)
  \/ \E w \in Worker : Renew(w) \/ Crash(w) \/ Reap(w) \/ SettleMaintenance(w)
  \/ \E m \in Manga : \/ LeaseExpires(m) \/ WebAction(m) \/ OverrideStatus(m)
                      \/ ReleaseExpiredLease(m) \/ CompleteCancellation(m)

Spec == Init /\ [][Next]_vars
\* The processes run, and the Supervisor keeps ticking; nobody has to click a
\* button, and a process may die at any point.
Fairness ==
  /\ \A w \in Worker : WF_vars(Step(w))
  /\ \A m \in Manga : WF_vars(CompleteCancellation(m))

FairSpec == Spec /\ Fairness

----------------------------------------------------------------------------
(***************************************************************************)
(* An attempt is running exactly while it holds its manga row, and a row   *)
(* has a lease exactly while an attempt holds it: no crash, cancellation,  *)
(* release or late answer leaves a row leased by a settled attempt, or a   *)
(* running attempt without a row.                                          *)
(***************************************************************************)
AttemptHoldsItsRow ==
  /\ \A m \in Manga :
       /\ row[m].active = None <=> row[m].lease = "none"
       /\ row[m].active # None => /\ attempt[row[m].active].manga = m
                                  /\ attempt[row[m].active].state = "running"
  /\ \A a \in AttemptId :
       attempt[a].state = "running" => row[attempt[a].manga].active = a

\* No two live processes work on one manga.
OneExecutor ==
  \A v, w \in Worker :
    v # w /\ proc[v].claim # None /\ proc[w].claim # None => MangaOf(v) # MangaOf(w)

(***************************************************************************)
(* "A process that loses its lease cannot update the manga row": when a    *)
(* process flushes what it staged behind the fence, the row is still its   *)
(* own.                                                                    *)
(***************************************************************************)
StaleProcessWritesNothing ==
  [][ \A w \in Worker :
        proc[w].pc = "fenced" /\ proc'[w].pc # "fenced" /\ row' # row =>
          row[MangaOf(w)].active = proc[w].claim ]_vars

(***************************************************************************)
(* Expiry alone never frees a row: an expired lease ends when its own      *)
(* process settles it or an administrator sends the row to review, and is  *)
(* never handed on to another attempt.                                     *)
(***************************************************************************)
NoAutomaticTakeover ==
  [][ \A m \in Manga :
        row[m].lease = "expired" /\ row'[m].active # row[m].active =>
          /\ row'[m].active = None
          /\ \/ row'[m].status = "manual_review"
             \/ Held(row[m].active) ]_vars

(***************************************************************************)
(* A direct download becomes the manga's artifact only while its attempt   *)
(* owns the row and no cancellation has been accepted, even when leases    *)
(* are released under processes that still run.                            *)
(***************************************************************************)
DirectPromotionIsExclusive ==
  [][ \A w \in Worker :
        LET p == proc[w] IN
        /\ p.pc = "fenced" /\ p.pend.kind = "finish" /\ p.pend.target = "downloaded"
        /\ OpOf(w) = "direct_download" /\ ~Polling(p.loaded)
        /\ proc'[w].pc = "idle"
        => /\ row[MangaOf(w)].active = p.claim
           /\ row[MangaOf(w)].status # "cancel_requested" ]_vars

\* The mark of an external effect is only ever set on an attempt still running.
EffectMarkIsFenced ==
  [][ \A a \in AttemptId :
        attempt'[a].effect # attempt[a].effect => attempt[a].state \in { "running", "unused" } ]_vars

\* What an attempt that holds m may turn an accepted cancellation into.
CancelOutcome == { "cancel_requested", "cancelled", "manual_review" }

(***************************************************************************)
(* "cancel_requested" stops the further automatic work on an archive: a    *)
(* cancellation accepted while an attempt holds the row ends in            *)
(* "cancelled" or in manual review, never in the pipeline's next step.     *)
(***************************************************************************)
CancelRequestHonoured ==
  [][ \A m \in Manga :
        row[m].status = "cancel_requested" /\ row[m].active # None =>
          row'[m].status \in CancelOutcome ]_vars

(***************************************************************************)
(* ... and it is lost only to a process whose fenced read came before it:  *)
(* whatever was staged from the cancelled row honours the request.         *)
(***************************************************************************)
CancelLostOnlyToEarlierRead ==
  [][ \A m \in Manga :
        /\ row[m].status = "cancel_requested" /\ row[m].active # None
        /\ row'[m].status \notin CancelOutcome
        => \E w \in Worker : /\ proc[w].pc = "fenced" /\ MangaOf(w) = m
                             /\ proc[w].pend.snap # "cancel_requested" ]_vars

(***************************************************************************)
(* The error handler "releases a system-failed attempt": no process ends   *)
(* with an exception while its attempt still holds the row.                *)
(***************************************************************************)
NoUnsettledFailure ==
  [][ \A w \in Worker :
        proc[w].pc # "failed" /\ proc'[w].pc = "failed" =>
          attempt'[proc[w].claim].state # "running" ]_vars

\* The process that should settle the attempt holding m has ended.
Orphaned(m) == row[m].active # None /\ ~Held(row[m].active)

(***************************************************************************)
(* A requested cancellation is completed, unless the process that should   *)
(* do it has died holding the row.                                         *)
(***************************************************************************)
CancellationCompletes ==
  \A m \in Manga :
    row[m].status = "cancel_requested" ~> row[m].status # "cancel_requested" \/ Orphaned(m)

(***************************************************************************)
(* Every attempt is settled, unless its process has died: neither an       *)
(* expired lease nor a status changed under it keeps a live process from   *)
(* ending its attempt.                                                     *)
(***************************************************************************)
AttemptSettles ==
  \A m \in Manga :
    row[m].active # None ~> row[m].active = None \/ Orphaned(m)

(***************************************************************************)
(* Crashes, cancellations, releases and late answers included, the row and *)
(* attempt tables do what RowOwnership promises.                           *)
(***************************************************************************)
Ownership ==
  INSTANCE RowOwnership WITH holder <- [m \in Manga |-> row[m].active],
                             fate <- [a \in AttemptId |-> attempt[a].state]

ImplementsRowOwnership == Ownership!Spec
=============================================================================
