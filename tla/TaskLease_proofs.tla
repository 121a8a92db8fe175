-------------------------- MODULE TaskLease_proofs --------------------------
(***************************************************************************)
(* What is proved of TaskLease for every set of rows and processes and     *)
(* every bound on the attempts.                                            *)
(***************************************************************************)
EXTENDS TaskLease, ArchiveRow_proofs

Stopped == { "idle", "exited", "failed" }

\* A process works for an attempt exactly while it runs.
ClaimInv == \A w \in Worker : proc[w].pc \in Stopped <=> proc[w].claim = None

TypeInv == TypeOK /\ ClaimInv

\* No attempt is numbered 0, the identity an idle row and process carry.
LEMMA NoneIsNoAttempt == None \notin AttemptId
BY DEF None, AttemptId

\* What a process has in memory when it is idle, stopped or failed is typed.
LEMMA ProcessTyped ==
  /\ NoLoaded \in Loaded
  /\ NoPending \in Pending
  /\ IdleProcess \in Process
  /\ ExitedProcess \in Process
  /\ FailedProcess \in Process
  /\ NoAttempt \in Attempt
<1>1. NoLoaded \in Loaded
  BY DEF NoLoaded, Loaded, Status, DownloadMethod
<1>2. NoPending \in Pending
  BY DEF NoPending, Pending, Status, DownloadMethod
<1>3. IdleProcess \in Process
  BY <1>1, <1>2 DEF IdleProcess, Process
<1>4. ExitedProcess \in Process /\ FailedProcess \in Process
  BY <1>3 DEF IdleProcess, ExitedProcess, FailedProcess, Process
<1>5. NoAttempt \in Attempt
  BY MangaAssumption DEF NoAttempt, Attempt, Operation
<1> QED BY <1>1, <1>2, <1>3, <1>4, <1>5

\* finish() leaves a row in a status, whatever it is told.
LEMMA FinishTargetTyped ==
  ASSUME NEW prev \in Status, NEW o, NEW method
  PROVE  FinishTarget(prev, o, method) \in Status
<1>1. CASE prev = "cancel_requested"
  BY <1>1 DEF FinishTarget, Status
<1>2. CASE prev # "cancel_requested" /\ o.event = "none"
  BY <1>2 DEF FinishTarget
<1>3. CASE prev # "cancel_requested" /\ o.event # "none" /\ CanTransition(prev, o.event)
  <2>1. TransitionTarget(prev, o.event) \in Status
    BY <1>3, TransitionTyped
  <2> QED BY <1>3, <2>1 DEF FinishTarget
<1>4. CASE prev # "cancel_requested" /\ o.event # "none" /\ ~CanTransition(prev, o.event)
  BY <1>4 DEF FinishTarget, Status
<1> QED BY <1>1, <1>2, <1>3, <1>4

\* What a handler stages in the row is a download method and a flag.
LEMMA StagedTyped ==
  ASSUME TypeOK, NEW w \in Worker, NEW o, NEW c \in Staged(w, o)
  PROVE  c[1] \in DownloadMethod /\ c[2] \in BOOLEAN
<1>1. proc[w].loaded.method \in DownloadMethod /\ proc[w].loaded.external \in BOOLEAN
  BY DEF TypeOK, Process, Loaded
<1>2. ArchiveRoute \subseteq DownloadMethod /\ "unset" \in DownloadMethod
      /\ "direct" \in DownloadMethod
  BY DEF ArchiveRoute, DownloadMethod
<1> DEFINE r == proc[w].loaded
           Typed == DownloadMethod \X BOOLEAN
<1>3. /\ << "unset", FALSE >> \in Typed
      /\ << "direct", r.external >> \in Typed
      /\ << r.method, r.external >> \in Typed
  BY <1>1, <1>2
<1>4. ArchiveRoute \X { FALSE } \subseteq Typed
  BY <1>2
<1>5. ArchiveRoute \X { r.external } \subseteq Typed
  BY <1>1, <1>2
<1>6. { r.method } \X { r.external, FALSE } \subseteq Typed
  BY <1>1
<1>7. Staged(w, o) \subseteq Typed
  <2>1. CASE o.event \in { "block", "fallback" }
    BY <1>3, <1>4, <1>5, <1>6, <2>1 DEF Staged, Promotes
  <2>2. CASE o.event = "details_ready"
    BY <1>3, <1>4, <1>5, <1>6, <2>2 DEF Staged, Promotes
  <2>3. CASE o.event \notin { "block", "fallback", "details_ready" }
    BY <1>3, <1>4, <1>5, <1>6, <2>3 DEF Staged, Promotes
  <2> QED BY <2>1, <2>2, <2>3
<1> QED BY <1>7

\* A process at work has claimed an attempt on one of the rows.
LEMMA WorkingTyped ==
  ASSUME TypeInv, NEW w \in Worker, proc[w].pc \notin Stopped
  PROVE  /\ Claimed(w) \in AttemptId
         /\ MangaOf(w) \in Manga
         /\ OpOf(w) \in Operation
         /\ row[MangaOf(w)] \in Row
         /\ attempt[Claimed(w)] \in Attempt
         /\ proc[w] \in Process
         /\ proc[w].pend \in Pending
         /\ proc[w].loaded \in Loaded
BY DEF TypeInv, TypeOK, ClaimInv, Claimed, MangaOf, OpOf, Attempt, Process

\* The claiming transaction of claim_next() preserves the types.
LEMMA ClaimTyped ==
  ASSUME TypeInv, NEW w \in Worker, NEW m \in Manga, NEW op \in Operation,
         NEW a \in AttemptId, Claim(w, m, op, a)
  PROVE  TypeInv'
<1>1. ExecutionState(op, row[m].status) \in Status
  BY ExecutionStateTyped DEF TypeInv, TypeOK, Row
<1>2. row' \in [Manga -> Row]
  BY <1>1 DEF TypeInv, TypeOK, Claim, Row
<1>3. attempt' \in [AttemptId -> Attempt]
  BY DEF TypeInv, TypeOK, Claim, Attempt
<1>4. [IdleProcess EXCEPT !.pc = "claimed", !.claim = a] \in Process
  BY ProcessTyped DEF IdleProcess, Process
<1>5. proc' \in [Worker -> Process]
  BY <1>4 DEF TypeInv, TypeOK, Claim
<1>6. ClaimInv'
  BY NoneIsNoAttempt DEF TypeInv, TypeOK, ClaimInv, Claim, IdleProcess, Stopped
<1> QED BY <1>2, <1>3, <1>5, <1>6 DEF TypeInv, TypeOK

\* So does the session that loads the row of a claimed attempt.
LEMMA LoadTyped ==
  ASSUME TypeInv, NEW w \in Worker, Load(w)
  PROVE  TypeInv'
<1>1. proc[w].pc = "claimed" /\ proc[w].pc \notin Stopped
  BY DEF Load, Stopped
<1>2. row[MangaOf(w)] \in Row
  BY <1>1, WorkingTyped
<1>3. proc' \in [Worker -> Process]
  BY <1>2 DEF TypeInv, TypeOK, Load, Process, Loaded, Row
<1>4. ClaimInv'
  BY <1>1 DEF TypeInv, TypeOK, ClaimInv, Load, Stopped, Process
<1> QED BY <1>3, <1>4 DEF TypeInv, TypeOK, Load

\* So does the upload's renewal of its lease, which touches the lease alone.
LEMMA RenewTyped ==
  ASSUME TypeInv, NEW w \in Worker, Renew(w)
  PROVE  TypeInv'
BY DEF TypeInv, TypeOK, ClaimInv, Renew, Row

\* So does the fenced read before the mark of an external effect.
LEMMA FenceEffectTyped ==
  ASSUME TypeInv, NEW w \in Worker, FenceEffect(w)
  PROVE  TypeInv'
<1>1. proc[w].pc = "working" /\ proc[w].pc \notin Stopped
  BY DEF FenceEffect, Stopped
<1>2. [NoPending EXCEPT !.kind = "effect", !.snap = row[MangaOf(w)].status,
                        !.method = proc[w].loaded.method,
                        !.external = proc[w].loaded.external] \in Pending
  BY <1>1, WorkingTyped, ProcessTyped DEF Pending, Row, Loaded
<1>3. proc' \in [Worker -> Process]
  BY <1>2 DEF TypeInv, TypeOK, FenceEffect, Process
<1>4. ClaimInv'
  BY <1>1 DEF TypeInv, TypeOK, ClaimInv, FenceEffect, Stopped, Process
<1> QED BY <1>3, <1>4 DEF TypeInv, TypeOK, FenceEffect

\* So does the fenced read before a download's identity is stored.
LEMMA FenceExternalTyped ==
  ASSUME TypeInv, NEW w \in Worker, FenceExternal(w)
  PROVE  TypeInv'
<1>1. proc[w].pc = "working" /\ proc[w].pc \notin Stopped
  BY DEF FenceExternal, Stopped
<1>2. PICK method \in DownloadMethod :
        proc' = [proc EXCEPT
            ![w].pc = "fenced",
            ![w].pend = [NoPending EXCEPT !.kind = "external",
                           !.snap = row[MangaOf(w)].status,
                           !.method = method, !.external = TRUE]]
  BY DEF FenceExternal
<1>3. [NoPending EXCEPT !.kind = "external", !.snap = row[MangaOf(w)].status,
                        !.method = method, !.external = TRUE] \in Pending
  BY <1>1, WorkingTyped, ProcessTyped DEF Pending, Row
<1>4. proc' \in [Worker -> Process]
  BY <1>2, <1>3 DEF TypeInv, TypeOK, Process
<1>5. ClaimInv'
  BY <1>1, <1>2 DEF TypeInv, TypeOK, ClaimInv, Stopped, Process
<1> QED BY <1>4, <1>5 DEF TypeInv, TypeOK, FenceExternal

\* So does the fenced read of finish(), whatever the handler reports.
LEMMA FenceFinishTyped ==
  ASSUME TypeInv, NEW w \in Worker, FenceFinish(w)
  PROVE  TypeInv'
<1>1. proc[w].pc \in { "working", "submitted" } /\ proc[w].pc \notin Stopped
  BY DEF FenceFinish, Stopped
<1>2. PICK o \in Reports(w) : \E c \in Staged(w, o) :
        proc' = [proc EXCEPT
           ![w].pc = "fenced",
           ![w].pend = [ kind |-> "finish", snap |-> row[MangaOf(w)].status,
                         target |-> FinishTarget(StatusRead(w), o, c[1]),
                         error |-> IsError(StatusRead(w), o) \/
                                   (StatusRead(w) = "cancel_requested" /\ c[1] = "direct"),
                         method |-> c[1], external |-> c[2],
                         locked |-> Locks(w, o) ]]
  BY DEF FenceFinish, StageFinish
<1>3. PICK c \in Staged(w, o) :
        proc' = [proc EXCEPT
           ![w].pc = "fenced",
           ![w].pend = [ kind |-> "finish", snap |-> row[MangaOf(w)].status,
                         target |-> FinishTarget(StatusRead(w), o, c[1]),
                         error |-> IsError(StatusRead(w), o) \/
                                   (StatusRead(w) = "cancel_requested" /\ c[1] = "direct"),
                         method |-> c[1], external |-> c[2],
                         locked |-> Locks(w, o) ]]
  BY <1>2
<1>4. StatusRead(w) \in Status
  BY <1>1, WorkingTyped DEF StatusRead, Row
<1>5. FinishTarget(StatusRead(w), o, c[1]) \in Status
  BY <1>4, FinishTargetTyped
<1>6. c[1] \in DownloadMethod /\ c[2] \in BOOLEAN
  BY StagedTyped DEF TypeInv
<1>7. Locks(w, o) \in BOOLEAN
  BY DEF Locks, Promotes
<1>. DEFINE err == IsError(StatusRead(w), o) \/
                     (StatusRead(w) = "cancel_requested" /\ c[1] = "direct")
<1>8. err \in BOOLEAN
  OBVIOUS
<1>9. [ kind |-> "finish", snap |-> row[MangaOf(w)].status,
        target |-> FinishTarget(StatusRead(w), o, c[1]), error |-> err,
        method |-> c[1], external |-> c[2], locked |-> Locks(w, o) ] \in Pending
  BY <1>4, <1>5, <1>6, <1>7, <1>8 DEF Pending, StatusRead
<1>10. proc' \in [Worker -> Process]
  BY <1>3, <1>9 DEF TypeInv, TypeOK, Process
<1>11. ClaimInv'
  BY <1>1, <1>3 DEF TypeInv, TypeOK, ClaimInv, Stopped, Process
<1> QED BY <1>10, <1>11 DEF TypeInv, TypeOK, FenceFinish

\* The steps that stop a process leave its memory empty.
LEMMA EndTyped ==
  ASSUME TypeInv, NEW w \in Worker,
         NEW end \in { IdleProcess, ExitedProcess, FailedProcess },
         proc' = [proc EXCEPT ![w] = end]
  PROVE  proc' \in [Worker -> Process] /\ ClaimInv'
<1>1. proc' \in [Worker -> Process]
  BY ProcessTyped DEF TypeInv, TypeOK
<1>2. end.pc \in Stopped /\ end.claim = None
  BY DEF IdleProcess, ExitedProcess, FailedProcess, Stopped
<1> QED BY <1>1, <1>2 DEF TypeInv, TypeOK, ClaimInv

\* Exceptions, crashes and the Supervisor's reaping preserve the types.
LEMMA EscapeTyped ==
  ASSUME TypeInv, NEW w \in Worker, Escape(w) \/ Crash(w) \/ Reap(w)
  PROVE  TypeInv'
<1>1. \E end \in { IdleProcess, ExitedProcess, FailedProcess } :
        proc' = [proc EXCEPT ![w] = end]
  BY DEF Escape, Crash, Reap
<1>2. proc' \in [Worker -> Process] /\ ClaimInv'
  BY <1>1, EndTyped
<1> QED BY <1>2 DEF TypeInv, TypeOK, Escape, Crash, Reap

\* Abandoning an attempt whose fence does not match preserves the types.
LEMMA FenceLostTyped ==
  ASSUME TypeInv, NEW w \in Worker, FenceLost(w)
  PROVE  TypeInv'
<1>1. proc' \in [Worker -> Process] /\ ClaimInv'
  BY EndTyped DEF FenceLost
<1>2. attempt' \in [AttemptId -> Attempt]
  BY DEF TypeInv, TypeOK, FenceLost, Attempt
<1> QED BY <1>1, <1>2 DEF TypeInv, TypeOK, FenceLost

\* A flush writes columns that are typed, or leaves them as they are.
LEMMA WrittenTyped ==
  ASSUME NEW S, NEW new \in S, NEW old \in S, NEW loaded
  PROVE  Written(new, loaded, old) \in S
BY DEF Written

\* Flushing the mark of an external effect preserves the types.
LEMMA FlushEffectTyped ==
  ASSUME TypeInv, NEW w \in Worker, FlushEffect(w)
  PROVE  TypeInv'
<1>1. proc[w].pc = "fenced" /\ proc[w].pc \notin Stopped
  BY DEF FlushEffect, CanFlush, Stopped
<1> DEFINE m == MangaOf(w)
<1>2. Written(proc[w].pend.snap, proc[w].loaded.status, row[m].status) \in Status
  BY <1>1, WorkingTyped, WrittenTyped DEF Pending, Row
<1>3. row' \in [Manga -> Row]
  BY <1>2 DEF TypeInv, TypeOK, FlushEffect, Row
<1>4. attempt' \in [AttemptId -> Attempt]
  BY <1>1, WorkingTyped DEF TypeInv, TypeOK, FlushEffect, Attempt, Claimed
<1>5. proc' \in [Worker -> Process]
  <2>1. [proc[w].loaded EXCEPT !.status = proc[w].pend.snap] \in Loaded
    BY <1>1, WorkingTyped DEF Loaded, Pending
  <2>2. ASSUME NEW l \in Loaded
        PROVE  [proc[w] EXCEPT !.pc = "working", !.loaded = l, !.pend = NoPending] \in Process
    BY <1>1, WorkingTyped, ProcessTyped DEF Process
  <2>3. proc' = [proc EXCEPT ![w] =
          [proc[w] EXCEPT !.pc = "working",
                          !.loaded = [proc[w].loaded EXCEPT !.status = proc[w].pend.snap],
                          !.pend = NoPending]]
    BY DEF FlushEffect
  <2> QED BY <2>1, <2>2, <2>3 DEF TypeInv, TypeOK
<1>6. ClaimInv'
  BY <1>1 DEF TypeInv, TypeOK, ClaimInv, FlushEffect, Stopped, Process
<1> QED BY <1>3, <1>4, <1>5, <1>6 DEF TypeInv, TypeOK

\* Flushing a download's identity preserves the types.
LEMMA FlushExternalTyped ==
  ASSUME TypeInv, NEW w \in Worker, FlushExternal(w)
  PROVE  TypeInv'
<1>1. proc[w].pc = "fenced" /\ proc[w].pc \notin Stopped
  BY DEF FlushExternal, CanFlush, Stopped
<1> DEFINE m == MangaOf(w)
           p == proc[w]
<1>2. /\ Written(p.pend.snap, p.loaded.status, row[m].status) \in Status
      /\ Written(p.pend.method, p.loaded.method, row[m].method) \in DownloadMethod
      /\ Written(p.pend.external, p.loaded.external, row[m].external) \in BOOLEAN
  BY <1>1, WorkingTyped, WrittenTyped DEF Pending, Row
<1>3. row' \in [Manga -> Row]
  BY <1>2 DEF TypeInv, TypeOK, FlushExternal, Row
<1>4. proc' \in [Worker -> Process]
  <2>1. [status |-> p.pend.snap, method |-> p.pend.method,
         external |-> p.pend.external] \in Loaded
    BY <1>1, WorkingTyped DEF Loaded, Pending
  <2>2. ASSUME NEW l \in Loaded
        PROVE  [p EXCEPT !.pc = "submitted", !.loaded = l, !.pend = NoPending] \in Process
    BY <1>1, WorkingTyped, ProcessTyped DEF Process
  <2>3. proc' = [proc EXCEPT ![w] =
          [p EXCEPT !.pc = "submitted",
                    !.loaded = [status |-> p.pend.snap, method |-> p.pend.method,
                                external |-> p.pend.external],
                    !.pend = NoPending]]
    BY DEF FlushExternal
  <2> QED BY <2>1, <2>2, <2>3 DEF TypeInv, TypeOK
<1>5. ClaimInv'
  BY <1>1 DEF TypeInv, TypeOK, ClaimInv, FlushExternal, Stopped, Process
<1> QED BY <1>3, <1>4, <1>5 DEF TypeInv, TypeOK, FlushExternal

\* Flushing the end of an attempt preserves the types.
LEMMA FlushFinishTyped ==
  ASSUME TypeInv, NEW w \in Worker, FlushFinish(w)
  PROVE  TypeInv'
<1>1. proc[w].pc = "fenced" /\ proc[w].pc \notin Stopped
  BY DEF FlushFinish, CanFlush, Stopped
<1> DEFINE m == MangaOf(w)
           p == proc[w]
<1>2. /\ Written(p.pend.target, p.loaded.status, row[m].status) \in Status
      /\ Written(p.pend.method, p.loaded.method, row[m].method) \in DownloadMethod
      /\ Written(p.pend.external, p.loaded.external, row[m].external) \in BOOLEAN
  BY <1>1, WorkingTyped, WrittenTyped DEF Pending, Row
<1>3. row' \in [Manga -> Row]
  BY <1>2 DEF TypeInv, TypeOK, FlushFinish, Row
<1>4. attempt' \in [AttemptId -> Attempt]
  BY DEF TypeInv, TypeOK, FlushFinish, Attempt
<1>5. proc' \in [Worker -> Process] /\ ClaimInv'
  BY EndTyped DEF FlushFinish
<1> QED BY <1>3, <1>4, <1>5 DEF TypeInv, TypeOK

\* The settlement the maintenance window makes preserves the types.
LEMMA SettleMaintenanceTyped ==
  ASSUME TypeInv, NEW w \in Worker, SettleMaintenance(w)
  PROVE  TypeInv'
<1>1. proc' \in [Worker -> Process] /\ ClaimInv'
  BY EndTyped DEF SettleMaintenance
<1>2. \/ UNCHANGED << row, attempt >>
      \/ \E target \in Status, outcome \in { "succeeded", "failed" } :
           /\ row' = [row EXCEPT ![MangaOf(w)].status = target,
                                 ![MangaOf(w)].active = None,
                                 ![MangaOf(w)].lease = "none"]
           /\ attempt' = [attempt EXCEPT ![Claimed(w)].state = outcome]
  BY Zenon DEF SettleMaintenance
<1>3. CASE UNCHANGED << row, attempt >>
  BY <1>1, <1>3 DEF TypeInv, TypeOK
<1>4. ASSUME NEW target \in Status, NEW outcome \in { "succeeded", "failed" },
             row' = [row EXCEPT ![MangaOf(w)].status = target,
                                ![MangaOf(w)].active = None,
                                ![MangaOf(w)].lease = "none"],
             attempt' = [attempt EXCEPT ![Claimed(w)].state = outcome]
      PROVE  TypeInv'
  <2>1. row' \in [Manga -> Row]
    BY <1>4 DEF TypeInv, TypeOK, Row
  <2>2. attempt' \in [AttemptId -> Attempt]
    BY <1>4 DEF TypeInv, TypeOK, Attempt
  <2> QED BY <1>1, <2>1, <2>2 DEF TypeInv, TypeOK
<1> QED BY <1>2, <1>3, <1>4

\* The Web, the Supervisor and the clock.
LEMMA RowStepTyped ==
  ASSUME TypeInv, NEW m \in Manga,
         \/ LeaseExpires(m) \/ WebAction(m) \/ OverrideStatus(m)
         \/ ReleaseExpiredLease(m) \/ CompleteCancellation(m)
  PROVE  TypeInv'
<1>1. row[m] \in Row
  BY DEF TypeInv, TypeOK
<1>2. CASE LeaseExpires(m)
  BY <1>2 DEF LeaseExpires, TypeInv, TypeOK, ClaimInv, Row
<1>3. CASE WebAction(m)
  <2>1. WebTargets(row[m].status) \subseteq Status
    BY <1>1, WebTargetTyped DEF Row
  <2>2. row' \in [Manga -> Row]
    BY <1>3, <2>1 DEF WebAction, TypeInv, TypeOK, Row
  <2> QED BY <1>3, <2>2 DEF WebAction, TypeInv, TypeOK, ClaimInv
<1>4. CASE OverrideStatus(m)
  <2>1. PICK target \in ManualStatus, method \in DownloadMethod :
          row' = [row EXCEPT ![m].status = target, ![m].method = method,
                             ![m].external = @ /\ method = row[m].method]
    BY <1>1, <1>4 DEF OverrideStatus, Row, DownloadMethod
  <2>2. target \in Status
    BY DEF ManualStatus, Status
  <2>3. (row[m].external /\ method = row[m].method) \in BOOLEAN
    BY <1>1 DEF Row
  <2>4. row' \in [Manga -> Row]
    BY <2>1, <2>2, <2>3 DEF TypeInv, TypeOK, Row
  <2> QED BY <1>4, <2>4 DEF OverrideStatus, TypeInv, TypeOK, ClaimInv
<1>5. CASE ReleaseExpiredLease(m)
  BY <1>5 DEF ReleaseExpiredLease, TypeInv, TypeOK, ClaimInv, Row, Attempt, Status
<1>6. CASE CompleteCancellation(m)
  BY <1>6 DEF CompleteCancellation, TypeInv, TypeOK, ClaimInv, Row, Status
<1> QED BY <1>2, <1>3, <1>4, <1>5, <1>6

\* Every step of the system preserves the types.
LEMMA TypeInvInductive == TypeInv /\ [Next]_vars => TypeInv'
<1> SUFFICES ASSUME TypeInv, [Next]_vars PROVE TypeInv'
  OBVIOUS
<1>1. ASSUME NEW w \in Worker, NEW m \in Manga, NEW op \in Scheduled,
             NEW a \in AttemptId, Claim(w, m, op, a)
      PROVE  TypeInv'
  BY <1>1, ScheduledAssumption, ClaimTyped
<1>2. ASSUME NEW w \in Worker, Step(w)
      PROVE  TypeInv'
  BY <1>2, LoadTyped, FenceEffectTyped, FenceExternalTyped, FenceFinishTyped,
     FenceLostTyped, EscapeTyped, FlushEffectTyped, FlushExternalTyped,
     FlushFinishTyped DEF Step
<1>3. ASSUME NEW w \in Worker, Renew(w) \/ Crash(w) \/ Reap(w) \/ SettleMaintenance(w)
      PROVE  TypeInv'
  BY <1>3, RenewTyped, EscapeTyped, SettleMaintenanceTyped
<1>4. ASSUME NEW m \in Manga,
             \/ LeaseExpires(m) \/ WebAction(m) \/ OverrideStatus(m)
             \/ ReleaseExpiredLease(m) \/ CompleteCancellation(m)
      PROVE  TypeInv'
  BY <1>4, RowStepTyped
<1>5. CASE UNCHANGED vars
  BY <1>5 DEF vars, TypeInv, TypeOK, ClaimInv
<1> QED BY <1>1, <1>2, <1>3, <1>4, <1>5 DEF Next

(***************************************************************************)
(* Type correctness, and that a process works for an attempt exactly while *)
(* it runs, whatever the administrator releases.                           *)
(***************************************************************************)
THEOREM TypeCorrect == Spec => []TypeOK
<1>1. Init => TypeInv
  BY ProcessTyped DEF Init, TypeInv, TypeOK, ClaimInv, Row, Status, DownloadMethod,
                      IdleProcess, Stopped
<1>2. TypeInv => TypeOK
  BY DEF TypeInv
<1> QED BY <1>1, <1>2, TypeInvInductive, PTL DEF Spec

----------------------------------------------------------------------------
(***************************************************************************)
(* The lease protocol, when a lease is released only after its process has *)
(* stopped.  AttemptHoldsItsRow is not inductive: that a flush frees the   *)
(* row of its own attempt also needs the attempt of every live process to  *)
(* be running, and no two processes to work for one attempt.               *)
(***************************************************************************)
HolderRuns == \A w \in Worker : proc[w].claim # None => attempt[proc[w].claim].state = "running"

ClaimsDiffer ==
  \A v, w \in Worker : v # w /\ proc[v].claim # None => proc[v].claim # proc[w].claim

LeaseInv == TypeInv /\ AttemptHoldsItsRow /\ HolderRuns /\ ClaimsDiffer

\* A process at work holds the row of its attempt.
LEMMA WorkingHolds ==
  ASSUME LeaseInv, NEW w \in Worker, proc[w].claim # None
  PROVE  Holds(w) /\ Claimed(w) \in AttemptId /\ MangaOf(w) \in Manga
<1>1. Claimed(w) \in AttemptId
  BY DEF LeaseInv, TypeInv, TypeOK, Process, Claimed
<1> QED BY <1>1 DEF LeaseInv, TypeInv, TypeOK, AttemptHoldsItsRow, HolderRuns, Holds,
                    Claimed, MangaOf, Attempt

\* The steps that settle nothing and claim nothing.
LEMMA QuietStep ==
  ASSUME LeaseInv, TypeInv',
         \A m \in Manga : /\ row'[m].active = row[m].active
                          /\ row'[m].lease = "none" <=> row[m].lease = "none",
         \A a \in AttemptId : /\ attempt'[a].state = attempt[a].state
                              /\ attempt'[a].manga = attempt[a].manga,
         \A w \in Worker : proc'[w].claim \in { proc[w].claim, None }
  PROVE  LeaseInv'
<1>1. AttemptHoldsItsRow'
  BY NoneIsNoAttempt DEF LeaseInv, TypeInv, TypeOK, AttemptHoldsItsRow, Row, Attempt
<1>2. HolderRuns'
  BY DEF LeaseInv, TypeInv, TypeOK, HolderRuns, Process
<1>3. ClaimsDiffer'
  BY DEF LeaseInv, ClaimsDiffer
<1> QED BY <1>1, <1>2, <1>3 DEF LeaseInv

\* The step that settles the attempt holding m and frees the row.
LEMMA SettlingStep ==
  ASSUME LeaseInv, TypeInv', NEW m \in Manga, NEW a \in AttemptId,
         NEW outcome \in { "succeeded", "failed", "abandoned" },
         row[m].active = a,
         row'[m].active = None, row'[m].lease = "none",
         \A n \in Manga \ { m } : row'[n] = row[n],
         attempt' = [attempt EXCEPT ![a].state = outcome],
         \A w \in Worker : /\ proc'[w].claim \in { proc[w].claim, None }
                           /\ proc[w].claim = a => proc'[w].claim = None
  PROVE  LeaseInv'
<1>1. attempt[a].manga = m /\ attempt[a].state = "running"
  BY NoneIsNoAttempt DEF LeaseInv, AttemptHoldsItsRow
<1>2. AttemptHoldsItsRow'
  <2>1. /\ attempt'[a].state # "running" /\ attempt'[a].manga = m
        /\ \A b \in AttemptId \ { a } : attempt'[b] = attempt[b]
    BY <1>1 DEF LeaseInv, TypeInv, TypeOK, Attempt
  <2>2. \A n \in Manga \ { m } : row[n].active # a
    BY <1>1, NoneIsNoAttempt DEF LeaseInv, AttemptHoldsItsRow
  <2>3. \A b \in AttemptId \ { a } : attempt[b].state = "running" => attempt[b].manga # m
    BY DEF LeaseInv, AttemptHoldsItsRow
  <2>4. \A n \in Manga : row[n].active \in AttemptId \cup { None }
    BY DEF LeaseInv, TypeInv, TypeOK, Row
  <2>5. \A b \in AttemptId : attempt[b].manga \in Manga
    BY DEF LeaseInv, TypeInv, TypeOK, Attempt
  <2> QED BY <2>1, <2>2, <2>3, <2>4, <2>5, NoneIsNoAttempt DEF LeaseInv, AttemptHoldsItsRow
<1>3. HolderRuns'
  BY NoneIsNoAttempt DEF LeaseInv, TypeInv, TypeOK, HolderRuns, Process, Attempt
<1>4. ClaimsDiffer'
  BY DEF LeaseInv, ClaimsDiffer
<1> QED BY <1>2, <1>3, <1>4 DEF LeaseInv

\* A claim gives a free row to a new attempt, and to a process that had none.
LEMMA ClaimLease ==
  ASSUME LeaseInv, NEW w \in Worker, NEW m \in Manga, NEW op \in Operation,
         NEW a \in AttemptId, Claim(w, m, op, a)
  PROVE  LeaseInv'
<1>1. TypeInv'
  BY ClaimTyped DEF LeaseInv
<1>2. row[m].active = None /\ attempt[a].state = "unused" /\ proc[w].claim = None
  BY DEF LeaseInv, TypeInv, ClaimInv, AttemptHoldsItsRow, Claim, Claimable, Stopped
<1>3. \A v \in Worker : proc[v].claim # a
  BY <1>2, NoneIsNoAttempt DEF LeaseInv, HolderRuns
<1>4. AttemptHoldsItsRow'
  <2>1. /\ row'[m].active = a /\ row'[m].lease = "live"
        /\ attempt'[a].state = "running" /\ attempt'[a].manga = m
    BY DEF Claim, LeaseInv, TypeInv, TypeOK, Row
  <2>2. /\ \A n \in Manga \ { m } : row'[n] = row[n]
        /\ \A b \in AttemptId \ { a } : attempt'[b] = attempt[b]
    BY DEF Claim, LeaseInv, TypeInv, TypeOK
  <2>3. \A n \in Manga : row[n].active # a
    BY <1>2, NoneIsNoAttempt DEF LeaseInv, AttemptHoldsItsRow
  <2>4. \A b \in AttemptId \ { a } : attempt[b].state = "running" => attempt[b].manga # m
    BY <1>2, NoneIsNoAttempt DEF LeaseInv, AttemptHoldsItsRow
  <2>5. \A n \in Manga : row[n].active \in AttemptId \cup { None }
    BY DEF LeaseInv, TypeInv, TypeOK, Row
  <2>6. \A b \in AttemptId : attempt[b].manga \in Manga
    BY DEF LeaseInv, TypeInv, TypeOK, Attempt
  <2> QED BY <2>1, <2>2, <2>3, <2>4, <2>5, <2>6, NoneIsNoAttempt
          DEF LeaseInv, AttemptHoldsItsRow
<1>5. /\ proc'[w].claim = a
      /\ \A v \in Worker \ { w } : proc'[v] = proc[v]
  BY DEF Claim, LeaseInv, TypeInv, TypeOK, IdleProcess
<1>6. HolderRuns'
  BY <1>3, <1>5 DEF Claim, LeaseInv, TypeInv, TypeOK, HolderRuns, Process
<1>7. ClaimsDiffer'
  BY <1>3, <1>5 DEF LeaseInv, ClaimsDiffer
<1> QED BY <1>1, <1>4, <1>6, <1>7 DEF LeaseInv

\* Loads and fenced reads change no row and settle nothing.
LEMMA ReadLease ==
  ASSUME LeaseInv, NEW w \in Worker,
         \/ Load(w) \/ FenceEffect(w) \/ FenceExternal(w) \/ FenceFinish(w)
         \/ Escape(w) \/ Crash(w) \/ Reap(w)
  PROVE  LeaseInv'
<1>1. TypeInv'
  BY LoadTyped, FenceEffectTyped, FenceExternalTyped, FenceFinishTyped, EscapeTyped
     DEF LeaseInv
<1>2. UNCHANGED << row, attempt >>
  BY DEF Load, FenceEffect, FenceExternal, FenceFinish, Escape, Crash, Reap
<1>3. \A v \in Worker : proc'[v].claim \in { proc[v].claim, None }
  <2>1. CASE Load(w)
    BY <2>1 DEF LeaseInv, TypeInv, TypeOK, Process, Load
  <2>2. CASE FenceEffect(w)
    BY <2>2 DEF LeaseInv, TypeInv, TypeOK, Process, FenceEffect
  <2>3. CASE FenceExternal(w)
    <3>1. \E pend : proc' = [proc EXCEPT ![w].pc = "fenced", ![w].pend = pend]
      BY <2>3, Zenon DEF FenceExternal
    <3> QED BY <3>1 DEF LeaseInv, TypeInv, TypeOK, Process
  <2>4. CASE FenceFinish(w)
    <3>1. \E pend : proc' = [proc EXCEPT ![w].pc = "fenced", ![w].pend = pend]
      BY <2>4, Zenon DEF FenceFinish, StageFinish
    <3> QED BY <3>1 DEF LeaseInv, TypeInv, TypeOK, Process
  <2>5. CASE Escape(w) \/ Crash(w) \/ Reap(w)
    BY <2>5 DEF LeaseInv, TypeInv, TypeOK, Escape, Crash, Reap,
                IdleProcess, ExitedProcess, FailedProcess
  <2> QED BY <2>1, <2>2, <2>3, <2>4, <2>5
<1> QED BY <1>1, <1>2, <1>3, QuietStep

\* The flushes of an effect mark and of an identity keep the row's holder.
LEMMA WriteLease ==
  ASSUME LeaseInv, NEW w \in Worker, Renew(w) \/ FlushEffect(w) \/ FlushExternal(w)
  PROVE  LeaseInv'
<1>1. CASE Renew(w)
  <2>1. proc[w].claim # None
    BY <1>1 DEF Renew, LeaseInv, TypeInv, ClaimInv, Stopped
  <2>2. row[MangaOf(w)].lease # "none"
    BY <2>1, WorkingHolds DEF LeaseInv, AttemptHoldsItsRow, Holds, Claimed
  <2>3. TypeInv'
    BY <1>1, RenewTyped DEF LeaseInv
  <2> QED BY <1>1, <2>2, <2>3, QuietStep DEF Renew, LeaseInv, TypeInv, TypeOK, Row
<1>2. CASE FlushEffect(w)
  <2>1. TypeInv'
    BY <1>2, FlushEffectTyped DEF LeaseInv
  <2>2. \A m \in Manga : row'[m].active = row[m].active /\ row'[m].lease = row[m].lease
    BY <1>2 DEF FlushEffect, LeaseInv, TypeInv, TypeOK, Row
  <2>3. \A a \in AttemptId : /\ attempt'[a].state = attempt[a].state
                             /\ attempt'[a].manga = attempt[a].manga
    BY <1>2 DEF FlushEffect, LeaseInv, TypeInv, TypeOK, Attempt
  <2>4. \A v \in Worker : proc'[v].claim = proc[v].claim
    BY <1>2 DEF FlushEffect, LeaseInv, TypeInv, TypeOK, Process
  <2> QED BY <2>1, <2>2, <2>3, <2>4, QuietStep
<1>3. CASE FlushExternal(w)
  <2>1. TypeInv'
    BY <1>3, FlushExternalTyped DEF LeaseInv
  <2>2. \A m \in Manga : row'[m].active = row[m].active /\ row'[m].lease = row[m].lease
    BY <1>3 DEF FlushExternal, LeaseInv, TypeInv, TypeOK, Row
  <2>3. \A v \in Worker : proc'[v].claim = proc[v].claim
    BY <1>3 DEF FlushExternal, LeaseInv, TypeInv, TypeOK, Process
  <2> QED BY <1>3, <2>1, <2>2, <2>3, QuietStep DEF FlushExternal
<1> QED BY <1>1, <1>2, <1>3

\* The flush of finish() settles the attempt that holds the row.
LEMMA FlushFinishLease ==
  ASSUME LeaseInv, NEW w \in Worker, FlushFinish(w)
  PROVE  LeaseInv'
<1>1. proc[w].claim # None
  BY DEF FlushFinish, CanFlush, LeaseInv, TypeInv, ClaimInv, Stopped
<1>2. Holds(w) /\ Claimed(w) \in AttemptId /\ MangaOf(w) \in Manga
  BY <1>1, WorkingHolds
<1>3. TypeInv'
  BY FlushFinishTyped DEF LeaseInv
<1> DEFINE m == MangaOf(w)
           a == Claimed(w)
           outcome == IF proc[w].pend.error THEN "failed" ELSE "succeeded"
<1>4. /\ row'[m].active = None /\ row'[m].lease = "none"
      /\ \A n \in Manga \ { m } : row'[n] = row[n]
  BY <1>2 DEF FlushFinish, LeaseInv, TypeInv, TypeOK
<1>5. attempt' = [attempt EXCEPT ![a].state = outcome]
  BY DEF FlushFinish, Claimed
<1>6. \A v \in Worker : /\ proc'[v].claim \in { proc[v].claim, None }
                        /\ proc[v].claim = a => proc'[v].claim = None
  BY <1>1 DEF FlushFinish, LeaseInv, ClaimsDiffer, TypeInv, TypeOK, IdleProcess, Claimed
<1>7. row[m].active = a /\ outcome \in { "succeeded", "failed", "abandoned" }
  BY <1>2 DEF Holds
<1> HIDE DEF m, a, outcome
<1>8. m \in Manga /\ a \in AttemptId
  BY <1>2 DEF m, a
<1> QED BY <1>3, <1>4, <1>5, <1>6, <1>7, <1>8, SettlingStep

\* So does the maintenance window's settlement, or it changes nothing.
LEMMA SettleMaintenanceLease ==
  ASSUME LeaseInv, NEW w \in Worker, SettleMaintenance(w)
  PROVE  LeaseInv'
<1>1. proc[w].claim # None
  BY DEF SettleMaintenance, LeaseInv, TypeInv, ClaimInv, Stopped
<1>2. Holds(w) /\ Claimed(w) \in AttemptId /\ MangaOf(w) \in Manga
  BY <1>1, WorkingHolds
<1>3. TypeInv'
  BY SettleMaintenanceTyped DEF LeaseInv
<1> DEFINE m == MangaOf(w)
           a == Claimed(w)
<1>4. \E target \in Status, outcome \in { "succeeded", "failed" } :
        /\ row' = [row EXCEPT ![m].status = target, ![m].active = None,
                              ![m].lease = "none"]
        /\ attempt' = [attempt EXCEPT ![a].state = outcome]
  BY <1>2, Zenon DEF SettleMaintenance
<1>5. PICK outcome \in { "succeeded", "failed" } :
        attempt' = [attempt EXCEPT ![a].state = outcome]
  BY <1>4
<1>6. /\ row'[m].active = None /\ row'[m].lease = "none"
      /\ \A n \in Manga \ { m } : row'[n] = row[n]
  BY <1>2, <1>4 DEF LeaseInv, TypeInv, TypeOK, Row
<1>7. \A v \in Worker : /\ proc'[v].claim \in { proc[v].claim, None }
                        /\ proc[v].claim = a => proc'[v].claim = None
  BY <1>1 DEF SettleMaintenance, LeaseInv, ClaimsDiffer, TypeInv, TypeOK,
              IdleProcess, ExitedProcess, Claimed
<1>8. row[m].active = a
  BY <1>2 DEF Holds
<1> HIDE DEF m, a
<1>9. m \in Manga /\ a \in AttemptId
  BY <1>2 DEF m, a
<1> QED BY <1>3, <1>5, <1>6, <1>7, <1>8, <1>9, SettlingStep

\* The Web and the Supervisor keep rows and attempts in step: a release settles
\* the attempt it takes the row from, the others leave the row's holder alone.
LEMMA RowStepLease ==
  ASSUME LeaseInv, ReleaseOnlyStopped, NEW m \in Manga,
         \/ LeaseExpires(m) \/ WebAction(m) \/ OverrideStatus(m)
         \/ ReleaseExpiredLease(m) \/ CompleteCancellation(m)
  PROVE  LeaseInv'
<1>1. TypeInv'
  BY RowStepTyped DEF LeaseInv
<1>2. CASE LeaseExpires(m) \/ WebAction(m) \/ OverrideStatus(m) \/ CompleteCancellation(m)
  <2>1. UNCHANGED << attempt, proc >>
    BY <1>2 DEF LeaseExpires, WebAction, OverrideStatus, CompleteCancellation
  <2>2. \A n \in Manga : /\ row'[n].active = row[n].active
                         /\ row'[n].lease = "none" <=> row[n].lease = "none"
    <3>1. CASE LeaseExpires(m)
      BY <3>1 DEF LeaseExpires, LeaseInv, TypeInv, TypeOK, Row
    <3>2. CASE WebAction(m)
      BY <3>2 DEF WebAction, LeaseInv, TypeInv, TypeOK, Row
    <3>3. CASE OverrideStatus(m)
      <4>1. PICK target \in ManualStatus, method \in DownloadMethod :
              row' = [row EXCEPT ![m].status = target, ![m].method = method,
                                 ![m].external = @ /\ method = row[m].method]
        <5>1. row[m] \in Row
          BY DEF LeaseInv, TypeInv, TypeOK
        <5> QED BY <3>3, <5>1 DEF OverrideStatus, Row, DownloadMethod
      <4> QED BY <4>1 DEF LeaseInv, TypeInv, TypeOK, Row
    <3>4. CASE CompleteCancellation(m)
      BY <3>4 DEF CompleteCancellation, LeaseInv, TypeInv, TypeOK, Row
    <3> QED BY <1>2, <3>1, <3>2, <3>3, <3>4
  <2> QED BY <1>1, <2>1, <2>2, QuietStep
<1>3. CASE ReleaseExpiredLease(m)
  <2>1. row[m].active \in AttemptId
    BY <1>3 DEF ReleaseExpiredLease, LeaseInv, TypeInv, TypeOK, Row
  <2>2. /\ row'[m].active = None /\ row'[m].lease = "none"
        /\ \A n \in Manga \ { m } : row'[n] = row[n]
    BY <1>3 DEF ReleaseExpiredLease, LeaseInv, TypeInv, TypeOK, Row
  <2>3. attempt' = [attempt EXCEPT ![row[m].active].state = "abandoned"]
    BY <1>3 DEF ReleaseExpiredLease
  <2>4. \A v \in Worker : proc'[v].claim = proc[v].claim /\ proc[v].claim # row[m].active
    BY <1>3 DEF ReleaseExpiredLease, Held
  <2> QED BY <1>1, <2>1, <2>2, <2>3, <2>4, SettlingStep
<1> QED BY <1>2, <1>3

\* Every step preserves the lease invariant, given the release discipline.
LEMMA LeaseInvInductive ==
  ASSUME ReleaseOnlyStopped, LeaseInv, [Next]_vars
  PROVE  LeaseInv'
<1>1. ASSUME NEW w \in Worker, NEW m \in Manga, NEW op \in Scheduled,
             NEW a \in AttemptId, Claim(w, m, op, a)
      PROVE  LeaseInv'
  BY <1>1, ScheduledAssumption, ClaimLease
<1>2. ASSUME NEW w \in Worker, FenceLost(w)
      PROVE  FALSE
  <2>1. proc[w].claim # None
    BY <1>2 DEF FenceLost, LeaseInv, TypeInv, ClaimInv, Stopped
  <2> QED BY <1>2, <2>1, WorkingHolds DEF FenceLost
<1>3. ASSUME NEW w \in Worker, Step(w)
      PROVE  LeaseInv'
  BY <1>2, <1>3, ReadLease, WriteLease, FlushFinishLease DEF Step
<1>4. ASSUME NEW w \in Worker, Renew(w) \/ Crash(w) \/ Reap(w) \/ SettleMaintenance(w)
      PROVE  LeaseInv'
  BY <1>4, ReadLease, WriteLease, SettleMaintenanceLease
<1>5. ASSUME NEW m \in Manga,
             \/ LeaseExpires(m) \/ WebAction(m) \/ OverrideStatus(m)
             \/ ReleaseExpiredLease(m) \/ CompleteCancellation(m)
      PROVE  LeaseInv'
  BY <1>5, RowStepLease
<1>6. CASE UNCHANGED vars
  BY <1>6 DEF vars, LeaseInv, TypeInv, TypeOK, ClaimInv, AttemptHoldsItsRow, HolderRuns,
              ClaimsDiffer
<1> QED BY <1>1, <1>3, <1>4, <1>5, <1>6 DEF Next

\* It holds before any row has been claimed.
LEMMA InitLease == Init => LeaseInv
<1> SUFFICES ASSUME Init PROVE LeaseInv
  OBVIOUS
<1>1. TypeInv
  BY ProcessTyped DEF Init, TypeInv, TypeOK, ClaimInv, Row, Status, DownloadMethod,
                      IdleProcess, Stopped
<1> QED BY <1>1 DEF Init, LeaseInv, AttemptHoldsItsRow, HolderRuns, ClaimsDiffer,
                    NoAttempt, IdleProcess

(***************************************************************************)
(* The inductive invariant holds throughout, when nobody releases the      *)
(* lease of a process that still runs.                                     *)
(***************************************************************************)
THEOREM LeaseCorrect == ReleaseOnlyStopped => (Spec => []LeaseInv)
<1> SUFFICES ASSUME ReleaseOnlyStopped PROVE Spec => []LeaseInv
  OBVIOUS
<1>1. Init => LeaseInv
  BY InitLease
<1>2. LeaseInv /\ [Next]_vars => LeaseInv'
  BY LeaseInvInductive
<1> QED BY <1>1, <1>2, PTL DEF Spec

(***************************************************************************)
(* An attempt runs exactly while it holds its row, and a row is leased     *)
(* exactly while an attempt holds it.                                      *)
(***************************************************************************)
THEOREM RowAndAttemptAgree == ReleaseOnlyStopped => (Spec => []AttemptHoldsItsRow)
<1>1. LeaseInv => AttemptHoldsItsRow
  BY DEF LeaseInv
<1> QED BY <1>1, LeaseCorrect, PTL

\* No two live processes work on one manga.
THEOREM MutualExclusion == ReleaseOnlyStopped => (Spec => []OneExecutor)
<1>1. LeaseInv => OneExecutor
  <2> SUFFICES ASSUME LeaseInv, NEW v \in Worker, NEW w \in Worker, v # w,
                      proc[v].claim # None, proc[w].claim # None,
                      MangaOf(v) = MangaOf(w)
               PROVE  FALSE
    BY DEF OneExecutor
  <2>1. Claimed(v) = Claimed(w)
    BY WorkingHolds DEF Holds
  <2> QED BY <2>1 DEF LeaseInv, ClaimsDiffer, Claimed
<1> QED BY <1>1, LeaseCorrect, PTL

(***************************************************************************)
(* Whatever a process flushes behind its fence goes to a row it holds: the *)
(* discipline of the release is what makes the unlocked fence sufficient.  *)
(***************************************************************************)
THEOREM FencedWritesAreOwn == ReleaseOnlyStopped => (Spec => StaleProcessWritesNothing)
<1> DEFINE A == \A w \in Worker :
                  proc[w].pc = "fenced" /\ proc'[w].pc # "fenced" /\ row' # row =>
                    row[MangaOf(w)].active = proc[w].claim
<1>1. LeaseInv => A
  <2> SUFFICES ASSUME LeaseInv, NEW w \in Worker, proc[w].pc = "fenced"
               PROVE  row[MangaOf(w)].active = proc[w].claim
    OBVIOUS
  <2>1. proc[w].claim # None
    BY DEF LeaseInv, TypeInv, ClaimInv, Stopped
  <2> QED BY <2>1, WorkingHolds DEF Holds, Claimed
<1>2. LeaseInv /\ [Next]_vars => [A]_vars
  BY <1>1
<1> HIDE DEF A
<1>3. ReleaseOnlyStopped => (Spec => [][A]_vars)
  BY <1>2, LeaseCorrect, PTL DEF Spec
<1> QED BY <1>3 DEF StaleProcessWritesNothing, A

\* The steps that change which attempt holds a row, and how.
LEMMA HolderSteps ==
  ASSUME ReleaseOnlyStopped, LeaseInv, [Next]_vars, NEW m \in Manga,
         row'[m].active # row[m].active
  PROVE  \/ row[m].lease = "none"
         \/ /\ row'[m].active = None
            /\ row'[m].status = "manual_review" \/ Held(row[m].active)
<1>0. row \in [Manga -> Row]
  BY DEF LeaseInv, TypeInv, TypeOK
<1>1. ASSUME NEW w \in Worker, NEW n \in Manga, NEW op \in Scheduled,
             NEW a \in AttemptId, Claim(w, n, op, a)
      PROVE  row[m].lease = "none"
  BY <1>0, <1>1 DEF Claim, Claimable, Row
<1>2. ASSUME NEW w \in Worker, FlushFinish(w) \/ SettleMaintenance(w)
      PROVE  row'[m].active = None /\ Held(row[m].active)
  <2>1. proc[w].claim # None
    BY <1>2 DEF FlushFinish, CanFlush, SettleMaintenance, LeaseInv, TypeInv, ClaimInv, Stopped
  <2>2. Holds(w) /\ MangaOf(w) \in Manga
    BY <2>1, WorkingHolds
  <2>3. m = MangaOf(w) /\ row'[m].active = None
    <3>1. CASE FlushFinish(w)
      BY <1>0, <3>1, <2>2 DEF FlushFinish, Row
    <3>2. CASE SettleMaintenance(w)
      <4>1. \E target \in Status :
              row' = [row EXCEPT ![MangaOf(w)].status = target,
                                 ![MangaOf(w)].active = None,
                                 ![MangaOf(w)].lease = "none"]
        BY <3>2, <2>2, Zenon DEF SettleMaintenance
      <4> QED BY <4>1, <1>0, <2>2 DEF Row
    <3> QED BY <1>2, <3>1, <3>2
  <2> QED BY <2>2, <2>3 DEF Holds, Held, Claimed
<1>3. ASSUME NEW w \in Worker, Renew(w) \/ FlushEffect(w) \/ FlushExternal(w)
      PROVE  FALSE
  <2>1. CASE Renew(w)
    BY <2>1, <1>0 DEF Renew, Row
  <2>2. CASE FlushEffect(w)
    BY <2>2, <1>0 DEF FlushEffect, Row
  <2>3. CASE FlushExternal(w)
    BY <2>3, <1>0 DEF FlushExternal, Row
  <2> QED BY <1>3, <2>1, <2>2, <2>3
<1>4. ASSUME NEW w \in Worker,
             \/ Load(w) \/ FenceEffect(w) \/ FenceExternal(w) \/ FenceFinish(w)
             \/ FenceLost(w) \/ Escape(w) \/ Crash(w) \/ Reap(w)
      PROVE  FALSE
  BY <1>4 DEF Load, FenceEffect, FenceExternal, FenceFinish, FenceLost, Escape, Crash, Reap
<1>5. ASSUME NEW n \in Manga, ReleaseExpiredLease(n)
      PROVE  row'[m].active = None /\ row'[m].status = "manual_review"
  BY <1>0, <1>5 DEF ReleaseExpiredLease, Row
<1>6. ASSUME NEW n \in Manga,
             LeaseExpires(n) \/ WebAction(n) \/ OverrideStatus(n) \/ CompleteCancellation(n)
      PROVE  FALSE
  <2>1. CASE LeaseExpires(n)
    BY <2>1, <1>0 DEF LeaseExpires, Row
  <2>2. CASE WebAction(n)
    BY <2>2, <1>0 DEF WebAction, Row
  <2>3. CASE OverrideStatus(n)
    <3>1. row[n] \in Row
      BY <1>0
    <3>2. PICK target \in ManualStatus, method \in DownloadMethod :
            row' = [row EXCEPT ![n].status = target, ![n].method = method,
                               ![n].external = @ /\ method = row[n].method]
      BY <2>3, <3>1 DEF OverrideStatus, Row, DownloadMethod
    <3> QED BY <3>2, <1>0 DEF Row
  <2>4. CASE CompleteCancellation(n)
    BY <2>4, <1>0 DEF CompleteCancellation, Row
  <2> QED BY <1>6, <2>1, <2>2, <2>3, <2>4
<1>7. CASE UNCHANGED vars
  BY <1>7 DEF vars
<1> QED BY <1>1, <1>2, <1>3, <1>4, <1>5, <1>6, <1>7 DEF Next, Step

(***************************************************************************)
(* An expired lease is never handed on: its own process settles it, or an  *)
(* administrator sends the row to review.                                  *)
(***************************************************************************)
THEOREM ExpiredLeaseWaits == ReleaseOnlyStopped => (Spec => NoAutomaticTakeover)
<1> SUFFICES ASSUME ReleaseOnlyStopped PROVE Spec => NoAutomaticTakeover
  OBVIOUS
<1> DEFINE A == \A m \in Manga :
                  row[m].lease = "expired" /\ row'[m].active # row[m].active =>
                    /\ row'[m].active = None
                    /\ \/ row'[m].status = "manual_review"
                       \/ Held(row[m].active)
<1>1. LeaseInv /\ [Next]_vars => A
  BY HolderSteps
<1>2. LeaseInv /\ [Next]_vars => [A]_vars
  BY <1>1
<1> HIDE DEF A
<1>3. Spec => [][A]_vars
  BY <1>2, LeaseCorrect, PTL DEF Spec
<1> QED BY <1>3 DEF NoAutomaticTakeover, A

----------------------------------------------------------------------------
(***************************************************************************)
(* TaskLease implements RowOwnership.                                      *)
(***************************************************************************)
Holder == [m \in Manga |-> row[m].active]
Fate == [a \in AttemptId |-> attempt[a].state]

\* A step that changes no holder and no fate maps to a stutter.
LEMMA StutterStep ==
  ASSUME \A m \in Manga : row'[m].active = row[m].active,
         \A a \in AttemptId : attempt'[a].state = attempt[a].state
  PROVE  UNCHANGED << Holder, Fate >>
BY DEF Holder, Fate

\* The step that settles the attempt holding m maps to a Settle.
LEMMA SettleMaps ==
  ASSUME LeaseInv, NEW m \in Manga, NEW a \in AttemptId,
         NEW outcome \in { "succeeded", "failed", "abandoned" },
         row[m].active = a, row'[m].active = None,
         \A n \in Manga \ { m } : row'[n].active = row[n].active,
         attempt' = [attempt EXCEPT ![a].state = outcome]
  PROVE  Ownership!Settle(m, outcome)
<1>1. attempt[a].state = "running" /\ a # None
  BY NoneIsNoAttempt DEF LeaseInv, AttemptHoldsItsRow
<1>2. Fate' = [Fate EXCEPT ![a] = outcome]
  BY DEF Fate, LeaseInv, TypeInv, TypeOK, Attempt
<1>3. Holder' = [Holder EXCEPT ![m] = None]
  BY DEF Holder
<1>4. Holder[m] = a /\ Fate[a] = "running"
  BY <1>1 DEF Holder, Fate
<1> QED BY <1>1, <1>2, <1>3, <1>4 DEF Ownership!Settle, Holder, Fate

\* A claim maps to an Acquire of the abstract specification.
LEMMA ClaimMaps ==
  ASSUME LeaseInv, NEW w \in Worker, NEW m \in Manga, NEW op \in Operation,
         NEW a \in AttemptId, Claim(w, m, op, a)
  PROVE  Ownership!Acquire(m, a)
<1>1. row[m].active = None /\ attempt[a].state = "unused"
  BY DEF LeaseInv, AttemptHoldsItsRow, Claim, Claimable
<1>2. Fate' = [Fate EXCEPT ![a] = "running"]
  BY DEF Fate, Claim, LeaseInv, TypeInv, TypeOK
<1>3. Holder' = [Holder EXCEPT ![m] = a]
  BY DEF Holder, Claim, LeaseInv, TypeInv, TypeOK, Row
<1> QED BY <1>1, <1>2, <1>3 DEF Ownership!Acquire, Holder, Fate

\* Every step maps to a step of the abstract specification or to a stutter.
LEMMA StepMaps ==
  ASSUME ReleaseOnlyStopped, LeaseInv, [Next]_vars
  PROVE  [Ownership!Next]_<< Holder, Fate >>
<1>0. /\ row \in [Manga -> Row]
      /\ attempt \in [AttemptId -> Attempt]
  BY DEF LeaseInv, TypeInv, TypeOK
<1>1. ASSUME NEW w \in Worker, NEW m \in Manga, NEW op \in Scheduled,
             NEW a \in AttemptId, Claim(w, m, op, a)
      PROVE  Ownership!Next
  BY <1>1, ScheduledAssumption, ClaimMaps DEF Ownership!Next
<1>2. ASSUME NEW w \in Worker, FlushFinish(w) \/ SettleMaintenance(w)
      PROVE  Ownership!Next
  <2>1. proc[w].claim # None
    BY <1>2 DEF FlushFinish, CanFlush, SettleMaintenance, LeaseInv, TypeInv, ClaimInv, Stopped
  <2> DEFINE m == MangaOf(w)
             a == Claimed(w)
  <2>2. Holds(w) /\ m \in Manga /\ a \in AttemptId
    BY <2>1, WorkingHolds
  <2>3. \E outcome \in { "succeeded", "failed" } :
          attempt' = [attempt EXCEPT ![a].state = outcome]
    BY <1>2, <2>2, Zenon DEF FlushFinish, SettleMaintenance, Claimed
  <2>4. row'[m].active = None /\ \A n \in Manga \ { m } : row'[n].active = row[n].active
    <3>1. CASE FlushFinish(w)
      BY <1>0, <3>1, <2>2 DEF FlushFinish, Row
    <3>2. CASE SettleMaintenance(w)
      <4>1. \E target \in Status :
              row' = [row EXCEPT ![m].status = target, ![m].active = None,
                                 ![m].lease = "none"]
        BY <3>2, <2>2, Zenon DEF SettleMaintenance
      <4> QED BY <4>1, <1>0, <2>2 DEF Row
    <3> QED BY <1>2, <3>1, <3>2
  <2>5. PICK outcome \in { "succeeded", "failed" } : Ownership!Settle(m, outcome)
    BY <2>2, <2>3, <2>4, SettleMaps DEF Holds
  <2>6. outcome \in Ownership!Settled
    BY DEF Ownership!Settled
  <2> QED BY <2>2, <2>5, <2>6 DEF Ownership!Next
<1>3. ASSUME NEW w \in Worker, Renew(w) \/ FlushEffect(w) \/ FlushExternal(w)
      PROVE  UNCHANGED << Holder, Fate >>
  <2>1. CASE Renew(w)
    BY <2>1, <1>0, StutterStep DEF Renew, Row
  <2>2. CASE FlushEffect(w)
    BY <2>2, <1>0, StutterStep DEF FlushEffect, Row, Attempt
  <2>3. CASE FlushExternal(w)
    BY <2>3, <1>0, StutterStep DEF FlushExternal, Row
  <2> QED BY <1>3, <2>1, <2>2, <2>3
<1>4. ASSUME NEW w \in Worker,
             \/ Load(w) \/ FenceEffect(w) \/ FenceExternal(w) \/ FenceFinish(w)
             \/ Escape(w) \/ Crash(w) \/ Reap(w)
      PROVE  UNCHANGED << Holder, Fate >>
  BY <1>4, StutterStep
     DEF Load, FenceEffect, FenceExternal, FenceFinish, Escape, Crash, Reap
<1>5. ASSUME NEW w \in Worker, FenceLost(w)
      PROVE  FALSE
  <2>1. proc[w].claim # None
    BY <1>5 DEF FenceLost, LeaseInv, TypeInv, ClaimInv, Stopped
  <2> QED BY <1>5, <2>1, WorkingHolds DEF FenceLost
<1>6. ASSUME NEW m \in Manga, ReleaseExpiredLease(m)
      PROVE  Ownership!Next
  <2>1. row[m].active \in AttemptId
    BY <1>0, <1>6 DEF ReleaseExpiredLease, Row
  <2>2. /\ row'[m].active = None
        /\ \A n \in Manga \ { m } : row'[n].active = row[n].active
        /\ attempt' = [attempt EXCEPT ![row[m].active].state = "abandoned"]
    BY <1>0, <1>6 DEF ReleaseExpiredLease, Row
  <2>3. Ownership!Settle(m, "abandoned")
    BY <2>1, <2>2, SettleMaps
  <2> QED BY <2>3 DEF Ownership!Next, Ownership!Settled
<1>7. ASSUME NEW m \in Manga,
             LeaseExpires(m) \/ WebAction(m) \/ OverrideStatus(m) \/ CompleteCancellation(m)
      PROVE  UNCHANGED << Holder, Fate >>
  <2>1. \A n \in Manga : row'[n].active = row[n].active
    <3>1. CASE LeaseExpires(m)
      BY <3>1, <1>0 DEF LeaseExpires, Row
    <3>2. CASE WebAction(m)
      BY <3>2, <1>0 DEF WebAction, Row
    <3>3. CASE OverrideStatus(m)
      <4>1. row[m] \in Row
        BY <1>0
      <4>2. PICK target \in ManualStatus, method \in DownloadMethod :
              row' = [row EXCEPT ![m].status = target, ![m].method = method,
                                 ![m].external = @ /\ method = row[m].method]
        BY <3>3, <4>1 DEF OverrideStatus, Row, DownloadMethod
      <4> QED BY <4>2, <1>0 DEF Row
    <3>4. CASE CompleteCancellation(m)
      BY <3>4, <1>0 DEF CompleteCancellation, Row
    <3> QED BY <1>7, <3>1, <3>2, <3>3, <3>4
  <2>2. attempt' = attempt
    BY <1>7 DEF LeaseExpires, WebAction, OverrideStatus, CompleteCancellation
  <2> QED BY <2>1, <2>2, StutterStep
<1>8. CASE UNCHANGED vars
  BY <1>8, StutterStep DEF vars
<1> QED BY <1>1, <1>2, <1>3, <1>4, <1>5, <1>6, <1>7, <1>8 DEF Next, Step

(***************************************************************************)
(* Crashes, cancellations, releases and late answers included, the row and *)
(* attempt tables do what RowOwnership promises: every step is an Acquire, *)
(* a Settle or changes no ownership.                                       *)
(***************************************************************************)
THEOREM OwnershipImplemented == ReleaseOnlyStopped => (Spec => ImplementsRowOwnership)
<1> SUFFICES ASSUME ReleaseOnlyStopped PROVE Spec => ImplementsRowOwnership
  OBVIOUS
<1>1. Init => Ownership!Init
  BY DEF Init, Ownership!Init, NoAttempt
<1>2. LeaseInv /\ [Next]_vars => [Ownership!Next]_<< Holder, Fate >>
  BY StepMaps
<1> QED BY <1>1, <1>2, LeaseCorrect, PTL
        DEF Spec, ImplementsRowOwnership, Ownership!Spec, Holder, Fate

----------------------------------------------------------------------------
(***************************************************************************)
(* What the unlocked fence guarantees even when leases are released under  *)
(* processes that still run.  Then neither LeaseInv nor MutualExclusion    *)
(* holds: a row may be held by an attempt other than that of a process     *)
(* that is about to write it.  What is left is what each fenced process    *)
(* has read, and that nobody else writes a row that was read FOR UPDATE.   *)
(***************************************************************************)
\* The statuses of a row held by an attempt that marks an external effect, even
\* when a stale process writes back what it has read.
EffectStatus ==
  { "details_pending", "downloading", "cancel_requested", "uploading", "uploaded",
    "outdated", "force_delete_pending" }

\* An attempt is claimed once, and a row is held by an attempt that was claimed.
ClaimedOnce ==
  /\ ClaimsDiffer
  /\ \A w \in Worker : proc[w].claim # None => attempt[proc[w].claim].state # "unused"
  /\ \A m \in Manga : row[m].active # None => attempt[row[m].active].state # "unused"

HeldStatus ==
  \A m \in Manga :
    row[m].active # None /\ attempt[row[m].active].op \notin { "validate", "prepare" }
      => row[m].status \in EffectStatus

\* What the process w has read and staged: a mark or an identity keeps the status it
\* read; the end of an attempt honours the cancellation it read; a promotion has
\* locked the row, and the row is as it read it.
Fenced(w) ==
  LET p == proc[w] IN
  /\ p.pend.kind # "finish" =>
       OpOf(w) \in EffectOperation /\ p.pend.snap \in EffectStatus /\ ~p.pend.locked
  /\ p.pend.kind = "finish" /\ p.pend.snap = "cancel_requested" =>
       p.pend.target \in { "cancelled", "manual_review" }
  /\ p.pend.kind = "finish" /\ p.pend.target = "downloaded"
       /\ OpOf(w) = "direct_download" /\ ~Polling(p.loaded) => p.pend.locked
  /\ p.pend.locked => /\ row[MangaOf(w)].active = p.claim
                      /\ row[MangaOf(w)].status = p.pend.snap
                      /\ p.pend.snap # "cancel_requested"

FenceInv ==
  /\ TypeInv /\ ClaimedOnce /\ HeldStatus
  /\ \A w \in Worker : proc[w].pc = "fenced" => Fenced(w)

\* An action button leads a row that holds a download or an upload nowhere but to
\* a cancellation, and a cancelled row nowhere.
LEMMA EffectTargets ==
  /\ WebTargets("cancel_requested") = { }
  /\ \A s \in EffectStatus : WebTargets(s) \subseteq EffectStatus
<1>1. ASSUME NEW s \in EffectStatus, NEW b \in DOMAIN WebActionEvent,
             s \in DOMAIN WebActionEvent[b]
      PROVE  s \in { "details_pending", "downloading" } /\ WebActionEvent[b][s] = "cancel"
  <2>1. b \in { "retry", "skip", "cancel", "resume", "validate", "upload",
                "confirm_uploaded" }
    BY DEF WebActionEvent
  <2>2. CASE b = "cancel"
    BY <1>1, <2>2 DEF WebActionEvent, EffectStatus
  <2>3. CASE b # "cancel"
    BY <1>1, <2>1, <2>3 DEF WebActionEvent, EffectStatus
  <2> QED BY <2>2, <2>3
<1>2. /\ TRANSITIONS["details_pending"]["cancel"] = "cancel_requested"
      /\ TRANSITIONS["downloading"]["cancel"] = "cancel_requested"
  BY DEF TRANSITIONS
<1>3. "cancel_requested" \in EffectStatus BY DEF EffectStatus
<1>4. ASSUME NEW s \in EffectStatus, NEW t \in WebTargets(s)
      PROVE  s \in { "details_pending", "downloading" } /\ t = "cancel_requested"
  BY <1>1, <1>2 DEF WebTargets
<1> QED BY <1>3, <1>4

\* What the report of a direct download turns a held row into: the next step of the
\* pipeline only by a promotion.
LEMMA DirectTarget ==
  ASSUME NEW prev \in EffectStatus, NEW o \in HandlerOutcome["direct_download"],
         NEW method, FinishTarget(prev, o, method) = "downloaded"
  PROVE  o.event = "downloaded"
<1>1. o.event \in { "none", "downloaded", "require_details", "block", "retry", "review",
                    "unavailable" }
  BY DEF HandlerOutcome, Done, Fail
<1>2. prev # "downloaded" /\ prev # "cancel_requested"
  BY DEF FinishTarget, EffectStatus
<1>3. CASE o.event = "none" BY <1>2, <1>3 DEF FinishTarget
<1>4. CASE o.event # "none" /\ ~CanTransition(prev, o.event)
  BY <1>2, <1>4 DEF FinishTarget
<1>5. CASE o.event # "none" /\ CanTransition(prev, o.event)
  <2>1. TransitionTarget(prev, o.event) = "downloaded" BY <1>2, <1>5 DEF FinishTarget
  <2>2. CASE prev = "details_pending"
    BY <1>1, <1>5, <2>1, <2>2 DEF CanTransition, TransitionTarget, TRANSITIONS
  <2>3. CASE prev = "downloading"
    BY <1>1, <1>5, <2>1, <2>3 DEF CanTransition, TransitionTarget, TRANSITIONS
  <2>4. CASE prev = "uploading"
    BY <1>1, <1>5, <2>1, <2>4 DEF CanTransition, TransitionTarget, TRANSITIONS
  <2>5. CASE prev \in { "uploaded", "outdated", "force_delete_pending" }
    BY <1>1, <1>5, <2>1, <2>5 DEF CanTransition, TransitionTarget, TRANSITIONS
  <2> QED BY <1>2, <2>2, <2>3, <2>4, <2>5 DEF EffectStatus
<1> QED BY <1>3, <1>4, <1>5

\* How a step may change the status of the row m.
Rewrites(m) ==
  \/ row'[m].status = row[m].status
  \/ row[m].active = None /\ row'[m].active = None
  \/ row'[m].status \in WebTargets(row[m].status) /\ row[m].status # "cancel_requested"
  \/ row'[m].active = None
       /\ (row[m].status = "cancel_requested" => row'[m].status \in CancelOutcome)
  \/ \E w \in Worker :
       /\ proc[w].pc = "fenced" /\ MangaOf(w) = m
       /\ IF proc[w].pend.kind = "finish"
          THEN row'[m].status = proc[w].pend.target /\ row'[m].active = None
          ELSE row'[m].status = proc[w].pend.snap

\* A step that neither claims a row nor reads behind a fence: attempts keep what they
\* are, processes keep what they staged or leave it, and a locked row waits.
Steady ==
  /\ \A a \in AttemptId : /\ attempt'[a].op = attempt[a].op
                          /\ attempt'[a].manga = attempt[a].manga
                          /\ attempt[a].state # "unused" => attempt'[a].state # "unused"
  /\ \A m \in Manga : row'[m].active \in { row[m].active, None } /\ Rewrites(m)
  /\ \A w \in Worker :
       \/ proc'[w] = proc[w]
       \/ proc'[w].pc # "fenced" /\ proc'[w].claim \in { proc[w].claim, None }
  /\ \A w \in Worker :
       proc[w].pc = "fenced" /\ proc[w].pend.locked /\ proc'[w] = proc[w]
         => /\ row'[MangaOf(w)].active = row[MangaOf(w)].active
            /\ row'[MangaOf(w)].status = row[MangaOf(w)].status

\* Steps of a process that change no row are steady.
LEMMA SteadyAside ==
  ASSUME FenceInv, NEW w \in Worker,
         Load(w) \/ Escape(w) \/ FenceLost(w) \/ Crash(w) \/ Reap(w)
  PROVE  Steady
<1>1. UNCHANGED row
  BY DEF Load, Escape, FenceLost, Crash, Reap
<1>2. \A v \in Worker : v # w => proc'[v] = proc[v]
  BY DEF Load, Escape, FenceLost, Crash, Reap, FenceInv, TypeInv, TypeOK
<1>3. proc'[w].pc # "fenced" /\ proc'[w].claim \in { proc[w].claim, None }
  BY DEF Load, Escape, FenceLost, Crash, Reap, FenceInv, TypeInv, TypeOK, Process,
         IdleProcess, ExitedProcess, FailedProcess
<1>4. \A a \in AttemptId : /\ attempt'[a].op = attempt[a].op
                           /\ attempt'[a].manga = attempt[a].manga
                           /\ attempt[a].state # "unused" => attempt'[a].state # "unused"
  BY DEF Load, Escape, FenceLost, Crash, Reap, FenceInv, TypeInv, TypeOK, Attempt
<1>5. \A m \in Manga : row'[m].active \in { row[m].active, None } /\ Rewrites(m)
  BY <1>1 DEF Rewrites
<1> QED BY <1>1, <1>2, <1>3, <1>4, <1>5 DEF Steady

\* A process that may flush is the only one that may have locked the row.
LEMMA NobodyElse ==
  ASSUME NEW w \in Worker, ~LockedByOther(w), NEW v \in Worker, v # w,
         proc[v].pc = "fenced", proc[v].pend.locked
  PROVE  MangaOf(v) # MangaOf(w)
BY DEF LockedByOther

\* So is the renewal of a lease.
LEMMA SteadyRenew ==
  ASSUME FenceInv, NEW w \in Worker, Renew(w)
  PROVE  Steady
<1>1. \A m \in Manga : row'[m].status = row[m].status /\ row'[m].active = row[m].active
  BY DEF Renew, FenceInv, TypeInv, TypeOK, Row
<1>2. UNCHANGED << attempt, proc >> BY DEF Renew
<1>3. \A v \in Worker : proc[v].pc = "fenced" => MangaOf(v) \in Manga
  BY WorkingTyped DEF FenceInv, Stopped
<1>4. \A m \in Manga : Rewrites(m) BY <1>1 DEF Rewrites
<1> QED BY <1>1, <1>2, <1>3, <1>4 DEF Steady

\* So is every flush: the row it writes is locked by nobody else.
LEMMA SteadyFlush ==
  ASSUME FenceInv, NEW w \in Worker, FlushEffect(w) \/ FlushExternal(w) \/ FlushFinish(w)
  PROVE  Steady
<1> DEFINE m == MangaOf(w)  p == proc[w]
<1>1. proc[w].pc = "fenced" /\ ~LockedByOther(w) /\ proc[w].pc \notin Stopped
  BY DEF FlushEffect, FlushExternal, FlushFinish, CanFlush, Stopped
<1>2. /\ m \in Manga /\ Claimed(w) \in AttemptId /\ row[m] \in Row /\ p \in Process
      /\ row \in [Manga -> Row] /\ attempt \in [AttemptId -> Attempt]
      /\ proc \in [Worker -> Process] /\ p.claim = Claimed(w)
  BY <1>1, WorkingTyped DEF FenceInv, TypeInv, TypeOK, Claimed
<1>3. /\ \A v \in Worker : v # w => proc'[v] = proc[v]
      /\ \A n \in Manga : n # m => row'[n] = row[n]
  BY <1>2 DEF FlushEffect, FlushExternal, FlushFinish
<1>4. proc'[w].pc # "fenced" /\ proc'[w].claim \in { proc[w].claim, None }
  BY <1>2 DEF FlushEffect, FlushExternal, FlushFinish, Process, IdleProcess
<1>5. \A a \in AttemptId : /\ attempt'[a].op = attempt[a].op
                           /\ attempt'[a].manga = attempt[a].manga
                           /\ attempt[a].state # "unused" => attempt'[a].state # "unused"
  BY <1>2 DEF FlushEffect, FlushExternal, FlushFinish, Attempt
<1>6. row'[m].active \in { row[m].active, None } /\ Rewrites(m)
  <2>1. CASE FlushEffect(w)
    <3>1. /\ row'[m].active = row[m].active /\ p.pend.kind # "finish"
          /\ row'[m].status = Written(p.pend.snap, p.loaded.status, row[m].status)
      BY <1>2, <2>1 DEF FlushEffect, Row
    <3> QED BY <1>1, <3>1 DEF Rewrites, Written
  <2>2. CASE FlushExternal(w)
    <3>1. /\ row'[m].active = row[m].active /\ p.pend.kind # "finish"
          /\ row'[m].status = Written(p.pend.snap, p.loaded.status, row[m].status)
      BY <1>2, <2>2 DEF FlushExternal, Row
    <3> QED BY <1>1, <3>1 DEF Rewrites, Written
  <2>3. CASE FlushFinish(w)
    <3>1. /\ row'[m].active = None /\ p.pend.kind = "finish"
          /\ row'[m].status = Written(p.pend.target, p.loaded.status, row[m].status)
      BY <1>2, <2>3 DEF FlushFinish, Row
    <3> QED BY <1>1, <3>1 DEF Rewrites, Written
  <2> QED BY <2>1, <2>2, <2>3
<1>7. \A n \in Manga : row'[n].active \in { row[n].active, None } /\ Rewrites(n)
  BY <1>3, <1>6 DEF Rewrites
<1>8. ASSUME NEW v \in Worker, proc[v].pc = "fenced", proc[v].pend.locked, proc'[v] = proc[v]
      PROVE  row'[MangaOf(v)] = row[MangaOf(v)]
  <2>1. v # w BY <1>1, <1>4, <1>8
  <2>2. MangaOf(v) # m BY <1>1, <1>8, <2>1, NobodyElse
  <2>3. MangaOf(v) \in Manga BY <1>8, WorkingTyped DEF FenceInv, Stopped
  <2> QED BY <1>3, <2>2, <2>3
<1> QED BY <1>3, <1>4, <1>5, <1>7, <1>8 DEF Steady

\* So is the settlement of the maintenance window, which honours a cancellation.
LEMMA SteadySettle ==
  ASSUME FenceInv, NEW w \in Worker, SettleMaintenance(w)
  PROVE  Steady
<1> DEFINE m == MangaOf(w)  a == Claimed(w)
<1>1. proc[w].pc \notin Stopped /\ ~LockedByOther(w)
  BY DEF SettleMaintenance, Stopped
<1>2. /\ m \in Manga /\ a \in AttemptId /\ row[m] \in Row
      /\ row \in [Manga -> Row] /\ attempt \in [AttemptId -> Attempt]
      /\ proc \in [Worker -> Process]
  BY <1>1, WorkingTyped DEF FenceInv, TypeInv, TypeOK
<1>3. /\ \A v \in Worker : v # w => proc'[v] = proc[v]
      /\ proc'[w].pc # "fenced" /\ proc'[w].claim = None
  BY <1>2 DEF SettleMaintenance, ExitedProcess, IdleProcess
<1>4. \/ UNCHANGED << row, attempt >>
      \/ \E target \in Status, outcome \in { "succeeded", "failed" } :
           /\ row[m].status = "cancel_requested" =>
                target = FinishTarget(row[m].status, Done("none"), row[m].method)
           /\ row' = [row EXCEPT ![m].status = target, ![m].active = None,
                                 ![m].lease = "none"]
           /\ attempt' = [attempt EXCEPT ![a].state = outcome]
  BY Zenon DEF SettleMaintenance
<1>5. CASE UNCHANGED << row, attempt >>
  BY <1>3, <1>5 DEF Steady, Rewrites
<1>6. ASSUME NEW target \in Status, NEW outcome \in { "succeeded", "failed" },
             row[m].status = "cancel_requested" =>
               target = FinishTarget(row[m].status, Done("none"), row[m].method),
             row' = [row EXCEPT ![m].status = target, ![m].active = None,
                                ![m].lease = "none"],
             attempt' = [attempt EXCEPT ![a].state = outcome]
      PROVE  Steady
  <2>1. row[m].status = "cancel_requested" => target \in CancelOutcome
    BY <1>6 DEF FinishTarget, CancelOutcome
  <2>2. /\ \A n \in Manga : n # m => row'[n] = row[n]
        /\ row'[m].active = None /\ row'[m].status = target
    BY <1>2, <1>6 DEF Row
  <2>3. \A n \in Manga : row'[n].active \in { row[n].active, None } /\ Rewrites(n)
    BY <2>1, <2>2 DEF Rewrites
  <2>4. \A b \in AttemptId : /\ attempt'[b].op = attempt[b].op
                             /\ attempt'[b].manga = attempt[b].manga
                             /\ attempt[b].state # "unused" => attempt'[b].state # "unused"
    BY <1>2, <1>6 DEF Attempt
  <2>5. ASSUME NEW v \in Worker, proc[v].pc = "fenced", proc[v].pend.locked, proc'[v] = proc[v]
        PROVE  row'[MangaOf(v)] = row[MangaOf(v)]
    <3>1. v # w BY <1>3, <2>5
    <3>2. MangaOf(v) # m BY <1>1, <2>5, <3>1, NobodyElse
    <3>3. MangaOf(v) \in Manga BY <2>5, WorkingTyped DEF FenceInv, Stopped
    <3> QED BY <2>2, <3>2, <3>3
  <2> QED BY <1>3, <2>3, <2>4, <2>5 DEF Steady
<1> QED BY <1>4, <1>5, <1>6

\* So is what the Web, the Supervisor and the clock do to a row.
LEMMA SteadyRow ==
  ASSUME FenceInv, NEW m \in Manga,
         \/ LeaseExpires(m) \/ WebAction(m) \/ OverrideStatus(m)
         \/ ReleaseExpiredLease(m) \/ CompleteCancellation(m)
  PROVE  Steady
<1>1. /\ row \in [Manga -> Row] /\ attempt \in [AttemptId -> Attempt] /\ row[m] \in Row
      /\ UNCHANGED proc
  BY DEF FenceInv, TypeInv, TypeOK, LeaseExpires, WebAction, OverrideStatus,
         ReleaseExpiredLease, CompleteCancellation
<1>2. \A a \in AttemptId : /\ attempt'[a].op = attempt[a].op
                           /\ attempt'[a].manga = attempt[a].manga
                           /\ attempt[a].state # "unused" => attempt'[a].state # "unused"
  <2>1. CASE ReleaseExpiredLease(m)
    BY <1>1, <2>1 DEF ReleaseExpiredLease, Attempt
  <2>2. CASE UNCHANGED attempt
    BY <2>2
  <2> QED BY <2>1, <2>2 DEF LeaseExpires, WebAction, OverrideStatus, CompleteCancellation
<1>3. /\ \A n \in Manga : n # m => row'[n] = row[n]
      /\ row'[m].active \in { row[m].active, None } /\ Rewrites(m)
      /\ \/ ~RowLocked(m)
         \/ row'[m].active = row[m].active /\ row'[m].status = row[m].status
  <2>1. CASE LeaseExpires(m)
    <3>1. row'[m].active = row[m].active /\ row'[m].status = row[m].status
      BY <1>1, <2>1 DEF LeaseExpires, Row
    <3> QED BY <1>1, <2>1, <3>1 DEF LeaseExpires, Rewrites
  <2>2. CASE WebAction(m)
    <3>1. /\ row'[m].active = row[m].active /\ ~RowLocked(m)
          /\ row'[m].status \in WebTargets(row[m].status)
          /\ \A n \in Manga : n # m => row'[n] = row[n]
      BY <1>1, <2>2 DEF WebAction, Row
    <3> QED BY <3>1, EffectTargets DEF Rewrites
  <2>3. CASE OverrideStatus(m)
    <3>0. row[m] \in Row BY <1>1
    <3>1. PICK target \in ManualStatus, method \in DownloadMethod :
            row' = [row EXCEPT ![m].status = target, ![m].method = method,
                               ![m].external = @ /\ method = row[m].method]
      BY <2>3, <3>0 DEF OverrideStatus, Row, DownloadMethod
    <3>2. /\ row'[m].active = row[m].active
          /\ \A n \in Manga : n # m => row'[n] = row[n]
      BY <1>1, <3>1 DEF Row
    <3> QED BY <2>3, <3>2 DEF OverrideStatus, Rewrites
  <2>4. CASE ReleaseExpiredLease(m)
    <3>1. /\ row'[m].active = None /\ row'[m].status = "manual_review"
          /\ \A n \in Manga : n # m => row'[n] = row[n]
      BY <1>1, <2>4 DEF ReleaseExpiredLease, Row
    <3> QED BY <2>4, <3>1 DEF ReleaseExpiredLease, Rewrites, CancelOutcome
  <2>5. CASE CompleteCancellation(m)
    <3>1. /\ row'[m].active = row[m].active
          /\ \A n \in Manga : n # m => row'[n] = row[n]
      BY <1>1, <2>5 DEF CompleteCancellation, Row
    <3> QED BY <2>5, <3>1 DEF CompleteCancellation, Rewrites
  <2> QED BY <2>1, <2>2, <2>3, <2>4, <2>5
<1>4. \A n \in Manga : row'[n].active \in { row[n].active, None } /\ Rewrites(n)
  BY <1>3 DEF Rewrites
<1>5. ASSUME NEW v \in Worker, proc[v].pc = "fenced", proc[v].pend.locked
      PROVE  /\ row'[MangaOf(v)].active = row[MangaOf(v)].active
             /\ row'[MangaOf(v)].status = row[MangaOf(v)].status
  <2>1. MangaOf(v) \in Manga BY <1>5, WorkingTyped DEF FenceInv, Stopped
  <2>2. MangaOf(v) = m => RowLocked(m) BY <1>5 DEF RowLocked
  <2> QED BY <1>3, <2>1, <2>2
<1> QED BY <1>1, <1>2, <1>4, <1>5 DEF Steady

\* Steady steps keep what each fenced process relies on.
LEMMA SteadyKeeps ==
  ASSUME FenceInv, TypeInv', Steady
  PROVE  FenceInv'
<1>1. /\ \A w \in Worker : proc[w].claim \in AttemptId \cup { None }
      /\ \A m \in Manga : row[m].active \in AttemptId \cup { None }
  BY DEF FenceInv, TypeInv, TypeOK, Process, Row
<1>2. ClaimedOnce'
  <2>1. ClaimsDiffer' BY DEF Steady, FenceInv, ClaimedOnce, ClaimsDiffer
  <2> QED BY <1>1, <2>1 DEF Steady, FenceInv, ClaimedOnce
<1>3. HeldStatus'
  <2> SUFFICES ASSUME NEW m \in Manga, row'[m].active # None,
                      attempt'[row'[m].active].op \notin { "validate", "prepare" }
               PROVE  row'[m].status \in EffectStatus
    BY DEF HeldStatus
  <2>1. row'[m].active = row[m].active /\ row[m].active \in AttemptId /\ Rewrites(m)
    BY <1>1 DEF Steady
  <2>2. row[m].status \in EffectStatus
    BY <2>1 DEF Steady, FenceInv, HeldStatus
  <2>3. \A w \in Worker : proc[w].pc = "fenced" /\ proc[w].pend.kind # "finish"
          => proc[w].pend.snap \in EffectStatus
    BY DEF FenceInv, Fenced
  <2> QED BY <2>1, <2>2, <2>3, EffectTargets DEF Rewrites
<1>4. ASSUME NEW w \in Worker, proc'[w].pc = "fenced" PROVE Fenced(w)'
  <2>1. proc'[w] = proc[w] /\ proc[w].pc = "fenced" BY <1>4 DEF Steady
  <2>2. Claimed(w) \in AttemptId /\ MangaOf(w) \in Manga
    BY <2>1, WorkingTyped DEF FenceInv, Stopped
  <2>3. OpOf(w)' = OpOf(w) /\ MangaOf(w)' = MangaOf(w)
    BY <2>1, <2>2 DEF Steady, OpOf, MangaOf, Claimed
  <2>4. Fenced(w) BY <2>1 DEF FenceInv
  <2>5. proc[w].pend.locked => /\ row'[MangaOf(w)].active = row[MangaOf(w)].active
                               /\ row'[MangaOf(w)].status = row[MangaOf(w)].status
    BY <2>1 DEF Steady
  <2> QED BY <2>1, <2>3, <2>4, <2>5 DEF Fenced
<1> QED BY <1>2, <1>3, <1>4 DEF FenceInv

\* A claim takes a new attempt and a row that nobody has locked.
LEMMA ClaimKeeps ==
  ASSUME FenceInv, NEW w \in Worker, NEW m \in Manga, NEW op \in Operation,
         NEW a \in AttemptId, Claim(w, m, op, a)
  PROVE  FenceInv'
<1>1. /\ row \in [Manga -> Row] /\ attempt \in [AttemptId -> Attempt]
      /\ proc \in [Worker -> Process] /\ row[m] \in Row
      /\ a # None /\ TypeInv'
  BY ClaimTyped, NoneIsNoAttempt DEF FenceInv, TypeInv, TypeOK
<1>2. /\ attempt[a].state = "unused" /\ attempt'[a].state = "running" /\ attempt'[a].op = op
      /\ \A b \in AttemptId : b # a => attempt'[b] = attempt[b]
      /\ row'[m].active = a /\ row'[m].status = ExecutionState(op, row[m].status)
      /\ \A n \in Manga : n # m => row'[n] = row[n]
      /\ proc'[w].claim = a /\ proc'[w].pc = "claimed"
      /\ \A v \in Worker : v # w => proc'[v] = proc[v]
      /\ row[m].status \in ClaimableStates[op] /\ ~RowLocked(m)
  BY <1>1 DEF Claim, Claimable, Row, IdleProcess
<1>3. /\ \A v \in Worker : proc[v].claim # a
      /\ \A n \in Manga : row[n].active # a
  BY <1>1, <1>2 DEF FenceInv, ClaimedOnce
<1>4. ClaimedOnce'
  <2>1. ClaimsDiffer' BY <1>2, <1>3 DEF FenceInv, ClaimedOnce, ClaimsDiffer
  <2>2. \A v \in Worker : proc'[v].claim # None => attempt'[proc'[v].claim].state # "unused"
    BY <1>1, <1>2, <1>3 DEF FenceInv, ClaimedOnce, Process
  <2>3. \A n \in Manga : row'[n].active # None => attempt'[row'[n].active].state # "unused"
    BY <1>1, <1>2, <1>3 DEF FenceInv, ClaimedOnce, Row
  <2> QED BY <2>1, <2>2, <2>3 DEF ClaimedOnce
<1>5. HeldStatus'
  <2>1. op \notin { "validate", "prepare" } => row'[m].status \in EffectStatus
    BY <1>2 DEF Operation, ClaimableStates, ExecutionState, EffectStatus
  <2>2. ASSUME NEW n \in Manga, n # m, row'[n].active # None,
               attempt'[row'[n].active].op \notin { "validate", "prepare" }
        PROVE  row'[n].status \in EffectStatus
    BY <1>1, <1>2, <1>3, <2>2 DEF FenceInv, HeldStatus, Row
  <2> QED BY <1>2, <2>1, <2>2 DEF HeldStatus
<1>6. ASSUME NEW v \in Worker, proc'[v].pc = "fenced" PROVE Fenced(v)'
  <2>1. v # w /\ proc'[v] = proc[v] /\ proc[v].pc = "fenced" BY <1>2, <1>6
  <2>2. Claimed(v) \in AttemptId /\ MangaOf(v) \in Manga
    BY <2>1, WorkingTyped DEF FenceInv, Stopped
  <2>3. attempt'[Claimed(v)] = attempt[Claimed(v)] BY <1>2, <1>3, <2>2 DEF Claimed
  <2>4. OpOf(v)' = OpOf(v) /\ MangaOf(v)' = MangaOf(v)
    BY <2>1, <2>3 DEF OpOf, MangaOf, Claimed
  <2>5. proc[v].pend.locked => MangaOf(v) # m BY <1>2, <2>1 DEF RowLocked
  <2>6. Fenced(v) BY <2>1 DEF FenceInv
  <2> QED BY <1>2, <2>1, <2>2, <2>4, <2>5, <2>6 DEF Fenced
<1> QED BY <1>1, <1>4, <1>5, <1>6 DEF FenceInv

\* A fenced read changes nothing but what its own process has staged.
LEMMA ReadKeeps ==
  ASSUME FenceInv, TypeInv', NEW w \in Worker, NEW pend,
         proc' = [proc EXCEPT ![w].pc = "fenced", ![w].pend = pend],
         UNCHANGED << row, attempt >>, Fenced(w)'
  PROVE  FenceInv'
<1>1. proc \in [Worker -> Process] BY DEF FenceInv, TypeInv, TypeOK
<1>2. /\ \A v \in Worker : proc'[v].claim = proc[v].claim
      /\ \A v \in Worker : v # w => proc'[v] = proc[v]
  BY <1>1 DEF Process
<1>3. ClaimedOnce' /\ HeldStatus'
  <2>0. ClaimsDiffer BY DEF FenceInv, ClaimedOnce
  <2>1. ClaimsDiffer'
    <3> SUFFICES ASSUME NEW v \in Worker, NEW u \in Worker, v # u, proc'[v].claim # None
                 PROVE  proc'[v].claim # proc'[u].claim
      BY DEF ClaimsDiffer
    <3> QED BY <1>2, <2>0 DEF ClaimsDiffer
  <2>2. \A v \in Worker : proc'[v].claim # None => attempt'[proc'[v].claim].state # "unused"
    BY <1>2 DEF FenceInv, ClaimedOnce
  <2>3. \A m \in Manga : row'[m].active # None => attempt'[row'[m].active].state # "unused"
    BY DEF FenceInv, ClaimedOnce
  <2>4. HeldStatus' BY DEF FenceInv, HeldStatus
  <2> QED BY <2>1, <2>2, <2>3, <2>4 DEF ClaimedOnce
<1>4. ASSUME NEW v \in Worker, v # w, proc'[v].pc = "fenced" PROVE Fenced(v)'
  <2>1. proc'[v] = proc[v] /\ Fenced(v) BY <1>2, <1>4 DEF FenceInv
  <2> QED BY <2>1 DEF Fenced, OpOf, MangaOf, Claimed
<1> QED BY <1>3, <1>4 DEF FenceInv

\* The row a fenced read matches is held by the process that reads it.
LEMMA ReadStatus ==
  ASSUME FenceInv, NEW w \in Worker, proc[w].pc \notin Stopped, Holds(w),
         OpOf(w) \notin { "validate", "prepare" }
  PROVE  row[MangaOf(w)].status \in EffectStatus
<1>1. MangaOf(w) \in Manga /\ Claimed(w) \in AttemptId
  BY WorkingTyped DEF FenceInv
<1> QED BY <1>1, NoneIsNoAttempt DEF Holds, FenceInv, HeldStatus, OpOf

\* The fenced reads before a mark and before an identity.
LEMMA EffectKeeps ==
  ASSUME FenceInv, NEW w \in Worker, FenceEffect(w) \/ FenceExternal(w)
  PROVE  FenceInv'
<1>1. /\ proc[w].pc = "working" /\ proc[w].pc \notin Stopped /\ Holds(w)
      /\ UNCHANGED << row, attempt >> /\ OpOf(w) \in EffectOperation
  BY DEF FenceEffect, FenceExternal, Stopped, EffectOperation
<1>2. \E pend : /\ proc' = [proc EXCEPT ![w].pc = "fenced", ![w].pend = pend]
                /\ pend.kind # "finish" /\ pend.snap = row[MangaOf(w)].status
                /\ ~pend.locked
  <2>1. CASE FenceEffect(w)
    <3> DEFINE pend == [NoPending EXCEPT !.kind = "effect",
                          !.snap = row[MangaOf(w)].status,
                          !.method = proc[w].loaded.method,
                          !.external = proc[w].loaded.external]
    <3>1. proc' = [proc EXCEPT ![w].pc = "fenced", ![w].pend = pend]
      BY <2>1 DEF FenceEffect
    <3>2. pend.kind = "effect" /\ pend.snap = row[MangaOf(w)].status /\ ~pend.locked
      BY DEF NoPending
    <3> HIDE DEF pend
    <3> QED BY <3>1, <3>2
  <2>2. CASE FenceExternal(w)
    <3>1. PICK method \in DownloadMethod :
            proc' = [proc EXCEPT
                ![w].pc = "fenced",
                ![w].pend = [NoPending EXCEPT !.kind = "external",
                               !.snap = row[MangaOf(w)].status,
                               !.method = method, !.external = TRUE]]
      BY <2>2 DEF FenceExternal
    <3> DEFINE pend == [NoPending EXCEPT !.kind = "external",
                          !.snap = row[MangaOf(w)].status,
                          !.method = method, !.external = TRUE]
    <3>2. proc' = [proc EXCEPT ![w].pc = "fenced", ![w].pend = pend]
      BY <3>1
    <3>3. pend.kind = "external" /\ pend.snap = row[MangaOf(w)].status /\ ~pend.locked
      BY DEF NoPending
    <3> HIDE DEF pend
    <3> QED BY <3>2, <3>3
  <2> QED BY <2>1, <2>2
<1>3. PICK pend : /\ proc' = [proc EXCEPT ![w].pc = "fenced", ![w].pend = pend]
                  /\ pend.kind # "finish" /\ pend.snap = row[MangaOf(w)].status
                  /\ ~pend.locked
  BY <1>2
<1>4. pend.snap \in EffectStatus
  BY <1>1, <1>3, ReadStatus DEF EffectOperation
<1>5. proc'[w].pend = pend /\ proc'[w].claim = proc[w].claim
  BY <1>3 DEF FenceInv, TypeInv, TypeOK, Process
<1>6. OpOf(w)' = OpOf(w) BY <1>1, <1>5 DEF OpOf, Claimed
<1>7. Fenced(w)' BY <1>1, <1>3, <1>4, <1>5, <1>6 DEF Fenced
<1>8. TypeInv' BY FenceEffectTyped, FenceExternalTyped DEF FenceInv
<1> QED BY <1>1, <1>3, <1>7, <1>8, ReadKeeps

\* The fenced read of finish().
LEMMA FinishKeeps ==
  ASSUME FenceInv, NEW w \in Worker, FenceFinish(w)
  PROVE  FenceInv'
<1>1. /\ proc[w].pc \in { "working", "submitted" } /\ proc[w].pc \notin Stopped /\ Holds(w)
      /\ UNCHANGED << row, attempt >> /\ StageFinish(w)
  BY DEF FenceFinish, Stopped
<1> DEFINE prev == row[MangaOf(w)].status
<1>2. PICK o \in Reports(w) : \E c \in Staged(w, o) :
        /\ Promotes(w, o) => prev # "cancel_requested"
        /\ proc' = [proc EXCEPT
             ![w].pc = "fenced",
             ![w].pend = [ kind |-> "finish", snap |-> prev,
                           target |-> FinishTarget(prev, o, c[1]),
                           error |-> IsError(prev, o) \/
                                     (prev = "cancel_requested" /\ c[1] = "direct"),
                           method |-> c[1], external |-> c[2],
                           locked |-> Locks(w, o) ]]
  BY <1>1, Zenon DEF StageFinish, StatusRead
<1>3. PICK c \in Staged(w, o) :
        /\ Promotes(w, o) => prev # "cancel_requested"
        /\ proc' = [proc EXCEPT
             ![w].pc = "fenced",
             ![w].pend = [ kind |-> "finish", snap |-> prev,
                           target |-> FinishTarget(prev, o, c[1]),
                           error |-> IsError(prev, o) \/
                                     (prev = "cancel_requested" /\ c[1] = "direct"),
                           method |-> c[1], external |-> c[2],
                           locked |-> Locks(w, o) ]]
  BY <1>2
<1> DEFINE pend == [ kind |-> "finish", snap |-> prev,
                     target |-> FinishTarget(prev, o, c[1]),
                     error |-> IsError(prev, o) \/
                               (prev = "cancel_requested" /\ c[1] = "direct"),
                     method |-> c[1], external |-> c[2], locked |-> Locks(w, o) ]
<1>4. /\ proc' = [proc EXCEPT ![w].pc = "fenced", ![w].pend = pend]
      /\ pend.kind = "finish" /\ pend.snap = prev
      /\ pend.target = FinishTarget(prev, o, c[1]) /\ pend.locked = Locks(w, o)
  BY <1>3
<1> HIDE DEF pend
<1>5. /\ proc'[w].pend = pend /\ proc'[w].claim = proc[w].claim
      /\ proc'[w].loaded = proc[w].loaded
  BY <1>4 DEF FenceInv, TypeInv, TypeOK, Process
<1>6. OpOf(w)' = OpOf(w) /\ MangaOf(w)' = MangaOf(w)
  BY <1>1, <1>5 DEF OpOf, MangaOf, Claimed
<1>7. prev = "cancel_requested" => pend.target \in { "cancelled", "manual_review" }
  BY <1>4 DEF FinishTarget
<1>8. ASSUME pend.target = "downloaded", OpOf(w) = "direct_download", ~Polling(proc[w].loaded)
      PROVE  pend.locked
  <2>1. prev \in EffectStatus BY <1>1, <1>8, ReadStatus
  <2>2. o \in HandlerOutcome["direct_download"]
    BY <1>2, <1>8 DEF Reports, HandlerOutcome
  <2>3. o.event = "downloaded" BY <1>4, <1>8, <2>1, <2>2, DirectTarget
  <2> QED BY <1>4, <1>8, <2>3 DEF Locks, Promotes
<1>9. pend.locked => /\ row[MangaOf(w)].active = proc[w].claim
                     /\ pend.snap # "cancel_requested"
  BY <1>1, <1>3, <1>4 DEF Locks, Holds, Claimed
<1>10. Fenced(w)'
  BY <1>1, <1>4, <1>5, <1>6, <1>7, <1>8, <1>9 DEF Fenced
<1>11. TypeInv' BY FenceFinishTyped DEF FenceInv
<1> QED BY <1>1, <1>4, <1>10, <1>11, ReadKeeps

\* Any step but a claim or a fenced read.
LEMMA OtherSteady ==
  ASSUME FenceInv, [Next]_vars
  PROVE  \/ \E w \in Worker, m \in Manga, op \in Operation, a \in AttemptId :
              Claim(w, m, op, a)
         \/ \E w \in Worker : FenceEffect(w) \/ FenceExternal(w) \/ FenceFinish(w)
         \/ Steady
<1>1. CASE UNCHANGED vars
  BY <1>1 DEF vars, Steady, Rewrites
<1>2. CASE \E w \in Worker, m \in Manga, op \in Scheduled, a \in AttemptId : Claim(w, m, op, a)
  BY <1>2, ScheduledAssumption
<1>3. ASSUME NEW w \in Worker, Step(w)
      PROVE  FenceEffect(w) \/ FenceExternal(w) \/ FenceFinish(w) \/ Steady
  BY <1>3, SteadyAside, SteadyFlush DEF Step
<1>4. ASSUME NEW w \in Worker, Renew(w) \/ Crash(w) \/ Reap(w) \/ SettleMaintenance(w)
      PROVE  Steady
  BY <1>4, SteadyRenew, SteadyAside, SteadySettle
<1>5. ASSUME NEW m \in Manga, \/ LeaseExpires(m) \/ WebAction(m) \/ OverrideStatus(m)
                              \/ ReleaseExpiredLease(m) \/ CompleteCancellation(m)
      PROVE  Steady
  BY <1>5, SteadyRow
<1> QED BY <1>1, <1>2, <1>3, <1>4, <1>5 DEF Next

\* FenceInv is inductive.
LEMMA FenceNext == FenceInv /\ [Next]_vars => FenceInv'
<1> SUFFICES ASSUME FenceInv, [Next]_vars PROVE FenceInv'
  OBVIOUS
<1>1. TypeInv' BY TypeInvInductive DEF FenceInv
<1> QED BY <1>1, OtherSteady, SteadyKeeps, ClaimKeeps, EffectKeeps, FinishKeeps

\* It holds at the start: nothing is claimed.
LEMMA FenceInit == Init => FenceInv
BY ProcessTyped DEF Init, FenceInv, TypeInv, TypeOK, ClaimInv, Row, Status,
   DownloadMethod, IdleProcess, Stopped, ClaimedOnce, ClaimsDiffer, HeldStatus

\* It holds in every state.
LEMMA FenceHolds == Spec => []FenceInv
BY FenceInit, FenceNext, PTL DEF Spec

(***************************************************************************)
(* A direct download becomes the artifact only while its attempt owns the  *)
(* row and no cancellation has been accepted, even when leases are         *)
(* released under processes that still run: the promotion locks the row.   *)
(***************************************************************************)
THEOREM PromotionExclusive == Spec => DirectPromotionIsExclusive
<1> DEFINE A == \A w \in Worker :
                  LET p == proc[w] IN
                  /\ p.pc = "fenced" /\ p.pend.kind = "finish" /\ p.pend.target = "downloaded"
                  /\ OpOf(w) = "direct_download" /\ ~Polling(p.loaded)
                  /\ proc'[w].pc = "idle"
                  => /\ row[MangaOf(w)].active = p.claim
                     /\ row[MangaOf(w)].status # "cancel_requested"
<1>1. FenceInv => A
  BY DEF FenceInv, Fenced
<1>2. FenceInv /\ [Next]_vars => [A]_vars BY <1>1
<1> HIDE DEF A
<1>3. Spec => [][A]_vars BY <1>2, FenceHolds, PTL DEF Spec
<1> QED BY <1>3 DEF DirectPromotionIsExclusive, A

(***************************************************************************)
(* The mark of an external effect is only ever set on an attempt that is   *)
(* still running, whoever holds its row by then.                           *)
(***************************************************************************)
THEOREM MarksAreFenced == Spec => EffectMarkIsFenced
<1> DEFINE A == \A a \in AttemptId : attempt'[a].effect # attempt[a].effect
                  => attempt[a].state \in { "running", "unused" }
<1>1. ASSUME TypeInv, [Next]_vars PROVE A
  <2> USE DEF A
  <2>1. attempt \in [AttemptId -> Attempt] BY <1>1 DEF TypeInv, TypeOK
  <2>2. ASSUME NEW w \in Worker, NEW m \in Manga, NEW op \in Scheduled,
               NEW a \in AttemptId, Claim(w, m, op, a)
        PROVE  A
    BY <2>1, <2>2 DEF Claim
  <2>3. ASSUME NEW w \in Worker, Step(w) PROVE A
    <3>1. CASE FlushEffect(w)
      BY <2>1, <3>1 DEF FlushEffect, Attempt
    <3>2. CASE FlushFinish(w) \/ FenceLost(w)
      BY <2>1, <3>2 DEF FlushFinish, FenceLost, Attempt
    <3>3. CASE UNCHANGED attempt BY <3>3
    <3> QED BY <2>3, <3>1, <3>2, <3>3
            DEF Step, Load, FenceEffect, FenceExternal, FenceFinish, Escape, FlushExternal
  <2>4. ASSUME NEW w \in Worker, SettleMaintenance(w) PROVE A
    <3>1. \/ UNCHANGED attempt
          \/ \E outcome \in { "succeeded", "failed" } :
               attempt' = [attempt EXCEPT ![Claimed(w)].state = outcome]
      BY <2>4, Zenon DEF SettleMaintenance
    <3> QED BY <2>1, <3>1 DEF Attempt
  <2>5. ASSUME NEW w \in Worker, Renew(w) \/ Crash(w) \/ Reap(w) PROVE A
    BY <2>5 DEF Renew, Crash, Reap
  <2>6. ASSUME NEW m \in Manga, \/ LeaseExpires(m) \/ WebAction(m) \/ OverrideStatus(m)
                                \/ ReleaseExpiredLease(m) \/ CompleteCancellation(m)
        PROVE  A
    BY <2>1, <2>6 DEF LeaseExpires, WebAction, OverrideStatus, ReleaseExpiredLease,
                      CompleteCancellation, Attempt
  <2>7. CASE UNCHANGED vars BY <2>7 DEF vars
  <2> QED BY <1>1, <2>2, <2>3, <2>4, <2>5, <2>6, <2>7 DEF Next
<1>2. TypeInv /\ [Next]_vars => [A]_vars BY <1>1
<1>3. Spec => []TypeInv
  <2>1. FenceInv => TypeInv BY DEF FenceInv
  <2> QED BY <2>1, FenceHolds, PTL
<1> HIDE DEF A
<1>4. Spec => [][A]_vars BY <1>2, <1>3, PTL DEF Spec
<1> QED BY <1>4 DEF EffectMarkIsFenced, A

(***************************************************************************)
(* A cancellation accepted while an attempt holds the row is lost only to  *)
(* a process whose fenced read came before it: every other writer of the   *)
(* row honours it.                                                         *)
(***************************************************************************)
THEOREM CancelLostOnlyEarlier == Spec => CancelLostOnlyToEarlierRead
<1> DEFINE A == \A m \in Manga :
                  /\ row[m].status = "cancel_requested" /\ row[m].active # None
                  /\ row'[m].status \notin CancelOutcome
                  => \E w \in Worker : /\ proc[w].pc = "fenced" /\ MangaOf(w) = m
                                       /\ proc[w].pend.snap # "cancel_requested"
<1>1. ASSUME FenceInv, [Next]_vars PROVE A
  <2> SUFFICES ASSUME NEW m \in Manga,
                      row[m].status = "cancel_requested", row[m].active # None,
                      row'[m].status \notin CancelOutcome
               PROVE  \E w \in Worker : /\ proc[w].pc = "fenced" /\ MangaOf(w) = m
                                        /\ proc[w].pend.snap # "cancel_requested"
    OBVIOUS
  <2>1. "cancel_requested" \in CancelOutcome BY DEF CancelOutcome
  <2>2. ASSUME NEW w \in Worker, NEW n \in Manga, NEW op \in Operation,
               NEW a \in AttemptId, Claim(w, n, op, a)
        PROVE  FALSE
    <3>1. row \in [Manga -> Row] BY <1>1 DEF FenceInv, TypeInv, TypeOK
    <3>2. n # m
      BY <2>2 DEF Claim, Claimable, Operation, ClaimableStates
    <3> QED BY <2>1, <2>2, <3>1, <3>2 DEF Claim
  <2>3. ASSUME NEW w \in Worker, FenceEffect(w) \/ FenceExternal(w) \/ FenceFinish(w)
        PROVE  FALSE
    BY <2>1, <2>3 DEF FenceEffect, FenceExternal, FenceFinish
  <2>4. Steady BY <1>1, <2>2, <2>3, OtherSteady
  <2>5. Rewrites(m) BY <2>4 DEF Steady
  <2>6. PICK w \in Worker :
          /\ proc[w].pc = "fenced" /\ MangaOf(w) = m
          /\ IF proc[w].pend.kind = "finish" THEN row'[m].status = proc[w].pend.target
             ELSE row'[m].status = proc[w].pend.snap
    BY <2>1, <2>5 DEF Rewrites
  <2>7. proc[w].pend.snap # "cancel_requested"
    BY <1>1, <2>6 DEF FenceInv, Fenced, CancelOutcome
  <2> QED BY <2>6, <2>7
<1>2. FenceInv /\ [Next]_vars => [A]_vars BY <1>1
<1> HIDE DEF A
<1>3. Spec => [][A]_vars BY <1>2, FenceHolds, PTL DEF Spec
<1> QED BY <1>3 DEF CancelLostOnlyToEarlierRead, A
=============================================================================
