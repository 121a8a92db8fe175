----------------------------- MODULE SpecialWork -----------------------------
(***************************************************************************)
(* Special processing as a whole: the core and the modules, the Supervisor *)
(* and its workers, the pages, and the ordinary pipeline that goes on with *)
(* the rows no workflow holds.                                             *)
(***************************************************************************)
EXTENDS VideoArchive, ManualTorrent, MetadataUpdate, LibraryScans, FullCollect

Init ==
  /\ db \in [ wf : { [w \in Workflow |-> NoWorkflow] },
              row : [Manga -> OrdinaryRow] ]
  /\ sup = [ owner |-> 0, epoch |-> 0, lease |-> "none", state |-> "running",
             exited |-> {}, scanned |-> FALSE ]
  /\ proc = [p \in Proc |-> NoClaim]
  /\ qbit = [m \in Manga |-> {}]

Command(w) ==
  \/ VideoCommand(w) \/ ManualCommand(w) \/ MetadataCommand(w)
  \/ ScanCommand(w) \/ RoundCommand(w) \/ CancelWorkflow(w)
  \/ \E o \in DOMAIN db.wf[w].job : QueueOperation(w, o) \/ ReleaseExpired(w, o)

Step(p) ==
  \/ VideoStep(p) \/ ManualStep(p) \/ MetadataStep(p)
  \/ ScanStep(p) \/ BatchStep(p)

Schedules ==
  \/ \E w \in Workflow : \E o \in DOMAIN db.wf[w].job :
       \/ FailMisplacedJob(w, o)
       \/ \E p \in Proc : ClaimJob(w, o, p)
  \/ RecoverRounds

Next ==
  \/ \E w \in Workflow : Command(w)
  \/ \E p \in Proc : Step(p) \/ WorkerFails(p) \/ WorkerDies(p)
  \/ Schedules
  \/ SupervisorStarts \/ SupervisorDies \/ SupervisorDrains \/ SupervisorExits
  \/ \E w \in Workflow : \E o \in DOMAIN db.wf[w].job :
       JobLeaseExpires(w, o) \/ RequestStop(w, o)
  \/ \E m \in Manga : PipelineMoves(m) \/ EditRow(m)

Spec == Init /\ [][Next]_vars

(***************************************************************************)
(* The Supervisor is started again by systemd, scans the rounds and claims *)
(* their jobs in every tick.  A worker goes on until it ends, and the      *)
(* lease of one that has gone away runs out.  Nobody has to press a button *)
(* and no lease of a live worker has to expire.                            *)
(***************************************************************************)
Fairness ==
  /\ WF_vars(SupervisorStarts) /\ WF_vars(SupervisorExits)
  /\ WF_vars(RecoverRounds)
  /\ \A p \in Proc : WF_vars(Step(p) \/ WorkerFails(p) \/ WorkerDies(p))
  /\ \A w \in Workflow :
       WF_vars(\E o \in DOMAIN db.wf[w].job : RunBy(w, o) = {} /\ JobLeaseExpires(w, o))

FairSpec == Spec /\ Fairness

----------------------------------------------------------------------------
(***************************************************************************)
(* The types; among them that a job holds no claim of an attempt that is   *)
(* yet to come, that a row with a torrent is downloaded by torrent, and    *)
(* that a round does not go past the end of its range.                     *)
(***************************************************************************)
TypeOK ==
  /\ \A w \in Workflow :
       LET x == db.wf[w] IN
       /\ x.kind \in Kind \cup { "none" } /\ x.phase \in Phase \cup { "none" }
       /\ x.status \in { "none", "active", "completed", "cancelled" }
       /\ \A o \in DOMAIN x.job : x.job[o] \in Job
       /\ \A c \in x.claims : c.key \in Key /\ (c.op # ByWorkflow => c.no <= x.job[c.op].no)
       /\ Exists(db, w) => DOMAIN x.data = DOMAIN InitialData[x.kind]
       /\ x.kind = "full_collect" => x.data.cursor \in 0 .. LastPage
  /\ db.row \in [Manga -> Row]
  /\ \A m \in Manga : db.row[m].external => db.row[m].method = "torrent"
  /\ \A p \in Proc : proc[p].w \in Workflow \cup { 0 } /\ proc[p].page <= BatchPages
  /\ qbit \in [Manga -> SUBSET (Role \cup { Torrent })]

\* What a workflow works with: its rows, the archives it is about to write, and
\* what its running job needs.
Uses(w) ==
  LET x == db.wf[w] IN
  (IF Active(db, w) THEN { MangaKey(m) : m \in Bound(x) } ELSE {})
  \cup (IF Active(db, w) /\ x.kind = "lanraragi_metadata"
        THEN { ArchiveKey(r[2]) : r \in x.data.ready } ELSE {})
  \cup (IF Running(db, w) # {} THEN ResourcesOf(db, w) ELSE {})

(***************************************************************************)
(* Whatever a workflow works with it has claimed, although the claims of   *)
(* a workflow and of its jobs share one table and are released apart.      *)
(***************************************************************************)
ClaimsWhatItUses == \A w \in Workflow : Uses(w) \subseteq Keys(db, w)

\* What is claimed twice: nothing, and by no workflow that is over.
Exclusive ==
  \A v, w \in Workflow :
    /\ v # w => Keys(db, v) \cap Keys(db, w) = {}
    /\ ~Active(db, w) /\ Running(db, w) = {} => Keys(db, w) = {}

(***************************************************************************)
(* A row that is kept from the ordinary pipeline is kept by exactly one    *)
(* workflow, which can give it back: no way in which a workflow ends       *)
(* leaves its row behind.                                                  *)
(***************************************************************************)
RowIsKeptByOne ==
  \A m \in Manga :
    db.row[m].status = "special_processing" =>
      \E w \in Workflow :
        /\ Active(db, w) /\ m \in Bound(db.wf[w])
        /\ db.wf[w].kind = "lanraragi_metadata" => m \in db.wf[w].data.reserved
        /\ \A v \in Workflow : Active(db, v) /\ m \in Bound(db.wf[v]) => v = w

(***************************************************************************)
(* Of a workflow at most one process can still write, and no second one    *)
(* runs at all unless the first was fenced off.                            *)
(***************************************************************************)
OneExecutor ==
  \A p, q \in { r \in Proc : Busy(r) } :
    p # q /\ proc[p].w = proc[q].w =>
      /\ db.wf[proc[p].w].kind \in Recoverable
      /\ ~(Valid(db, proc[p]) /\ Valid(db, proc[q]))

\* The running attempt of an operation comes to an end, whatever follows it.
Ends(w, o) ==
  /\ db.wf[w].job[o].status = "running"
  /\ \/ db'.wf[w].job[o].status # "running"
     \/ db'.wf[w].job[o].no # db.wf[w].job[o].no

(***************************************************************************)
(* When a process ends an attempt, it is its own attempt and the last      *)
(* thing the process does: one that was given up and answers late ends     *)
(* nothing, and neither does it end the attempt after it.                  *)
(***************************************************************************)
EndedByItsProcess ==
  [][ \A w \in Workflow : \A o \in DOMAIN db.wf[w].job :
        Ends(w, o) /\ proc' # proc =>
          \E p \in RunBy(w, o) : proc'[p] = NoClaim ]_vars

(***************************************************************************)
(* Once a cancellation is requested the workflow cannot complete any more, *)
(* however its running job and the Supervisor go on.                       *)
(***************************************************************************)
CancelledNeverCompletes ==
  [][ \A w \in Workflow :
        Active(db, w) /\ db.wf[w].cancel => db'.wf[w].status # "completed" ]_vars

(***************************************************************************)
(* A torrent submitted by hand is never forgotten: while qBittorrent has   *)
(* it, the row is downloading it or a workflow that is still open has it   *)
(* on record, whatever became of the submission's answer.                  *)
(***************************************************************************)
SubmissionRemembered ==
  \A m \in Manga :
    Torrent \in qbit[m] =>
      \/ db.row[m].external
      \/ \E w \in Workflow :
           /\ db.wf[w].kind = "manual_torrent" /\ Active(db, w)
           /\ m \in Bound(db.wf[w]) /\ db.wf[w].data.submission

(***************************************************************************)
(* A metadata update marks a row as uploaded only if it is as the preview  *)
(* showed it: nobody has edited it in between.                             *)
(***************************************************************************)
OnlyAsPreviewed ==
  [][ \A w \in Workflow :
        db.wf[w].kind = "lanraragi_metadata" /\ Active(db, w) /\ Active(db', w) =>
          (db'.wf[w].data.done \ db.wf[w].data.done) \cap db.wf[w].data.stale = {} ]_vars

(***************************************************************************)
(* A round that is not to run commits no page, even one whose request was  *)
(* under way when it was paused.                                           *)
(***************************************************************************)
PausedCommitsNothing ==
  [][ \A w \in Workflow :
        Round(w) /\ db.wf[w].data.intent # "run" /\ Round(w)'
          => db'.wf[w].data.cursor = db.wf[w].data.cursor ]_vars

(***************************************************************************)
(* The recovery is never wrong, and neither is the release of a lease by   *)
(* hand: a job is taken from a process only when the process has gone, or  *)
(* could not write any more in any case.                                   *)
(***************************************************************************)
RecoveryIsSafe ==
  [][ \A w \in Workflow : \A o \in DOMAIN db.wf[w].job :
        Ends(w, o) /\ proc' = proc =>
          \A p \in RunBy(w, o) : ~Valid(db, proc[p]) ]_vars

(***************************************************************************)
(* No batch of a round hangs: its process ends it, or a Supervisor finds   *)
(* that the process has gone, or that its own predecessor started it, and  *)
(* abandons the job.  (The last attempt of the bound has no successor.)    *)
(***************************************************************************)
NoBatchHangs ==
  \A w \in Workflow : \A n \in 1 .. MaxAttempt[Batch] - 1 :
    LET runs == /\ Round(w) /\ Job_(w).no = n
                /\ Job_(w).status = "running"
    IN runs ~> ~runs
=============================================================================
