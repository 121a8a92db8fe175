---------------------------- MODULE Replacement ----------------------------
(***************************************************************************)
(* Old and new versions of an archive.  superseded_by_id links a row to    *)
(* its replacement, which the collector may not have found yet.  Details   *)
(* processes discover links and mark the parents of what they read, the    *)
(* Supervisor advances links along chains, administrators set links by     *)
(* hand, an upload waits until the rows it replaces are deleted, and a     *)
(* delete waits until its replacement is under way.                        *)
(*                                                                         *)
(* Only the discovery of a link takes the advisory lock.  A details        *)
(* transaction reads chains without row locks when it stages its links and *)
(* writes them when it commits; so does the Supervisor with a batch.       *)
(***************************************************************************)
EXTENDS ArchiveStates

CONSTANTS
  Manga,    \* the galleries, collected or not
  Administered,  \* those an administrator acts on
  Worker,   \* the details and delete processes
  None      \* no gallery

ASSUME NoneAssumption == None \notin Manga

ASSUME AdministeredAssumption == Administered \subseteq Manga

VARIABLES
  row,      \* row[m]: what the manga table holds of m, "absent" when nothing
  worker,   \* worker[w]: the transaction a process has open
  batch,    \* the rows the Supervisor is advancing and the links it has read
  byHand,   \* history: an administrator has linked a row by hand
  erased,   \* history: rows erased because they were replaced, not taken up since
  missed    \* history: parents that were passed over because they were in use

vars == << row, worker, batch, byHand, erased, missed >>

(***************************************************************************)
(* upload_pending stands for every step from downloaded to the upload      *)
(* queue, manual_review for every status a row leaves by hand only.        *)
(***************************************************************************)
RowStatus ==
  { "absent", "details_pending", "download_pending", "upload_pending",
    "uploading", "uploaded", "completed", "outdated",
    "force_delete_pending", "manual_review", "deleted" }

\* The last error: replacement_invalid, a duplicate upload, any other or none.
Error == { "other", "invalid", "duplicate" }

Row ==
  [ status : RowStatus, sup : Manga \cup { None }, error : Error,
    lease : { "none", "details", "delete", "upload", "cleanup" } ]

Process ==
  [ pc : { "idle", "reading", "staged", "claimed", "deleting", "erased" },
    on : Manga \cup { None },
    to : { "details_pending", "download_pending", "outdated", "manual_review" },
    sup : Manga \cup { None }, error : Error, locks : BOOLEAN,
    parent : Manga \cup { None }, newest : Manga \cup { None },
    missed : Manga \cup { None } ]

TypeOK ==
  /\ row \in [Manga -> Row]
  /\ worker \in [Worker -> Process]
  /\ batch \in [ rows : SUBSET Manga, links : [Manga -> Manga \cup { None }] ]
  /\ byHand \in BOOLEAN
  /\ erased \in SUBSET Manga
  /\ missed \in SUBSET Manga

Idle ==
  [ pc |-> "idle", on |-> None, to |-> "details_pending", sup |-> None,
    error |-> "other", locks |-> FALSE, parent |-> None, newest |-> None,
    missed |-> None ]

NoBatch == [ rows |-> {}, links |-> [m \in Manga |-> None] ]

Absent == [ status |-> "absent", sup |-> None, error |-> "other", lease |-> "none" ]

----------------------------------------------------------------------------
Links == [m \in Manga |-> row[m].sup]

Known(m) == row[m].status # "absent"

\* The row locks held across a read: a marked parent's, and the batch's.
Locked(m) ==
  \/ m \in batch.rows
  \/ \E w \in Worker : worker[w].pc = "staged" /\ worker[w].parent = m

Free(m) == row[m].lease = "none" /\ ~Locked(m)

\* Everything reached from m along the links, m included.
Reached(links, m) ==
  { n \in Manga :
      \A S \in SUBSET Manga :
        (m \in S /\ \A x \in S : links[x] \in S \cup { None }) => n \in S }

(***************************************************************************)
(* replacement_target(): the end of the chain from target, or None when    *)
(* the chain has no end or comes back to the source.                       *)
(***************************************************************************)
Newest(links, source, target) ==
  LET ends == { n \in Reached(links, target) : links[n] = None } IN
  IF ends = {} \/ source \in Reached(links, target) THEN None
  ELSE CHOOSE n \in ends : TRUE

----------------------------------------------------------------------------
Init ==
  /\ row = [m \in Manga |-> Absent]
  /\ worker = [w \in Worker |-> Idle]
  /\ batch = NoBatch
  /\ byHand = FALSE
  /\ erased = {}
  /\ missed = {}

\* The collector finds a gallery, and screening queues it.
Collect(m) ==
  /\ ~Known(m)
  /\ row' = [row EXCEPT ![m].status = "details_pending"]
  /\ UNCHANGED << worker, batch, byHand, erased, missed >>

ClaimDetails(w, m) ==
  /\ worker[w].pc = "idle"
  /\ row[m].status \in { "details_pending", "download_pending" } /\ Free(m)
  /\ row' = [row EXCEPT ![m].status = "details_pending", ![m].lease = "details"]
  /\ worker' = [worker EXCEPT ![w].pc = "reading", ![w].on = m]
  /\ UNCHANGED << batch, byHand, erased, missed >>

\* Mutant: the lease is cleared to the null the links use.
EndedWithNull(m, to, error) ==
  [row EXCEPT ![m].status = to, ![m].error = error, ![m].lease = None]

\* The attempt on m ends and leaves the row free, in status to.
Ended(m, to, error) ==
  [row EXCEPT ![m].status = to, ![m].error = error, ![m].lease = "none"]

\* The page could not be read: a temporary failure, or one for review.
DetailsFail(w) ==
  /\ worker[w].pc = "reading"
  /\ \E to \in { "details_pending", "manual_review" } :
       row' = Ended(worker[w].on, to, "other")
  /\ worker' = [worker EXCEPT ![w] = Idle]
  /\ UNCHANGED << batch, byHand, erased, missed >>

\* Mutant: the links are staged without the lock.
NeverBusy == FALSE

\* pg_try_advisory_xact_lock: another details transaction is staging a link.
Busy == \E w \in Worker : worker[w].pc = "staged" /\ worker[w].locks

\* The rows mark_parent_outdated() is about: uploaded, and not linked yet.
Superseded(p, m) ==
  /\ p \in Manga \ { m }
  /\ row[p].status \in { "uploaded", "completed" }
  /\ row[p].sup = None

(***************************************************************************)
(* How the transaction of a process ends when the page of m names p as its *)
(* parent and m's own link is staged already.  A parent that is leased or  *)
(* locked is passed over.                                                  *)
(***************************************************************************)
Marking(m, p, end) ==
  LET newest == Newest([Links EXCEPT ![m] = end.sup], p, m) IN
  IF ~Superseded(p, m) THEN end
  ELSE IF ~Free(p) THEN [end EXCEPT !.missed = p]
  ELSE IF newest = None THEN [end EXCEPT !.to = "manual_review", !.error = "invalid"]
  ELSE [end EXCEPT !.parent = p, !.newest = newest]

(***************************************************************************)
(* The page has been read; latest is the newest version it names, p the    *)
(* parent.  set_discovered_replacement() refuses a link that would close a *)
(* cycle or disagrees with the one the row has.                            *)
(***************************************************************************)
Stage(w) ==
  LET m == worker[w].on
      old == row[m].sup
      base == [ Idle EXCEPT !.pc = "staged", !.on = m, !.sup = old ]
      StageEnd(end) == worker' = [worker EXCEPT ![w] = end]
  IN
  /\ worker[w].pc = "reading"
  /\ \E latest \in Manga \cup { None } : \E p \in (Manga \ { latest }) \cup { None } :
       LET goal == IF latest # None THEN latest ELSE old
           target == Newest(Links, m, goal)
           agrees == target # None /\ (old # None => Newest(Links, m, old) = target)
       IN
       \/ /\ goal = None
          /\ StageEnd(Marking(m, p, [base EXCEPT !.to = "download_pending"]))
       \/ /\ goal # None /\ Busy
          /\ StageEnd([base EXCEPT !.to = "details_pending"])
       \/ /\ goal # None /\ ~Busy /\ ~agrees
          /\ StageEnd([base EXCEPT
               !.to = "manual_review", !.locks = TRUE,
               !.error = IF target = None \/ Newest(Links, m, old) = None
                         THEN "invalid" ELSE "other"])
       \/ /\ goal # None /\ ~Busy /\ agrees
          /\ StageEnd(Marking(m, p, [base EXCEPT !.to = "outdated", !.locks = TRUE,
                                                 !.sup = target]))
  /\ UNCHANGED << row, batch, byHand, erased, missed >>

\* finish() and the commit: the row, and the parent it marked.
Commit(w) ==
  LET end == worker[w] IN
  /\ end.pc = "staged"
  /\ row' = [m \in Manga |->
       CASE m = end.on -> [ status |-> end.to, sup |-> end.sup,
                            error |-> end.error, lease |-> "none" ]
         [] m # end.on /\ m = end.parent ->
              [row[m] EXCEPT !.status = "outdated", !.sup = end.newest]
         [] OTHER -> row[m]]
  /\ worker' = [worker EXCEPT ![w] = Idle]
  /\ missed' = missed \cup ({ end.missed } \ { None })
  /\ UNCHANGED << batch, byHand, erased >>

----------------------------------------------------------------------------
\* Mutant: a row is advanced even while a process works on it.
AdvanceableLeased(m) ==
  /\ \/ row[m].status = "outdated"
     \/ row[m].status = "manual_review" /\ row[m].error # "invalid"
  /\ row[m].sup # None
  /\ row[row[m].sup].sup # None

\* Mutant: only rows that are still to be deleted are advanced past.
AdvanceablePastOutdated(m) ==
  /\ Free(m)
  /\ \/ row[m].status = "outdated"
     \/ row[m].status = "manual_review" /\ row[m].error # "invalid"
  /\ row[m].sup # None
  /\ row[row[m].sup].sup # None
  /\ row[row[m].sup].status = "outdated"

\* The rows advance_replacement_chains() selects: linked to a linked row.
Advanceable(m) ==
  /\ Free(m)
  /\ \/ row[m].status = "outdated"
     \/ row[m].status = "manual_review" /\ row[m].error # "invalid"
  /\ row[m].sup # None
  /\ row[row[m].sup].sup # None

\* The Supervisor locks a batch and follows the chains.
ReadBatch ==
  /\ batch.rows = {}
  /\ \E m \in Manga : Advanceable(m)
  /\ batch' = [ rows |-> { m \in Manga : Advanceable(m) }, links |-> Links ]
  /\ UNCHANGED << row, worker, byHand, erased, missed >>

\* It writes them: the end of each chain, or a review of a chain without one.
WriteBatch ==
  /\ batch.rows # {}
  /\ row' = [m \in Manga |->
       LET target == Newest(batch.links, m, batch.links[m]) IN
       IF m \notin batch.rows THEN row[m]
       ELSE IF target # None THEN [row[m] EXCEPT !.sup = target]
       ELSE [row[m] EXCEPT !.status = "manual_review", !.error = "invalid"]]
  /\ batch' = NoBatch
  /\ UNCHANGED << worker, byHand, erased, missed >>

----------------------------------------------------------------------------
\* Mutant: a replacement that is known is as good as one under way.
KnownReplacement(m) == row[m].sup # None /\ Known(row[m].sup)

\* What _delete_ready_clause() asks, and _delete() again.
Replaced(m) ==
  /\ row[m].sup # None
  /\ row[row[m].sup].status \in ReplacementDeleteReady

DeleteReady(m) ==
  \/ row[m].status = "force_delete_pending"
  \/ row[m].status = "outdated" /\ Replaced(m)

ClaimDelete(w, m) ==
  /\ worker[w].pc = "idle"
  /\ DeleteReady(m) /\ Free(m)
  /\ row' = [row EXCEPT ![m].lease = "delete"]
  /\ worker' = [worker EXCEPT ![w].pc = "claimed", ![w].on = m]
  /\ UNCHANGED << batch, byHand, erased, missed >>

\* The replacement is read again, without a lock; if it fell back the row waits.
CheckDelete(w) ==
  LET m == worker[w].on IN
  /\ worker[w].pc = "claimed"
  /\ \/ /\ DeleteReady(m)
        /\ worker' = [worker EXCEPT ![w].pc = "deleting"]
        /\ UNCHANGED row
     \/ /\ ~DeleteReady(m)
        /\ worker' = [worker EXCEPT ![w] = Idle]
        /\ row' = Ended(m, row[m].status, "other")
  /\ UNCHANGED << batch, byHand, erased, missed >>

\* The archive is deleted from LANraragi and from the disk.
Erase(w) ==
  LET m == worker[w].on IN
  /\ worker[w].pc = "deleting"
  /\ worker' = [worker EXCEPT ![w].pc = "erased"]
  /\ erased' = IF row[m].status = "outdated" THEN erased \cup { m } ELSE erased
  /\ UNCHANGED << row, batch, byHand, missed >>

\* _delete() ends; it may fail before the archive is erased, or after.
FinishDelete(w) ==
  LET m == worker[w].on IN
  /\ \/ /\ worker[w].pc = "erased"
        /\ row' = Ended(m, "deleted", "other")
     \/ /\ worker[w].pc \in { "deleting", "erased" }
        /\ \E to \in { row[m].status, "manual_review" } : row' = Ended(m, to, "other")
  /\ worker' = [worker EXCEPT ![w] = Idle]
  /\ UNCHANGED << batch, byHand, erased, missed >>

\* A process ends early: its transaction is rolled back, its lease stays.
Crash(w) ==
  /\ worker[w].pc # "idle"
  /\ worker' = [worker EXCEPT ![w] = Idle]
  /\ UNCHANGED << row, batch, byHand, erased, missed >>

----------------------------------------------------------------------------
\* Download, validation and preparation; a linked row is not downloaded.
Pipeline(m) ==
  /\ Free(m)
  /\ \/ /\ row[m].status = "download_pending" /\ row[m].sup = None
        /\ \E to \in { "details_pending", "upload_pending", "manual_review" } :
             row' = Ended(m, to, "other")
     \/ /\ row[m].status = "upload_pending"
        /\ row' = Ended(m, "manual_review", "other")
  /\ UNCHANGED << worker, batch, byHand, erased, missed >>

\* An upload waits until every row it replaces is deleted.
ClaimUpload(m) ==
  /\ row[m].status = "upload_pending" /\ Free(m)
  /\ \A old \in Manga : row[old].sup = m => row[old].status = "deleted"
  /\ row' = [row EXCEPT ![m].status = "uploading", ![m].lease = "upload"]
  /\ UNCHANGED << worker, batch, byHand, erased, missed >>

EndUpload(m) ==
  /\ row[m].status = "uploading" /\ row[m].lease = "upload"
  /\ \/ /\ row' = Ended(m, "uploaded", "other")
        /\ erased' = erased \ { m }
     \/ /\ \E to \in { "upload_pending", "manual_review" } : row' = Ended(m, to, "other")
        /\ UNCHANGED erased
     \/ /\ row' = Ended(m, "manual_review", "duplicate")
        /\ UNCHANGED erased
  /\ UNCHANGED << worker, batch, byHand, missed >>

ClaimCleanup(m) ==
  /\ row[m].status = "uploaded" /\ Free(m)
  /\ row' = [row EXCEPT ![m].lease = "cleanup"]
  /\ UNCHANGED << worker, batch, byHand, erased, missed >>

EndCleanup(m) ==
  /\ row[m].status = "uploaded" /\ row[m].lease = "cleanup"
  /\ \E to \in { "completed", "uploaded", "manual_review" } : row' = Ended(m, to, "other")
  /\ UNCHANGED << worker, batch, byHand, erased, missed >>

----------------------------------------------------------------------------
\* An administrator releases the expired lease of a process that is gone.
Release(m) ==
  /\ row[m].lease # "none"
  /\ \A w \in Worker : worker[w].on # m
  /\ row' = Ended(m, "manual_review", row[m].error)
  /\ UNCHANGED << worker, batch, byHand, erased, missed >>

(***************************************************************************)
(* An administrator sets a status by hand, from then on answering for the  *)
(* archive.  Only "outdated" changes the link, to any other known row.     *)
(***************************************************************************)
Override(m) ==
  /\ Known(m) /\ Free(m)
  /\ \/ \E to \in { "details_pending", "upload_pending", "completed",
                    "manual_review", "force_delete_pending", "deleted" } :
          /\ row[m].status # to
          /\ to = "force_delete_pending" => row[m].status \in ForceDeleteSource
          /\ row' = [row EXCEPT ![m].status = to]
          /\ UNCHANGED byHand
     \/ \E n \in Manga \ { m } :
          /\ row[m].status # "outdated" /\ Known(n)
          /\ row' = [row EXCEPT ![m].status = "outdated", ![m].sup = n]
          /\ byHand' = TRUE
  /\ erased' = erased \ { m }
  /\ UNCHANGED << worker, batch, missed >>

\* The actions resume, validate, upload and confirm_uploaded on a reviewed row.
Resume(m) ==
  /\ row[m].status = "manual_review" /\ Free(m)
  /\ \E to \in { "details_pending", "upload_pending", "uploaded" } :
       row' = [row EXCEPT ![m].status = to]
  /\ erased' = erased \ { m }
  /\ UNCHANGED << worker, batch, byHand, missed >>

\* A duplicate upload is resolved: m replaces the old versions selected.
ResolveConflict(m) ==
  /\ row[m].status = "manual_review" /\ row[m].error = "duplicate"
  /\ row[m].sup = None /\ Free(m)
  /\ \E olds \in SUBSET { old \in Manga \ { m } :
                   /\ row[old].status \in { "uploaded", "completed", "manual_review", "outdated" }
                   /\ row[old].sup \in { None, m } /\ Free(old) } :
       /\ olds # {}
       /\ row' = [n \in Manga |->
            CASE n = m -> [row[n] EXCEPT !.status = "upload_pending"]
              [] n \in olds -> [row[n] EXCEPT !.status = "outdated", !.sup = m]
              [] OTHER -> row[n]]
  /\ UNCHANGED << worker, batch, byHand, erased, missed >>

----------------------------------------------------------------------------
Details(w) == (\E m \in Manga : ClaimDetails(w, m)) \/ DetailsFail(w) \/ Stage(w) \/ Commit(w)

Delete(w) ==
  (\E m \in Manga : ClaimDelete(w, m)) \/ CheckDelete(w) \/ Erase(w) \/ FinishDelete(w)

Supervisor == ReadBatch \/ WriteBatch

Archive(m) ==
  Pipeline(m) \/ ClaimUpload(m) \/ EndUpload(m) \/ ClaimCleanup(m) \/ EndCleanup(m)

Administrator(m) == Release(m) \/ Override(m) \/ Resume(m) \/ ResolveConflict(m)

Next ==
  \/ \E w \in Worker : Details(w) \/ Delete(w) \/ Crash(w)
  \/ Supervisor
  \/ \E m \in Manga : Collect(m) \/ Archive(m)
  \/ \E m \in Administered : Administrator(m)

Spec == Init /\ [][Next]_vars

(***************************************************************************)
(* The Supervisor's loop advances chains on every pass, it starts every    *)
(* kind of process again, and a process that does not crash ends what it   *)
(* started.  Nothing makes an administrator act.                           *)
(***************************************************************************)
Fairness ==
  /\ WF_vars(Supervisor)
  /\ \A w \in Worker : WF_vars(Details(w)) /\ WF_vars(Delete(w))
  /\ \A m \in Manga : WF_vars(Archive(m))

FairSpec == Spec /\ Fairness

----------------------------------------------------------------------------
(***************************************************************************)
(* No row is its own replacement, whoever links it: replacement_target()   *)
(* looks for its starting point, the Web refuses the row itself, and a     *)
(* conflict leaves the newest version out of the old ones.                 *)
(***************************************************************************)
NoSelfReplacement == \A m \in Manga : row[m].sup # m

\* A nonempty set that the links of its members never leave.
Closed(S) == S # {} /\ \A m \in S : row[m].sup \in S

(***************************************************************************)
(* What the advisory lock of set_discovered_replacement() is for: as long  *)
(* as no administrator links rows by hand, links form no cycle, although   *)
(* they are staged on chains that change before they are committed.        *)
(***************************************************************************)
AcyclicUnlessByHand == ~byHand => \A S \in SUBSET Manga : ~Closed(S)

(***************************************************************************)
(* Replacement never erases every version of an archive: following the     *)
(* links from a row erased because it was replaced leads out of the rows   *)
(* so erased, even when administrators link rows in a circle, deletes run  *)
(* at the same time, crash half way and are repeated.                      *)
(***************************************************************************)
SomeVersionRemains == \A S \in SUBSET erased : ~Closed(S)

(***************************************************************************)
(* While a process works on a row, nobody but that process changes what    *)
(* replaces it: _delete() relies on the link it read (its file and its     *)
(* LANraragi id are compared with the replacement's) until it is done.     *)
(***************************************************************************)
LeasedLinkIsStable ==
  [][\A m \in Manga :
       row[m].lease # "none" /\ row'[m].sup # row[m].sup =>
         \E w \in Worker : worker[w].pc = "staged" /\ worker[w].on = m]_vars

\* m is to be deleted and linked to a row that is itself linked.
Trails(m) ==
  /\ row[m].status = "outdated" /\ row[m].sup # None
  /\ row[row[m].sup].sup # None

(***************************************************************************)
(* "Retry chain advancement skipped while an old row was leased": a row    *)
(* that waits on a superseded replacement is advanced past it, sent to     *)
(* review, or taken up by a process.                                       *)
(***************************************************************************)
ChainsAdvance == \A m \in Manga : Trails(m) ~> (~Trails(m) \/ row[m].lease # "none")

(***************************************************************************)
(* An uploaded or completed row becomes outdated when a new version        *)
(* replaces it; one passed over while it was in use would be found again.  *)
(***************************************************************************)
ParentsSuperseded ==
  \A m \in Manga :
    m \in missed ~> (row[m].status \notin { "uploaded", "completed" } \/ row[m].sup # None)
=============================================================================
