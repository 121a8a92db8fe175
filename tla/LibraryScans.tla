---------------------------- MODULE LibraryScans ----------------------------
(***************************************************************************)
(* The two special modules that are about the whole library and not about  *)
(* given rows: the comparison of LANraragi with the database, and the      *)
(* cleanup of what downloads have left behind.  Neither takes over a row;  *)
(* each has a key that keeps two of its runs apart, the comparison for as  *)
(* long as the workflow lives, the cleanup only while a job of it runs.    *)
(***************************************************************************)
EXTENDS SpecialJobs

StartCompare(w) ==
  /\ IsNew(w, "lanraragi_compare")
  /\ Free(db, w, { InstanceKey })
  /\ db' = Queue(Acquire([ db EXCEPT !.wf[w] = NewWorkflow("lanraragi_compare") ],
                         w, { InstanceKey }, ByWorkflow, 0), w, "compare")
  /\ UNCHANGED << sup, proc, qbit >>

StartCleanup(w) ==
  /\ IsNew(w, "download_cleanup")
  /\ db' = Queue([ db EXCEPT !.wf[w] = NewWorkflow("download_cleanup") ], w, "scan")
  /\ UNCHANGED << sup, proc, qbit >>

ConfirmCleanup(w) ==
  /\ db.wf[w].kind = "download_cleanup" /\ ~db.wf[w].cancel
  /\ db.wf[w].phase = "awaiting_confirmation" /\ db.wf[w].data.found
  /\ db.wf[w].job["apply"].status \notin { "queued", "running" }
  /\ MayQueue(db, w, "apply")
  /\ db' = Queue(db, w, "apply")
  /\ UNCHANGED << sup, proc, qbit >>

\* The generic retry, of the operation that failed.
RetryCompare(w) ==
  /\ db.wf[w].kind = "lanraragi_compare" /\ db.wf[w].phase = "failed"
  /\ db.wf[w].job["compare"].status \in { "failed", "abandoned" }
  /\ MayQueue(db, w, "compare")
  /\ db' = Queue(db, w, "compare")
  /\ UNCHANGED << sup, proc, qbit >>

\* A scan can be retried; once a deletion was tried only a new one will do.
RetryCleanup(w) ==
  /\ db.wf[w].kind = "download_cleanup" /\ db.wf[w].phase = "failed"
  /\ db.wf[w].job["apply"].status = "none"
  /\ db.wf[w].job["scan"].status \notin { "queued", "running" }
  /\ MayQueue(db, w, "scan")
  /\ db' = Queue(db, w, "scan")
  /\ UNCHANGED << sup, proc, qbit >>

ScanCommand(w) ==
  \/ StartCompare(w) \/ RetryCompare(w)
  \/ StartCleanup(w) \/ ConfirmCleanup(w) \/ RetryCleanup(w)

----------------------------------------------------------------------------
\* The executors.

AtScan(p, kind, at) ==
  /\ proc[p].at = at
  /\ db.wf[proc[p].w].kind = kind
  /\ Valid(db, proc[p])

Comparing == [ begin |-> "reading_lanraragi", reading_lanraragi |-> "reading_database",
               reading_database |-> "comparing", comparing |-> "publishing_report" ]

CompareGoesOn(p, at) ==
  /\ AtScan(p, "lanraragi_compare", at) /\ Going(p)
  /\ db' = Update(db, proc[p], Comparing[at])
  /\ Goto(p, Comparing[at]) /\ UNCHANGED << sup, qbit >>

ComparePublished(p) ==
  /\ AtScan(p, "lanraragi_compare", "publishing_report") /\ Going(p)
  /\ db' = Succeed(db, proc[p], "completed", "completed")
  /\ Exits(p) /\ UNCHANGED qbit

\* Before a deletion the effect is on record; what is deleted is checked again
\* item by item, so an item of an old list that is in use by now is kept.
BeginCleanup(p) ==
  /\ AtScan(p, "download_cleanup", "begin") /\ Going(p)
  /\ db' = IF proc[p].op = "apply"
           THEN [ db EXCEPT !.wf[proc[p].w].job["apply"].effect = TRUE ] ELSE db
  /\ Goto(p, "work") /\ UNCHANGED << sup, qbit >>

CleanupScanned(p, found) ==
  LET d == [ db EXCEPT !.wf[proc[p].w].data.found = found ] IN
  /\ AtScan(p, "download_cleanup", "work") /\ proc[p].op = "scan" /\ Going(p)
  /\ db' = IF found THEN Succeed(d, proc[p], "awaiting_confirmation", "active")
           ELSE Succeed(d, proc[p], "nothing_to_clean", "completed")
  /\ Exits(p) /\ UNCHANGED qbit

CleanupApplied(p) ==
  /\ AtScan(p, "download_cleanup", "work") /\ proc[p].op = "apply" /\ Going(p)
  /\ \E phase \in { "completed", "completed_with_errors" } :
       db' = Succeed(db, proc[p], phase, "completed")
  /\ Exits(p) /\ UNCHANGED qbit

\* The next write or checkpoint of a run that was asked to stop.
ScanCancelled(p) ==
  /\ \E kind \in { "lanraragi_compare", "download_cleanup" },
        at \in DOMAIN Comparing \cup { "publishing_report", "work" } : AtScan(p, kind, at)
  /\ ~Going(p)
  /\ db' = CancelComplete(db, proc[p])
  /\ Exits(p) /\ UNCHANGED qbit

ScanStep(p) ==
  \/ \E at \in DOMAIN Comparing : CompareGoesOn(p, at)
  \/ ComparePublished(p) \/ BeginCleanup(p) \/ CleanupApplied(p) \/ ScanCancelled(p)
  \/ \E found \in BOOLEAN : CleanupScanned(p, found)
=============================================================================
