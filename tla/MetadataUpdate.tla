--------------------------- MODULE MetadataUpdate ---------------------------
(***************************************************************************)
(* The metadata update: the archives LANraragi has for a batch of rows are *)
(* compared with the database in a preview; once it is confirmed the rows  *)
(* are set aside and the archives written one by one.  Each item has a     *)
(* snapshot of its row, and a row that has changed since is left alone.    *)
(***************************************************************************)
EXTENDS SpecialJobs

EligibleRow(r) ==
  /\ ~r.busy
  /\ \/ r.status = "completed"
     \/ r.status = "manual_review" /\ r.error = "upload"

StartMetadata(w, ms) ==
  LET x == [ NewWorkflow("lanraragi_metadata") EXCEPT
               !.bind = [m \in ms |-> [ status |-> db.row[m].status,
                                        error |-> db.row[m].error ]] ]
      keys == { MangaKey(m) : m \in ms }
      born == Acquire([ db EXCEPT !.wf[w] = x ], w, keys, ByWorkflow, 0)
  IN /\ IsNew(w, "lanraragi_metadata")
     /\ ms # {} /\ \A m \in ms : EligibleRow(db.row[m])
     /\ \A v \in Workflow : ~(Active(db, v) /\ ms \cap Bound(db.wf[v]) # {})
     /\ Free(db, w, keys)
     /\ db' = Queue(born, w, "scan")
     /\ UNCHANGED << sup, proc, qbit >>

Ready(x) == { r[1] : r \in x.data.ready }

\* The rows that are ready are set aside, all of them or none.
ConfirmUpdate(w) ==
  LET x == db.wf[w]
      ms == Ready(x)
      taken == [ TouchAll(db, ms) EXCEPT
                   !.wf[w] = [ x EXCEPT !.data.reserved = x.data.reserved \cup ms ],
                   !.row = [m \in Manga |-> IF m \in ms
                              THEN [ db.row[m] EXCEPT !.status = "special_processing" ]
                              ELSE db.row[m]] ]
  IN /\ x.kind = "lanraragi_metadata" /\ x.phase = "awaiting_confirmation"
     /\ ~x.cancel /\ ms # {}
     /\ \A m \in ms : EligibleRow(db.row[m]) /\ m \notin x.data.stale
     /\ MayQueue(taken, w, "apply")
     /\ db' = Queue(taken, w, "apply")
     /\ UNCHANGED << sup, proc, qbit >>

\* Every retry is a new preview, of what the rows are now.
RetryMetadata(w) ==
  LET x == db.wf[w]
      left == Bound(x) \ x.data.done
      fit == { m \in left : EligibleRow(db.row[m]) }
      again == [ x.data EXCEPT !.ready = { r \in x.data.ready : r[1] \notin left },
                               !.reserved = x.data.reserved \ left,
                               !.stale = (x.data.stale \cup left) \ fit ]
      d == [ db EXCEPT !.wf[w].phase = "queued", !.wf[w].data = again ]
  IN /\ x.kind = "lanraragi_metadata" /\ x.phase = "failed" /\ ~x.cancel
     /\ x.job["scan"].status \notin { "queued", "running" }
     /\ MayQueue(d, w, "scan")
     /\ db' = Queue(d, w, "scan")
     /\ UNCHANGED << sup, proc, qbit >>

MetadataCommand(w) ==
  \/ \E ms \in SUBSET Manga : StartMetadata(w, ms)
  \/ ConfirmUpdate(w) \/ RetryMetadata(w)

----------------------------------------------------------------------------
\* The executor.

AtMetadata(p, op, at) ==
  /\ proc[p].op = op /\ proc[p].at = at
  /\ db.wf[proc[p].w].kind = "lanraragi_metadata"
  /\ Valid(db, proc[p])

Metadata(p) == db.wf[proc[p].w]
Left(p, todo) ==
  proc' = [ proc EXCEPT ![p].todo = todo, ![p].at = "items", ![p].item = "none" ]

BeginBatch(p) ==
  /\ \E op \in { "scan", "apply" } : AtMetadata(p, op, "begin") /\ Going(p)
  /\ Left(p, Bound(Metadata(p)) \ Metadata(p).data.done)
  /\ UNCHANGED << db, sup, qbit >>

\* An item that fails is reported; the others go on.
SkipItem(p, m) ==
  /\ \E op \in { "scan", "apply" } : AtMetadata(p, op, "items") /\ Going(p)
  /\ m \in proc[p].todo
  /\ Left(p, proc[p].todo \ {m})
  /\ UNCHANGED << db, sup, qbit >>

\* The archive found for a row is claimed: nobody else may update it.
PreviewItem(p, m, a) ==
  LET w == proc[p].w IN
  /\ AtMetadata(p, "scan", "items") /\ Going(p)
  /\ m \in proc[p].todo /\ m \notin Metadata(p).data.stale
  /\ Free(db, w, { ArchiveKey(a) })
  /\ db' = [ Acquire(db, w, { ArchiveKey(a) }, ByWorkflow, 0)
               EXCEPT !.wf[w].data.ready = @ \cup { << m, a >> } ]
  /\ Left(p, proc[p].todo \ {m})
  /\ UNCHANGED << sup, qbit >>

\* Two rows that were found to be one archive are not updated.
Distinct(ready) == { r \in ready : \A s \in ready : r[2] = s[2] => r = s }

PreviewReady(p) ==
  LET w == proc[p].w
      ready == Distinct(Metadata(p).data.ready)
      d == [ db EXCEPT !.wf[w].data.ready = ready ]
  IN /\ AtMetadata(p, "scan", "items") /\ Going(p) /\ proc[p].todo = {}
     /\ \/ ready # {} /\ db' = Succeed(d, proc[p], "awaiting_confirmation", "active")
        \/ ready = {} /\ db' = Succeed(d, proc[p], "completed_with_errors", "completed")
     /\ Exits(p) /\ UNCHANGED qbit

WriteItem(p, m) ==
  /\ AtMetadata(p, "apply", "items") /\ Going(p)
  /\ m \in proc[p].todo /\ m \in Ready(Metadata(p)) \ Metadata(p).data.stale
  /\ db.row[m].status = "special_processing" /\ ~db.row[m].busy
  /\ db' = [ db EXCEPT !.wf[proc[p].w].job["apply"].effect = TRUE ]
  /\ proc' = [ proc EXCEPT ![p].todo = @ \ {m}, ![p].item = m, ![p].at = "write" ]
  /\ UNCHANGED << sup, qbit >>

\* Mutant: the row is confirmed whatever has happened to it meanwhile.
ConfirmsAnyRow(p) ==
  LET w == proc[p].w
      m == proc[p].item
      d == Restore(db, w, {m})
  IN /\ AtMetadata(p, "apply", "write")
     /\ db' = [ Touch(d, m) EXCEPT !.row[m].status = "completed", !.row[m].error = "none",
                                   !.wf[w].data.done = @ \cup {m} ]
     /\ Left(p, proc[p].todo)
     /\ UNCHANGED << sup, qbit >>

\* The archive is written: the row is where it was, or uploaded after all.
RecordItem(p) ==
  LET w == proc[p].w
      m == proc[p].item
      d == Restore(db, w, {m})
  IN /\ AtMetadata(p, "apply", "write")
     /\ db.row[m].status = "special_processing" /\ ~db.row[m].busy
     /\ m \notin Metadata(p).data.stale
     /\ db' = [ Touch(d, m) EXCEPT !.row[m].status = "completed", !.row[m].error = "none",
                                   !.wf[w].data.done = @ \cup {m} ]
     /\ Left(p, proc[p].todo)
     /\ UNCHANGED << sup, qbit >>

AbandonItem(p) ==
  /\ AtMetadata(p, "apply", "write")
  /\ Left(p, proc[p].todo)
  /\ UNCHANGED << db, sup, qbit >>

BatchApplied(p) ==
  /\ AtMetadata(p, "apply", "items") /\ Going(p) /\ proc[p].todo = {}
  /\ \E phase \in { "completed", "completed_with_errors" } :
       db' = Succeed(db, proc[p], phase, "completed")
  /\ Exits(p) /\ UNCHANGED qbit

\* What is done is kept; the rest goes back.
BatchCancelled(p) ==
  /\ \E op \in { "scan", "apply" }, at \in { "begin", "items" } : AtMetadata(p, op, at)
  /\ ~Going(p)
  /\ db' = CancelComplete(db, proc[p])
  /\ Exits(p) /\ UNCHANGED qbit

MetadataStep(p) ==
  \/ BeginBatch(p) \/ PreviewReady(p) \/ RecordItem(p) \/ AbandonItem(p)
  \/ BatchApplied(p) \/ BatchCancelled(p)
  \/ \E m \in Manga : SkipItem(p, m) \/ WriteItem(p, m)
  \/ \E m \in Manga, a \in Archive : PreviewItem(p, m, a)
=============================================================================
