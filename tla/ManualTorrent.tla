--------------------------- MODULE ManualTorrent ----------------------------
(***************************************************************************)
(* The manual torrent: for a row whose automatic torrent download failed   *)
(* somebody chooses the torrent by hand.  A job submits it to qBittorrent  *)
(* and hands the row back to the ordinary pipeline as a download.  What is *)
(* about to be submitted is recorded first (data.submission), and until    *)
(* that is settled nothing but a retry or a verification is allowed.       *)
(***************************************************************************)
EXTENDS SpecialJobs

Torrent == "manual"            \* in qbit[m]: the torrent somebody chose

StartManual(w, m) ==
  LET r == db.row[m]
      x == [ NewWorkflow("manual_torrent") EXCEPT
               !.bind = [n \in {m} |-> [ status |-> r.status, error |-> r.error ]] ]
      born == [ Touch(db, m) EXCEPT !.wf[w] = x, !.row[m].status = "special_processing" ]
  IN /\ IsNew(w, "manual_torrent")
     /\ r.status # "special_processing" /\ ~r.busy /\ ~r.external
     /\ \A v \in Workflow : ~(Active(db, v) /\ m \in Bound(db.wf[v]))
     /\ Free(db, w, { MangaKey(m) })
     /\ db' = Acquire(born, w, { MangaKey(m) }, ByWorkflow, 0)
     /\ UNCHANGED << sup, proc, qbit >>

IsIdle(w) == db.wf[w].kind = "manual_torrent" /\ Active(db, w) /\ Idle(db, w)

QueueManual(d, w, op) ==
  /\ MayQueue(d, w, op)
  /\ db' = Queue(d, w, op)
  /\ UNCHANGED << sup, proc, qbit >>

LoadManual(w) ==
  /\ IsIdle(w) /\ ~db.wf[w].data.submission
  /\ QueueManual([ db EXCEPT !.wf[w].data = InitialData["manual_torrent"],
                             !.wf[w].phase = "awaiting_load" ], w, "load")

ChooseManual(w) ==
  /\ IsIdle(w) /\ ~db.wf[w].data.submission /\ db.wf[w].data.choices
  /\ QueueManual([ db EXCEPT !.wf[w].data.selected = TRUE,
                             !.wf[w].phase = "submit_queued" ], w, "submit")

\* Without a selection this is LoadManual.
RetryManual(w) ==
  /\ IsIdle(w) /\ db.wf[w].data.selected
  /\ QueueManual([ db EXCEPT !.wf[w].phase = "submit_queued" ], w, "submit")

VerifyManual(w) ==
  /\ IsIdle(w) /\ db.wf[w].data.submission
  /\ QueueManual([ db EXCEPT !.wf[w].phase = "verify_queued" ], w, "verify")

ReleaseExpiredManual(w, op) ==
  LET j == db.wf[w].job[op] IN
  /\ db.wf[w].kind = "manual_torrent" /\ Active(db, w)
  /\ j.status = "running" /\ j.lease = "expired"
  /\ j.effect => db.wf[w].data.submission
  /\ ReleaseOnlyStopped => RunBy(w, op) = {}
  /\ db' = [ EndJob(Release(db, w, op), w, op, "abandoned") EXCEPT !.wf[w].phase = "failed" ]
  /\ UNCHANGED << sup, proc, qbit >>

\* The row goes back to where it was, or to the direct download.
ExitManual(w, direct) ==
  LET m == TheManga(db.wf[w])
      entry == db.wf[w].bind[m]
      row == IF direct
             THEN [ db.row[m] EXCEPT !.status = "details_pending", !.error = "none",
                                     !.method = "direct" ]
             ELSE [ db.row[m] EXCEPT !.status = entry.status, !.error = entry.error ]
      d == [ Touch(db, m) EXCEPT !.row[m] = row ]
  IN /\ IsIdle(w) /\ ~db.wf[w].data.submission
     /\ db' = Over(ReleaseAll(EndWorkflow(d, w, "cancelled", "cancelled"), w), w)
     /\ UNCHANGED << sup, proc, qbit >>

ManualCommand(w) ==
  \/ \E m \in Manga : StartManual(w, m)
  \/ LoadManual(w) \/ ChooseManual(w) \/ RetryManual(w) \/ VerifyManual(w)
  \/ \E direct \in BOOLEAN : ExitManual(w, direct)
  \/ \E op \in OperationsOf("manual_torrent") : ReleaseExpiredManual(w, op)

----------------------------------------------------------------------------
\* The executor.

AtManual(p, at) ==
  /\ proc[p].at = at
  /\ db.wf[proc[p].w].kind = "manual_torrent"
  /\ Valid(db, proc[p])

Manual(p) == db.wf[proc[p].w]
InQbit(p) == Torrent \in qbit[TheManga(Manual(p))]

FinishManual(p, data, phase, status) ==
  /\ db' = Succeed([ db EXCEPT !.wf[proc[p].w].data = data ], proc[p], phase, status)
  /\ Exits(p) /\ UNCHANGED qbit

\* The torrent is there: submitted before by this workflow, or by anybody.
FindSubmitted(p) ==
  /\ AtManual(p, "begin") /\ InQbit(p)
  /\ \/ proc[p].op = "submit"
     \/ proc[p].op = "verify" /\ Manual(p).data.submission
  /\ FinishManual(p, Manual(p).data, "completed", "completed")

VerifyFindsNothing(p) ==
  /\ AtManual(p, "begin") /\ proc[p].op = "verify"
  /\ Manual(p).data.submission /\ ~InQbit(p)
  /\ FinishManual(p, InitialData["manual_torrent"], "awaiting_load", "active")

LoadChoices(p) ==
  /\ AtManual(p, "begin") /\ proc[p].op = "load"
  /\ FinishManual(p, [ Manual(p).data EXCEPT !.choices = TRUE, !.selected = FALSE ],
                  "awaiting_selection", "active")

\* The torrent chosen is not on the page any more.  (With a submission on
\* record this is an error instead.)
ChoiceGone(p) ==
  /\ AtManual(p, "begin") /\ proc[p].op = "submit" /\ ~Manual(p).data.submission
  /\ FinishManual(p, [ Manual(p).data EXCEPT !.choices = TRUE, !.selected = FALSE ],
                  "awaiting_selection", "active")

\* Mutant: the torrent is submitted first and recorded after.
ForgetsIntent(p) ==
  /\ AtManual(p, "begin") /\ proc[p].op = "submit" /\ ~InQbit(p)
  /\ db' = Update([ db EXCEPT !.wf[proc[p].w].job["submit"].effect = TRUE ],
                  proc[p], Manual(p).phase)
  /\ Goto(p, "intended") /\ UNCHANGED << sup, qbit >>

RecordIntent(p) ==
  LET w == proc[p].w IN
  /\ AtManual(p, "begin") /\ proc[p].op = "submit" /\ ~InQbit(p)
  /\ db' = Update([ db EXCEPT !.wf[w].data.submission = TRUE,
                              !.wf[w].data.choices = TRUE,
                              !.wf[w].job["submit"].effect = TRUE ],
                  proc[p], Manual(p).phase)
  /\ Goto(p, "intended") /\ UNCHANGED << sup, qbit >>

\* Should the answer be lost or not be the torrent meant, the run fails here
\* with the torrent in qBittorrent.
SubmitTorrent(p) ==
  LET m == TheManga(Manual(p)) IN
  /\ proc[p].at = "intended" /\ Manual(p).kind = "manual_torrent"
  /\ qbit' = [ qbit EXCEPT ![m] = @ \cup { Torrent } ]
  /\ Goto(p, "submitted") /\ UNCHANGED << db, sup >>

HandOver(p) ==
  /\ AtManual(p, "submitted")
  /\ FinishManual(p, Manual(p).data, "completed", "completed")

ManualStep(p) ==
  \/ FindSubmitted(p) \/ VerifyFindsNothing(p) \/ LoadChoices(p) \/ ChoiceGone(p)
  \/ RecordIntent(p) \/ SubmitTorrent(p) \/ HandOver(p)
=============================================================================
