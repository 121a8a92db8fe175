------------------------- MODULE SpecialWork_proofs -------------------------
(***************************************************************************)
(* What is proved of special processing as a whole.  First every step of   *)
(* the modules is brought into one of the forms of SpecialJobs_proofs      *)
(* (NextMoves), then those few forms are shown to keep the invariant       *)
(* (SoundStays), and from it the theorems follow.                          *)
(***************************************************************************)
EXTENDS SpecialWork, SpecialJobs_proofs

LEMMA RebasedRemarks ==
  ASSUME NEW d \in Database, NEW w \in Workflow, d.wf[w].kind = "video_archive"
  PROVE  Remarks(d, Rebased(d, w)) /\ Rebased(d, w).row = d.row
<1> DEFINE d1 == Touch(d, TheManga(d.wf[w]))
<1>1. Remarks(d, d1) /\ d1.row = d.row BY TouchRemarks
<1>2. d1 \in Database /\ d1.wf[w].kind = "video_archive" BY <1>1 DEF Remarks, Kept
<1>3. Rebased(d, w) = SyncRemark(d1, w) BY DEF Rebased
<1> HIDE DEF d1
<1> QED BY <1>1, <1>2, <1>3, SyncRemarks, RemarksTransitive

LEMMA StartVideoStep ==
  ASSUME TypeInv, NEW w \in Workflow, NEW m \in Manga, NEW load \in BOOLEAN,
         StartVideo(w, m, load)
  PROVE  CalmStep
<1> DEFINE x == [ NewWorkflow("video_archive") EXCEPT
                    !.bind = [n \in {m} |-> [ status |-> db.row[m].status,
                                              error |-> db.row[m].error ]] ]
           born == [ Touch(db, m) EXCEPT !.wf[w] = x, !.row[m].status = "special_processing" ]
           held == Acquire(born, w, { MangaKey(m) }, ByWorkflow, 0)
<1>1. /\ ~Exists(db, w) /\ db.row[m].status = "manual_review"
      /\ Free(db, w, { MangaKey(m) })
      /\ db' = IF load THEN Queue(held, w, "load") ELSE held
      /\ UNCHANGED << sup, proc, qbit >>
  BY DEF StartVideo, IsNew
<1>2. Born(db, born, w, "video_archive") /\ Bound(born.wf[w]) = {m} BY <1>1, TakeOver
<1> HIDE DEF born
<1>3. { MangaKey(m) } \in SUBSET Key /\ db \in Database /\ "video_archive" \in Kind /\ 0 \in Nat
      /\ { MangaKey(n) : n \in Bound(born.wf[w]) } \subseteq { MangaKey(m) }
  BY <1>2, MangaKeyIsKey, KindNames DEF TypeInv
<1>4. BeginIn(db, held, w) /\ held.wf[w].kind = "video_archive"
  BY <1>1, <1>2, <1>3, BornAcquires
<1> HIDE DEF held
<1>5. "load" \in OperationsOf(held.wf[w].kind) BY <1>4, OperationNames
<1>6. BeginIn(db, Queue(held, w, "load"), w) BY <1>3, <1>4, <1>5, BeginQueue
<1>7. BeginIn(db, db', w) BY <1>1, <1>4, <1>6
<1> QED BY <1>1, <1>7, CalmCommand

LEMMA StartManualStep ==
  ASSUME TypeInv, NEW w \in Workflow, NEW m \in Manga, StartManual(w, m)
  PROVE  CalmStep
<1> DEFINE x == [ NewWorkflow("manual_torrent") EXCEPT
                    !.bind = [n \in {m} |-> [ status |-> db.row[m].status,
                                              error |-> db.row[m].error ]] ]
           born == [ Touch(db, m) EXCEPT !.wf[w] = x, !.row[m].status = "special_processing" ]
<1>1. /\ ~Exists(db, w) /\ db.row[m].status # "special_processing"
      /\ Free(db, w, { MangaKey(m) })
      /\ db' = Acquire(born, w, { MangaKey(m) }, ByWorkflow, 0)
      /\ UNCHANGED << sup, proc, qbit >>
  BY DEF StartManual, IsNew
<1>2. Born(db, born, w, "manual_torrent") /\ Bound(born.wf[w]) = {m} BY <1>1, TakeOver
<1> HIDE DEF born
<1>3. { MangaKey(m) } \in SUBSET Key /\ db \in Database /\ "manual_torrent" \in Kind /\ 0 \in Nat
      /\ { MangaKey(n) : n \in Bound(born.wf[w]) } \subseteq { MangaKey(m) }
  BY <1>2, MangaKeyIsKey, KindNames DEF TypeInv
<1>4. BeginIn(db, db', w) BY <1>1, <1>2, <1>3, BornAcquires
<1> QED BY <1>1, <1>4, CalmCommand

LEMMA VideoIsKind ==
  /\ "video_archive" \in Kind /\ "video_archive" # "none"
  /\ "video_archive" \notin Uncancellable
BY KindNames DEF Uncancellable

LEMMA QueueVideoStep ==
  ASSUME TypeInv, NEW w \in Workflow,
         QueueLoad(w) \/ QueueCheck(w) \/ RetryVideo(w)
  PROVE  CalmStep
<1>1. db.wf[w].kind = "video_archive" BY DEF QueueLoad, QueueCheck, RetryVideo, IsLocked
<1>2. db.wf[w].data \in DataOf("video_archive") BY <1>1, VideoIsKind, TypedWorkflow
<1>3. PICK o \in OperationsOf("video_archive") :
        db' = Queue(db, w, o) /\ UNCHANGED << sup, proc, qbit >>
  <2>1. CASE QueueLoad(w) BY <2>1, OperationNames DEF QueueLoad, QueueVideo
  <2>2. CASE QueueCheck(w) BY <2>2, OperationNames DEF QueueCheck, QueueVideo
  <2>3. CASE RetryVideo(w)
    <3>1. db.wf[w].data.retry \in OperationsOf("video_archive") \cup { "none" }
      BY <1>2, VideoDataFields
    <3> QED BY <2>3, <3>1 DEF RetryVideo, QueueVideo
  <2> QED BY <2>1, <2>2, <2>3
<1> QED BY <1>1, <1>3, QueueStep, VideoIsKind

LEMMA SelectTorrentsStep ==
  ASSUME TypeInv, NEW w \in Workflow, SelectTorrents(w)
  PROVE  CalmStep
<1> DEFINE ph == "torrent_submit_queued"
           d1 == [ db EXCEPT !.wf[w].phase = ph ]
           d2 == [ d1 EXCEPT !.wf[w].data.selected = TRUE ]
           z1 == [ d1.wf[w].data EXCEPT !.selected = TRUE ]
           d == [ d2 EXCEPT !.wf[w].data.retry = "none" ]
           z2 == [ d2.wf[w].data EXCEPT !.retry = "none" ]
<1>1. db.wf[w].kind = "video_archive" /\ UNCHANGED << sup, proc, qbit >>
  BY DEF SelectTorrents, IsLocked
<1>2. db' = Queue(Rebased(d, w), w, "submit") BY DEF SelectTorrents
<1>3. db \in Database /\ db.wf[w].data \in DataOf("video_archive")
  BY <1>1, VideoIsKind, TypedWorkflow
<1>4. CalmIn(db, d1, w) /\ d1.wf[w].data = db.wf[w].data
  BY <1>1, <1>3, CalmRefl, CalmPhase, PhaseNames, VideoIsKind
<1> HIDE DEF d1
<1>5. z1 \in DataOf("video_archive")
  BY <1>3, <1>4, VideoDataFields DEF DataOf
<1>6. d2 = DataPut(d1, w, z1) BY DEF DataPut
<1> HIDE DEF d2, z1
<1>7. CalmIn(db, d2, w) /\ d2.wf[w].data = z1
  BY <1>1, <1>3, <1>4, <1>5, <1>6, CalmPlain
<1>8. z2 \in DataOf("video_archive")
  BY <1>5, <1>7, VideoDataFields DEF DataOf
<1>9. d = DataPut(d2, w, z2) BY DEF DataPut
<1> HIDE DEF d, z2
<1>11. CalmIn(db, d, w) /\ d \in Database /\ d.wf[w].kind = "video_archive"
  BY <1>1, <1>3, <1>7, <1>8, <1>9, CalmPlain
<1>13. CalmIn(db, Rebased(d, w), w) BY <1>3, <1>11, RebasedRemarks, CalmRemarks
<1>14. "submit" \in OperationsOf(db.wf[w].kind) BY <1>1, OperationNames
<1>15. CalmIn(db, db', w) BY <1>1, <1>2, <1>3, <1>13, <1>14, CalmQueue, VideoIsKind
<1> QED BY <1>1, <1>15, CalmCommand, VideoIsKind

LEMMA QueueSourceCleanupStep ==
  ASSUME TypeInv, NEW w \in Workflow, QueueSourceCleanup(w)
  PROVE  CalmStep
<1> DEFINE e == Queue(db, w, "cleanup")
           z == [ e.wf[w].data EXCEPT !.cleanup = "queued" ]
           d == [ e EXCEPT !.wf[w].data.cleanup = "queued" ]
<1>1. db.wf[w].kind = "video_archive" /\ db' = Rebased(d, w)
      /\ UNCHANGED << sup, proc, qbit >>
  BY DEF QueueSourceCleanup
<1>2. db \in Database /\ "cleanup" \in OperationsOf(db.wf[w].kind)
  BY <1>1, VideoIsKind, OperationNames DEF TypeInv
<1>3. CalmIn(db, e, w) BY <1>1, <1>2, CalmRefl, CalmQueue, VideoIsKind
<1>4. d = DataPut(e, w, z) BY DEF DataPut
<1> HIDE DEF e, d
<1>5. e.wf[w] \in WorkflowOf("video_archive") BY <1>1, <1>2, <1>3, CalmFields, VideoIsKind
<1>6. e.wf[w].data \in DataOf("video_archive") BY <1>5, WorkflowFields, VideoIsKind
<1>7. z \in DataOf("video_archive") BY <1>6, VideoDataFields DEF DataOf
<1> HIDE DEF z
<1>8. CalmIn(db, d, w) /\ d \in Database /\ d.wf[w].kind = "video_archive"
  BY <1>1, <1>2, <1>3, <1>4, <1>7, CalmPlain
<1>11. CalmIn(db, db', w) BY <1>1, <1>2, <1>8, RebasedRemarks, CalmRemarks
<1> QED BY <1>1, <1>11, CalmCommand, VideoIsKind

LEMMA CancelVideoStep ==
  ASSUME TypeInv, NEW w \in Workflow, CancelVideo(w)
  PROVE  CalmStep
<1>1. db.wf[w].kind = "video_archive" /\ UNCHANGED << sup, proc, qbit >> /\ db \in Database
  BY DEF CancelVideo, IsLocked, TypeInv
<1>2. CalmIn(db, db, w) BY <1>1, CalmRefl
<1>3. CASE Running(db, w) # {}
  <2> DEFINE d == [ db EXCEPT !.wf[w].cancel = TRUE ]
  <2>1. db' = Rebased(d, w) BY <1>3 DEF CancelVideo
  <2>2. CalmIn(db, d, w) BY <1>1, <1>2, CalmAsked, VideoIsKind
  <2> HIDE DEF d
  <2>3. d \in Database /\ d.wf[w].kind = "video_archive"
    BY <1>1, <2>2, CalmFields, VideoIsKind
  <2>4. CalmIn(db, db', w) BY <1>1, <2>1, <2>2, <2>3, RebasedRemarks, CalmRemarks
  <2> QED BY <1>1, <2>4, CalmCommand, VideoIsKind
<1>4. CASE Running(db, w) = {}
  <2> DEFINE d == CancelQueued(db, w)
  <2>1. db' = Queue(Rebased(d, w), w, "cancel") BY <1>4 DEF CancelVideo
  <2>2. CalmIn(db, d, w) BY <1>1, CalmCancelQueued, VideoIsKind
  <2> HIDE DEF d
  <2>3. d \in Database /\ d.wf[w].kind = "video_archive"
    BY <1>1, <2>2, CalmFields, VideoIsKind
  <2>4. CalmIn(db, Rebased(d, w), w) BY <1>1, <2>2, <2>3, RebasedRemarks, CalmRemarks
  <2>5. "cancel" \in OperationsOf(db.wf[w].kind) BY <1>1, OperationNames
  <2>6. CalmIn(db, db', w) BY <1>1, <2>1, <2>4, <2>5, CalmQueue, VideoIsKind
  <2> QED BY <1>1, <2>6, CalmCommand, VideoIsKind
<1> QED BY <1>3, <1>4

LEMMA ReleaseExpiredVideoStep ==
  ASSUME TypeInv, NEW w \in Workflow, NEW op \in OperationsOf("video_archive"),
         ReleaseExpiredVideo(w, op)
  PROVE  GiveUpStep(w, op)
<1> DEFINE x == db.wf[w]
           g == EndJob(Release(db, w, op), w, op, "abandoned")
           d == Rebased(g, w)
           m == TheManga(db.wf[w])
<1>1. /\ x.kind = "video_archive"
      /\ x.job[op].status = "running" /\ x.job[op].lease = "expired"
      /\ ReleaseOnlyStopped => RunBy(w, op) = {}
      /\ UNCHANGED << sup, proc, qbit >>
  BY DEF ReleaseExpiredVideo
<1>2. db' = IF op = "cleanup"
            THEN [ d EXCEPT !.wf[w].data.cleanup = "failed", !.wf[w].phase = "ready" ]
            ELSE [ d EXCEPT !.wf[w].data.retry = op, !.wf[w].phase = "failed",
                            !.row[m].error = "special" ]
  BY DEF ReleaseExpiredVideo
<1>3. db \in Database /\ x \in WorkflowOf("video_archive") /\ x.kind # "none"
  BY <1>1, VideoIsKind, TypedWorkflow
<1>4. m \in Manga BY <1>3, BoundRows, VideoIsKind
<1>5. Ending(db, g, w, op) /\ g \in Database /\ g.wf[w].kind = "video_archive"
      /\ g.wf[w].status = x.status
  BY <1>1, <1>3, GivenUp
<1> HIDE DEF g
<1>6. Remarks(g, d) BY <1>5, RebasedRemarks
<1>7. Ending(db, d, w, op) /\ d.wf[w].status = x.status /\ d.wf[w].kind = "video_archive"
  BY <1>3, <1>5, <1>6, EndingRemarks
<1> HIDE DEF d
<1>8. d \in Database /\ d.wf[w] \in WorkflowOf("video_archive")
  BY <1>1, <1>3, <1>7, EndingFields
<1>9. d.wf[w].data \in DataOf("video_archive") BY <1>8, WorkflowFields, VideoIsKind
<1>10. Ending(db, db', w, op) /\ db'.wf[w].status = x.status
  <2>1. CASE op = "cleanup"
    <3> DEFINE z == [ d.wf[w].data EXCEPT !.cleanup = "failed" ]
               e == [ d EXCEPT !.wf[w].data.cleanup = "failed" ]
    <3>1. db' = PhasePut(e, w, "ready") BY <1>2, <2>1 DEF PhasePut
    <3>2. e = DataPut(d, w, z) BY DEF DataPut
    <3>3. z \in DataOf("video_archive") /\ z.selected = d.wf[w].data.selected
          /\ z.torrents = d.wf[w].data.torrents
      BY <1>9, VideoDataFields DEF DataOf
    <3> HIDE DEF z, e
    <3>4. DataLike(d.wf[w], [ d.wf[w] EXCEPT !.data = z ]) BY <1>8, <3>3, VideoSettles
    <3>5. Ending(db, e, w, op) /\ e.wf[w].status = x.status
      BY <1>1, <1>3, <1>7, <3>2, <3>3, <3>4, EndingData
    <3> QED BY <1>3, <3>1, <3>5, EndingPhase, PhaseNames
  <2>2. CASE op # "cleanup"
    <3> DEFINE z == [ d.wf[w].data EXCEPT !.retry = op ]
               e == [ d EXCEPT !.wf[w].data.retry = op ]
               f == PhasePut(e, w, "failed")
    <3>1. db' = [ f EXCEPT !.row[m].error = "special" ] BY <1>2, <2>2 DEF PhasePut
    <3>2. e = DataPut(d, w, z) BY DEF DataPut
    <3>3. z \in DataOf("video_archive") /\ z.selected = d.wf[w].data.selected
          /\ z.torrents = d.wf[w].data.torrents
      BY <1>9, VideoDataFields DEF DataOf
    <3> HIDE DEF z, e
    <3>4. DataLike(d.wf[w], [ d.wf[w] EXCEPT !.data = z ]) BY <1>8, <3>3, VideoSettles
    <3>5. Ending(db, e, w, op) /\ e.wf[w].status = x.status
      BY <1>1, <1>3, <1>7, <3>2, <3>3, <3>4, EndingData
    <3>6. Ending(db, f, w, op) /\ f.wf[w].status = x.status /\ f \in Database
      BY <1>3, <3>5, EndingPhase, PhaseNames
    <3> HIDE DEF f
    <3>7. f.row[m] \in Row BY <1>4, <3>6, DatabaseFields
    <3>8. [ f.row[m] EXCEPT !.error = "special" ] \in Row BY <3>7, RowFields DEF RowError
    <3>9. db' = [ f EXCEPT !.row[m] = [ f.row[m] EXCEPT !.error = "special" ] ] BY <3>1
    <3>10. Remarks(f, db') BY <1>4, <3>6, <3>8, <3>9, PutRowRemarks
    <3> QED BY <1>3, <3>6, <3>10, EndingRemarks
  <2> QED BY <2>1, <2>2
<1> QED BY <1>1, <1>3, <1>10, GiveUpRecorded

LEMMA ExitWithoutCleanupStep ==
  ASSUME TypeInv, NEW w \in Workflow, ExitWithoutCleanup(w)
  PROVE  CalmStep
<1> DEFINE x == db.wf[w]
           m == TheManga(x)
           entry == x.bind[m]
           c == CancelQueued(db, w)
           d == ReleaseAll(EndWorkflow(c, w, "cancelled", "cancelled"), w)
           r == [ d.row[m] EXCEPT !.status = entry.status, !.error = entry.error ]
           e == [ d EXCEPT !.row[m] = r ]
           f == Touch(e, m)
<1>1. x.kind = "video_archive" /\ x.status = "active" /\ Running(db, w) = {}
      /\ UNCHANGED << sup, proc, qbit >>
  BY DEF ExitWithoutCleanup, IsLocked, Active
<1>2. db' = Over(f, w)
  <2>1. db' = Over(Touch([ d EXCEPT !.row[m].status = entry.status,
                                    !.row[m].error = entry.error ], m), w)
    BY DEF ExitWithoutCleanup
  <2> HIDE DEF d
  <2>2. [ d EXCEPT !.row[m].status = entry.status, !.row[m].error = entry.error ] = e
    OBVIOUS
  <2> QED BY <2>1, <2>2
<1>3. db \in Database /\ x \in WorkflowOf("video_archive") /\ x.kind # "none"
  BY <1>1, VideoIsKind, TypedWorkflow
<1>4. m \in Manga /\ entry \in Entry BY <1>3, BoundRows, VideoIsKind
<1>5. CalmIn(db, c, w) BY <1>3, CalmCancelQueued
<1>6. \A o \in OperationsOf(x.kind) : x.job[o].status # "running"
  BY <1>1, <1>3, RunsNone
<1>7. \A o \in OperationsOf(x.kind) : c.wf[w].job[o].status # "running"
  BY <1>3, <1>6, CancelledQueueRunsNone
<1> HIDE DEF c
<1>8. CloseIn(db, d, w) /\ CalmIn(db, c, w) BY <1>1, <1>3, <1>5, <1>6, <1>7, Closes, PhaseNames
<1> HIDE DEF d
<1>9. d \in Database BY <1>8 DEF CloseIn
<1>10. r \in Row
  BY <1>4, <1>9, DatabaseFields, RowFields, EntryFields
<1> HIDE DEF r
<1>11. Remarks(d, e) BY <1>4, <1>9, <1>10, PutRowRemarks
<1>12. Remarks(e, f)
  <2>1. e \in Database BY <1>11 DEF Remarks
  <2> QED BY <2>1, TouchRemarks
<1>13. CloseIn(db, f, w) BY <1>8, <1>11, <1>12, RemarksTransitive, CloseRemarks
<1> HIDE DEF f
<1>14. CloseIn(db, db', w) BY <1>1, <1>2, <1>3, <1>13, OverCloses
<1> QED BY <1>1, <1>14, CalmCommand

LEMMA AtVideoRuns ==
  ASSUME TypeInv, NEW p \in Proc, NEW op, NEW at \in Place \ { "idle" }, AtVideo(p, op, at)
  PROVE  /\ Busy(p) /\ Valid(db, proc[p]) /\ proc[p].op = op /\ Going(p)
         /\ db.wf[proc[p].w].kind = "video_archive" /\ op \in OperationsOf("video_archive")
         /\ db.wf[proc[p].w].data \in DataOf("video_archive") /\ db \in Database
         /\ proc[p].w \in Workflow
         /\ op # "cleanup" => db.wf[proc[p].w].status = "active"
         /\ op # "cancel" => ~db.wf[proc[p].w].cancel
<1>1. /\ Busy(p) /\ Valid(db, proc[p]) /\ proc[p].op = op /\ Going(p)
      /\ db.wf[proc[p].w].kind = "video_archive"
  BY DEF AtVideo, Busy
<1>2. proc[p].w \in Workflow /\ op \in OperationsOf("video_archive")
      /\ db.wf[proc[p].w].kind # "none" /\ db \in Database
  BY <1>1, TypedProcess DEF TypeInv
<1>3. db.wf[proc[p].w].data \in DataOf("video_archive") BY <1>1, <1>2, TypedWorkflow
<1>4. /\ op # "cleanup" => db.wf[proc[p].w].status = "active"
      /\ op # "cancel" => ~db.wf[proc[p].w].cancel
  BY <1>1, ValidRuns
<1> QED BY <1>1, <1>2, <1>3, <1>4

LEMMA BeginVideoStep ==
  ASSUME TypeInv, NEW p \in Proc, BeginVideo(p) PROVE CalmStep
<1>1. PICK op \in OperationsOf("video_archive") : AtVideo(p, op, "begin") BY DEF BeginVideo
<1>2. "begin" \in Place \ { "idle" } /\ "work" \in Place \ { "idle" } BY DEF Place
<1>3. /\ Busy(p) /\ proc[p].w \in Workflow /\ db.wf[proc[p].w].kind = "video_archive"
      /\ proc[p].op \in OperationsOf("video_archive") /\ db \in Database
  BY <1>1, <1>2, AtVideoRuns
<1>4. CalmIn(db, db', proc[p].w)
  <2>1. db' = [ db EXCEPT !.wf[proc[p].w].job[proc[p].op].effect = TRUE ] BY DEF BeginVideo
  <2>2. CalmIn(db, db, proc[p].w) /\ db.wf[proc[p].w].kind # "none" BY <1>3, CalmRefl
  <2> QED BY <1>3, <2>1, <2>2, CalmFlags
<1>5. Goto(p, "work") /\ sup' = sup /\ qbit' \in QbitType BY DEF BeginVideo, TypeInv
<1>6. Steady BY <1>2, <1>3, <1>5, GotoIsSteady
<1> QED BY <1>3, <1>4, <1>6, RunGoesOn

LEMMA LoadTorrentsStep ==
  ASSUME TypeInv, NEW p \in Proc, LoadTorrents(p) PROVE EndStep(p)
<1> DEFINE w == proc[p].w
           d1 == [ db EXCEPT !.wf[w].data.selected = FALSE ]
           z1 == [ db.wf[w].data EXCEPT !.selected = FALSE ]
           d == [ d1 EXCEPT !.wf[w].data.retry = "none" ]
           z2 == [ d1.wf[w].data EXCEPT !.retry = "none" ]
<1>1. /\ AtVideo(p, "load", "work") /\ "work" \in Place \ { "idle" }
      /\ "load" # "cleanup" /\ "load" # "cancel"
      /\ db' = Succeed(d, proc[p], "awaiting_torrent_selection", "active")
      /\ Exits(p) /\ qbit' = qbit
  BY DEF LoadTorrents, Place
<1>2. /\ Busy(p) /\ Valid(db, proc[p]) /\ w \in Workflow /\ db \in Database
      /\ db.wf[w].kind = "video_archive" /\ db.wf[w].data \in DataOf("video_archive")
      /\ db.wf[w].status = "active"
  BY <1>1, AtVideoRuns
<1>3. d1 = DataPut(db, w, z1) BY DEF DataPut
<1>4. z1 \in DataOf("video_archive") BY <1>2, VideoDataFields DEF DataOf
<1> HIDE DEF d1, z1, w
<1>5. CalmIn(db, d1, w) /\ d1.wf[w].data = z1 /\ d1.wf[w].job = db.wf[w].job
      /\ d1.wf[w].claims = db.wf[w].claims /\ d1.wf[w].cancel = db.wf[w].cancel
  BY <1>2, <1>3, <1>4, CalmRefl, CalmPlain
<1>6. d = DataPut(d1, w, z2) BY DEF DataPut
<1>7. z2 \in DataOf("video_archive") BY <1>4, <1>5, VideoDataFields DEF DataOf
<1> HIDE DEF d, z2
<1>8. CalmIn(db, d, w) /\ d.wf[w].job = d1.wf[w].job
      /\ d.wf[w].claims = d1.wf[w].claims /\ d.wf[w].cancel = d1.wf[w].cancel
  BY <1>2, <1>5, <1>6, <1>7, CalmPlain
<1>9. FinishIn(db, db', w, proc[p].op)
  BY <1>1, <1>2, <1>5, <1>8, SucceedStep, PhaseNames DEF w
<1> QED BY <1>1, <1>2, <1>9, EndsWell DEF w

LEMMA AddTorrentStep ==
  ASSUME TypeInv, NEW p \in Proc, AddTorrent(p) PROVE CalmStep
<1> DEFINE m == TheManga(db.wf[proc[p].w])
           ts == qbit[m] \cup { NextRole(p) }
<1>1. /\ Busy(p) /\ db.wf[proc[p].w].kind = "video_archive" /\ db' = db /\ sup' = sup
      /\ Goto(p, "added") /\ qbit' = [ qbit EXCEPT ![m] = ts ]
      /\ "added" \in Place \ { "idle" }
  BY DEF AddTorrent, Video, Busy, Place
<1>2. db.wf[proc[p].w] \in WorkflowOf("video_archive") BY <1>1, TypedProcess
<1>3. m \in Manga BY <1>2, BoundRows, VideoIsKind
<1>4. NextRole(p) \in Role BY DEF NextRole, Role
<1>5. ts \in SUBSET (Role \cup { "manual" }) BY <1>3, <1>4, QbitOf DEF Torrent
<1> HIDE DEF m, ts
<1>6. qbit' \in QbitType BY <1>1, <1>3, <1>5, QbitAdd
<1>7. Steady BY <1>1, <1>6, GotoIsSteady
<1> QED BY <1>1, <1>7, RunGoesOnUnseen

LEMMA RecordTorrentStep ==
  ASSUME TypeInv, NEW p \in Proc, RecordTorrent(p) PROVE CalmStep
<1> DEFINE w == proc[p].w
           d == [ db EXCEPT !.wf[w].data.torrents = @ \cup { NextRole(p) } ]
           ts == db.wf[w].data.torrents \cup { NextRole(p) }
           z == [ db.wf[w].data EXCEPT !.torrents = ts ]
<1>1. /\ AtVideo(p, "submit", "added") /\ Goto(p, "work") /\ sup' = sup /\ qbit' = qbit
      /\ db' = Update(d, proc[p], db.wf[w].phase)
      /\ "added" \in Place \ { "idle" } /\ "work" \in Place \ { "idle" }
  BY DEF RecordTorrent, Video, Place
<1>2. /\ Busy(p) /\ Valid(db, proc[p]) /\ w \in Workflow /\ db \in Database
      /\ db.wf[w].kind = "video_archive" /\ db.wf[w].data \in DataOf("video_archive")
      /\ proc[p].op \in OperationsOf(db.wf[w].kind)
  BY <1>1, AtVideoRuns
<1>3. d = DataPut(db, w, z) BY DEF DataPut
<1>4. NextRole(p) \in Role BY DEF NextRole, Role
<1>5. z \in DataOf("video_archive") BY <1>2, <1>4, VideoDataFields DEF DataOf
<1>6. db.wf[w].phase \in Phase
  <2>1. db.wf[w] \in WorkflowOf("video_archive") BY <1>2, TypedWorkflow, VideoIsKind
  <2> QED BY <2>1, WorkflowFields, VideoIsKind
<1> HIDE DEF d, z
<1>7. CalmIn(db, d, w) BY <1>2, <1>3, <1>5, CalmRefl, CalmPlain
<1>8. CalmIn(db, db', w) BY <1>1, <1>2, <1>6, <1>7, CalmUpdate, VideoIsKind
<1>9. Steady
  <2>1. qbit' \in QbitType BY <1>1 DEF TypeInv
  <2> QED BY <1>1, <1>2, <2>1, GotoIsSteady
<1> QED BY <1>2, <1>8, <1>9, RunGoesOn

LEMMA TorrentsSubmittedStep ==
  ASSUME TypeInv, NEW p \in Proc, TorrentsSubmitted(p) PROVE EndStep(p)
<1> DEFINE w == proc[p].w
           d == [ db EXCEPT !.wf[w].data.retry = "none" ]
           z == [ db.wf[w].data EXCEPT !.retry = "none" ]
<1>1. /\ AtVideo(p, "submit", "work") /\ "work" \in Place \ { "idle" }
      /\ db' = Succeed(d, proc[p], "downloading", "active")
      /\ Exits(p) /\ qbit' = qbit
  BY DEF TorrentsSubmitted, Place
<1>2. /\ Busy(p) /\ Valid(db, proc[p]) /\ w \in Workflow /\ db \in Database
      /\ db.wf[w].kind = "video_archive" /\ db.wf[w].data \in DataOf("video_archive")
      /\ db.wf[w].status = "active"
  BY <1>1, AtVideoRuns
<1>3. d = DataPut(db, w, z) BY DEF DataPut
<1>4. z \in DataOf("video_archive") BY <1>2, VideoDataFields DEF DataOf
<1> HIDE DEF d, z, w
<1>5. CalmIn(db, d, w) /\ d.wf[w].job = db.wf[w].job
      /\ d.wf[w].claims = db.wf[w].claims /\ d.wf[w].cancel = db.wf[w].cancel
  BY <1>2, <1>3, <1>4, CalmRefl, CalmPlain
<1>6. FinishIn(db, db', w, proc[p].op)
  BY <1>1, <1>2, <1>5, SucceedStep, PhaseNames DEF w
<1> QED BY <1>1, <1>2, <1>6, EndsWell DEF w

LEMMA CheckDownloadsStep ==
  ASSUME TypeInv, NEW p \in Proc, NEW complete \in BOOLEAN, CheckDownloads(p, complete)
  PROVE  CalmStep
<1> DEFINE at == IF complete THEN "extract" ELSE "incomplete"
           ph == db.wf[proc[p].w].phase
<1>1. /\ AtVideo(p, "check", "work") /\ Goto(p, at) /\ sup' = sup /\ qbit' = qbit
      /\ db' = Update(db, proc[p], ph) /\ "work" \in Place \ { "idle" }
      /\ at \in Place \ { "idle" } /\ at # "write"
  BY DEF CheckDownloads, Video, Place
<1>2. Busy(p) /\ proc[p].w \in Workflow /\ db \in Database BY <1>1, AtVideoRuns
<1>3. CalmIn(db, db, proc[p].w) /\ ph \in Phase BY <1>2, CalmRefl, OwnPhase
<1> HIDE DEF at, ph
<1> QED BY <1>1, <1>2, <1>3, UpdateStep

LEMMA ComposeStep ==
  ASSUME TypeInv, NEW p \in Proc, NEW at \in DOMAIN Composing, Compose(p, at)
  PROVE  CalmStep
<1> DEFINE ph == Composing[at][1]
           to == Composing[at][2]
<1>1. at \in { "extract", "convert", "pack" } BY DEF Composing
<1>2. ph \in { "extracting", "converting", "packing" } /\ to \in { "convert", "pack", "promote" }
  BY <1>1 DEF Composing
<1>3. ph \in Phase BY <1>2, PhaseNames
<1>4. at \in Place \ { "idle" } /\ to \in Place \ { "idle" } /\ to # "write"
  BY <1>1, <1>2 DEF Place
<1>5. /\ AtVideo(p, "check", at) /\ Goto(p, to) /\ sup' = sup /\ qbit' = qbit
      /\ db' = Update(db, proc[p], ph)
  BY DEF Compose
<1>6. Busy(p) /\ proc[p].w \in Workflow /\ db \in Database BY <1>4, <1>5, AtVideoRuns
<1>7. CalmIn(db, db, proc[p].w) BY <1>6, CalmRefl
<1> HIDE DEF ph, to
<1> QED BY <1>3, <1>4, <1>5, <1>6, <1>7, UpdateStep

LEMMA StillDownloadingStep ==
  ASSUME TypeInv, NEW p \in Proc, StillDownloading(p) PROVE EndStep(p)
<1>1. /\ AtVideo(p, "check", "incomplete") /\ "incomplete" \in Place \ { "idle" }
      /\ db' = Succeed(db, proc[p], "downloading", "active")
      /\ Exits(p) /\ qbit' = qbit
  BY DEF StillDownloading, Place
<1>2. /\ Busy(p) /\ Valid(db, proc[p]) /\ proc[p].w \in Workflow /\ db \in Database
      /\ db.wf[proc[p].w].kind = "video_archive" /\ db.wf[proc[p].w].status = "active"
  BY <1>1, AtVideoRuns
<1>3. CalmIn(db, db, proc[p].w) BY <1>2, CalmRefl
<1>4. FinishIn(db, db', proc[p].w, proc[p].op) BY <1>1, <1>2, <1>3, SucceedStep, PhaseNames
<1> QED BY <1>1, <1>2, <1>4, EndsWell

LEMMA DeleteTorrentsStep ==
  ASSUME TypeInv, NEW p \in Proc, DeleteTorrents(p) PROVE CalmStep
<1> DEFINE m == TheManga(db.wf[proc[p].w])
           ts == qbit[m] \ VideoData(p).torrents
<1>1. /\ Busy(p) /\ db.wf[proc[p].w].kind = "video_archive" /\ db' = db /\ sup' = sup
      /\ Goto(p, "deleted") /\ qbit' = [ qbit EXCEPT ![m] = ts ]
      /\ "deleted" \in Place \ { "idle" }
  BY DEF DeleteTorrents, Video, Busy, Place
<1>2. db.wf[proc[p].w] \in WorkflowOf("video_archive") BY <1>1, TypedProcess
<1>3. m \in Manga BY <1>2, BoundRows, VideoIsKind
<1>4. ts \in SUBSET (Role \cup { "manual" }) BY <1>3, QbitOf DEF Torrent
<1> HIDE DEF m, ts
<1>5. qbit' \in QbitType BY <1>1, <1>3, <1>4, QbitAdd
<1>6. Steady BY <1>1, <1>5, GotoIsSteady
<1> QED BY <1>1, <1>6, RunGoesOnUnseen

LEMMA VideoCancelledStep ==
  ASSUME TypeInv, NEW p \in Proc, VideoCancelled(p) PROVE EndStep(p)
<1>1. AtVideo(p, "cancel", "deleted") /\ "deleted" \in Place \ { "idle" }
  BY DEF VideoCancelled, Place
<1>2. Busy(p) /\ Valid(db, proc[p]) BY <1>1, AtVideoRuns
<1> QED BY <1>2, CancelCompleteStep DEF VideoCancelled

LEMMA VideoLike ==
  ASSUME NEW x, x.kind = "video_archive", NEW y \in WorkflowOf("video_archive"),
         NEW z \in DataOf("video_archive"),
         z.selected = x.data.selected, z.torrents = x.data.torrents
  PROVE  DataLike(x, [ y EXCEPT !.data = z ])
BY DEF DataLike, WorkflowOf

LEMMA CompleteVideoStep ==
  ASSUME TypeInv, NEW p \in Proc, CompleteVideo(p) PROVE EndStep(p)
<1> DEFINE w == proc[p].w
           o == proc[p].op
           m == TheManga(db.wf[w])
           e1 == EndJob(db, w, o, "succeeded")
           e2 == EndWorkflow(e1, w, "completed", "ready")
           z == [ e2.wf[w].data EXCEPT !.cleanup = "pending" ]
           e3 == [ e2 EXCEPT !.wf[w].data.cleanup = "pending" ]
           r == [ e3.row[m] EXCEPT !.status = "downloaded", !.error = "none",
                                   !.method = "torrent", !.external = FALSE ]
           e4 == [ e3 EXCEPT !.row[m] = r ]
           e5 == Rebased(e4, w)
<1>1. /\ AtVideo(p, "check", "promote") /\ "promote" \in Place \ { "idle" }
      /\ "check" # "cleanup" /\ "check" # "cancel"
      /\ db' = Over(Release(e5, w, o), w) /\ Exits(p) /\ qbit' = qbit
  BY DEF CompleteVideo, Place, Video
<1>2. /\ Busy(p) /\ Valid(db, proc[p]) /\ w \in Workflow /\ db \in Database
      /\ db.wf[w].kind = "video_archive" /\ db.wf[w].kind \in Kind /\ db.wf[w].kind # "none"
      /\ db.wf[w] \in WorkflowOf(db.wf[w].kind)
      /\ o \in OperationsOf(db.wf[w].kind) /\ db.wf[w].job[o].status = "running"
      /\ ~db.wf[w].cancel
  BY <1>1, AtVideoRuns, ValidRuns, VideoIsKind, TypedWorkflow
<1>3. Bound(db.wf[w]) = {m} /\ m \in Manga BY <1>2, BoundRows
<1> HIDE DEF w, o, m, e1
<1>4. JobDone(db, e1, w, o, "succeeded") BY <1>2, DoneAtOnce DEF e1
<1>5. "ready" \in Phase BY PhaseNames
<1> HIDE DEF e2
<1>6. JobDone(db, e2, w, o, "succeeded") /\ e2.wf[w].status = "completed"
  BY <1>2, <1>4, <1>5, DoneStatus DEF e2
<1>7. /\ e2.wf[w].data \in DataOf("video_archive") /\ e2.wf[w] \in WorkflowOf("video_archive")
      /\ e2.wf[w].data.selected = db.wf[w].data.selected
      /\ e2.wf[w].data.torrents = db.wf[w].data.torrents
  BY <1>2, <1>6, DoneFields
<1>8. /\ z \in DataOf("video_archive") /\ z.selected = db.wf[w].data.selected
      /\ z.torrents = db.wf[w].data.torrents
  BY <1>7, VideoDataFields DEF DataOf
<1>9. e3 = DataPut(e2, w, z) BY DEF DataPut
<1> HIDE DEF z, e3
<1>10. DataLike(db.wf[w], [ e2.wf[w] EXCEPT !.data = z ]) BY <1>2, <1>7, <1>8, VideoLike
<1>11. JobDone(db, e3, w, o, "succeeded") /\ e3.wf[w].status = "completed"
  BY <1>2, <1>6, <1>8, <1>9, <1>10, DoneData
<1>12. e3 \in Database /\ e3.wf[w].kind = "video_archive" BY <1>2, <1>11, DoneFields
<1>13. r \in Row
  <2>1. e3.row[m] \in Row BY <1>3, <1>12, DatabaseFields
  <2> QED BY <2>1 DEF Row, RowStatus, RowError
<1> HIDE DEF r
<1>14. Remarks(e3, e4) BY <1>3, <1>12, <1>13, PutRowRemarks
<1> HIDE DEF e4
<1>15. JobDone(db, e4, w, o, "succeeded") /\ e4.wf[w].status = "completed"
  BY <1>2, <1>11, <1>14, DoneRemarks
<1>16. e4 \in Database /\ e4.wf[w].kind = "video_archive" BY <1>2, <1>15, DoneFields
<1>17. Remarks(e4, e5) BY <1>2, <1>16, RebasedRemarks
<1> HIDE DEF e5
<1>18. JobDone(db, e5, w, o, "succeeded") BY <1>2, <1>15, <1>17, DoneRemarks
<1>19. FinishIn(db, db', w, o) BY <1>1, <1>2, <1>18, DoneReleases
<1> QED BY <1>1, <1>2, <1>19, EndsWell DEF w, o

LEMMA SourcesCleanedStep ==
  ASSUME TypeInv, NEW p \in Proc, SourcesCleaned(p) PROVE EndStep(p)
<1> DEFINE w == proc[p].w
           o == proc[p].op
           e1 == EndJob(db, w, o, "succeeded")
           z == [ e1.wf[w].data EXCEPT !.cleanup = "completed" ]
           e3 == [ e1 EXCEPT !.wf[w].data.cleanup = "completed" ]
           e5 == Rebased(e3, w)
<1>1. /\ AtVideo(p, "cleanup", "deleted") /\ "deleted" \in Place \ { "idle" }
      /\ db' = Release(e5, w, o) /\ Exits(p) /\ qbit' = qbit
  BY DEF SourcesCleaned, Place
<1>2. /\ Busy(p) /\ Valid(db, proc[p]) /\ w \in Workflow /\ db \in Database
      /\ db.wf[w].kind = "video_archive" /\ db.wf[w].kind \in Kind /\ db.wf[w].kind # "none"
      /\ db.wf[w] \in WorkflowOf(db.wf[w].kind)
      /\ o \in OperationsOf(db.wf[w].kind) /\ db.wf[w].job[o].status = "running"
      /\ db.wf[w].status = "completed"
  BY <1>1, AtVideoRuns, ValidRuns, VideoIsKind, TypedWorkflow
<1> HIDE DEF w, o, e1
<1>4. JobDone(db, e1, w, o, "succeeded") BY <1>2, DoneAtOnce DEF e1
<1>7. /\ e1.wf[w].data \in DataOf("video_archive") /\ e1.wf[w] \in WorkflowOf("video_archive")
      /\ e1.wf[w].data.selected = db.wf[w].data.selected
      /\ e1.wf[w].data.torrents = db.wf[w].data.torrents
  BY <1>2, <1>4, DoneFields
<1>8. /\ z \in DataOf("video_archive") /\ z.selected = db.wf[w].data.selected
      /\ z.torrents = db.wf[w].data.torrents
  BY <1>7, VideoDataFields DEF DataOf
<1>9. e3 = DataPut(e1, w, z) BY DEF DataPut
<1> HIDE DEF z, e3
<1>10. DataLike(db.wf[w], [ e1.wf[w] EXCEPT !.data = z ]) BY <1>2, <1>7, <1>8, VideoLike
<1>11. JobDone(db, e3, w, o, "succeeded") BY <1>2, <1>4, <1>8, <1>9, <1>10, DoneData
<1>12. e3 \in Database /\ e3.wf[w].kind = "video_archive" BY <1>2, <1>11, DoneFields
<1>13. Remarks(e3, e5) BY <1>2, <1>12, RebasedRemarks
<1> HIDE DEF e5
<1>14. JobDone(db, e5, w, o, "succeeded") BY <1>2, <1>11, <1>13, DoneRemarks
<1>15. FinishIn(db, db', w, o) BY <1>1, <1>2, <1>14, DoneReleases
<1> QED BY <1>1, <1>2, <1>15, EndsWell DEF w, o

\* Every step of the video archive.
LEMMA VideoMoves ==
  ASSUME TypeInv,
         \/ \E w \in Workflow : VideoCommand(w)
         \/ \E p \in Proc : VideoStep(p)
  PROVE  \/ CalmStep \/ \E p \in Proc : EndStep(p)
         \/ \E w \in Workflow : \E o \in OperationsOf("video_archive") : GiveUpStep(w, o)
<1>1. ASSUME NEW w \in Workflow, VideoCommand(w)
      PROVE  CalmStep \/ \E o \in OperationsOf("video_archive") : GiveUpStep(w, o)
  BY <1>1, StartVideoStep, QueueVideoStep, SelectTorrentsStep, QueueSourceCleanupStep,
     CancelVideoStep, ExitWithoutCleanupStep, ReleaseExpiredVideoStep DEF VideoCommand
<1>2. ASSUME NEW p \in Proc, VideoStep(p)
      PROVE  CalmStep \/ EndStep(p)
  BY <1>2, BeginVideoStep, LoadTorrentsStep, AddTorrentStep, RecordTorrentStep,
     TorrentsSubmittedStep, CheckDownloadsStep, StillDownloadingStep, CompleteVideoStep,
     ComposeStep, DeleteTorrentsStep, VideoCancelledStep, SourcesCleanedStep DEF VideoStep
<1> QED BY <1>1, <1>2

----------------------------------------------------------------------------
\* The manual torrent.

LEMMA ManualIsKind ==
  /\ "manual_torrent" \in Kind /\ "manual_torrent" # "none"
  /\ "manual_torrent" \in Uncancellable
BY KindNames, NoneIsNoKind DEF Uncancellable

\* A job is queued for a workflow that has just been changed.
LEMMA QueueChangedStep ==
  ASSUME TypeInv, NEW w \in Workflow, db.wf[w].kind # "none",
         NEW d, CalmIn(db, d, w), NEW o \in OperationsOf(db.wf[w].kind),
         db' = Queue(d, w, o), UNCHANGED << sup, proc, qbit >>
  PROVE  CalmStep
<1>1. CalmIn(db, db', w) BY CalmQueue DEF TypeInv
<1> QED BY <1>1, CalmCommand

LEMMA QueueManualStep ==
  ASSUME TypeInv, NEW w \in Workflow, db.wf[w].kind = "manual_torrent",
         NEW z \in DataOf("manual_torrent"), NEW ph \in Phase,
         NEW o \in OperationsOf("manual_torrent"),
         QueueManual(PhasePut(DataPut(db, w, z), w, ph), w, o)
  PROVE  CalmStep
<1> DEFINE d1 == DataPut(db, w, z)
           d == PhasePut(d1, w, ph)
<1>1. db \in Database /\ db.wf[w].kind # "none" BY ManualIsKind DEF TypeInv
<1>2. CalmIn(db, d1, w) BY <1>1, CalmRefl, CalmPlain
<1> HIDE DEF d1
<1>3. CalmIn(db, d, w) BY <1>1, <1>2, CalmPhase DEF PhasePut
<1>4. db' = Queue(d, w, o) /\ UNCHANGED << sup, proc, qbit >>
  BY DEF QueueManual, d1
<1> HIDE DEF d
<1> QED BY <1>1, <1>3, <1>4, QueueChangedStep

LEMMA ManualCommandStep ==
  ASSUME TypeInv, NEW w \in Workflow,
         LoadManual(w) \/ ChooseManual(w) \/ RetryManual(w) \/ VerifyManual(w)
  PROVE  CalmStep
<1>1. db.wf[w].kind = "manual_torrent"
  BY DEF LoadManual, ChooseManual, RetryManual, VerifyManual, IsIdle
<1>2. /\ db \in Database /\ db.wf[w].data \in DataOf("manual_torrent")
      /\ db.wf[w] \in WorkflowOf("manual_torrent")
  BY <1>1, TypedWorkflow, ManualIsKind
<1>3. /\ "load" \in OperationsOf("manual_torrent") /\ "submit" \in OperationsOf("manual_torrent")
      /\ "verify" \in OperationsOf("manual_torrent")
  BY OperationNames
<1>4. "awaiting_load" \in Phase /\ "submit_queued" \in Phase /\ "verify_queued" \in Phase
  BY PhaseNames
<1>5. CASE LoadManual(w)
  <2> DEFINE z == InitialData["manual_torrent"]
  <2>1. z \in DataOf("manual_torrent") BY ManualIsKind, InitialDataIsTyped
  <2>2. QueueManual([ db EXCEPT !.wf[w].data = z, !.wf[w].phase = "awaiting_load" ], w, "load")
    BY <1>5 DEF LoadManual
  <2> HIDE DEF z
  <2>3. [ db EXCEPT !.wf[w].data = z, !.wf[w].phase = "awaiting_load" ]
          = PhasePut(DataPut(db, w, z), w, "awaiting_load")
    BY DEF PhasePut, DataPut
  <2>4. QueueManual(PhasePut(DataPut(db, w, z), w, "awaiting_load"), w, "load")
    BY <2>2, <2>3
  <2> QED BY <1>1, <1>3, <1>4, <2>1, <2>4, QueueManualStep
<1>6. CASE ChooseManual(w)
  <2> DEFINE z == [ db.wf[w].data EXCEPT !.selected = TRUE ]
  <2>1. z \in DataOf("manual_torrent") BY <1>2, ManualDataFields DEF DataOf
  <2>2. QueueManual([ db EXCEPT !.wf[w].data.selected = TRUE, !.wf[w].phase = "submit_queued" ],
                    w, "submit")
    BY <1>6 DEF ChooseManual
  <2>3. [ db EXCEPT !.wf[w].data.selected = TRUE, !.wf[w].phase = "submit_queued" ]
          = PhasePut(DataPut(db, w, z), w, "submit_queued")
    BY DEF PhasePut, DataPut
  <2> HIDE DEF z
  <2>4. QueueManual(PhasePut(DataPut(db, w, z), w, "submit_queued"), w, "submit")
    BY <2>2, <2>3
  <2> QED BY <1>1, <1>3, <1>4, <2>1, <2>4, QueueManualStep
<1>7. ASSUME NEW ph \in Phase, NEW o \in OperationsOf("manual_torrent"),
             QueueManual([ db EXCEPT !.wf[w].phase = ph ], w, o)
      PROVE  CalmStep
  <2> DEFINE d == [ db EXCEPT !.wf[w].phase = ph ]
  <2>1. db.wf[w].kind # "none" BY <1>1, ManualIsKind
  <2>2. CalmIn(db, d, w) BY <1>2, <2>1, CalmRefl, CalmPhase
  <2>3. db' = Queue(d, w, o) /\ UNCHANGED << sup, proc, qbit >> BY <1>7 DEF QueueManual
  <2> HIDE DEF d
  <2> QED BY <1>1, <2>1, <2>2, <2>3, QueueChangedStep
<1>8. CASE RetryManual(w)
  <2>1. QueueManual([ db EXCEPT !.wf[w].phase = "submit_queued" ], w, "submit")
    BY <1>8 DEF RetryManual
  <2> QED BY <1>3, <1>4, <1>7, <2>1
<1>9. CASE VerifyManual(w)
  <2>1. QueueManual([ db EXCEPT !.wf[w].phase = "verify_queued" ], w, "verify")
    BY <1>9 DEF VerifyManual
  <2> QED BY <1>3, <1>4, <1>7, <2>1
<1> QED BY <1>5, <1>6, <1>8, <1>9

LEMMA ReleaseExpiredManualStep ==
  ASSUME TypeInv, NEW w \in Workflow, NEW op \in OperationsOf("manual_torrent"),
         ReleaseExpiredManual(w, op)
  PROVE  GiveUpStep(w, op)
<1> DEFINE d == EndJob(Release(db, w, op), w, op, "abandoned")
<1>1. /\ db.wf[w].kind = "manual_torrent" /\ db.wf[w].job[op].status = "running"
      /\ db.wf[w].job[op].lease = "expired" /\ (ReleaseOnlyStopped => RunBy(w, op) = {})
      /\ UNCHANGED << sup, proc, qbit >>
  BY DEF ReleaseExpiredManual
<1>2. db' = PhasePut(d, w, "failed") BY DEF ReleaseExpiredManual, PhasePut
<1>3. db \in Database /\ db.wf[w].kind # "none" BY <1>1, ManualIsKind DEF TypeInv
<1>4. Ending(db, d, w, op) /\ d.wf[w].status = db.wf[w].status BY <1>1, <1>3, GivenUp
<1> HIDE DEF d
<1>5. Ending(db, db', w, op) /\ db'.wf[w].status = db.wf[w].status
  BY <1>2, <1>3, <1>4, EndingPhase, PhaseNames
<1> QED BY <1>1, <1>3, <1>5, GiveUpRecorded

LEMMA ExitManualStep ==
  ASSUME TypeInv, NEW w \in Workflow, NEW direct \in BOOLEAN, ExitManual(w, direct)
  PROVE  CalmStep
<1> DEFINE x == db.wf[w]
           m == TheManga(x)
           entry == x.bind[m]
           row == IF direct
                  THEN [ db.row[m] EXCEPT !.status = "details_pending", !.error = "none",
                                          !.method = "direct" ]
                  ELSE [ db.row[m] EXCEPT !.status = entry.status, !.error = entry.error ]
           t == Touch(db, m)
           d == [ t EXCEPT !.row[m] = row ]
           f == ReleaseAll(EndWorkflow(d, w, "cancelled", "cancelled"), w)
<1>1. x.kind = "manual_torrent" /\ x.status = "active" /\ Idle(db, w)
      /\ UNCHANGED << sup, proc, qbit >> /\ db' = Over(f, w)
  BY DEF ExitManual, IsIdle, Active
<1>2. db \in Database /\ x \in WorkflowOf("manual_torrent") /\ x.kind # "none"
  BY <1>1, ManualIsKind, TypedWorkflow
<1>3. m \in Manga /\ entry \in Entry BY <1>2, BoundRows, ManualIsKind
<1>4. db.row[m] \in Row BY <1>2, <1>3, DatabaseFields
<1>5. [ db.row[m] EXCEPT !.status = entry.status, !.error = entry.error ] \in Row
  BY <1>3, <1>4, RowFields, EntryFields
<1>6. [ db.row[m] EXCEPT !.status = "details_pending", !.error = "none",
                         !.method = "direct" ] \in Row
  BY <1>4 DEF Row, RowStatus, RowError
<1>7. row \in Row BY <1>5, <1>6
<1> HIDE DEF row
<1>8. Remarks(db, t) BY <1>2, TouchRemarks
<1>9. t \in Database BY <1>8 DEF Remarks
<1> HIDE DEF t
<1>10. Remarks(t, d) BY <1>3, <1>7, <1>9, PutRowRemarks
<1> HIDE DEF d
<1>11. Remarks(db, d) BY <1>8, <1>10, RemarksTransitive
<1>12. CalmIn(db, d, w) BY <1>11, RemarksAreCalm
<1>13. \A o \in OperationsOf(x.kind) : x.job[o].status # "running" BY <1>1, <1>2, RunsNone
<1>14. \A o \in OperationsOf(x.kind) : d.wf[w].job[o].status # "running"
  BY <1>11, <1>13 DEF Remarks, Kept
<1>15. CloseIn(db, Over(f, w), w)
  BY <1>1, <1>2, <1>12, <1>13, <1>14, Closes, PhaseNames
<1> QED BY <1>1, <1>15, CalmCommand

LEMMA AtManualRuns ==
  ASSUME TypeInv, NEW p \in Proc, NEW at \in Place \ { "idle" }, AtManual(p, at)
  PROVE  /\ Busy(p) /\ Valid(db, proc[p]) /\ db \in Database /\ proc[p].w \in Workflow
         /\ db.wf[proc[p].w].kind = "manual_torrent" /\ db.wf[proc[p].w].kind # "none"
         /\ db.wf[proc[p].w].data \in DataOf("manual_torrent")
         /\ proc[p].op \in OperationsOf("manual_torrent")
         /\ db.wf[proc[p].w].status = "active"
<1>1. Busy(p) /\ Valid(db, proc[p]) /\ db.wf[proc[p].w].kind = "manual_torrent"
  BY DEF AtManual, Busy
<1>2. proc[p].w \in Workflow /\ proc[p].op \in OperationsOf("manual_torrent")
      /\ db.wf[proc[p].w].kind # "none" /\ db \in Database
  BY <1>1, TypedProcess DEF TypeInv
<1>3. db.wf[proc[p].w].data \in DataOf("manual_torrent") BY <1>1, <1>2, TypedWorkflow
<1>4. db.wf[proc[p].w].status = "active" BY <1>1, ValidRuns
<1> QED BY <1>1, <1>2, <1>3, <1>4

LEMMA FinishManualStep ==
  ASSUME TypeInv, NEW p \in Proc, NEW at \in Place \ { "idle" }, AtManual(p, at),
         NEW z \in DataOf("manual_torrent"), NEW ph \in Phase,
         NEW st \in { "active", "completed" }, FinishManual(p, z, ph, st)
  PROVE  EndStep(p)
<1> DEFINE w == proc[p].w
           d == [ db EXCEPT !.wf[w].data = z ]
<1>1. /\ Busy(p) /\ Valid(db, proc[p]) /\ db \in Database /\ w \in Workflow
      /\ db.wf[w].kind = "manual_torrent" /\ db.wf[w].kind # "none"
      /\ db.wf[w].status = "active" /\ db.wf[w].kind \in Uncancellable
  BY AtManualRuns, ManualIsKind
<1>2. db' = Succeed(d, proc[p], ph, st) /\ Exits(p) /\ qbit' = qbit BY DEF FinishManual
<1>3. d = DataPut(db, w, z) BY DEF DataPut
<1> HIDE DEF d
<1>4. CalmIn(db, d, w) /\ d.wf[w].job = db.wf[w].job
      /\ d.wf[w].claims = db.wf[w].claims /\ d.wf[w].cancel = db.wf[w].cancel
  BY <1>1, <1>3, CalmRefl, CalmPlain
<1> HIDE DEF w
<1>5. FinishIn(db, db', w, proc[p].op) BY <1>1, <1>2, <1>4, SucceedStep DEF w
<1> QED BY <1>1, <1>2, <1>5, EndsWell DEF w

LEMMA ManualSteps ==
  ASSUME TypeInv, NEW p \in Proc,
         FindSubmitted(p) \/ VerifyFindsNothing(p) \/ LoadChoices(p) \/ ChoiceGone(p)
           \/ HandOver(p)
  PROVE  EndStep(p)
<1> DEFINE x == db.wf[proc[p].w]
           chosen == [ x.data EXCEPT !.choices = TRUE, !.selected = FALSE ]
<1>1. PICK at \in { "begin", "submitted" } : AtManual(p, at)
  BY DEF FindSubmitted, VerifyFindsNothing, LoadChoices, ChoiceGone, HandOver
<1>2. at \in Place \ { "idle" } BY DEF Place
<1>3. x.data \in DataOf("manual_torrent") BY <1>1, <1>2, AtManualRuns
<1>4. chosen \in DataOf("manual_torrent") BY <1>3, ManualDataFields DEF DataOf
<1>5. InitialData["manual_torrent"] \in DataOf("manual_torrent")
  BY InitialDataIsTyped, ManualIsKind
<1>6. "completed" \in Phase /\ "awaiting_load" \in Phase /\ "awaiting_selection" \in Phase
  BY PhaseNames
<1>7. \/ FinishManual(p, x.data, "completed", "completed")
      \/ FinishManual(p, InitialData["manual_torrent"], "awaiting_load", "active")
      \/ FinishManual(p, chosen, "awaiting_selection", "active")
  BY DEF FindSubmitted, VerifyFindsNothing, LoadChoices, ChoiceGone, HandOver, Manual
<1> HIDE DEF chosen
<1> QED BY <1>1, <1>2, <1>3, <1>4, <1>5, <1>6, <1>7, FinishManualStep

LEMMA RecordIntentStep ==
  ASSUME TypeInv, NEW p \in Proc, RecordIntent(p) PROVE CalmStep
<1> DEFINE w == proc[p].w
           d1 == [ db EXCEPT !.wf[w].data.submission = TRUE ]
           z1 == [ db.wf[w].data EXCEPT !.submission = TRUE ]
           d2 == [ d1 EXCEPT !.wf[w].data.choices = TRUE ]
           z2 == [ d1.wf[w].data EXCEPT !.choices = TRUE ]
           d == [ d2 EXCEPT !.wf[w].job["submit"].effect = TRUE ]
           ph == db.wf[w].phase
<1>1. /\ AtManual(p, "begin") /\ "begin" \in Place \ { "idle" }
      /\ Goto(p, "intended") /\ "intended" \in Place \ { "idle" }
      /\ sup' = sup /\ qbit' = qbit /\ db' = Update(d, proc[p], ph)
      /\ "submit" \in OperationsOf("manual_torrent")
  BY OperationNames DEF RecordIntent, Place, Manual
<1>2. /\ Busy(p) /\ db \in Database /\ w \in Workflow
      /\ db.wf[w].kind = "manual_torrent" /\ db.wf[w].kind # "none"
      /\ db.wf[w].data \in DataOf("manual_torrent")
  BY <1>1, AtManualRuns
<1>3. ph \in Phase BY <1>2, OwnPhase
<1>4. d1 = DataPut(db, w, z1) BY DEF DataPut
<1>5. z1 \in DataOf("manual_torrent") BY <1>2, ManualDataFields DEF DataOf
<1> HIDE DEF d1, z1, w, ph
<1>6. CalmIn(db, d1, w) /\ d1.wf[w].data = z1 BY <1>2, <1>4, <1>5, CalmRefl, CalmPlain
<1>7. d2 = DataPut(d1, w, z2) BY DEF DataPut
<1>8. z2 \in DataOf("manual_torrent") BY <1>5, <1>6, ManualDataFields DEF DataOf
<1> HIDE DEF d2, z2
<1>9. CalmIn(db, d2, w) BY <1>2, <1>6, <1>7, <1>8, CalmPlain
<1>10. CalmIn(db, d, w) BY <1>1, <1>2, <1>9, CalmFlags
<1> HIDE DEF d
<1> QED BY <1>1, <1>2, <1>3, <1>10, UpdateStep DEF w

LEMMA SubmitTorrentStep ==
  ASSUME TypeInv, NEW p \in Proc, SubmitTorrent(p) PROVE CalmStep
<1> DEFINE m == TheManga(db.wf[proc[p].w])
           ts == qbit[m] \cup { Torrent }
<1>1. /\ Busy(p) /\ db.wf[proc[p].w].kind = "manual_torrent" /\ db' = db /\ sup' = sup
      /\ Goto(p, "submitted") /\ qbit' = [ qbit EXCEPT ![m] = ts ]
      /\ "submitted" \in Place \ { "idle" }
  BY DEF SubmitTorrent, Manual, Busy, Place
<1>2. db.wf[proc[p].w] \in WorkflowOf("manual_torrent") BY <1>1, TypedProcess
<1>3. m \in Manga BY <1>2, BoundRows, ManualIsKind
<1>4. ts \in SUBSET (Role \cup { "manual" }) BY <1>3, QbitOf DEF Torrent
<1> HIDE DEF m, ts
<1>5. qbit' \in QbitType BY <1>1, <1>3, <1>4, QbitAdd
<1>6. Steady BY <1>1, <1>5, GotoIsSteady
<1> QED BY <1>1, <1>6, RunGoesOnUnseen

\* Every step of the manual torrent.
LEMMA ManualMoves ==
  ASSUME TypeInv,
         \/ \E w \in Workflow : ManualCommand(w)
         \/ \E p \in Proc : ManualStep(p)
  PROVE  \/ CalmStep \/ \E p \in Proc : EndStep(p)
         \/ \E w \in Workflow : \E o \in OperationsOf("manual_torrent") : GiveUpStep(w, o)
<1>1. ASSUME NEW w \in Workflow, ManualCommand(w)
      PROVE  CalmStep \/ \E o \in OperationsOf("manual_torrent") : GiveUpStep(w, o)
  BY <1>1, StartManualStep, ManualCommandStep, ReleaseExpiredManualStep, ExitManualStep
  DEF ManualCommand
<1>2. ASSUME NEW p \in Proc, ManualStep(p)
      PROVE  CalmStep \/ EndStep(p)
  BY <1>2, ManualSteps, RecordIntentStep, SubmitTorrentStep DEF ManualStep
<1> QED BY <1>1, <1>2

LEMMA PutRows ==
  ASSUME NEW d \in Database, NEW r \in [Manga -> Row]
  PROVE  Remarks(d, [ d EXCEPT !.row = r ])
<1> DEFINE e == [ d EXCEPT !.row = r ]
<1>1. e \in Database /\ e.wf = d.wf BY DEF Database
<1> HIDE DEF e
<1>2. Remarks(d, e) BY <1>1, KeptReflexive DEF Remarks
<1> QED BY <1>2 DEF e

LEMMA StartMetadataStep ==
  ASSUME TypeInv, NEW w \in Workflow, NEW ms \in SUBSET Manga, StartMetadata(w, ms)
  PROVE  CalmStep
<1> DEFINE k == "lanraragi_metadata"
           b == [m \in ms |-> [ status |-> db.row[m].status, error |-> db.row[m].error ]]
           x == [ NewWorkflow(k) EXCEPT !.bind = b ]
           keys == { MangaKey(m) : m \in ms }
           e == [ db EXCEPT !.wf[w] = x ]
           born == Acquire(e, w, keys, ByWorkflow, 0)
<1>1. /\ ~Exists(db, w) /\ Free(db, w, keys) /\ db' = Queue(born, w, "scan")
      /\ UNCHANGED << sup, proc, qbit >> /\ \A m \in ms : EligibleRow(db.row[m])
  BY DEF StartMetadata, IsNew
<1>2. db \in Database /\ k \in Kind /\ keys \in SUBSET Key
  BY MetadataIsKind, MangaKeyIsKey DEF TypeInv
<1>3. b \in BindOf(k)
  <2>1. ASSUME NEW m \in ms
        PROVE  [ status |-> db.row[m].status, error |-> db.row[m].error ] \in Entry
    <3>1. db.row[m] \in Row BY <1>2, DatabaseFields
    <3>2. db.row[m].status \in { "completed", "manual_review" } BY <1>1 DEF EligibleRow
    <3> QED BY <3>1, <3>2 DEF Row, Entry
  <2>2. b \in [ms -> Entry] BY <2>1
  <2> HIDE DEF b
  <2> QED BY <2>2 DEF BindOf
<1>4. DOMAIN b = ms OBVIOUS
<1> HIDE DEF b
<1>5. /\ x \in WorkflowOf(k) /\ x.kind = k /\ x.status = "active"
      /\ x.cancel = FALSE /\ x.claims = {} /\ x.bind = b
      /\ x.data = InitialData[k] /\ x.job = [o \in OperationsOf(k) |-> NoJob]
  BY <1>2, <1>3, NewIsTyped
<1> HIDE DEF x
<1>6. x \in Record BY <1>2, <1>5, WorkflowIsRecord
<1>7. Rewrites(db, e, w, x) BY <1>2, <1>6, PutWorkflow
<1>8. db.wf[w] = NoWorkflow BY <1>1, NotThere
<1> HIDE DEF e
<1>9. Born(db, e, w, k) BY <1>5, <1>7, <1>8, KeptReflexive DEF Rewrites, Born
<1>10. Bound(e.wf[w]) = ms BY <1>4, <1>5, <1>7 DEF Bound, Rewrites
<1>11. BeginIn(db, born, w) /\ born.wf[w].kind = k
  <2>1. 0 \in Nat /\ { MangaKey(m) : m \in Bound(e.wf[w]) } \subseteq keys BY <1>10
  <2> QED BY <1>1, <1>2, <1>9, <2>1, BornAcquires
<1> HIDE DEF born
<1>12. "scan" \in OperationsOf(born.wf[w].kind) BY <1>11, OperationNames
<1>13. BeginIn(db, db', w) BY <1>1, <1>2, <1>11, <1>12, BeginQueue
<1> QED BY <1>1, <1>13, CalmCommand

LEMMA ReadyRows ==
  ASSUME NEW x \in WorkflowOf("lanraragi_metadata")
  PROVE  Ready(x) \subseteq Manga
<1>1. x.data.ready \subseteq Manga \X Archive
  BY WorkflowFields, MetadataDataFields, MetadataIsKind
<1> QED BY <1>1 DEF Ready

LEMMA ConfirmUpdateStep ==
  ASSUME TypeInv, NEW w \in Workflow, ConfirmUpdate(w) PROVE CalmStep
<1> DEFINE x == db.wf[w]
           ms == Ready(x)
           t == TouchAll(db, ms)
           z == [ x.data EXCEPT !.reserved = x.data.reserved \cup ms ]
           y == [ x EXCEPT !.data.reserved = x.data.reserved \cup ms ]
           e == [ t EXCEPT !.wf[w] = y ]
           r == [m \in Manga |-> IF m \in ms
                    THEN [ db.row[m] EXCEPT !.status = "special_processing" ] ELSE db.row[m]]
           taken == [ t EXCEPT !.wf[w] = y, !.row = r ]
<1>1. /\ x.kind = "lanraragi_metadata" /\ db' = Queue(taken, w, "apply")
      /\ UNCHANGED << sup, proc, qbit >>
  BY DEF ConfirmUpdate
<1>2. db \in Database /\ x \in WorkflowOf("lanraragi_metadata") /\ x.kind # "none"
      /\ x.data \in DataOf("lanraragi_metadata")
      /\ "apply" \in OperationsOf("lanraragi_metadata")
  BY <1>1, MetadataIsKind, TypedWorkflow, OperationNames
<1>3. ms \subseteq Manga BY <1>2, ReadyRows
<1>4. z \in DataOf("lanraragi_metadata")
  <2> HIDE DEF ms
  <2> QED BY <1>2, <1>3, MetadataDataFields DEF DataOf
<1>5. y = [ x EXCEPT !.data = z ] OBVIOUS
<1>6. r \in [Manga -> Row]
  <2>1. \A m \in Manga : db.row[m] \in Row BY <1>2, DatabaseFields
  <2> QED BY <2>1, RowFields DEF RowStatus
<1>7. z.ready = x.data.ready /\ z.done = x.data.done
  BY <1>2, MetadataDataFields
<1> HIDE DEF ms, z, y, r
<1>8. /\ y \in WorkflowOf(x.kind) /\ y.bind = x.bind /\ y.status = x.status
      /\ y.claims = x.claims /\ y.job = x.job /\ y.cancel = x.cancel /\ y.data = z
  <2>1. [ x EXCEPT !.data = z ] \in WorkflowOf("lanraragi_metadata")
    BY <1>2, <1>4, PutData, MetadataIsKind
  <2> QED BY <1>1, <1>2, <1>5, <2>1 DEF WorkflowOf
<1>9. Remarks(db, t) /\ CalmIn(db, t, w) BY <1>2, TouchAllRemarks, RemarksAreCalm
<1>10. y.claims = t.wf[w].claims /\ y.cancel = t.wf[w].cancel /\ t.wf[w].job = y.job
  BY <1>8, <1>9 DEF Remarks, Kept
<1>11. \A o \in OperationsOf(x.kind) : JobSame(t.wf[w].job[o], y.job[o])
  BY <1>10, JobSameReflexive
<1>12. DataMoves(x, y) BY <1>1, <1>7, <1>8 DEF DataMoves
<1> HIDE DEF t
<1>13. CalmIn(db, e, w) /\ e \in Database
  BY <1>2, <1>8, <1>9, <1>10, <1>11, <1>12, CalmPut
<1>14. taken = [ e EXCEPT !.row = r ] OBVIOUS
<1> HIDE DEF e, taken
<1>15. CalmIn(db, taken, w) BY <1>6, <1>13, <1>14, PutRows, CalmRemarks
<1> QED BY <1>1, <1>2, <1>15, QueueChangedStep

LEMMA RetryMetadataStep ==
  ASSUME TypeInv, NEW w \in Workflow, RetryMetadata(w) PROVE CalmStep
<1> DEFINE x == db.wf[w]
           left == Bound(x) \ x.data.done
           fit == { m \in left : EligibleRow(db.row[m]) }
           z == [ x.data EXCEPT !.ready = { r \in x.data.ready : r[1] \notin left },
                                !.reserved = x.data.reserved \ left,
                                !.stale = (x.data.stale \cup left) \ fit ]
           d1 == DataPut(db, w, z)
           d == [ db EXCEPT !.wf[w].phase = "queued", !.wf[w].data = z ]
<1>1. /\ x.kind = "lanraragi_metadata" /\ db' = Queue(d, w, "scan")
      /\ UNCHANGED << sup, proc, qbit >>
  BY DEF RetryMetadata
<1>2. db \in Database /\ x \in WorkflowOf("lanraragi_metadata") /\ x.kind # "none"
      /\ x.data \in DataOf("lanraragi_metadata")
      /\ "scan" \in OperationsOf("lanraragi_metadata")
  BY <1>1, MetadataIsKind, TypedWorkflow, OperationNames
<1>3. left \subseteq Manga BY <1>2, BoundRows, MetadataIsKind
<1>4. d = PhasePut(d1, w, "queued")
  <2> HIDE DEF z
  <2> QED BY DEF PhasePut, DataPut
<1> HIDE DEF left, fit, d
<1>5. z \in DataOf("lanraragi_metadata") /\ z.done = x.data.done
      /\ z.ready \subseteq x.data.ready
  BY <1>2, <1>3, MetadataDataFields DEF DataOf
<1> HIDE DEF z
<1>6. MayHold(x, x, z) BY <1>1, <1>5 DEF MayHold
<1>7. CalmIn(db, d1, w) BY <1>1, <1>2, <1>5, <1>6, CalmRefl, CalmData
<1> HIDE DEF d1
<1>8. CalmIn(db, d, w) BY <1>2, <1>4, <1>7, CalmPhase, PhaseNames DEF PhasePut
<1> QED BY <1>1, <1>2, <1>8, QueueChangedStep

LEMMA AtMetadataRuns ==
  ASSUME TypeInv, NEW p \in Proc, NEW op, NEW at \in Place \ { "idle" }, AtMetadata(p, op, at)
  PROVE  /\ Busy(p) /\ Valid(db, proc[p]) /\ db \in Database /\ proc[p].w \in Workflow
         /\ db.wf[proc[p].w].kind = "lanraragi_metadata" /\ db.wf[proc[p].w].kind # "none"
         /\ db.wf[proc[p].w] \in WorkflowOf("lanraragi_metadata")
         /\ db.wf[proc[p].w].data \in DataOf("lanraragi_metadata")
         /\ proc[p].op = op /\ op \in OperationsOf("lanraragi_metadata")
         /\ db.wf[proc[p].w].status = "active" /\ (Going(p) => ~db.wf[proc[p].w].cancel)
         /\ proc[p].todo \subseteq Bound(db.wf[proc[p].w])
         /\ at = "write" => proc[p].item \in Bound(db.wf[proc[p].w])
<1>1. Busy(p) /\ Valid(db, proc[p]) /\ db.wf[proc[p].w].kind = "lanraragi_metadata"
      /\ proc[p].op = op /\ proc[p].at = at
  BY DEF AtMetadata, Busy
<1>2. proc[p].w \in Workflow /\ op \in OperationsOf("lanraragi_metadata")
      /\ db.wf[proc[p].w].kind # "none" /\ db \in Database
      /\ db.wf[proc[p].w] \in WorkflowOf("lanraragi_metadata")
  BY <1>1, TypedProcess DEF TypeInv
<1>3. db.wf[proc[p].w].data \in DataOf("lanraragi_metadata") BY <1>1, <1>2, TypedWorkflow
<1>4. db.wf[proc[p].w].status = "active" /\ (Going(p) => ~db.wf[proc[p].w].cancel)
  BY <1>1, ValidRuns
<1>5. /\ proc[p].todo \subseteq Bound(db.wf[proc[p].w])
      /\ at = "write" => proc[p].item \in Bound(db.wf[proc[p].w])
  BY <1>1 DEF TypeInv, Fits, Busy
<1> QED BY <1>1, <1>2, <1>3, <1>4, <1>5

LEMMA LeftIsSteady ==
  ASSUME TypeInv, NEW p \in Proc, Busy(p), NEW todo, Left(p, todo),
         db.wf[proc[p].w].kind = "lanraragi_metadata", todo \subseteq Bound(db.wf[proc[p].w]),
         sup' = sup, qbit' = qbit
  PROVE  Steady
<1> DEFINE b == [ proc[p] EXCEPT !.todo = todo, !.at = "items", !.item = "none" ]
<1>1. proc[p] \in Process /\ Fits(db, proc[p]) /\ qbit' \in QbitType BY DEF TypeInv
<1>2. todo \subseteq Manga
  <2>1. db.wf[proc[p].w] \in WorkflowOf("lanraragi_metadata") BY TypedProcess
  <2> QED BY <2>1, BoundRows, MetadataIsKind
<1>3. b \in Process BY <1>1, <1>2 DEF Process, Place
<1>4. proc' = [ proc EXCEPT ![p] = b ] BY DEF Left
<1>5. b.w = proc[p].w /\ b.op = proc[p].op /\ b.no = proc[p].no /\ b.owner = proc[p].owner
      /\ b.at = "items" /\ b.todo = todo /\ b.item = "none"
  BY <1>1 DEF Process
<1> HIDE DEF b
<1>6. GoesOn(proc[p], b) BY <1>5 DEF GoesOn, Busy
<1>7. Fits(db, b) BY <1>1, <1>5 DEF Fits, Busy
<1> QED BY <1>1, <1>3, <1>4, <1>6, <1>7 DEF Steady, TypeInv

LEMMA ItemPlaces ==
  /\ "begin" \in Place \ { "idle" } /\ "items" \in Place \ { "idle" }
  /\ "write" \in Place \ { "idle" }
BY DEF Place

LEMMA PassItemStep ==
  ASSUME TypeInv, NEW p \in Proc,
         BeginBatch(p) \/ AbandonItem(p) \/ \E m \in Manga : SkipItem(p, m)
  PROVE  CalmStep
<1>1. PICK op \in { "scan", "apply" }, at \in { "begin", "items", "write" } : AtMetadata(p, op, at)
  BY DEF BeginBatch, AbandonItem, SkipItem
<1>2. /\ Busy(p) /\ db.wf[proc[p].w].kind = "lanraragi_metadata"
      /\ proc[p].todo \subseteq Bound(db.wf[proc[p].w])
  BY <1>1, ItemPlaces, AtMetadataRuns
<1>3. \E todo \in SUBSET Bound(db.wf[proc[p].w]) : Left(p, todo)
  BY <1>2 DEF BeginBatch, AbandonItem, SkipItem, Metadata
<1>4. db' = db /\ sup' = sup /\ qbit' = qbit BY DEF BeginBatch, AbandonItem, SkipItem
<1>5. Steady BY <1>2, <1>3, <1>4, LeftIsSteady
<1> QED BY <1>4, <1>5, RunGoesOnUnseen

LEMMA PreviewItemStep ==
  ASSUME TypeInv, NEW p \in Proc, NEW m \in Manga, NEW a \in Archive, PreviewItem(p, m, a)
  PROVE  CalmStep
<1> DEFINE w == proc[p].w
           keys == { ArchiveKey(a) }
           e == Acquire(db, w, keys, ByWorkflow, 0)
           d == [ e EXCEPT !.wf[w].data.ready = e.wf[w].data.ready \cup { << m, a >> } ]
           z == [ e.wf[w].data EXCEPT !.ready = e.wf[w].data.ready \cup { << m, a >> } ]
<1>1. /\ AtMetadata(p, "scan", "items") /\ m \in proc[p].todo /\ Free(db, w, keys)
      /\ db' = d /\ Left(p, proc[p].todo \ {m}) /\ sup' = sup /\ qbit' = qbit
  BY DEF PreviewItem
<1>2. /\ Busy(p) /\ db \in Database /\ w \in Workflow
      /\ db.wf[w].kind = "lanraragi_metadata" /\ db.wf[w].kind # "none"
      /\ db.wf[w].data \in DataOf("lanraragi_metadata") /\ db.wf[w].status = "active"
      /\ proc[p].todo \subseteq Bound(db.wf[w])
  BY <1>1, ItemPlaces, AtMetadataRuns
<1>3. keys \in SUBSET Key BY ArchiveKeyIsKey
<1> HIDE DEF w
<1>4. CalmIn(db, e, w) /\ keys \subseteq WorkKeys(e.wf[w]) /\ e.wf[w].data = db.wf[w].data
  <2>1. CalmIn(db, db, w) /\ 0 \in Nat BY <1>2, CalmRefl
  <2> QED BY <1>1, <1>2, <1>3, <2>1, CalmAcquire
<1>5. d = DataPut(e, w, z) BY DEF DataPut
<1> HIDE DEF e, d
<1>6. /\ z \in DataOf("lanraragi_metadata") /\ z.done = db.wf[w].data.done
      /\ z.ready = db.wf[w].data.ready \cup { << m, a >> }
  <2>1. << m, a >> \in Manga \X Archive OBVIOUS
  <2> QED BY <1>2, <1>4, <2>1, MetadataDataFields DEF DataOf
<1> HIDE DEF z
<1>7. MayHold(db.wf[w], e.wf[w], z)
  <2>1. ArchiveKey(a) \in WorkKeys(e.wf[w]) BY <1>4
  <2>2. << m, a >>[2] = a OBVIOUS
  <2>3. \A r \in z.ready : r \in db.wf[w].data.ready \/ ArchiveKey(r[2]) \in WorkKeys(e.wf[w])
    BY <1>6, <2>1, <2>2
  <2> QED BY <1>2, <1>6, <2>3 DEF MayHold
<1>8. CalmIn(db, d, w) BY <1>2, <1>4, <1>5, <1>6, <1>7, CalmData
<1>9. Steady
  <2>1. proc[p].todo \ {m} \subseteq Bound(db.wf[w]) BY <1>2
  <2> QED BY <1>1, <1>2, <2>1, LeftIsSteady DEF w
<1> QED BY <1>1, <1>2, <1>8, <1>9, RunGoesOn DEF w

LEMMA PreviewReadyStep ==
  ASSUME TypeInv, NEW p \in Proc, PreviewReady(p) PROVE EndStep(p)
<1> DEFINE w == proc[p].w
           ready == Distinct(db.wf[w].data.ready)
           d == [ db EXCEPT !.wf[w].data.ready = ready ]
           z == [ db.wf[w].data EXCEPT !.ready = ready ]
<1>1. /\ AtMetadata(p, "scan", "items") /\ Going(p) /\ Exits(p) /\ qbit' = qbit
  BY DEF PreviewReady
<1>2. \/ db' = Succeed(d, proc[p], "awaiting_confirmation", "active")
      \/ db' = Succeed(d, proc[p], "completed_with_errors", "completed")
  BY DEF PreviewReady, Metadata
<1>3. /\ Busy(p) /\ Valid(db, proc[p]) /\ db \in Database /\ w \in Workflow
      /\ db.wf[w].kind = "lanraragi_metadata" /\ db.wf[w].kind # "none"
      /\ db.wf[w].data \in DataOf("lanraragi_metadata") /\ db.wf[w].status = "active"
      /\ ~db.wf[w].cancel
  BY <1>1, ItemPlaces, AtMetadataRuns
<1>4. ready \subseteq db.wf[w].data.ready BY DEF Distinct
<1> HIDE DEF ready, w
<1>5. d = DataPut(db, w, z) BY DEF DataPut
<1> HIDE DEF d
<1>6. z \in DataOf("lanraragi_metadata") /\ z.done = db.wf[w].data.done /\ z.ready = ready
  BY <1>3, <1>4, MetadataDataFields DEF DataOf
<1> HIDE DEF z
<1>7. MayHold(db.wf[w], db.wf[w], z) BY <1>3, <1>4, <1>6 DEF MayHold
<1>8. CalmIn(db, d, w) /\ d.wf[w].job = db.wf[w].job
      /\ d.wf[w].claims = db.wf[w].claims /\ d.wf[w].cancel = db.wf[w].cancel
  BY <1>3, <1>5, <1>6, <1>7, CalmRefl, CalmData
<1>9. FinishIn(db, db', w, proc[p].op)
  BY <1>2, <1>3, <1>8, SucceedStep, PhaseNames DEF w
<1> QED BY <1>1, <1>3, <1>9, EndsWell DEF w

LEMMA WriteItemStep ==
  ASSUME TypeInv, NEW p \in Proc, NEW m \in Manga, WriteItem(p, m) PROVE CalmStep
<1> DEFINE w == proc[p].w
           todo == proc[p].todo \ {m}
           b == [ proc[p] EXCEPT !.todo = todo, !.item = m, !.at = "write" ]
<1>1. /\ AtMetadata(p, "apply", "items") /\ m \in proc[p].todo
      /\ db' = [ db EXCEPT !.wf[w].job["apply"].effect = TRUE ]
      /\ proc' = [ proc EXCEPT ![p].todo = todo, ![p].item = m, ![p].at = "write" ]
      /\ sup' = sup /\ qbit' = qbit
  BY DEF WriteItem
<1>2. /\ Busy(p) /\ db \in Database /\ w \in Workflow
      /\ db.wf[w].kind = "lanraragi_metadata" /\ db.wf[w].kind # "none"
      /\ proc[p].todo \subseteq Bound(db.wf[w]) /\ "apply" \in OperationsOf("lanraragi_metadata")
  BY <1>1, ItemPlaces, AtMetadataRuns
<1>3. CalmIn(db, db', w)
  <2>1. CalmIn(db, db, w) BY <1>2, CalmRefl
  <2> QED BY <1>1, <1>2, <2>1, CalmFlags
<1>4. proc[p] \in Process /\ Fits(db, proc[p]) /\ qbit' \in QbitType BY <1>1 DEF TypeInv
<1>5. b \in Process BY <1>4 DEF Process, Place
<1>6. proc' = [ proc EXCEPT ![p] = b ] BY <1>1
<1>7. b.w = proc[p].w /\ b.op = proc[p].op /\ b.no = proc[p].no /\ b.owner = proc[p].owner
      /\ b.at = "write" /\ b.todo = todo /\ b.item = m
  BY <1>4 DEF Process
<1> HIDE DEF b
<1>8. GoesOn(proc[p], b) BY <1>2, <1>7 DEF GoesOn, Busy
<1>9. Fits(db, b) BY <1>1, <1>2, <1>4, <1>7 DEF Fits, Busy
<1>10. Steady BY <1>1, <1>4, <1>5, <1>6, <1>8, <1>9 DEF Steady, TypeInv
<1> QED BY <1>2, <1>3, <1>10, RunGoesOn

LEMMA RecordItemStep ==
  ASSUME TypeInv, NEW p \in Proc, RecordItem(p) PROVE CalmStep
<1> DEFINE w == proc[p].w
           m == proc[p].item
           d == Restore(db, w, {m})
           t == Touch(d, m)
           r == [ t.row[m] EXCEPT !.status = "completed", !.error = "none" ]
           e == [ t EXCEPT !.row[m] = r ]
           z == [ e.wf[w].data EXCEPT !.done = e.wf[w].data.done \cup {m} ]
           f == [ t EXCEPT !.row[m].status = "completed", !.row[m].error = "none",
                           !.wf[w].data.done = @ \cup {m} ]
<1>1. /\ AtMetadata(p, "apply", "write") /\ m \notin db.wf[w].data.stale
      /\ db' = f /\ Left(p, proc[p].todo) /\ sup' = sup /\ qbit' = qbit
  BY DEF RecordItem, Metadata
<1>2. /\ Busy(p) /\ db \in Database /\ w \in Workflow
      /\ db.wf[w].kind = "lanraragi_metadata" /\ db.wf[w].kind # "none"
      /\ db.wf[w] \in WorkflowOf("lanraragi_metadata") /\ db.wf[w].status = "active"
      /\ db.wf[w].data \in DataOf("lanraragi_metadata")
      /\ proc[p].todo \subseteq Bound(db.wf[w]) /\ m \in Bound(db.wf[w])
  BY <1>1, ItemPlaces, AtMetadataRuns
<1>3. m \in Manga BY <1>2, BoundRows, MetadataIsKind
<1>4. f = DataPut(e, w, z)
  <2> HIDE DEF t
  <2>1. e.wf = t.wf OBVIOUS
  <2>2. f = [ e EXCEPT !.wf[w].data.done = e.wf[w].data.done \cup {m} ] BY <2>1
  <2> HIDE DEF e, f
  <2> QED BY <2>2 DEF DataPut
<1>5. Steady BY <1>1, <1>2, LeftIsSteady
<1> HIDE DEF w, m, f
<1>6. Remarks(db, d)
  <2>1. {m} \in SUBSET Bound(db.wf[w]) BY <1>2
  <2> QED BY <1>2, <2>1, RestoreRemarks
<1> HIDE DEF d
<1>7. Remarks(d, t) /\ t \in Database BY <1>6, TouchRemarks DEF Remarks
<1> HIDE DEF t
<1>8. r \in Row
  <2>1. t.row[m] \in Row BY <1>3, <1>7, DatabaseFields
  <2> QED BY <2>1, RowFields DEF RowStatus, RowError
<1> HIDE DEF r
<1>9. Remarks(db, e) /\ e \in Database
  <2>1. Remarks(t, e) BY <1>3, <1>7, <1>8, PutRowRemarks
  <2> QED BY <1>6, <1>7, <2>1, RemarksTransitive DEF Remarks
<1> HIDE DEF e
<1>10. /\ e.wf[w].data \in DataOf("lanraragi_metadata")
       /\ e.wf[w].data.done = db.wf[w].data.done /\ e.wf[w].data.ready = db.wf[w].data.ready
  <2>1. Kept(db.wf[w], e.wf[w]) BY <1>2, <1>9 DEF Remarks
  <2>2. e.wf[w] \in WorkflowOf("lanraragi_metadata")
    BY <1>2, <1>9, <2>1, DatabaseFields, RecordKind DEF Kept
  <2> QED BY <1>2, <2>1, <2>2, WorkflowFields, MetadataIsKind DEF Kept, DataLike
<1>11. /\ z \in DataOf("lanraragi_metadata") /\ z.done = db.wf[w].data.done \cup {m}
       /\ z.ready = db.wf[w].data.ready
  BY <1>3, <1>10, MetadataDataFields DEF DataOf
<1> HIDE DEF z
<1>12. MayHold(db.wf[w], e.wf[w], z) BY <1>1, <1>2, <1>11 DEF MayHold
<1>13. CalmIn(db, db', w)
  BY <1>1, <1>2, <1>4, <1>9, <1>11, <1>12, RemarksAreCalm, CalmData
<1> QED BY <1>2, <1>5, <1>13, RunGoesOn DEF w

LEMMA BatchAppliedStep ==
  ASSUME TypeInv, NEW p \in Proc, BatchApplied(p) PROVE EndStep(p)
<1>1. AtMetadata(p, "apply", "items") /\ Going(p) /\ Exits(p) /\ qbit' = qbit
  BY DEF BatchApplied
<1>2. PICK ph \in { "completed", "completed_with_errors" } :
        db' = Succeed(db, proc[p], ph, "completed")
  BY DEF BatchApplied
<1>3. /\ Busy(p) /\ Valid(db, proc[p]) /\ db \in Database /\ proc[p].w \in Workflow
      /\ db.wf[proc[p].w].status = "active" /\ ~db.wf[proc[p].w].cancel
  BY <1>1, ItemPlaces, AtMetadataRuns
<1>4. CalmIn(db, db, proc[p].w) /\ ph \in Phase BY <1>3, CalmRefl, PhaseNames
<1>5. FinishIn(db, db', proc[p].w, proc[p].op) BY <1>2, <1>3, <1>4, SucceedStep
<1> QED BY <1>1, <1>3, <1>5, EndsWell

LEMMA BatchCancelledStep ==
  ASSUME TypeInv, NEW p \in Proc, BatchCancelled(p) PROVE EndStep(p)
<1>1. PICK op \in { "scan", "apply" }, at \in { "begin", "items" } : AtMetadata(p, op, at)
  BY DEF BatchCancelled
<1>2. Busy(p) /\ Valid(db, proc[p]) BY <1>1, ItemPlaces, AtMetadataRuns
<1> QED BY <1>2, CancelCompleteStep DEF BatchCancelled

\* Every step of the metadata update.
LEMMA MetadataMoves ==
  ASSUME TypeInv,
         \/ \E w \in Workflow : MetadataCommand(w)
         \/ \E p \in Proc : MetadataStep(p)
  PROVE  CalmStep \/ \E p \in Proc : EndStep(p)
<1>1. ASSUME NEW w \in Workflow, MetadataCommand(w) PROVE CalmStep
  BY <1>1, StartMetadataStep, ConfirmUpdateStep, RetryMetadataStep DEF MetadataCommand
<1>2. ASSUME NEW p \in Proc, MetadataStep(p) PROVE CalmStep \/ EndStep(p)
  BY <1>2, PassItemStep, PreviewItemStep, PreviewReadyStep, WriteItemStep, RecordItemStep,
     BatchAppliedStep, BatchCancelledStep DEF MetadataStep
<1> QED BY <1>1, <1>2

LEMMA BornOfTheLibrary ==
  ASSUME TypeInv, NEW w \in Workflow, ~Exists(db, w),
         NEW k \in { "lanraragi_compare", "download_cleanup", "full_collect" }
  PROVE  LET e == [ db EXCEPT !.wf[w] = NewWorkflow(k) ] IN
         Born(db, e, w, k) /\ Bound(e.wf[w]) = {}
<1> DEFINE x == NewWorkflow(k)
           e == [ db EXCEPT !.wf[w] = x ]
<1>1. db \in Database /\ k \in Kind BY KindNames DEF TypeInv
<1>2. /\ x \in WorkflowOf(k) /\ x.status = "active"
      /\ x.cancel = FALSE /\ x.claims = {} /\ x.bind = << >>
      /\ x.data = InitialData[k] /\ x.job = [o \in OperationsOf(k) |-> NoJob]
  BY NewOfTheLibrary
<1>3. Bound(x) = {} BY <1>1, <1>2, BoundRows
<1> HIDE DEF x
<1>4. x \in Record BY <1>1, <1>2, WorkflowIsRecord
<1>5. Rewrites(db, e, w, x) BY <1>1, <1>4, PutWorkflow
<1>6. db.wf[w] = NoWorkflow BY NotThere
<1> HIDE DEF e
<1>7. Born(db, e, w, k) BY <1>2, <1>5, <1>6, KeptReflexive DEF Rewrites, Born
<1>8. Bound(e.wf[w]) = {} BY <1>3, <1>5 DEF Rewrites
<1> QED BY <1>7, <1>8 DEF e, x

LEMMA StartScanStep ==
  ASSUME TypeInv, NEW w \in Workflow, StartCompare(w) \/ StartCleanup(w)
  PROVE  CalmStep
<1>1. ~Exists(db, w) /\ db \in Database /\ UNCHANGED << sup, proc, qbit >>
  BY DEF StartCompare, StartCleanup, IsNew, TypeInv
<1>2. CASE StartCompare(w)
  <2> DEFINE e == [ db EXCEPT !.wf[w] = NewWorkflow("lanraragi_compare") ]
             f == Acquire(e, w, { InstanceKey }, ByWorkflow, 0)
  <2>1. Free(db, w, { InstanceKey }) /\ db' = Queue(f, w, "compare") BY <1>2 DEF StartCompare
  <2>2. Born(db, e, w, "lanraragi_compare") /\ Bound(e.wf[w]) = {}
    BY <1>1, BornOfTheLibrary
  <2> HIDE DEF e
  <2>3. { InstanceKey } \in SUBSET Key BY DEF Key
  <2>4. 0 \in Nat /\ { MangaKey(m) : m \in Bound(e.wf[w]) } \subseteq { InstanceKey } BY <2>2
  <2>5. BeginIn(db, f, w) /\ f.wf[w].kind = "lanraragi_compare"
    BY <1>1, <2>1, <2>2, <2>3, <2>4, ScanKinds, BornAcquires
  <2> HIDE DEF f
  <2>6. "compare" \in OperationsOf(f.wf[w].kind) BY <2>5, OperationNames
  <2>7. BeginIn(db, db', w) BY <1>1, <2>1, <2>5, <2>6, BeginQueue
  <2> QED BY <1>1, <2>7, CalmCommand
<1>3. CASE StartCleanup(w)
  <2> DEFINE e == [ db EXCEPT !.wf[w] = NewWorkflow("download_cleanup") ]
  <2>1. db' = Queue(e, w, "scan") BY <1>3 DEF StartCleanup
  <2>2. Born(db, e, w, "download_cleanup") /\ Bound(e.wf[w]) = {}
    BY <1>1, BornOfTheLibrary
  <2> HIDE DEF e
  <2>3. BeginIn(db, e, w) BY <1>1, <2>2, ScanKinds, BornBegins
  <2>4. e.wf[w].kind = "download_cleanup" BY <2>2, WorkflowFields, ScanKinds DEF Born
  <2>5. "scan" \in OperationsOf(e.wf[w].kind) BY <2>4, OperationNames
  <2>6. BeginIn(db, db', w) BY <1>1, <2>1, <2>3, <2>5, BeginQueue
  <2> QED BY <1>1, <2>6, CalmCommand
<1> QED BY <1>2, <1>3

LEMMA QueueScanStep ==
  ASSUME TypeInv, NEW w \in Workflow, ConfirmCleanup(w) \/ RetryCompare(w) \/ RetryCleanup(w)
  PROVE  CalmStep
<1>1. /\ db.wf[w].kind \in { "lanraragi_compare", "download_cleanup" }
      /\ UNCHANGED << sup, proc, qbit >>
  BY DEF ConfirmCleanup, RetryCompare, RetryCleanup
<1>2. db.wf[w].kind # "none" BY <1>1, ScanKinds
<1>3. \E o \in OperationsOf(db.wf[w].kind) : db' = Queue(db, w, o)
  BY OperationNames DEF ConfirmCleanup, RetryCompare, RetryCleanup
<1> QED BY <1>1, <1>2, <1>3, QueueStep

LEMMA AtScanRuns ==
  ASSUME TypeInv, NEW p \in Proc, NEW k \in { "lanraragi_compare", "download_cleanup" },
         NEW at \in Place \ { "idle" }, AtScan(p, k, at)
  PROVE  /\ Busy(p) /\ Valid(db, proc[p]) /\ db \in Database /\ proc[p].w \in Workflow
         /\ db.wf[proc[p].w].kind = k /\ db.wf[proc[p].w].kind # "none"
         /\ db.wf[proc[p].w].data \in DataOf(k) /\ proc[p].op \in OperationsOf(k)
         /\ db.wf[proc[p].w].status = "active" /\ (Going(p) => ~db.wf[proc[p].w].cancel)
<1>1. Busy(p) /\ Valid(db, proc[p]) /\ db.wf[proc[p].w].kind = k
  BY DEF AtScan, Busy
<1>2. proc[p].w \in Workflow /\ proc[p].op \in OperationsOf(k)
      /\ db.wf[proc[p].w].kind # "none" /\ db \in Database
  BY <1>1, TypedProcess DEF TypeInv
<1>3. db.wf[proc[p].w].data \in DataOf(k) BY <1>1, <1>2, TypedWorkflow
<1>4. db.wf[proc[p].w].status = "active" /\ (Going(p) => ~db.wf[proc[p].w].cancel)
  BY <1>1, ValidRuns
<1> QED BY <1>1, <1>2, <1>3, <1>4

LEMMA ComparePlaces ==
  /\ DOMAIN Comparing = { "begin", "reading_lanraragi", "reading_database", "comparing" }
  /\ \A at \in DOMAIN Comparing :
       /\ at \in Place \ { "idle" } /\ Comparing[at] \in Place \ { "idle" }
       /\ Comparing[at] # "write" /\ Comparing[at] \in Phase
  /\ "publishing_report" \in Place \ { "idle" } /\ "work" \in Place \ { "idle" }
<1>1. DOMAIN Comparing = { "begin", "reading_lanraragi", "reading_database", "comparing" }
  BY DEF Comparing
<1>2. ASSUME NEW at \in DOMAIN Comparing
      PROVE  /\ at \in Place \ { "idle" }
             /\ Comparing[at] \in { "reading_lanraragi", "reading_database", "comparing",
                                    "publishing_report" }
  BY <1>1 DEF Comparing, Place
<1> QED BY <1>1, <1>2, PhaseNames DEF Place

LEMMA CompareGoesOnStep ==
  ASSUME TypeInv, NEW p \in Proc, NEW at \in DOMAIN Comparing, CompareGoesOn(p, at)
  PROVE  CalmStep
<1> DEFINE to == Comparing[at]
<1>1. /\ AtScan(p, "lanraragi_compare", at) /\ db' = Update(db, proc[p], to)
      /\ Goto(p, to) /\ sup' = sup /\ qbit' = qbit
  BY DEF CompareGoesOn
<1>2. at \in Place \ { "idle" } /\ to \in Place \ { "idle" } /\ to # "write" /\ to \in Phase
  BY ComparePlaces
<1>3. Busy(p) /\ proc[p].w \in Workflow /\ db \in Database BY <1>1, <1>2, AtScanRuns
<1>4. CalmIn(db, db, proc[p].w) BY <1>3, CalmRefl
<1> HIDE DEF to
<1> QED BY <1>1, <1>2, <1>3, <1>4, UpdateStep

\* A run that completes its workflow and leaves the payload alone.
LEMMA CompletesStep ==
  ASSUME TypeInv, NEW p \in Proc, NEW k \in { "lanraragi_compare", "download_cleanup" },
         NEW at \in Place \ { "idle" }, AtScan(p, k, at), Going(p),
         NEW ph \in Phase, db' = Succeed(db, proc[p], ph, "completed"), Exits(p), qbit' = qbit
  PROVE  EndStep(p)
<1>1. /\ Busy(p) /\ Valid(db, proc[p]) /\ db \in Database /\ proc[p].w \in Workflow
      /\ db.wf[proc[p].w].status = "active" /\ ~db.wf[proc[p].w].cancel
  BY AtScanRuns
<1>2. CalmIn(db, db, proc[p].w) BY <1>1, CalmRefl
<1>3. FinishIn(db, db', proc[p].w, proc[p].op) BY <1>1, <1>2, SucceedStep
<1> QED BY <1>1, <1>3, EndsWell

LEMMA ScanCompletesStep ==
  ASSUME TypeInv, NEW p \in Proc, ComparePublished(p) \/ CleanupApplied(p)
  PROVE  EndStep(p)
<1>1. /\ \/ AtScan(p, "lanraragi_compare", "publishing_report")
         \/ AtScan(p, "download_cleanup", "work")
      /\ Going(p) /\ Exits(p) /\ qbit' = qbit
      /\ \E ph \in { "completed", "completed_with_errors" } :
           db' = Succeed(db, proc[p], ph, "completed")
  BY DEF ComparePublished, CleanupApplied
<1>2. "completed" \in Phase /\ "completed_with_errors" \in Phase BY PhaseNames
<1> QED BY <1>1, <1>2, ComparePlaces, CompletesStep

LEMMA BeginCleanupStep ==
  ASSUME TypeInv, NEW p \in Proc, BeginCleanup(p) PROVE CalmStep
<1> DEFINE w == proc[p].w
<1>1. /\ AtScan(p, "download_cleanup", "begin") /\ "begin" \in Place \ { "idle" }
      /\ Goto(p, "work") /\ "work" \in Place \ { "idle" } /\ sup' = sup /\ qbit' = qbit
      /\ db' = IF proc[p].op = "apply"
               THEN [ db EXCEPT !.wf[w].job["apply"].effect = TRUE ] ELSE db
      /\ "apply" \in OperationsOf("download_cleanup")
  BY OperationNames DEF BeginCleanup, Place
<1>2. /\ Busy(p) /\ db \in Database /\ w \in Workflow
      /\ db.wf[w].kind = "download_cleanup" /\ db.wf[w].kind # "none"
  BY <1>1, AtScanRuns
<1>3. CalmIn(db, db, w) BY <1>2, CalmRefl
<1>4. CalmIn(db, [ db EXCEPT !.wf[w].job["apply"].effect = TRUE ], w)
  BY <1>1, <1>2, <1>3, CalmFlags
<1>5. CalmIn(db, db', w) BY <1>1, <1>3, <1>4
<1>6. Steady
  <2>1. qbit' \in QbitType BY <1>1 DEF TypeInv
  <2> QED BY <1>1, <1>2, <2>1, GotoIsSteady
<1> QED BY <1>2, <1>5, <1>6, RunGoesOn

LEMMA CleanupScannedStep ==
  ASSUME TypeInv, NEW p \in Proc, NEW found \in BOOLEAN, CleanupScanned(p, found)
  PROVE  EndStep(p)
<1> DEFINE w == proc[p].w
           d == [ db EXCEPT !.wf[w].data.found = found ]
           z == [ db.wf[w].data EXCEPT !.found = found ]
<1>1. /\ AtScan(p, "download_cleanup", "work") /\ "work" \in Place \ { "idle" }
      /\ Going(p) /\ Exits(p) /\ qbit' = qbit
      /\ db' = IF found THEN Succeed(d, proc[p], "awaiting_confirmation", "active")
               ELSE Succeed(d, proc[p], "nothing_to_clean", "completed")
  BY DEF CleanupScanned, Place
<1>2. /\ Busy(p) /\ Valid(db, proc[p]) /\ db \in Database /\ w \in Workflow
      /\ db.wf[w].kind = "download_cleanup" /\ db.wf[w].data \in DataOf("download_cleanup")
      /\ db.wf[w].status = "active" /\ ~db.wf[w].cancel
  BY <1>1, AtScanRuns
<1>3. d = DataPut(db, w, z) BY DEF DataPut
<1>4. z \in DataOf("download_cleanup") BY <1>2, CleanupDataFields DEF DataOf
<1> HIDE DEF d, z, w
<1>5. CalmIn(db, d, w) /\ d.wf[w].job = db.wf[w].job
      /\ d.wf[w].claims = db.wf[w].claims /\ d.wf[w].cancel = db.wf[w].cancel
  BY <1>2, <1>3, <1>4, CalmRefl, CalmPlain
<1>6. CASE found
  <2>1. db' = Succeed(d, proc[p], "awaiting_confirmation", "active") BY <1>1, <1>6
  <2>2. FinishIn(db, db', w, proc[p].op) BY <1>2, <1>5, <2>1, SucceedStep, PhaseNames DEF w
  <2> QED BY <1>1, <1>2, <2>2, EndsWell DEF w
<1>7. CASE ~found
  <2>1. db' = Succeed(d, proc[p], "nothing_to_clean", "completed") BY <1>1, <1>7
  <2>2. FinishIn(db, db', w, proc[p].op) BY <1>2, <1>5, <2>1, SucceedStep, PhaseNames DEF w
  <2> QED BY <1>1, <1>2, <2>2, EndsWell DEF w
<1> QED BY <1>6, <1>7

LEMMA ScanCancelledStep ==
  ASSUME TypeInv, NEW p \in Proc, ScanCancelled(p) PROVE EndStep(p)
<1>1. PICK k \in { "lanraragi_compare", "download_cleanup" },
           at \in DOMAIN Comparing \cup { "publishing_report", "work" } : AtScan(p, k, at)
  BY DEF ScanCancelled
<1>2. at \in Place \ { "idle" } BY ComparePlaces
<1>3. Busy(p) /\ Valid(db, proc[p]) BY <1>1, <1>2, AtScanRuns
<1> QED BY <1>3, CancelCompleteStep DEF ScanCancelled

\* Every step of the comparison and the cleanup.
LEMMA ScanMoves ==
  ASSUME TypeInv,
         \/ \E w \in Workflow : ScanCommand(w)
         \/ \E p \in Proc : ScanStep(p)
  PROVE  CalmStep \/ \E p \in Proc : EndStep(p)
<1>1. ASSUME NEW w \in Workflow, ScanCommand(w) PROVE CalmStep
  BY <1>1, StartScanStep, QueueScanStep DEF ScanCommand
<1>2. ASSUME NEW p \in Proc, ScanStep(p) PROVE CalmStep \/ EndStep(p)
  BY <1>2, CompareGoesOnStep, ScanCompletesStep, BeginCleanupStep, CleanupScannedStep,
     ScanCancelledStep DEF ScanStep
<1> QED BY <1>1, <1>2

----------------------------------------------------------------------------
\* The rounds of the full collection.

LEMMA RoundIsKind ==
  /\ "full_collect" \in Kind /\ "full_collect" # "none" /\ "full_collect" \in Uncancellable
  /\ Batch \in OperationsOf("full_collect") /\ OperationsOf("full_collect") = {Batch}
BY KindNames, NoneIsNoKind, OperationNames DEF Uncancellable, Batch

LEMMA TypedRound ==
  ASSUME TypeInv, NEW w \in Workflow, Round(w)
  PROVE  /\ db \in Database /\ db.wf[w].kind = "full_collect" /\ db.wf[w].kind # "none"
         /\ db.wf[w] \in WorkflowOf("full_collect") /\ db.wf[w].status = "active"
         /\ db.wf[w].data \in DataOf("full_collect")
<1>1. db.wf[w].kind = "full_collect" /\ db.wf[w].status = "active" BY DEF Round, Active
<1> QED BY <1>1, RoundIsKind, TypedWorkflow

LEMMA StartRoundStep ==
  ASSUME TypeInv, NEW w \in Workflow, StartRound(w) PROVE CalmStep
<1> DEFINE e == [ db EXCEPT !.wf[w] = NewWorkflow("full_collect") ]
<1>1. /\ ~Exists(db, w) /\ db \in Database /\ UNCHANGED << sup, proc, qbit >>
      /\ db' = Queue(e, w, Batch)
  BY DEF StartRound, IsNew, TypeInv
<1>2. Born(db, e, w, "full_collect") /\ Bound(e.wf[w]) = {} BY <1>1, BornOfTheLibrary
<1> HIDE DEF e
<1>3. BeginIn(db, e, w) BY <1>1, <1>2, RoundIsKind, BornBegins
<1>4. e.wf[w].kind = "full_collect" BY <1>2, WorkflowFields, RoundIsKind DEF Born
<1>5. BeginIn(db, db', w) BY <1>1, <1>3, <1>4, RoundIsKind, BeginQueue
<1> QED BY <1>1, <1>5, CalmCommand

LEMMA PauseRoundStep ==
  ASSUME TypeInv, NEW w \in Workflow, PauseRound(w) PROVE CalmStep
<1> DEFINE c == CancelQueued(db, w)
           z == [ c.wf[w].data EXCEPT !.intent = "pause" ]
           ph == IF Running(db, w) # {} THEN "pausing" ELSE "paused"
           d == [ c EXCEPT !.wf[w].data.intent = "pause", !.wf[w].phase = ph ]
<1>1. Round(w) /\ UNCHANGED << sup, proc, qbit >> /\ db' = d BY DEF PauseRound
<1>2. /\ db \in Database /\ db.wf[w].kind = "full_collect" /\ db.wf[w].kind # "none"
      /\ db.wf[w].data \in DataOf("full_collect") /\ db.wf[w] \in WorkflowOf("full_collect")
  BY <1>1, TypedRound
<1>3. CalmIn(db, c, w) BY <1>2, CalmCancelQueued
<1>4. c.wf[w].data = db.wf[w].data
  <2> DEFINE x == db.wf[w]
             y == [ x EXCEPT !.job =
                       [o \in DOMAIN x.job |-> IF x.job[o].status = "queued"
                           THEN [ x.job[o] EXCEPT !.status = "cancelled" ] ELSE x.job[o]] ]
  <2>1. Rewrites(db, c, w, y) BY <1>2, CancelQueuedMoves
  <2>2. y.data = x.data BY <1>2 DEF WorkflowOf
  <2> HIDE DEF c, y
  <2> QED BY <2>1, <2>2 DEF Rewrites
<1> HIDE DEF c
<1>5. z \in DataOf("full_collect") /\ z.cursor = db.wf[w].data.cursor
  BY <1>2, <1>4, RoundDataFields DEF DataOf
<1>6. ph \in Phase BY PhaseNames
<1> HIDE DEF ph
<1>7. d = PhasePut(DataPut(c, w, z), w, ph) BY DEF PhasePut, DataPut
<1> HIDE DEF z, d
<1>8. MayHold(db.wf[w], c.wf[w], z) BY <1>2, <1>5 DEF MayHold
<1>9. CalmIn(db, DataPut(c, w, z), w) BY <1>2, <1>3, <1>5, <1>8, CalmData
<1>10. CalmIn(db, db', w) BY <1>1, <1>2, <1>6, <1>7, <1>9, CalmPhase DEF PhasePut
<1> QED BY <1>1, <1>2, <1>10, CalmCommand

LEMMA ResumeRoundStep ==
  ASSUME TypeInv, NEW w \in Workflow, ResumeRound(w) PROVE CalmStep
<1> DEFINE z == [ db.wf[w].data EXCEPT !.intent = "run", !.failures = 0 ]
           d == [ db EXCEPT !.wf[w].data.intent = "run", !.wf[w].data.failures = 0,
                            !.wf[w].phase = "queued" ]
<1>1. Round(w) /\ UNCHANGED << sup, proc, qbit >> /\ db' = Queue(d, w, Batch)
  BY DEF ResumeRound
<1>2. /\ db \in Database /\ db.wf[w].kind = "full_collect" /\ db.wf[w].kind # "none"
      /\ db.wf[w].data \in DataOf("full_collect")
  BY <1>1, TypedRound
<1>3. z \in DataOf("full_collect") /\ z.cursor = db.wf[w].data.cursor
  BY <1>2, RoundDataFields DEF DataOf
<1>4. d = PhasePut(DataPut(db, w, z), w, "queued")
  <2> DEFINE z1 == [ db.wf[w].data EXCEPT !.intent = "run" ]
             d1 == [ db EXCEPT !.wf[w].data.intent = "run" ]
             d2 == [ d1 EXCEPT !.wf[w].data.failures = 0 ]
             z2 == [ d1.wf[w].data EXCEPT !.failures = 0 ]
  <2>1. d = [ d2 EXCEPT !.wf[w].phase = "queued" ] OBVIOUS
  <2>2. d1 = DataPut(db, w, z1) BY DEF DataPut
  <2>3. z1 \in DataOf("full_collect") BY <1>2, RoundDataFields DEF DataOf
  <2>4. z = [ z1 EXCEPT !.failures = 0 ] OBVIOUS
  <2> HIDE DEF d1, z1, z, d
  <2>5. d2 = DataPut(d1, w, z2) BY DEF DataPut
  <2>6. d1.wf[w].data = z1 BY <1>2, <2>2, <2>3, DataPutTwice
  <2>7. z2 = z BY <2>4, <2>6
  <2> HIDE DEF d2, z2
  <2>8. d2 = DataPut(db, w, z) BY <1>2, <2>2, <2>3, <2>5, <2>7, DataPutTwice
  <2> QED BY <2>1, <2>8 DEF PhasePut
<1> HIDE DEF z, d
<1>5. MayHold(db.wf[w], db.wf[w], z) BY <1>2, <1>3 DEF MayHold
<1>6. CalmIn(db, DataPut(db, w, z), w) BY <1>2, <1>3, <1>5, CalmRefl, CalmData
<1>7. CalmIn(db, d, w) BY <1>2, <1>4, <1>6, CalmPhase, PhaseNames DEF PhasePut
<1> QED BY <1>1, <1>2, <1>7, RoundIsKind, QueueChangedStep

LEMMA TerminateRoundStep ==
  ASSUME TypeInv, NEW w \in Workflow, TerminateRound(w) PROVE CalmStep
<1> DEFINE f == ReleaseAll(EndWorkflow(db, w, "cancelled", "cancelled"), w)
<1>1. Round(w) /\ UNCHANGED << sup, proc, qbit >> /\ db' = Over(f, w) /\ Idle(db, w)
  BY DEF TerminateRound
<1>2. /\ db \in Database /\ db.wf[w].kind # "none" /\ db.wf[w].status = "active"
  BY <1>1, TypedRound
<1>3. \A o \in OperationsOf(db.wf[w].kind) : db.wf[w].job[o].status # "running"
  BY <1>1, <1>2, RunsNone
<1>4. CalmIn(db, db, w) BY <1>2, CalmRefl
<1>5. CloseIn(db, Over(f, w), w) BY <1>2, <1>3, <1>4, Closes, PhaseNames
<1> QED BY <1>1, <1>5, CalmCommand

LEMMA AtBatchRuns ==
  ASSUME TypeInv, NEW p \in Proc, NEW at \in Place \ { "idle" }, AtBatch(p, at)
  PROVE  /\ Busy(p) /\ Valid(db, proc[p]) /\ db \in Database /\ proc[p].w \in Workflow
         /\ db.wf[proc[p].w].kind = "full_collect" /\ db.wf[proc[p].w].kind # "none"
         /\ db.wf[proc[p].w].data \in DataOf("full_collect") /\ proc[p].op = Batch
         /\ db.wf[proc[p].w].status = "active" /\ proc[p] \in Process
<1>1. Busy(p) /\ Valid(db, proc[p]) /\ db.wf[proc[p].w].kind = "full_collect"
  BY DEF AtBatch, Busy
<1>2. proc[p].w \in Workflow /\ proc[p].op = Batch /\ proc[p] \in Process
      /\ db.wf[proc[p].w].kind # "none" /\ db \in Database
  BY <1>1, TypedProcess, RoundIsKind DEF TypeInv
<1>3. db.wf[proc[p].w].data \in DataOf("full_collect") BY <1>1, <1>2, TypedWorkflow
<1>4. db.wf[proc[p].w].status = "active" BY <1>1, <1>2, ValidRuns DEF Batch
<1> QED BY <1>1, <1>2, <1>3, <1>4

BatchEnd == { "completed", "paused", "interrupted", "queued", "cooling", "waiting_repair" }

LEMMA EndBatchStep ==
  ASSUME TypeInv, NEW p \in Proc, NEW at \in Place \ { "idle" }, AtBatch(p, at),
         NEW wanted \in BatchEnd, EndBatch(p, wanted)
  PROVE  EndStep(p)
<1> DEFINE w == proc[p].w
           ph == CASE RoundData(p).end -> "completed"
                   [] RoundData(p).intent # "run" -> "paused"
                   [] OTHER -> wanted
           st == IF ph = "completed" THEN "completed" ELSE "active"
           d == Succeed(db, proc[p], ph, st)
           next == ph \in { "queued", "cooling" }
<1>1. db' = (IF next THEN Queue(d, w, Batch) ELSE d) /\ Exits(p) /\ qbit' = qbit
  BY DEF EndBatch
<1>2. /\ Busy(p) /\ Valid(db, proc[p]) /\ db \in Database /\ w \in Workflow
      /\ db.wf[w].kind = "full_collect" /\ db.wf[w].kind # "none"
      /\ db.wf[w].status = "active" /\ proc[p].op = Batch
      /\ db.wf[w].kind \in Uncancellable
  BY AtBatchRuns, RoundIsKind
<1>3. ph \in BatchEnd
  BY DEF BatchEnd
<1> HIDE DEF ph, w
<1>4. ph \in Phase /\ st \in { "active", "completed" } /\ (next => st = "active")
  BY <1>3, PhaseNames DEF BatchEnd
<1> HIDE DEF st
<1>5. CalmIn(db, db, w) BY <1>2, CalmRefl
<1>6. FinishIn(db, d, w, Batch) /\ d.wf[w].status = st
  BY <1>2, <1>4, <1>5, SucceedStep DEF w
<1> HIDE DEF d
<1>7. next => FinishIn(db, Queue(d, w, Batch), w, Batch)
  BY <1>2, <1>4, <1>6, FinishQueue, RoundIsKind
<1>8. FinishIn(db, db', w, Batch) BY <1>1, <1>6, <1>7
<1> QED BY <1>1, <1>2, <1>8, EndsWell DEF w

LEMMA BatchPlaces ==
  /\ "begin" \in Place \ { "idle" } /\ "request" \in Place \ { "idle" }
  /\ "received" \in Place \ { "idle" } /\ "cool" \in Place \ { "idle" }
  /\ "repair" \in Place \ { "idle" }
BY DEF Place

\* A write of a round that goes on.
LEMMA BatchWrites ==
  ASSUME TypeInv, NEW p \in Proc, NEW at \in Place \ { "idle" }, AtBatch(p, at),
         NEW e, CalmIn(db, e, proc[p].w), NEW ph \in Phase,
         db' = Update(e, proc[p], ph), NEW to \in { "begin", "received", "cool", "repair" },
         Goto(p, to), UNCHANGED << sup, qbit >>
  PROVE  CalmStep
<1>1. Busy(p) /\ to \in Place \ { "idle" } BY AtBatchRuns, BatchPlaces
<1>2. db.wf[proc[p].w].kind # "lanraragi_metadata" BY AtBatchRuns
<1> QED BY <1>1, <1>2, UpdateStep

LEMMA NextPageStep ==
  ASSUME TypeInv, NEW p \in Proc, NextPage(p) PROVE CalmStep \/ EndStep(p)
<1> DEFINE b == [ proc[p] EXCEPT !.page = proc[p].page + 1, !.at = "request" ]
<1>1. AtBatch(p, "begin") BY DEF NextPage
<1>2. \/ \E wanted \in BatchEnd : EndBatch(p, wanted)
      \/ /\ proc[p].page # BatchPages
         /\ proc' = [ proc EXCEPT ![p].page = proc[p].page + 1, ![p].at = "request" ]
         /\ UNCHANGED << db, sup, qbit >>
  BY DEF NextPage, BatchEnd
<1>3. ASSUME NEW wanted \in BatchEnd, EndBatch(p, wanted) PROVE EndStep(p)
  BY <1>1, <1>3, BatchPlaces, EndBatchStep
<1>4. CASE /\ proc[p].page # BatchPages
           /\ proc' = [ proc EXCEPT ![p].page = proc[p].page + 1, ![p].at = "request" ]
           /\ UNCHANGED << db, sup, qbit >>
  <2>1. proc[p] \in Process /\ Busy(p) /\ db.wf[proc[p].w].kind = "full_collect"
        /\ Fits(db, proc[p]) /\ qbit' \in QbitType
    BY <1>1, <1>4, BatchPlaces, AtBatchRuns DEF TypeInv
  <2>2. proc[p].page + 1 \in 0 .. BatchPages BY <1>4, <2>1, Limits DEF Process
  <2>3. b \in Process BY <2>1, <2>2 DEF Process, Place
  <2>4. proc' = [ proc EXCEPT ![p] = b ] BY <1>4
  <2>5. b.w = proc[p].w /\ b.op = proc[p].op /\ b.no = proc[p].no /\ b.owner = proc[p].owner
        /\ b.at = "request"
    BY <2>1 DEF Process
  <2> HIDE DEF b
  <2>6. GoesOn(proc[p], b) BY <2>1, <2>5 DEF GoesOn, Busy
  <2>7. Fits(db, b) BY <2>1, <2>5 DEF Fits, Busy
  <2>8. Steady BY <1>4, <2>1, <2>3, <2>4, <2>6, <2>7 DEF Steady, TypeInv
  <2> QED BY <1>4, <2>8, RunGoesOnUnseen
<1> QED BY <1>2, <1>3, <1>4

LEMMA BeginRequestStep ==
  ASSUME TypeInv, NEW p \in Proc, BeginRequest(p) PROVE CalmStep \/ EndStep(p)
<1> DEFINE ph == db.wf[proc[p].w].phase
<1>1. AtBatch(p, "request") BY DEF BeginRequest
<1>2. Busy(p) /\ proc[p].w \in Workflow /\ db \in Database BY <1>1, BatchPlaces, AtBatchRuns
<1>3. ph \in Phase /\ CalmIn(db, db, proc[p].w) BY <1>2, OwnPhase, CalmRefl
<1>4. \/ EndBatch(p, "paused")
      \/ db' = Update(db, proc[p], ph) /\ Goto(p, "received") /\ UNCHANGED << sup, qbit >>
  BY DEF BeginRequest
<1>5. "paused" \in BatchEnd BY DEF BatchEnd
<1> HIDE DEF ph
<1> QED BY <1>1, <1>3, <1>4, <1>5, BatchPlaces, EndBatchStep, BatchWrites

LEMMA RequestFailsStep ==
  ASSUME TypeInv, NEW p \in Proc, RequestFails(p) PROVE CalmStep
<1> DEFINE w == proc[p].w
           ph == db.wf[w].phase
           n == db.wf[w].data.failures + 1
           d == [ db EXCEPT !.wf[w].data.failures = n ]
           z == [ db.wf[w].data EXCEPT !.failures = n ]
<1>1. AtBatch(p, "received") BY DEF RequestFails
<1>2. /\ Busy(p) /\ w \in Workflow /\ db \in Database
      /\ db.wf[w].kind = "full_collect" /\ db.wf[w].kind # "none"
      /\ db.wf[w].data \in DataOf("full_collect")
  BY <1>1, BatchPlaces, AtBatchRuns
<1>3. ph \in Phase /\ CalmIn(db, db, w) BY <1>2, OwnPhase, CalmRefl
<1>4. /\ \/ db' = Update(db, proc[p], ph)
         \/ db' = Update(d, proc[p], ph)
      /\ \E to \in { "begin", "received", "cool", "repair" } : Goto(p, to)
      /\ UNCHANGED << sup, qbit >>
  BY DEF RequestFails, RoundData
<1>5. n \in Nat BY <1>2, RoundDataFields
<1> HIDE DEF n, ph, w
<1>6. d = DataPut(db, w, z) BY DEF DataPut
<1>7. z \in DataOf("full_collect") /\ z.cursor = db.wf[w].data.cursor
  BY <1>2, <1>5, RoundDataFields DEF DataOf
<1> HIDE DEF d, z
<1>8. MayHold(db.wf[w], db.wf[w], z) BY <1>2, <1>7 DEF MayHold
<1>9. CalmIn(db, d, w) BY <1>2, <1>3, <1>6, <1>7, <1>8, CalmData
<1> QED BY <1>1, <1>3, <1>4, <1>9, BatchPlaces, BatchWrites DEF w

LEMMA EndFailedBatchStep ==
  ASSUME TypeInv, NEW p \in Proc, EndFailedBatch(p) PROVE EndStep(p)
<1>1. "cooling" \in BatchEnd /\ "waiting_repair" \in BatchEnd BY DEF BatchEnd
<1> QED BY <1>1, BatchPlaces, EndBatchStep DEF EndFailedBatch

LEMMA CommitPageStep ==
  ASSUME TypeInv, NEW p \in Proc, CommitPage(p) PROVE CalmStep \/ EndStep(p)
<1> DEFINE w == proc[p].w
           n == db.wf[w].data.cursor + 1
           last == n = LastPage
           d == [ db EXCEPT !.wf[w].data.cursor = n, !.wf[w].data.failures = 0,
                            !.wf[w].data.end = last ]
           z == [ db.wf[w].data EXCEPT !.cursor = n, !.failures = 0, !.end = last ]
<1>1. AtBatch(p, "received") BY DEF CommitPage
<1>2. /\ Busy(p) /\ w \in Workflow /\ db \in Database
      /\ db.wf[w].kind = "full_collect" /\ db.wf[w].kind # "none"
      /\ db.wf[w].data \in DataOf("full_collect")
  BY <1>1, BatchPlaces, AtBatchRuns
<1>3. \/ EndBatch(p, "interrupted") \/ EndBatch(p, "paused")
      \/ /\ db.wf[w].data.intent = "run" /\ db' = Update(d, proc[p], "collecting")
         /\ Goto(p, "begin") /\ UNCHANGED << sup, qbit >>
  BY DEF CommitPage, RoundData
<1>4. "interrupted" \in BatchEnd /\ "paused" \in BatchEnd BY DEF BatchEnd
<1>5. CASE db.wf[w].data.intent = "run" /\ db' = Update(d, proc[p], "collecting")
           /\ Goto(p, "begin") /\ UNCHANGED << sup, qbit >>
  <2>1. n \in Nat /\ last \in BOOLEAN BY <1>2, RoundDataFields
  <2> HIDE DEF n, last, w
  <2>2. d = DataPut(db, w, z)
    <3> DEFINE z1 == [ db.wf[w].data EXCEPT !.cursor = n ]
               d1 == [ db EXCEPT !.wf[w].data.cursor = n ]
               z2 == [ z1 EXCEPT !.failures = 0 ]
               d2 == [ d1 EXCEPT !.wf[w].data.failures = 0 ]
               y2 == [ d1.wf[w].data EXCEPT !.failures = 0 ]
               d3 == [ d2 EXCEPT !.wf[w].data.end = last ]
               y3 == [ d2.wf[w].data EXCEPT !.end = last ]
    <3>1. d = d3 OBVIOUS
    <3>2. d1 = DataPut(db, w, z1) BY DEF DataPut
    <3>3. z1 \in DataOf("full_collect") BY <1>2, <2>1, RoundDataFields DEF DataOf
    <3>4. z2 \in DataOf("full_collect") BY <3>3, RoundDataFields DEF DataOf
    <3>5. z = [ z2 EXCEPT !.end = last ] OBVIOUS
    <3> HIDE DEF d1, z1, z, d
    <3>6. d2 = DataPut(d1, w, y2) BY DEF DataPut
    <3>7. d1.wf[w].data = z1 BY <1>2, <3>2, <3>3, DataPutTwice
    <3>8. y2 = z2 BY <3>7
    <3> HIDE DEF d2, y2, z2
    <3>9. d2 = DataPut(db, w, z2) BY <1>2, <3>2, <3>3, <3>6, <3>8, DataPutTwice
    <3>10. d3 = DataPut(d2, w, y3) BY DEF DataPut
    <3>11. d2.wf[w].data = z2 BY <1>2, <3>4, <3>9, DataPutTwice
    <3>12. y3 = z BY <3>5, <3>11
    <3> HIDE DEF d3, y3
    <3> QED BY <1>2, <3>1, <3>4, <3>9, <3>10, <3>12, DataPutTwice
  <2>3. z \in DataOf("full_collect") BY <1>2, <2>1, RoundDataFields DEF DataOf
  <2> HIDE DEF d, z
  <2>4. MayHold(db.wf[w], db.wf[w], z) BY <1>2, <1>5, RoundIsKind DEF MayHold
  <2>5. CalmIn(db, d, w) BY <1>2, <2>2, <2>3, <2>4, CalmRefl, CalmData
  <2>6. "collecting" \in Phase BY PhaseNames
  <2> QED BY <1>1, <1>5, <2>5, <2>6, BatchPlaces, BatchWrites DEF w
<1> QED BY <1>1, <1>3, <1>4, <1>5, BatchPlaces, EndBatchStep

\* Every step of a round, but for the recovery.
LEMMA RoundMoves ==
  ASSUME TypeInv,
         \/ \E w \in Workflow : RoundCommand(w)
         \/ \E p \in Proc : BatchStep(p)
  PROVE  CalmStep \/ \E p \in Proc : EndStep(p)
<1>1. ASSUME NEW w \in Workflow, RoundCommand(w) PROVE CalmStep
  BY <1>1, StartRoundStep, PauseRoundStep, ResumeRoundStep, TerminateRoundStep
  DEF RoundCommand
<1>2. ASSUME NEW p \in Proc, BatchStep(p) PROVE CalmStep \/ EndStep(p)
  BY <1>2, NextPageStep, BeginRequestStep, RequestFailsStep, EndFailedBatchStep,
     CommitPageStep DEF BatchStep
<1> QED BY <1>1, <1>2

----------------------------------------------------------------------------
(* The recovery.  A round is left as it was, goes on calmly, is completed   *)
(* without a job, or loses the job that was taken from its process.         *)

SettledData(e, w) ==
  LET z == [ e.wf[w].data EXCEPT !.owner = sup.owner ] IN
  [ z EXCEPT !.settled = << e.wf[w].job[Batch].no, e.wf[w].job[Batch].status >> ]

LEMMA SettledPuts ==
  ASSUME TypeInv, NEW e \in Database, NEW w \in Workflow, e.wf[w].kind = "full_collect"
  PROVE  /\ Settled(e, w) = DataPut(e, w, SettledData(e, w))
         /\ SettledData(e, w) \in DataOf("full_collect")
         /\ SettledData(e, w).cursor = e.wf[w].data.cursor
         /\ SettledData(e, w).intent = e.wf[w].data.intent
<1> DEFINE s == << e.wf[w].job[Batch].no, e.wf[w].job[Batch].status >>
           owner == sup.owner
           z1 == [ e.wf[w].data EXCEPT !.owner = owner ]
           f1 == [ e EXCEPT !.wf[w].data.owner = owner ]
           z2 == [ f1.wf[w].data EXCEPT !.settled = s ]
           z == [ z1 EXCEPT !.settled = s ]
           f == [ f1 EXCEPT !.wf[w].data.settled = s ]
<1>1. e.wf[w].kind # "none" /\ e.wf[w] \in WorkflowOf("full_collect")
  BY DatabaseFields, RecordKind, RoundIsKind
<1>2. e.wf[w].data \in DataOf("full_collect") /\ e.wf[w].job[Batch] \in Job
  BY <1>1, WorkflowFields, RoundIsKind
<1>3. s \in Nat \X JobStatus BY <1>2, JobFields
<1>4. owner \in 0 .. MaxOwner BY DEF TypeInv, SupervisorRow
<1>5. Settled(e, w) = f BY DEF Settled
<1>6. SettledData(e, w) = z BY DEF SettledData
<1> HIDE DEF s, owner
<1>7. z1 \in DataOf("full_collect") /\ z1.cursor = e.wf[w].data.cursor
      /\ z1.intent = e.wf[w].data.intent
  BY <1>2, <1>4, RoundDataFields DEF DataOf
<1>8. f1 = DataPut(e, w, z1) BY DEF DataPut
<1> HIDE DEF z1
<1>9. z \in DataOf("full_collect") /\ z.cursor = e.wf[w].data.cursor
      /\ z.intent = e.wf[w].data.intent
  BY <1>3, <1>7, RoundDataFields DEF DataOf
<1> HIDE DEF f1
<1>10. f = DataPut(f1, w, z2) BY DEF DataPut
<1>11. f1.wf[w].data = z1 BY <1>1, <1>7, <1>8, DataPutTwice
<1>12. z2 = z BY <1>11
<1> HIDE DEF z2, z, f
<1>13. f = DataPut(e, w, z) BY <1>1, <1>7, <1>8, <1>10, <1>12, DataPutTwice
<1> QED BY <1>5, <1>6, <1>9, <1>13

\* What the inspection of a round comes to.
Recovers(d, e, w) ==
  \/ CalmIn(d, e, w) /\ e.wf[w].claims = d.wf[w].claims
  \/ CloseIn(d, e, w)
  \/ FinishIn(d, e, w, Batch)

LEMMA RecoverSettles ==
  ASSUME TypeInv, NEW w \in Workflow, db.wf[w].kind = "full_collect", db.wf[w].status = "active",
         NEW e, Recovers(db, e, w)
  PROVE  Recovers(db, Settled(e, w), w)
<1>1. db \in Database /\ db.wf[w].kind # "none" BY RoundIsKind DEF TypeInv
<1>2. e \in Database /\ e.wf[w].kind = "full_collect"
  BY <1>1, CalmFields, FinishFields DEF Recovers, CloseIn, Closed
<1>3. /\ Settled(e, w) = DataPut(e, w, SettledData(e, w))
      /\ SettledData(e, w) \in DataOf("full_collect")
      /\ SettledData(e, w).cursor = e.wf[w].data.cursor
  BY <1>2, SettledPuts
<1> DEFINE z == SettledData(e, w)
<1> HIDE DEF z
<1>4. CASE CalmIn(db, e, w) /\ e.wf[w].claims = db.wf[w].claims
  <2>1. e.wf[w].status = "active" BY <1>1, <1>4, CalmFields
  <2>2. MayHold(db.wf[w], e.wf[w], z)
    BY <1>3, <1>4, <2>1 DEF z, MayHold, CalmIn, CalmOn, DataMoves
  <2>3. CalmIn(db, DataPut(e, w, z), w) /\ DataPut(e, w, z).wf[w].claims = e.wf[w].claims
    BY <1>1, <1>3, <1>4, <2>2, CalmData DEF z
  <2> QED BY <1>3, <1>4, <2>3 DEF z, Recovers
<1>5. CASE CloseIn(db, e, w) BY <1>1, <1>3, <1>5, CloseData DEF Recovers
<1>6. CASE FinishIn(db, e, w, Batch) BY <1>1, <1>3, <1>6, FinishData DEF Recovers
<1> QED BY <1>4, <1>5, <1>6 DEF Recovers

\* The round goes on, with or without its job.
Resumes(d, e, w) ==
  /\ e.wf[w].status = "active"
  /\ \/ CalmIn(d, e, w) /\ e.wf[w].claims = d.wf[w].claims
     \/ FinishIn(d, e, w, Batch)

LEMMA ResumesFields ==
  ASSUME NEW d \in Database, NEW e, NEW w \in Workflow, d.wf[w].kind = "full_collect",
         Resumes(d, e, w)
  PROVE  /\ d.wf[w].kind # "none" /\ e \in Database /\ e.wf[w].kind = "full_collect"
         /\ e.wf[w].kind # "none" /\ e.wf[w] \in WorkflowOf("full_collect")
         /\ Recovers(d, e, w)
<1>1. d.wf[w].kind # "none" BY RoundIsKind
<1>2. e \in Database /\ e.wf[w] \in WorkflowOf("full_collect") /\ e.wf[w].kind = "full_collect"
  BY <1>1, CalmFields, FinishFields DEF Resumes
<1> QED BY <1>1, <1>2, RoundIsKind DEF Resumes, Recovers

WorkPut(e, w, y) == [ e EXCEPT !.wf[w] = y ]

LEMMA ResumesWrites ==
  ASSUME NEW d \in Database, NEW e, NEW w \in Workflow, d.wf[w].kind = "full_collect",
         d.wf[w].status = "active", Resumes(d, e, w), NEW y \in WorkflowOf("full_collect"),
         y.bind = e.wf[w].bind, y.status = "active", y.claims = e.wf[w].claims,
         y.job = e.wf[w].job, y.cancel = e.wf[w].cancel, y.data.cursor = e.wf[w].data.cursor
  PROVE  LET f == WorkPut(e, w, y) IN Resumes(d, f, w) /\ f.wf[w] = y
<1> DEFINE f == WorkPut(e, w, y)
<1> SUFFICES Resumes(d, f, w) /\ f.wf[w] = y OBVIOUS
<1>1. /\ d.wf[w].kind # "none" /\ e \in Database /\ e.wf[w].kind = "full_collect"
      /\ e.wf[w].kind # "none" /\ e.wf[w] \in WorkflowOf("full_collect")
  BY ResumesFields
<1>2. y \in Record /\ y.kind = "full_collect" BY WorkflowFields, WorkflowIsRecord, RoundIsKind
<1>3. Rewrites(e, f, w, y) BY <1>1, <1>2, PutWorkflow DEF WorkPut
<1> HIDE DEF f
<1>4. f.wf[w] = y BY <1>3 DEF Rewrites
<1>5. DataMoves(d.wf[w], y)
  <2>1. DataMoves(d.wf[w], e.wf[w]) BY DEF Resumes, CalmIn, CalmOn, FinishIn, Finished
  <2> QED BY <2>1 DEF DataMoves, Resumes
<1>6. CASE CalmIn(d, e, w) /\ e.wf[w].claims = d.wf[w].claims
  <2>1. \A o \in OperationsOf(d.wf[w].kind) : JobSame(e.wf[w].job[o], y.job[o])
    BY JobSameReflexive
  <2>2. y.bind = d.wf[w].bind BY <1>1, <1>6, CalmFields
  <2>3. CalmIn(d, f, w) BY <1>1, <1>5, <1>6, <2>1, <2>2, CalmPut DEF f, WorkPut
  <2> QED BY <1>4, <1>6, <2>3 DEF Resumes
<1>7. CASE FinishIn(d, e, w, Batch)
  <2>1. y.kind = e.wf[w].kind /\ y.status = e.wf[w].status BY <1>1, <1>2 DEF Resumes
  <2>2. FinishIn(d, f, w, Batch) BY <1>1, <1>3, <1>5, <1>7, <2>1, FinishWrites
  <2> QED BY <1>4, <2>2 DEF Resumes
<1> QED BY <1>6, <1>7 DEF Resumes

LEMMA ResumesPhase ==
  ASSUME NEW d \in Database, NEW e, NEW w \in Workflow, d.wf[w].kind = "full_collect",
         d.wf[w].status = "active", Resumes(d, e, w), NEW ph \in Phase
  PROVE  LET f == EndWorkflow(e, w, "active", ph) IN
         /\ Resumes(d, f, w) /\ f.wf[w].data = e.wf[w].data /\ f.wf[w].job = e.wf[w].job
<1> DEFINE f == EndWorkflow(e, w, "active", ph)
           y0 == [ e.wf[w] EXCEPT !.status = "active" ]
           y == [ y0 EXCEPT !.phase = ph ]
<1>1. /\ e.wf[w] \in WorkflowOf("full_collect") BY ResumesFields
<1>2. f = WorkPut(e, w, y) BY DEF EndWorkflow, WorkPut
<1>3. y0 \in WorkflowOf("full_collect") BY <1>1, PutStatus, RoundIsKind
<1>4. /\ y.bind = e.wf[w].bind /\ y.status = "active" /\ y.claims = e.wf[w].claims
      /\ y.job = e.wf[w].job /\ y.cancel = e.wf[w].cancel /\ y.data = e.wf[w].data
  BY <1>1 DEF WorkflowOf
<1> HIDE DEF y0
<1>5. y \in WorkflowOf("full_collect") BY <1>3, PutPhase, RoundIsKind
<1> HIDE DEF y, f
<1>6. y.data.cursor = e.wf[w].data.cursor BY <1>4
<1>7. Resumes(d, f, w) /\ f.wf[w] = y BY <1>2, <1>4, <1>5, <1>6, ResumesWrites
<1> QED BY <1>4, <1>7 DEF f

LEMMA ResumesPaused ==
  ASSUME NEW d \in Database, NEW e, NEW w \in Workflow, d.wf[w].kind = "full_collect",
         d.wf[w].status = "active", Resumes(d, e, w)
  PROVE  Resumes(d, [ e EXCEPT !.wf[w].data.intent = "pause" ], w)
<1> DEFINE f == [ e EXCEPT !.wf[w].data.intent = "pause" ]
           z == [ e.wf[w].data EXCEPT !.intent = "pause" ]
           y == [ e.wf[w] EXCEPT !.data = z ]
<1>1. e.wf[w] \in WorkflowOf("full_collect") BY ResumesFields
<1>2. e.wf[w].data \in DataOf("full_collect") BY <1>1, WorkflowFields, RoundIsKind
<1>3. f = WorkPut(e, w, y) BY DEF WorkPut
<1>4. z \in DataOf("full_collect") /\ z.cursor = e.wf[w].data.cursor
  BY <1>2, RoundDataFields DEF DataOf
<1> HIDE DEF z
<1>5. y \in WorkflowOf("full_collect") BY <1>1, <1>4, PutData, RoundIsKind
<1>6. /\ y.bind = e.wf[w].bind /\ y.status = e.wf[w].status /\ y.claims = e.wf[w].claims
      /\ y.job = e.wf[w].job /\ y.cancel = e.wf[w].cancel /\ y.data = z
  BY <1>1 DEF WorkflowOf
<1> HIDE DEF y, f
<1>7. y.status = "active" BY <1>6 DEF Resumes
<1>8. Resumes(d, f, w) BY <1>3, <1>4, <1>5, <1>6, <1>7, ResumesWrites
<1> QED BY <1>8 DEF f

LEMMA ResumesQueued ==
  ASSUME NEW d \in Database, NEW e, NEW w \in Workflow, d.wf[w].kind = "full_collect",
         d.wf[w].status = "active", Resumes(d, e, w)
  PROVE  Resumes(d, Queue(e, w, Batch), w)
<1> DEFINE j == [ NoJob EXCEPT !.status = "queued", !.no = e.wf[w].job[Batch].no + 1 ]
           y == [ e.wf[w] EXCEPT !.job[Batch] = j ]
           f == Queue(e, w, Batch)
<1>1. /\ d.wf[w].kind # "none" /\ e \in Database /\ e.wf[w].kind = "full_collect"
      /\ e.wf[w].kind # "none" /\ e.wf[w] \in WorkflowOf("full_collect")
  BY ResumesFields
<1>2. Rewrites(e, f, w, IF e.wf[w].job[Batch].status \in { "queued", "running" }
                        THEN e.wf[w] ELSE y)
  BY <1>1, QueueMoves, RoundIsKind
<1>3. y.status = e.wf[w].status /\ y.claims = e.wf[w].claims BY <1>1 DEF WorkflowOf
<1> HIDE DEF y, f
<1>4. f.wf[w].status = "active" /\ f.wf[w].claims = e.wf[w].claims
  BY <1>2, <1>3 DEF Rewrites, Resumes
<1>5. CASE CalmIn(d, e, w) /\ e.wf[w].claims = d.wf[w].claims
  <2>1. CalmIn(d, f, w) BY <1>1, <1>5, CalmQueue, RoundIsKind DEF f
  <2> QED BY <1>4, <1>5, <2>1 DEF Resumes, f
<1>6. CASE FinishIn(d, e, w, Batch)
  <2>1. FinishIn(d, f, w, Batch) BY <1>1, <1>6, FinishQueue, RoundIsKind DEF Resumes, f
  <2> QED BY <1>4, <2>1 DEF Resumes, f
<1> QED BY <1>5, <1>6 DEF Resumes

\* A running job is abandoned and nothing is queued any more; without one
\* the queued job is put aside.
LEMMA ResumesCleared ==
  ASSUME TypeInv, NEW w \in Workflow, db.wf[w].kind = "full_collect",
         db.wf[w].status = "active"
  PROVE  LET running == Job_(w).status = "running"
             d1 == IF running THEN EndJob(Release(db, w, Batch), w, Batch, "abandoned") ELSE db
             d2 == CancelQueued(d1, w)
         IN /\ Resumes(db, d2, w) /\ d2.wf[w].job[Batch].status # "running"
            /\ running => FinishIn(db, d2, w, Batch)
            /\ ~running => CalmIn(db, d2, w)
<1> DEFINE running == Job_(w).status = "running"
           d0 == EndJob(Release(db, w, Batch), w, Batch, "abandoned")
           d1 == IF running THEN d0 ELSE db
           d2 == CancelQueued(d1, w)
<1> SUFFICES /\ Resumes(db, d2, w) /\ d2.wf[w].job[Batch].status # "running"
             /\ running => FinishIn(db, d2, w, Batch)
             /\ ~running => CalmIn(db, d2, w)
  OBVIOUS
<1>1. db \in Database /\ db.wf[w].kind # "none" /\ Batch \in OperationsOf(db.wf[w].kind)
      /\ OperationsOf(db.wf[w].kind) = {Batch} /\ db.wf[w] \in WorkflowOf("full_collect")
  BY RoundIsKind, TypedWorkflow DEF TypeInv
<1>2. CASE ~running
  <2>1. d2 = CancelQueued(db, w) BY <1>2
  <2>2. CalmIn(db, d2, w) BY <1>1, <2>1, CalmCancelQueued
  <2>3. \A o \in OperationsOf(db.wf[w].kind) : db.wf[w].job[o].status # "running"
    BY <1>1, <1>2 DEF Job_
  <2>4. d2.wf[w].job[Batch].status # "running"
    BY <1>1, <2>1, <2>3, CancelledQueueRunsNone
  <2>5. d2.wf[w].claims = db.wf[w].claims /\ d2.wf[w].status = db.wf[w].status
    <3> DEFINE x == db.wf[w]
               y == [ x EXCEPT !.job =
                       [o \in DOMAIN x.job |-> IF x.job[o].status = "queued"
                           THEN [ x.job[o] EXCEPT !.status = "cancelled" ] ELSE x.job[o]] ]
    <3>1. Rewrites(db, CancelQueued(db, w), w, y) BY <1>1, CancelQueuedMoves
    <3>2. y.claims = x.claims /\ y.status = x.status BY <1>1 DEF WorkflowOf
    <3> HIDE DEF y
    <3> QED BY <2>1, <3>1, <3>2 DEF Rewrites
  <2> HIDE DEF d2
  <2> QED BY <1>2, <2>2, <2>4, <2>5 DEF Resumes
<1>3. CASE running
  <2>1. /\ Ending(db, d0, w, Batch) /\ d0 \in Database
        /\ d0.wf[w].kind = db.wf[w].kind /\ d0.wf[w].status = db.wf[w].status
        /\ d0.wf[w].job[Batch].status = "abandoned"
    BY <1>1, GivenUp
  <2>2. d2 = CancelQueued(d0, w) BY <1>3
  <2> HIDE DEF d0, d2
  <2>3. FinishIn(db, d0, w, Batch)
    BY <1>1, <1>3, <2>1, EndsAtOnce DEF Job_
  <2> DEFINE x == d0.wf[w]
             jobs == [o \in DOMAIN x.job |-> IF x.job[o].status = "queued"
                        THEN [ x.job[o] EXCEPT !.status = "cancelled" ] ELSE x.job[o]]
             y == [ x EXCEPT !.job = jobs ]
  <2>4. x \in WorkflowOf("full_collect") /\ x.kind # "none"
    BY <1>1, <2>1, DatabaseFields, RecordKind
  <2>5. Rewrites(d0, d2, w, y) BY <2>1, <2>2, <2>4, CancelQueuedMoves
  <2>6. jobs = x.job
    <3>1. x.job \in [{Batch} -> Job] BY <1>1, <2>4, WorkflowFields, RoundIsKind
    <3>2. \A o \in DOMAIN x.job : x.job[o].status # "queued" BY <2>1, <3>1
    <3> QED BY <3>1, <3>2
  <2> HIDE DEF jobs
  <2>7. /\ y.kind = x.kind /\ y.bind = x.bind /\ y.status = x.status
        /\ y.claims = x.claims /\ y.job = x.job /\ y.cancel = x.cancel /\ y.data = x.data
    BY <2>4, <2>6 DEF WorkflowOf
  <2> HIDE DEF y
  <2>8. DataMoves(db.wf[w], y)
    <3>1. WorkKeys(y) = WorkKeys(x) BY <2>7 DEF WorkKeys
    <3> QED BY <2>3, <2>7, <3>1 DEF DataMoves, FinishIn, Finished
  <2>9. FinishIn(db, d2, w, Batch) BY <1>1, <2>3, <2>5, <2>7, <2>8, FinishWrites
  <2>10. d2.wf[w].status = "active" /\ d2.wf[w].job[Batch].status # "running"
    BY <2>1, <2>5, <2>7 DEF Rewrites
  <2> QED BY <1>3, <2>9, <2>10 DEF Resumes
<1> QED BY <1>2, <1>3

LEMMA FinishCloses ==
  ASSUME NEW d \in Database, NEW e, NEW w \in Workflow, d.wf[w].kind = "full_collect",
         d.wf[w].status = "active", FinishIn(d, e, w, Batch), NEW ph \in Phase
  PROVE  FinishIn(d, Over(ReleaseAll(EndWorkflow(e, w, "completed", ph), w), w), w, Batch)
<1> DEFINE k == "full_collect"
           y == e.wf[w]
           e1 == EndWorkflow(e, w, "completed", ph)
           y1 == [ y EXCEPT !.status = "completed", !.phase = ph ]
           f == ReleaseAll(e1, w)
           y2 == [ y1 EXCEPT !.claims = {} ]
           g == Over(f, w)
           z == Dropped(y2)
<1>1. /\ k \in Kind /\ e \in Database /\ y.kind = k /\ y.kind # "none" /\ y \in WorkflowOf(k)
      /\ d.wf[w].kind # "none"
  BY FinishFields, RoundIsKind
<1>2. y1 \in WorkflowOf(k) /\ Rewrites(e, e1, w, y1) BY <1>1, EndWorkflowMoves
<1> HIDE DEF e1
<1>3. y1.kind = k /\ y1.status = "completed" /\ y1.bind = y.bind /\ y1.cancel = y.cancel
      /\ y1.job = y.job
  BY <1>1 DEF WorkflowOf
<1>4. e1 \in Database /\ e1.wf[w] = y1 BY <1>2 DEF Rewrites
<1> HIDE DEF y1
<1>5. y2 \in WorkflowOf(k) /\ Rewrites(e1, f, w, y2)
  BY <1>1, <1>3, <1>4, NoneIsNoKind, ReleaseAllMoves
<1>6. y2.kind = k /\ y2.status = "completed" /\ y2.bind = y.bind /\ y2.cancel = y.cancel
      /\ y2.job = y.job /\ y2.claims = {}
  BY <1>2, <1>3 DEF WorkflowOf
<1>7. f \in Database /\ f.wf[w] = y2 /\ \A v \in Workflow \ {w} : f.wf[v] = e.wf[v]
  BY <1>2, <1>5 DEF Rewrites
<1> HIDE DEF f, y2
<1>8. Rewrites(f, g, w, z) BY <1>1, <1>6, <1>7, NoneIsNoKind, OverMoves
<1>9. /\ z.kind = k /\ z.status = "completed" /\ z.claims = {} /\ z.bind = y.bind
      /\ z.cancel => y.cancel
  BY <1>1, <1>5, <1>6, DroppedFields
<1>10. \A o \in OperationsOf(k) : z.job[o] = y.job[o] \/ z.job[o] = NoJob
  BY <1>1, <1>5, <1>6, DroppedFields
<1>11. NoJob.status # "running" BY DEF NoJob
<1> HIDE DEF z, g
<1>12. JobEnds(d.wf[w], y, Batch) BY DEF FinishIn, Finished
<1>13. Batch \in OperationsOf(k) /\ OperationsOf(k) = {Batch} BY RoundIsKind
<1>14. z.bind = d.wf[w].bind BY <1>9, <1>12 DEF JobEnds
<1>15. z.job[Batch].status # "running" BY <1>10, <1>11, <1>12, <1>13 DEF JobEnds
<1>16. \/ /\ z.job[Batch].no \in Nat /\ d.wf[w].job[Batch].no <= z.job[Batch].no
          /\ z.job[Batch].status = "queued" => d.wf[w].job[Batch].no < z.job[Batch].no
       \/ z.status # "active" /\ z.job[Batch] = NoJob
  BY <1>9, <1>10, <1>12, <1>13 DEF JobEnds
<1>17. JobEnds(d.wf[w], z, Batch)
  BY <1>9, <1>13, <1>14, <1>15, <1>16 DEF JobEnds
<1>18. DataMoves(d.wf[w], z) BY <1>9 DEF DataMoves
<1>19. StatusMoves(d.wf[w], z)
  BY <1>9, RoundIsKind DEF StatusMoves, FinishIn, Finished
<1>20. d.wf[w].job[Batch].status = "running" BY DEF FinishIn, Finished
<1>21. \A v \in Workflow \ {w} : Kept(d.wf[v], g.wf[v])
  BY <1>7, <1>8 DEF Rewrites, FinishIn
<1>22. FinishIn(d, g, w, Batch)
  BY <1>8, <1>17, <1>18, <1>19, <1>20, <1>21 DEF Rewrites, FinishIn, Finished
<1> QED BY <1>22 DEF g, f, e1

LEMMA RecoveredRecovers ==
  ASSUME TypeInv, NEW w \in Workflow, Round(w) PROVE Recovers(db, Recovered(w), w)
<1> DEFINE verdict == Verdict(db.wf[w])
           running == Job_(w).status = "running"
           d1 == IF running THEN EndJob(Release(db, w, Batch), w, Batch, "abandoned") ELSE db
           d2 == CancelQueued(d1, w)
           st == IF verdict = "completed" THEN "completed" ELSE "active"
           d3 == EndWorkflow(d2, w, st, verdict)
           dp == [ d3 EXCEPT !.wf[w].data.intent = "pause" ]
           dq == Queue(d3, w, Batch)
           dc == Over(ReleaseAll(d3, w), w)
           d4 == IF verdict = "completed" THEN dc
                 ELSE IF verdict = "interrupted" THEN dp
                 ELSE IF verdict = "queued" THEN dq ELSE d3
<1>1. db.wf[w].kind = "full_collect" /\ db.wf[w].status = "active" BY DEF Round, Active
<1>2. Recovered(w) = IF verdict = "leave" THEN IF running THEN db ELSE Settled(db, w)
                     ELSE Settled(d4, w)
  BY DEF Recovered
<1>3. db \in Database /\ db.wf[w].kind # "none" BY <1>1, RoundIsKind DEF TypeInv
<1>4. Recovers(db, db, w) BY <1>3, CalmRefl DEF Recovers
<1>5. verdict \in { "completed", "paused", "leave", "interrupted", "queued" } BY DEF Verdict
<1>6. CASE verdict = "leave" BY <1>1, <1>2, <1>4, <1>6, RecoverSettles
<1>7. CASE verdict # "leave"
  <2>1. verdict \in Phase BY <1>5, <1>7, PhaseNames
  <2>2. /\ Resumes(db, d2, w) /\ d2.wf[w].job[Batch].status # "running"
        /\ running => FinishIn(db, d2, w, Batch)
        /\ ~running => CalmIn(db, d2, w)
    BY <1>1, ResumesCleared
  <2>3. ~running => \A o \in OperationsOf(db.wf[w].kind) :
                      db.wf[w].job[o].status # "running" /\ d2.wf[w].job[o].status # "running"
    BY <1>1, <2>2, RoundIsKind DEF Job_
  <2> HIDE DEF verdict, running, d1, d2
  <2>4. CASE verdict = "completed"
    <3>1. dc = Over(ReleaseAll(EndWorkflow(d2, w, "completed", verdict), w), w) BY <2>4
    <3> HIDE DEF dc
    <3>2. CASE running
      <4>1. FinishIn(db, dc, w, Batch) BY <1>1, <1>3, <2>1, <2>2, <3>1, <3>2, FinishCloses
      <4> QED BY <1>1, <1>2, <1>7, <2>4, <4>1, RecoverSettles DEF Recovers
    <3>3. CASE ~running
      <4>1. CloseIn(db, dc, w)
        BY <1>1, <1>3, <2>1, <2>2, <2>3, <3>1, <3>3, Closes, RoundIsKind
      <4> QED BY <1>1, <1>2, <1>7, <2>4, <4>1, RecoverSettles DEF Recovers
    <3> QED BY <3>2, <3>3
  <2>5. CASE verdict # "completed"
    <3>1. d3 = EndWorkflow(d2, w, "active", verdict) BY <2>5
    <3>2. Resumes(db, d3, w) BY <1>1, <1>3, <2>1, <2>2, <3>1, ResumesPhase
    <3> HIDE DEF d3
    <3>3. Resumes(db, dp, w) /\ Resumes(db, dq, w)
      BY <1>1, <1>3, <3>2, ResumesPaused, ResumesQueued
    <3> HIDE DEF dp, dq
    <3>4. Resumes(db, d4, w) BY <2>5, <3>2, <3>3
    <3> HIDE DEF d4
    <3>5. Recovers(db, d4, w) BY <1>1, <1>3, <3>4, ResumesFields
    <3> QED BY <1>1, <1>2, <1>7, <3>5, RecoverSettles
  <2> QED BY <2>4, <2>5
<1> QED BY <1>6, <1>7

\* A round after the scan.
RecoverOne(w) ==
  LET x == db.wf[w]
      y == db'.wf[w]
  IN /\ x.kind = "full_collect" /\ x.status = "active" /\ y.claims \subseteq x.claims
     /\ CalmOn(x, y) \/ Closed(x, y) \/ (Safe(w) /\ Finished(x, y, Batch))

RecoverStep ==
  /\ sup.lease = "live" /\ sup' = [ sup EXCEPT !.scanned = TRUE, !.exited = {} ]
  /\ proc' = proc /\ qbit' = qbit /\ db' \in Database /\ db'.row = db.row
  /\ \A w \in Workflow : db'.wf[w] = db.wf[w] \/ RecoverOne(w)

LEMMA InspectedRecovers ==
  ASSUME TypeInv, NEW w \in Workflow
  PROVE  LET x == db.wf[w]
             y == Inspected(w)
         IN /\ y \in Record
            /\ \/ y = x
               \/ /\ x.kind = "full_collect" /\ x.status = "active" /\ y.claims \subseteq x.claims
                  /\ CalmOn(x, y) \/ Closed(x, y) \/ (Safe(w) /\ Finished(x, y, Batch))
<1> DEFINE x == db.wf[w]
           y == Inspected(w)
<1>1. db \in Database /\ x \in Record BY DatabaseFields DEF TypeInv
<1>2. ASSUME NEW e, Recovers(db, e, w), x.kind = "full_collect"
      PROVE  /\ e.wf[w] \in Record /\ e.wf[w].claims \subseteq x.claims
             /\ CalmOn(x, e.wf[w]) \/ Closed(x, e.wf[w]) \/ Finished(x, e.wf[w], Batch)
  <2>1. e \in Database BY <1>2 DEF Recovers, CalmIn, CloseIn, FinishIn
  <2>2. e.wf[w] \in Record BY <2>1, DatabaseFields
  <2> QED BY <1>2, <2>2 DEF Recovers, CalmIn, CloseIn, FinishIn, Closed, Finished, JobEnds
<1>3. CASE ~Round(w) BY <1>1, <1>3 DEF Inspected
<1>4. CASE Round(w) /\ ~db.wf[w].data.started
  <2>1. y = Settled(db, w).wf[w] BY <1>4 DEF Inspected
  <2>2. x.kind = "full_collect" /\ x.status = "active" BY <1>4 DEF Round, Active
  <2>3. CalmIn(db, db, w) BY <1>1, CalmRefl
  <2> DEFINE z == SettledData(db, w)
             e == Settled(db, w)
  <2>4. e = DataPut(db, w, z) /\ z \in DataOf("full_collect") /\ z.cursor = x.data.cursor
    BY <1>1, <2>2, SettledPuts
  <2> HIDE DEF z, e
  <2>5. MayHold(x, x, z) BY <2>2, <2>4 DEF MayHold
  <2>6. CalmIn(db, e, w) /\ e.wf[w].claims = x.claims
    BY <1>1, <2>2, <2>3, <2>4, <2>5, CalmData, RoundIsKind
  <2>7. e.wf[w] \in Record BY <2>6, DatabaseFields DEF CalmIn
  <2> QED BY <2>1, <2>2, <2>6, <2>7 DEF CalmIn, e
<1>5. CASE Round(w) /\ db.wf[w].data.started
  <2>1. y = IF (Restarted(w) \/ Ended(w) \/ Orphaned(w)) /\ Safe(w)
            THEN Recovered(w).wf[w] ELSE x
    BY <1>5 DEF Inspected
  <2>2. x.kind = "full_collect" /\ x.status = "active" BY <1>5 DEF Round, Active
  <2>3. Recovers(db, Recovered(w), w) BY <1>5, RecoveredRecovers
  <2> DEFINE e == Recovered(w)
  <2> HIDE DEF e
  <2>4. /\ e.wf[w] \in Record /\ e.wf[w].claims \subseteq x.claims
        /\ CalmOn(x, e.wf[w]) \/ Closed(x, e.wf[w]) \/ Finished(x, e.wf[w], Batch)
    BY <1>2, <2>2, <2>3 DEF e
  <2>5. y = x \/ (y = e.wf[w] /\ Safe(w)) BY <2>1 DEF e
  <2> HIDE DEF y
  <2> QED BY <1>1, <2>2, <2>4, <2>5 DEF y
<1> QED BY <1>3, <1>4, <1>5

LEMMA RecoverRoundsStep ==
  ASSUME TypeInv, RecoverRounds PROVE RecoverStep
<1>1. /\ sup.lease = "live" /\ sup' = [ sup EXCEPT !.scanned = TRUE, !.exited = {} ]
      /\ proc' = proc /\ qbit' = qbit
      /\ db' = [ db EXCEPT !.wf = [w \in Workflow |-> Inspected(w)] ]
  BY DEF RecoverRounds
<1> DEFINE f == [w \in Workflow |-> Inspected(w)]
<1>2. f \in [Workflow -> Record] BY InspectedRecovers
<1>3. \A w \in Workflow : f[w] = Inspected(w) OBVIOUS
<1> HIDE DEF f
<1>4. db' \in Database /\ db'.wf = f /\ db'.row = db.row
  <2>1. db' = [ db EXCEPT !.wf = f ] BY <1>1 DEF f
  <2> QED BY <1>2, <2>1 DEF TypeInv, Database
<1>5. ASSUME NEW w \in Workflow PROVE db'.wf[w] = db.wf[w] \/ RecoverOne(w)
  <2>1. db'.wf[w] = Inspected(w) BY <1>3, <1>4
  <2> QED BY <2>1, InspectedRecovers DEF RecoverOne
<1> QED BY <1>1, <1>4, <1>5 DEF RecoverStep

----------------------------------------------------------------------------
(***************************************************************************)
(* What holds of every workflow: at most one of its jobs runs, and in a    *)
(* status that permits it; a claim is the workflow's while it is active,   *)
(* or that of the attempt that runs; what it works with it has claimed.    *)
(***************************************************************************)
Runs(x, o) == x.job[o].status = "running"

NeededKeys(x) ==
  CASE x.kind = "lanraragi_compare" -> { InstanceKey }
    [] x.kind = "download_cleanup" -> { CleanupKey }
    [] OTHER -> { MangaKey(m) : m \in Bound(x) }

OneRuns(x) ==
  \A o, q \in OperationsOf(x.kind) : Runs(x, o) /\ Runs(x, q) => o = q

RunsWhenPermitted(x) ==
  \A o \in OperationsOf(x.kind) : Runs(x, o) => x.status \in Definition[x.kind][o].statuses

ClaimsOwned(x) ==
  \A c \in x.claims :
    /\ c.op = ByWorkflow => x.status = "active"
    /\ c.op # ByWorkflow =>
         c.op \in OperationsOf(x.kind) /\ Runs(x, c.op) /\ c.no = x.job[c.op].no

HoldsItsRows(x) ==
  x.status = "active" =>
    /\ { MangaKey(m) : m \in Bound(x) } \subseteq WorkKeys(x)
    /\ x.kind = "lanraragi_metadata" =>
         \A r \in x.data.ready : ArchiveKey(r[2]) \in WorkKeys(x)

HoldsWhatItNeeds(x) ==
  \A o \in OperationsOf(x.kind) : Runs(x, o) => NeededKeys(x) \subseteq AllKeys(x)

WorkInv(x) ==
  /\ x.kind = "none" => x.claims = {}
  /\ x.kind # "none" =>
       /\ OneRuns(x) /\ RunsWhenPermitted(x) /\ ClaimsOwned(x)
       /\ HoldsItsRows(x) /\ HoldsWhatItNeeds(x)
       /\ x.cancel => x.kind \notin Uncancellable

\* An attempt that was started: a round that goes on does not start it again.
Spent(x, n) ==
  x.status = "active" =>
    /\ n <= x.job[Batch].no
    /\ x.job[Batch].status = "queued" => n < x.job[Batch].no

\* What a step makes of a workflow, and what it keeps.
Follows(x, y) ==
  /\ WorkInv(y)
  /\ x.kind # "none" => y.kind = x.kind /\ y.bind = x.bind
  /\ x.kind = "full_collect" => \A n \in Nat : Spent(x, n) => Spent(y, n)

LEMMA RunningBefore ==
  ASSUME NEW x, NEW y, CalmOn(x, y), NEW o \in OperationsOf(x.kind)
  PROVE  /\ Runs(y, o) <=> Runs(x, o)
         /\ Runs(x, o) => y.job[o].no = x.job[o].no
BY DEF CalmOn, JobSame, JobIdles, Runs

LEMMA CalmFollows ==
  ASSUME NEW k \in Kind, NEW x \in WorkflowOf(k), NEW y \in WorkflowOf(k), WorkInv(x), CalmOn(x, y)
  PROVE  Follows(x, y)
<1>1. /\ x.kind = k /\ y.kind = k /\ k # "none" /\ y.bind = x.bind /\ y.status = x.status
      /\ AllKeys(x) \subseteq AllKeys(y) /\ WorkKeys(x) \subseteq WorkKeys(y)
  BY WorkflowFields, NoneIsNoKind DEF CalmOn
<1>2. \A o \in OperationsOf(k) :
        (Runs(y, o) <=> Runs(x, o)) /\ (Runs(x, o) => y.job[o].no = x.job[o].no)
  BY <1>1, RunningBefore
<1>3. OneRuns(y) /\ RunsWhenPermitted(y)
  BY <1>1, <1>2 DEF WorkInv, OneRuns, RunsWhenPermitted
<1>4. ClaimsOwned(y)
  <2> SUFFICES ASSUME NEW c \in y.claims
               PROVE  /\ c.op = ByWorkflow => y.status = "active"
                      /\ c.op # ByWorkflow =>
                           c.op \in OperationsOf(k) /\ Runs(y, c.op) /\ c.no = y.job[c.op].no
    BY <1>1 DEF ClaimsOwned
  <2>1. c \in x.claims \/ (c.op = ByWorkflow /\ x.status = "active") BY DEF CalmOn
  <2> QED BY <1>1, <1>2, <2>1 DEF WorkInv, ClaimsOwned
<1>5. HoldsItsRows(y)
  <2>1. Bound(y) = Bound(x) BY <1>1 DEF Bound
  <2>2. { MangaKey(m) : m \in Bound(y) } \subseteq WorkKeys(y) \/ x.status # "active"
    BY <1>1, <2>1 DEF WorkInv, HoldsItsRows
  <2>3. x.status = "active" /\ k = "lanraragi_metadata" =>
          \A r \in y.data.ready : ArchiveKey(r[2]) \in WorkKeys(y)
    BY <1>1 DEF WorkInv, HoldsItsRows, CalmOn, DataMoves
  <2> QED BY <1>1, <2>2, <2>3 DEF HoldsItsRows
<1>6. HoldsWhatItNeeds(y)
  <2>1. NeededKeys(y) = NeededKeys(x) BY <1>1 DEF NeededKeys, Bound
  <2> QED BY <1>1, <1>2, <2>1 DEF WorkInv, HoldsWhatItNeeds
<1>7. y.cancel => k \notin Uncancellable BY <1>1 DEF WorkInv, CalmOn
<1>8. WorkInv(y) BY <1>1, <1>3, <1>4, <1>5, <1>6, <1>7 DEF WorkInv
<1>9. ASSUME k = "full_collect", NEW n \in Nat, Spent(x, n) PROVE Spent(y, n)
  <2>1. Batch \in OperationsOf(k) BY <1>9, RoundIsKind
  <2>2. x.job[Batch] \in Job /\ y.job[Batch] \in Job BY <2>1, WorkflowFields
  <2>3. x.job[Batch].no \in Nat /\ y.job[Batch].no \in Nat BY <2>2, JobFields
  <2>4. JobSame(x.job[Batch], y.job[Batch]) \/ JobIdles(x.job[Batch], y.job[Batch])
    BY <1>1, <2>1 DEF CalmOn
  <2> QED BY <1>1, <1>9, <2>3, <2>4 DEF Spent, JobSame, JobIdles
<1> QED BY <1>1, <1>8, <1>9 DEF Follows

LEMMA KeptFollows ==
  ASSUME NEW x \in Record, NEW y \in Record, WorkInv(x), Kept(x, y)
  PROVE  Follows(x, y)
<1>1. CASE x.kind = "none"
  BY <1>1, RoundIsKind DEF Kept, WorkInv, Follows
<1>2. CASE x.kind # "none"
  <2>1. x.kind \in Kind /\ x \in WorkflowOf(x.kind) /\ y \in WorkflowOf(x.kind)
    BY <1>2, RecordKind DEF Kept
  <2> QED BY <2>1, KeptIsCalm, CalmFollows
<1> QED BY <1>1, <1>2

LEMMA ClosedFollows ==
  ASSUME NEW x \in Record, NEW y \in Record, WorkInv(x), Closed(x, y)
  PROVE  Follows(x, y)
<1>1. x.kind # "none" /\ y.kind = x.kind /\ y.bind = x.bind /\ y.status # "active"
      /\ y.claims = {} /\ \A o \in OperationsOf(x.kind) : ~Runs(y, o)
  BY RecordKind, NoFields DEF Closed, Runs
<1>2. WorkInv(y)
  BY <1>1 DEF WorkInv, OneRuns, RunsWhenPermitted, ClaimsOwned, HoldsItsRows,
              HoldsWhatItNeeds, Closed
<1> QED BY <1>1, <1>2 DEF Follows, Spent

LEMMA BegunFollows ==
  ASSUME NEW x \in Record, NEW y \in Record, Begun(x, y)
  PROVE  Follows(x, y)
<1>1. x.kind = "none" /\ y.kind # "none" /\ y.status = "active" /\ y.cancel = FALSE
      /\ \A o \in OperationsOf(y.kind) : ~Runs(y, o)
  BY NoFields, NoneIsNoKind DEF Begun, Runs
<1>2. ClaimsOwned(y) /\ HoldsItsRows(y)
  BY <1>1 DEF ClaimsOwned, HoldsItsRows, Begun
<1>3. WorkInv(y)
  BY <1>1, <1>2 DEF WorkInv, OneRuns, RunsWhenPermitted, HoldsWhatItNeeds
<1> QED BY <1>1, <1>3, RoundIsKind DEF Follows

LEMMA FinishedFollows ==
  ASSUME NEW k \in Kind, NEW x \in WorkflowOf(k), NEW y \in WorkflowOf(k), WorkInv(x),
         NEW o \in OperationsOf(k), Finished(x, y, o)
  PROVE  Follows(x, y)
<1>1. x.kind = k /\ y.kind = k /\ k # "none" /\ y.bind = x.bind /\ JobEnds(x, y, o)
      /\ Runs(x, o)
  BY WorkflowFields, NoneIsNoKind DEF Finished, JobEnds, Runs
<1>2. \A q \in OperationsOf(k) : ~Runs(y, q)
  <2> SUFFICES ASSUME NEW q \in OperationsOf(k) PROVE ~Runs(y, q) OBVIOUS
  <2>1. CASE q = o BY <1>1, <2>1 DEF JobEnds, Runs
  <2>2. CASE q # o
    <3>1. ~Runs(x, q) BY <1>1, <2>2 DEF WorkInv, OneRuns
    <3>2. NoJob.status # "running" BY DEF NoJob
    <3> QED BY <1>1, <2>2, <3>1, <3>2 DEF JobEnds, Runs
  <2> QED BY <2>1, <2>2
<1>3. \A c \in y.claims : c.op = ByWorkflow /\ y.status = "active"
  <2> SUFFICES ASSUME NEW c \in y.claims PROVE c.op = ByWorkflow /\ y.status = "active"
    OBVIOUS
  <2>1. c \in x.claims /\ ~(c.op = o /\ c.no = x.job[o].no)
        /\ (c.op = ByWorkflow => y.status = "active")
    BY <1>1 DEF JobEnds
  <2>2. c.op # ByWorkflow => c.op \in OperationsOf(k) /\ Runs(x, c.op) /\ c.no = x.job[c.op].no
    BY <1>1, <2>1 DEF WorkInv, ClaimsOwned
  <2>3. c.op # ByWorkflow => c.op = o BY <1>1, <2>2 DEF WorkInv, OneRuns
  <2> QED BY <2>1, <2>2, <2>3
<1>4. y.status = "active" => x.status = "active" /\ WorkKeys(x) \subseteq WorkKeys(y)
  BY <1>1 DEF JobEnds
<1>5. HoldsItsRows(y)
  <2>1. Bound(y) = Bound(x) BY <1>1 DEF Bound
  <2>2. y.status = "active" => { MangaKey(m) : m \in Bound(y) } \subseteq WorkKeys(y)
    BY <1>1, <1>4, <2>1 DEF WorkInv, HoldsItsRows
  <2>3. y.status = "active" /\ k = "lanraragi_metadata" =>
          \A r \in y.data.ready : ArchiveKey(r[2]) \in WorkKeys(y)
    BY <1>1, <1>4 DEF WorkInv, HoldsItsRows, Finished, DataMoves
  <2> QED BY <1>1, <2>2, <2>3 DEF HoldsItsRows
<1>6. y.cancel => k \notin Uncancellable BY <1>1 DEF WorkInv, Finished, StatusMoves
<1>7. WorkInv(y)
  BY <1>1, <1>2, <1>3, <1>5, <1>6
     DEF WorkInv, OneRuns, RunsWhenPermitted, ClaimsOwned, HoldsWhatItNeeds
<1>8. ASSUME k = "full_collect", NEW n \in Nat, Spent(x, n) PROVE Spent(y, n)
  <2> SUFFICES ASSUME y.status = "active"
               PROVE  n <= y.job[Batch].no /\ (y.job[Batch].status = "queued" => n < y.job[Batch].no)
    BY DEF Spent
  <2>1. o = Batch /\ x.job[Batch] \in Job BY <1>8, RoundIsKind, WorkflowFields
  <2>2. x.job[Batch].no \in Nat BY <2>1, JobFields
  <2>3. n <= x.job[Batch].no BY <1>4, <1>8 DEF Spent
  <2>4. /\ y.job[Batch].no \in Nat /\ x.job[Batch].no <= y.job[Batch].no
        /\ y.job[Batch].status = "queued" => x.job[Batch].no < y.job[Batch].no
    BY <1>1, <2>1 DEF JobEnds
  <2> QED BY <2>2, <2>3, <2>4
<1> QED BY <1>1, <1>7, <1>8 DEF Follows

LEMMA ClaimFollows ==
  ASSUME TypeInv, NEW w \in Workflow, NEW o, NEW p, WorkInv(db.wf[w]), ClaimStep(w, o, p)
  PROVE  Follows(db.wf[w], db'.wf[w])
<1> DEFINE x == db.wf[w]
           y == db'.wf[w]
<1>1. /\ x.kind # "none" /\ o \in OperationsOf(x.kind)
      /\ x.status \in Definition[x.kind][o].statuses
      /\ \A q \in OperationsOf(x.kind) : x.job[q].status # "running"
      /\ y.kind = x.kind /\ y.bind = x.bind /\ y.status = x.status /\ y.cancel = x.cancel
      /\ DataMoves(x, y)
      /\ WorkKeys(x) = WorkKeys(y) /\ AllKeys(x) \subseteq AllKeys(y)
      /\ ResourcesOf(db, w) \subseteq AllKeys(y)
      /\ \A c \in y.claims : c \in x.claims \/ (c.op = o /\ c.no = x.job[o].no)
      /\ y.job[o].status = "running" /\ y.job[o].no = x.job[o].no
      /\ \A q \in OperationsOf(x.kind) \ {o} : y.job[q] = x.job[q]
  BY DEF ClaimStep
<1>2. x.kind \in Kind /\ x \in WorkflowOf(x.kind) BY <1>1, TypedWorkflow
<1>3. o # ByWorkflow BY <1>1, <1>2, OperationIsName
<1>4. NeededKeys(y) = ResourcesOf(db, w)
  BY <1>1 DEF NeededKeys, ResourcesOf, Bound
<1> HIDE DEF x, y
<1>5. \A q \in OperationsOf(x.kind) : Runs(y, q) <=> q = o
  BY <1>1 DEF Runs
<1>6. OneRuns(y) /\ RunsWhenPermitted(y) /\ HoldsWhatItNeeds(y)
  BY <1>1, <1>4, <1>5 DEF OneRuns, RunsWhenPermitted, HoldsWhatItNeeds
<1>7. ClaimsOwned(y)
  <2> SUFFICES ASSUME NEW c \in y.claims
               PROVE  /\ c.op = ByWorkflow => y.status = "active"
                      /\ c.op # ByWorkflow =>
                           c.op \in OperationsOf(x.kind) /\ Runs(y, c.op) /\ c.no = y.job[c.op].no
    BY <1>1 DEF ClaimsOwned
  <2>1. CASE c \in x.claims
    <3>1. /\ c.op = ByWorkflow => x.status = "active"
          /\ c.op # ByWorkflow => c.op \in OperationsOf(x.kind) /\ Runs(x, c.op)
      BY <1>1, <2>1 DEF WorkInv, ClaimsOwned, x
    <3> QED BY <1>1, <3>1 DEF Runs
  <2>2. CASE c.op = o /\ c.no = x.job[o].no BY <1>1, <1>3, <1>5, <2>2
  <2> QED BY <1>1, <2>1, <2>2
<1>8. HoldsItsRows(y)
  <2>1. Bound(y) = Bound(x) BY <1>1 DEF Bound
  <2>2. HoldsItsRows(x) BY <1>1 DEF WorkInv, x
  <2> QED BY <1>1, <2>1, <2>2 DEF HoldsItsRows, DataMoves
<1>9. y.cancel => y.kind \notin Uncancellable BY <1>1 DEF WorkInv, x
<1>10. WorkInv(y) BY <1>1, <1>6, <1>7, <1>8, <1>9 DEF WorkInv
<1>11. ASSUME x.kind = "full_collect", NEW n \in Nat, Spent(x, n) PROVE Spent(y, n)
  <2>1. o = Batch BY <1>1, <1>11, RoundIsKind
  <2> QED BY <1>1, <1>11, <2>1 DEF Spent
<1> QED BY <1>1, <1>10, <1>11 DEF Follows, x, y

----------------------------------------------------------------------------
(* Every step is one of these. *)

SupervisorMoves ==
  /\ SupervisorStarts \/ SupervisorDies \/ SupervisorDrains \/ SupervisorExits
  /\ UNCHANGED << db, proc, qbit >>

Moves ==
  \/ CalmStep
  \/ \E p \in Proc : EndStep(p)
  \/ \E w \in Workflow : \E o \in OpName : GiveUpStep(w, o)
  \/ \E w \in Workflow : \E o \in OpName : \E p \in Proc : ClaimStep(w, o, p)
  \/ RecoverStep
  \/ SupervisorMoves

LEMMA StutterIsCalm ==
  ASSUME TypeInv, UNCHANGED vars PROVE CalmStep
<1>1. db' = db /\ UNCHANGED << sup, proc, qbit >> BY DEF vars
<1>2. Remarks(db, db') BY <1>1, RemarksReflexive DEF TypeInv
<1> QED BY <1>1, <1>2, SameIsSteady DEF CalmStep

LEMMA CommandMoves ==
  ASSUME TypeInv, NEW w \in Workflow, Command(w) PROVE Moves
<1>1. \A k \in Kind : OperationsOf(k) \subseteq OpName BY OperationIsName
<1>2. CASE VideoCommand(w) BY <1>1, <1>2, VideoMoves, VideoIsKind DEF Moves
<1>3. CASE ManualCommand(w) BY <1>1, <1>3, ManualMoves, ManualIsKind DEF Moves
<1>4. CASE MetadataCommand(w) BY <1>4, MetadataMoves DEF Moves
<1>5. CASE ScanCommand(w) BY <1>5, ScanMoves DEF Moves
<1>6. CASE RoundCommand(w) BY <1>6, RoundMoves DEF Moves
<1>7. CASE CancelWorkflow(w) BY <1>7, CancelWorkflowStep DEF Moves
<1>8. CASE \E o \in DOMAIN db.wf[w].job : QueueOperation(w, o)
  BY <1>8, QueueOperationStep DEF Moves
<1>9. CASE \E o \in DOMAIN db.wf[w].job : ReleaseExpired(w, o)
  <2>1. PICK o \in DOMAIN db.wf[w].job : ReleaseExpired(w, o) BY <1>9
  <2>2. GiveUpStep(w, o) BY <2>1, ReleaseExpiredStep
  <2>3. o \in OpName BY <1>1, <2>1, OnlyThoseHaveJobs
  <2> QED BY <2>2, <2>3 DEF Moves
<1> QED BY <1>2, <1>3, <1>4, <1>5, <1>6, <1>7, <1>8, <1>9 DEF Command

LEMMA StepMoves ==
  ASSUME TypeInv, NEW p \in Proc, Step(p) \/ WorkerFails(p) \/ WorkerDies(p) PROVE Moves
<1>1. \A k \in Kind : OperationsOf(k) \subseteq OpName BY OperationIsName
<1>2. CASE VideoStep(p) BY <1>1, <1>2, VideoMoves, VideoIsKind DEF Moves
<1>3. CASE ManualStep(p) BY <1>1, <1>3, ManualMoves, ManualIsKind DEF Moves
<1>4. CASE MetadataStep(p) BY <1>4, MetadataMoves DEF Moves
<1>5. CASE ScanStep(p) BY <1>5, ScanMoves DEF Moves
<1>6. CASE BatchStep(p) BY <1>6, RoundMoves DEF Moves
<1>7. CASE WorkerFails(p) BY <1>7, WorkerFailsStep DEF Moves
<1>8. CASE WorkerDies(p) BY <1>8, WorkerDiesStep DEF Moves
<1> QED BY <1>2, <1>3, <1>4, <1>5, <1>6, <1>7, <1>8 DEF Step

LEMMA ScheduleMoves ==
  ASSUME TypeInv, Schedules PROVE Moves
<1>1. CASE \E w \in Workflow : \E o \in DOMAIN db.wf[w].job : FailMisplacedJob(w, o)
  BY <1>1, FailMisplacedStep DEF Moves
<1>2. CASE \E w \in Workflow : \E o \in DOMAIN db.wf[w].job : \E p \in Proc : ClaimJob(w, o, p)
  <2>1. PICK w \in Workflow : \E o \in DOMAIN db.wf[w].job : \E p \in Proc : ClaimJob(w, o, p)
    BY <1>2
  <2>2. PICK o \in DOMAIN db.wf[w].job : \E p \in Proc : ClaimJob(w, o, p) BY <2>1
  <2>3. PICK p \in Proc : ClaimJob(w, o, p) BY <2>2
  <2>4. ClaimStep(w, o, p) BY <2>3, ClaimJobStep
  <2>5. o \in OpName BY OnlyThoseHaveJobs, OperationIsName
  <2> QED BY <2>4, <2>5 DEF Moves
<1>3. CASE RecoverRounds BY <1>3, RecoverRoundsStep DEF Moves
<1> QED BY <1>1, <1>2, <1>3 DEF Schedules

LEMMA NextMoves ==
  ASSUME TypeInv, [Next]_vars PROVE Moves
<1>1. CASE \E w \in Workflow : Command(w) BY <1>1, CommandMoves
<1>2. CASE \E p \in Proc : Step(p) \/ WorkerFails(p) \/ WorkerDies(p) BY <1>2, StepMoves
<1>3. CASE Schedules BY <1>3, ScheduleMoves
<1>4. CASE SupervisorStarts \/ SupervisorDies \/ SupervisorDrains \/ SupervisorExits
  BY <1>4 DEF Moves, SupervisorMoves, SupervisorStarts, SupervisorDies, SupervisorDrains,
              SupervisorExits
<1>5. CASE \E w \in Workflow : \E o \in DOMAIN db.wf[w].job :
             JobLeaseExpires(w, o) \/ RequestStop(w, o)
  BY <1>5, FlagStep DEF Moves
<1>6. CASE \E m \in Manga : PipelineMoves(m) \/ EditRow(m)
  BY <1>6, PipelineStep, EditRowStep DEF Moves
<1>7. CASE UNCHANGED vars BY <1>7, StutterIsCalm DEF Moves
<1> QED BY <1>1, <1>2, <1>3, <1>4, <1>5, <1>6, <1>7 DEF Next

----------------------------------------------------------------------------
(***************************************************************************)
(* The invariant.  Beside the types and what holds of each workflow: no    *)
(* key is claimed by two of them, and an attempt is run by one process     *)
(* only, whose end the Supervisor learns of once.                          *)
(***************************************************************************)
WorkflowsSound == \A w \in Workflow : WorkInv(db.wf[w])

ClaimsDisjoint ==
  \A v, w \in Workflow : v # w => AllKeys(db.wf[v]) \cap AllKeys(db.wf[w]) = {}

\* Every attempt of a round that a process runs has been started, and it is the
\* only process that runs it.
AttemptsSpent ==
  \A p \in Proc :
    Busy(p) /\ db.wf[proc[p].w].kind = "full_collect" =>
      Spent(db.wf[proc[p].w], proc[p].no)

AttemptsApart ==
  \A p, q \in Proc :
    /\ Busy(p) /\ Busy(q) /\ p # q /\ proc[p].w = proc[q].w
    /\ db.wf[proc[p].w].kind = "full_collect"
    => proc[p].no # proc[q].no

\* The process of an attempt the Supervisor saw the end of has gone.
ExitsSeen ==
  \A e \in sup.exited :
    /\ e[1] \in Workflow /\ e[2] \in Nat
    /\ db.wf[e[1]].kind = "full_collect" /\ Spent(db.wf[e[1]], e[2])
    /\ \A p \in Proc : Busy(p) => ~(proc[p].w = e[1] /\ proc[p].no = e[2])

SupervisorKnown == sup.lease = "live" => sup.owner # None

Sound ==
  /\ TypeInv /\ WorkflowsSound /\ ClaimsDisjoint
  /\ AttemptsSpent /\ AttemptsApart /\ ExitsSeen /\ SupervisorKnown

LEMMA OthersFollow ==
  ASSUME TypeInv, WorkflowsSound, NEW w \in Workflow, db' \in Database,
         Follows(db.wf[w], db'.wf[w]),
         \A v \in Workflow \ {w} : Kept(db.wf[v], db'.wf[v])
  PROVE  \A v \in Workflow : Follows(db.wf[v], db'.wf[v])
<1>1. \A v \in Workflow : db.wf[v] \in Record /\ db'.wf[v] \in Record
  BY DatabaseFields DEF TypeInv
<1> QED BY <1>1, KeptFollows DEF WorkflowsSound

LEMMA RecoverFollows ==
  ASSUME TypeInv, WorkflowsSound, NEW w \in Workflow, db' \in Database,
         db'.wf[w] = db.wf[w] \/ RecoverOne(w)
  PROVE  Follows(db.wf[w], db'.wf[w])
<1> DEFINE x == db.wf[w]
           y == db'.wf[w]
<1>1. x \in Record /\ y \in Record /\ WorkInv(x)
  BY DatabaseFields DEF TypeInv, WorkflowsSound
<1>2. CASE y = x BY <1>1, <1>2, KeptReflexive, KeptFollows
<1>3. CASE RecoverOne(w)
  <2>1. /\ x.kind = "full_collect"
        /\ CalmOn(x, y) \/ Closed(x, y) \/ Finished(x, y, Batch)
    BY <1>3 DEF RecoverOne
  <2>2. y.kind = "full_collect" BY <2>1 DEF CalmOn, Closed, Finished, JobEnds
  <2>3. x \in WorkflowOf("full_collect") /\ y \in WorkflowOf("full_collect")
    BY <1>1, <2>1, <2>2, RecordKind, RoundIsKind
  <2> QED BY <1>1, <2>1, <2>3, RoundIsKind, CalmFollows, ClosedFollows, FinishedFollows
<1> QED BY <1>2, <1>3

LEMMA AllFollow ==
  ASSUME TypeInv, WorkflowsSound, Moves
  PROVE  db' \in Database /\ \A w \in Workflow : Follows(db.wf[w], db'.wf[w])
<1>1. db \in Database /\ \A w \in Workflow : db.wf[w] \in Record BY DatabaseFields DEF TypeInv
<1>2. ASSUME NEW w \in Workflow, NEW o, o \in OperationsOf(db.wf[w].kind),
             db.wf[w].kind # "none", FinishIn(db, db', w, o)
      PROVE  db' \in Database /\ \A v \in Workflow : Follows(db.wf[v], db'.wf[v])
  <2>1. db' \in Database /\ Finished(db.wf[w], db'.wf[w], o)
        /\ \A v \in Workflow \ {w} : Kept(db.wf[v], db'.wf[v])
    BY <1>2 DEF FinishIn
  <2>2. db'.wf[w].kind = db.wf[w].kind BY <2>1 DEF Finished, JobEnds
  <2>3. db'.wf[w] \in Record BY <2>1, DatabaseFields
  <2>4. db.wf[w].kind \in Kind /\ db.wf[w] \in WorkflowOf(db.wf[w].kind)
        /\ db'.wf[w] \in WorkflowOf(db.wf[w].kind)
    BY <1>1, <1>2, <2>2, <2>3, RecordKind
  <2>5. Follows(db.wf[w], db'.wf[w])
    BY <1>2, <2>1, <2>4, FinishedFollows DEF WorkflowsSound
  <2> QED BY <2>1, <2>5, OthersFollow
<1>3. ASSUME Remarks(db, db')
      PROVE  db' \in Database /\ \A v \in Workflow : Follows(db.wf[v], db'.wf[v])
  <2>1. db' \in Database /\ \A v \in Workflow : Kept(db.wf[v], db'.wf[v])
    BY <1>3 DEF Remarks
  <2>2. \A v \in Workflow : db'.wf[v] \in Record BY <2>1, DatabaseFields
  <2> QED BY <1>1, <2>1, <2>2, KeptFollows DEF WorkflowsSound
<1>4. ASSUME NEW w \in Workflow, db.wf[w].kind # "none", CalmIn(db, db', w)
      PROVE  db' \in Database /\ \A v \in Workflow : Follows(db.wf[v], db'.wf[v])
  <2>1. db' \in Database /\ CalmOn(db.wf[w], db'.wf[w])
        /\ \A v \in Workflow \ {w} : Kept(db.wf[v], db'.wf[v])
    BY <1>4 DEF CalmIn
  <2>2. db'.wf[w].kind = db.wf[w].kind BY <2>1 DEF CalmOn
  <2>3. db'.wf[w] \in Record BY <2>1, DatabaseFields
  <2>4. db.wf[w].kind \in Kind /\ db.wf[w] \in WorkflowOf(db.wf[w].kind)
        /\ db'.wf[w] \in WorkflowOf(db.wf[w].kind)
    BY <1>1, <1>4, <2>2, <2>3, RecordKind
  <2>5. Follows(db.wf[w], db'.wf[w]) BY <2>1, <2>4, CalmFollows DEF WorkflowsSound
  <2> QED BY <2>1, <2>5, OthersFollow
<1>5. ASSUME NEW w \in Workflow, CloseIn(db, db', w) \/ BeginIn(db, db', w)
      PROVE  db' \in Database /\ \A v \in Workflow : Follows(db.wf[v], db'.wf[v])
  <2>1. db' \in Database /\ (Closed(db.wf[w], db'.wf[w]) \/ Begun(db.wf[w], db'.wf[w]))
        /\ \A v \in Workflow \ {w} : Kept(db.wf[v], db'.wf[v])
    BY <1>5 DEF CloseIn, BeginIn
  <2>2. db'.wf[w] \in Record BY <2>1, DatabaseFields
  <2>3. Follows(db.wf[w], db'.wf[w])
    BY <1>1, <2>1, <2>2, ClosedFollows, BegunFollows DEF WorkflowsSound
  <2> QED BY <2>1, <2>3, OthersFollow
<1>6. CASE CalmStep BY <1>3, <1>4, <1>5, <1>6 DEF CalmStep
<1>7. ASSUME NEW p \in Proc, EndStep(p)
      PROVE  db' \in Database /\ \A v \in Workflow : Follows(db.wf[v], db'.wf[v])
  <2>1. CASE db' = db BY <1>1, <1>3, <2>1, RemarksReflexive
  <2>2. CASE Valid(db, proc[p]) /\ FinishIn(db, db', proc[p].w, proc[p].op)
    BY <1>2, <1>7, <2>2, TypedProcess DEF EndStep
  <2> QED BY <1>7, <2>1, <2>2 DEF EndStep
<1>8. ASSUME NEW w \in Workflow, NEW o \in OpName, GiveUpStep(w, o)
      PROVE  db' \in Database /\ \A v \in Workflow : Follows(db.wf[v], db'.wf[v])
  BY <1>2, <1>8 DEF GiveUpStep
<1>9. ASSUME NEW w \in Workflow, NEW o \in OpName, NEW p \in Proc, ClaimStep(w, o, p)
      PROVE  db' \in Database /\ \A v \in Workflow : Follows(db.wf[v], db'.wf[v])
  <2>1. Follows(db.wf[w], db'.wf[w]) BY <1>9, ClaimFollows DEF WorkflowsSound
  <2>2. db' \in Database /\ \A v \in Workflow \ {w} : Kept(db.wf[v], db'.wf[v])
    BY <1>9 DEF ClaimStep
  <2> QED BY <2>1, <2>2, OthersFollow
<1>10. CASE RecoverStep BY <1>10, RecoverFollows DEF RecoverStep
<1>11. CASE SupervisorMoves
  <2>1. db' = db BY <1>11 DEF SupervisorMoves
  <2> QED BY <1>1, <1>3, <2>1, RemarksReflexive
<1> QED BY <1>6, <1>7, <1>8, <1>9, <1>10, <1>11 DEF Moves

----------------------------------------------------------------------------
\* The types are kept.

LEMMA FitsStay ==
  ASSUME NEW c, Fits(db, c), WorkflowsSound,
         \A w \in Workflow : Follows(db.wf[w], db'.wf[w])
  PROVE  Fits(db', c)
<1>1. CASE c.at = "idle" BY <1>1 DEF Fits
<1>2. CASE c.at # "idle"
  <2>1. c.w \in Workflow /\ db.wf[c.w].kind # "none" BY <1>2 DEF Fits
  <2>2. db'.wf[c.w].kind = db.wf[c.w].kind /\ db'.wf[c.w].bind = db.wf[c.w].bind
    BY <2>1 DEF Follows
  <2>3. Bound(db'.wf[c.w]) = Bound(db.wf[c.w]) BY <2>2 DEF Bound
  <2> QED BY <1>2, <2>2, <2>3 DEF Fits
<1> QED BY <1>1, <1>2

LEMMA NoClaimIsTyped == NoClaim \in Process /\ NoClaim.at = "idle"
BY Limits, SMTT(30) DEF NoClaim, Process, Place, None

LEMMA StartedIsTyped ==
  ASSUME TypeInv, NEW w \in Workflow, NEW o \in OpName, o \in OperationsOf(db.wf[w].kind),
         db.wf[w].kind # "none"
  PROVE  /\ Started(w, o) \in Process /\ Started(w, o).at = "begin"
         /\ Started(w, o).w = w /\ Started(w, o).op = o
         /\ Started(w, o).no = db.wf[w].job[o].no /\ Started(w, o).todo = {}
<1> DEFINE n == db.wf[w].job[o].no
<1>1. db.wf[w].job[o] \in Job BY TypedWorkflow
<1>2. n \in Nat BY <1>1, JobFields
<1>3. sup.owner \in 0 .. MaxOwner BY DEF TypeInv, SupervisorRow
<1>4. Started(w, o) = [ NoClaim EXCEPT !.w = w, !.op = o, !.no = n, !.owner = sup.owner,
                                       !.at = "begin" ]
  BY DEF Started
<1>5. NoClaim.todo = {} BY DEF NoClaim
<1> HIDE DEF n
<1>6. "begin" \in Place BY DEF Place
<1>7. NoClaim \in Process BY NoClaimIsTyped
<1> QED BY <1>2, <1>3, <1>4, <1>5, <1>6, <1>7 DEF Process, n

LEMMA ExitsTyped ==
  ASSUME TypeInv, NEW p \in Proc, Busy(p), Exits(p)
  PROVE  /\ proc' = [ proc EXCEPT ![p] = NoClaim ] /\ sup' \in SupervisorRow
         /\ sup'.owner = sup.owner /\ sup'.lease = sup.lease
         /\ \A e \in sup'.exited :
              \/ e \in sup.exited
              \/ /\ e[1] = proc[p].w /\ e[2] = proc[p].no
                 /\ db'.wf[e[1]].kind \in Recoverable
                 /\ db'.wf[e[1]].job[proc[p].op].status = "running"
                 /\ db'.wf[e[1]].job[proc[p].op].no = e[2]
<1> DEFINE e == << proc[p].w, proc[p].no >>
           z == IF proc[p].owner = sup.owner /\ db'.wf[proc[p].w].kind \in Recoverable
                   /\ db'.wf[proc[p].w].job[proc[p].op].status = "running"
                   /\ db'.wf[proc[p].w].job[proc[p].op].no = proc[p].no
                THEN sup.exited \cup {e} ELSE sup.exited
<1>1. proc' = [ proc EXCEPT ![p] = NoClaim ] /\ sup' = [ sup EXCEPT !.exited = z ]
  BY DEF Exits
<1>2. sup \in SupervisorRow BY DEF TypeInv
<1>3. e \in Workflow \X Nat BY TypedProcess
<1>4. sup.exited \subseteq Workflow \X Nat BY <1>2 DEF SupervisorRow
<1>5. z \subseteq Workflow \X Nat BY <1>3, <1>4
<1>6. \A f \in z :
        \/ f \in sup.exited
        \/ /\ f = e /\ db'.wf[proc[p].w].kind \in Recoverable
           /\ db'.wf[proc[p].w].job[proc[p].op].status = "running"
           /\ db'.wf[proc[p].w].job[proc[p].op].no = proc[p].no
  OBVIOUS
<1> HIDE DEF z
<1>7. sup' \in SupervisorRow /\ sup'.exited = z /\ sup'.owner = sup.owner
      /\ sup'.lease = sup.lease
  BY <1>1, <1>2, <1>5 DEF SupervisorRow
<1> QED BY <1>1, <1>6, <1>7

LEMMA SupervisorTyped ==
  ASSUME TypeInv, SupervisorMoves PROVE sup' \in SupervisorRow
<1>1. sup \in SupervisorRow /\ MaxOwner \in Nat BY Limits DEF TypeInv
<1>2. sup.epoch \in 0 .. MaxOwner BY <1>1 DEF SupervisorRow
<1>3. CASE SupervisorStarts
  <2>1. sup.epoch + 1 \in 0 .. MaxOwner BY <1>1, <1>2, <1>3 DEF SupervisorStarts
  <2> QED BY <1>3, <2>1 DEF SupervisorStarts, SupervisorRow
<1>4. CASE SupervisorDies BY <1>1, <1>4 DEF SupervisorDies, SupervisorRow
<1>5. CASE SupervisorDrains BY <1>1, <1>5 DEF SupervisorDrains, SupervisorRow
<1>6. CASE SupervisorExits
  <2>1. None \in 0 .. MaxOwner BY <1>1 DEF None
  <2> QED BY <1>1, <1>6, <2>1 DEF SupervisorExits, SupervisorRow
<1> QED BY <1>3, <1>4, <1>5, <1>6 DEF SupervisorMoves

LEMMA TypesStay ==
  ASSUME TypeInv, WorkflowsSound, Moves PROVE TypeInv'
<1>1. db' \in Database /\ \A w \in Workflow : Follows(db.wf[w], db'.wf[w]) BY AllFollow
<1>2. sup \in SupervisorRow /\ qbit \in QbitType /\ proc \in [Proc -> Process]
      /\ \A p \in Proc : Fits(db, proc[p])
  BY DEF TypeInv
<1>3. \A c : Fits(db, c) => Fits(db', c) BY <1>1, FitsStay
<1>4. CASE CalmStep
  <2>1. sup' = sup /\ proc' \in [Proc -> Process] /\ qbit' \in QbitType
        /\ \A p \in Proc : proc'[p] = proc[p] \/ Fits(db, proc'[p])
    BY <1>4 DEF CalmStep, Steady
  <2> QED BY <1>1, <1>2, <1>3, <2>1 DEF TypeInv
<1>5. CASE \E p \in Proc : EndStep(p)
  <2>1. PICK p \in Proc : EndStep(p) BY <1>5
  <2>2. Busy(p) /\ Exits(p) /\ qbit' = qbit BY <2>1 DEF EndStep
  <2>3. proc' = [ proc EXCEPT ![p] = NoClaim ] /\ sup' \in SupervisorRow
    BY <2>2, ExitsTyped
  <2>4. Fits(db', NoClaim) BY NoClaimIsTyped DEF Fits
  <2>5. proc' \in [Proc -> Process] /\ \A q \in Proc : Fits(db', proc'[q])
    BY <1>2, <1>3, <2>3, <2>4, NoClaimIsTyped
  <2> QED BY <1>1, <1>2, <2>2, <2>3, <2>5 DEF TypeInv
<1>6. CASE \E w \in Workflow : \E o \in OpName : GiveUpStep(w, o)
  <2>1. UNCHANGED << sup, proc, qbit >> BY <1>6 DEF GiveUpStep
  <2> QED BY <1>1, <1>2, <1>3, <2>1 DEF TypeInv
<1>7. CASE \E w \in Workflow : \E o \in OpName : \E p \in Proc : ClaimStep(w, o, p)
  <2>1. PICK w \in Workflow, o \in OpName, p \in Proc : ClaimStep(w, o, p) BY <1>7
  <2>2. o \in OperationsOf(db.wf[w].kind) /\ db.wf[w].kind # "none"
        /\ proc' = [ proc EXCEPT ![p] = Started(w, o) ] /\ sup' = sup /\ qbit' = qbit
    BY <2>1 DEF ClaimStep
  <2>3. /\ Started(w, o) \in Process /\ Started(w, o).at = "begin"
        /\ Started(w, o).w = w /\ Started(w, o).op = o /\ Started(w, o).todo = {}
    BY <2>2, StartedIsTyped
  <2>4. Fits(db, Started(w, o)) BY <2>2, <2>3 DEF Fits
  <2>5. proc' \in [Proc -> Process] /\ \A q \in Proc : Fits(db', proc'[q])
    BY <1>2, <1>3, <2>2, <2>3, <2>4
  <2> QED BY <1>1, <1>2, <2>2, <2>5 DEF TypeInv
<1>8. CASE RecoverStep
  <2>1. sup' = [ sup EXCEPT !.scanned = TRUE, !.exited = {} ] /\ proc' = proc /\ qbit' = qbit
    BY <1>8 DEF RecoverStep
  <2>2. sup' \in SupervisorRow BY <1>2, <2>1 DEF SupervisorRow
  <2> QED BY <1>1, <1>2, <1>3, <2>1, <2>2 DEF TypeInv
<1>9. CASE SupervisorMoves
  <2>1. UNCHANGED << db, proc, qbit >> /\ sup' \in SupervisorRow
    BY <1>9, SupervisorTyped DEF SupervisorMoves
  <2> QED BY <1>1, <1>2, <1>3, <2>1 DEF TypeInv
<1> QED BY <1>4, <1>5, <1>6, <1>7, <1>8, <1>9 DEF Moves

----------------------------------------------------------------------------
\* No key comes to be claimed twice.

LEMMA FreshStayDisjoint ==
  ASSUME ClaimsDisjoint, NEW w \in Workflow, Fresh(db, db', w),
         \A v \in Workflow \ {w} : Kept(db.wf[v], db'.wf[v])
  PROVE  ClaimsDisjoint'
<1>1. \A v \in Workflow \ {w} : AllKeys(db'.wf[v]) = AllKeys(db.wf[v])
  BY DEF Kept, AllKeys
<1>2. \A v \in Workflow \ {w} : AllKeys(db'.wf[v]) \cap AllKeys(db'.wf[w]) = {}
  <2> SUFFICES ASSUME NEW v \in Workflow \ {w}, NEW c \in db'.wf[w].claims
               PROVE  c.key \notin AllKeys(db'.wf[v])
    BY DEF AllKeys
  <2>1. CASE c \in db.wf[w].claims
    <3>1. c.key \in AllKeys(db.wf[w]) BY <2>1 DEF AllKeys
    <3> QED BY <1>1, <3>1 DEF ClaimsDisjoint
  <2>2. CASE c \notin db.wf[w].claims BY <1>1, <2>2 DEF Fresh
  <2> QED BY <2>1, <2>2
<1>3. \A u, v \in Workflow : u # v => AllKeys(db'.wf[u]) \cap AllKeys(db'.wf[v]) = {}
  BY <1>1, <1>2 DEF ClaimsDisjoint
<1> QED BY <1>3 DEF ClaimsDisjoint

LEMMA FewerStayDisjoint ==
  ASSUME ClaimsDisjoint, \A v \in Workflow : db'.wf[v].claims \subseteq db.wf[v].claims
  PROVE  ClaimsDisjoint'
<1>1. \A v \in Workflow : AllKeys(db'.wf[v]) \subseteq AllKeys(db.wf[v]) BY DEF AllKeys
<1>2. \A u, v \in Workflow : u # v => AllKeys(db'.wf[u]) \cap AllKeys(db'.wf[v]) = {}
  BY <1>1 DEF ClaimsDisjoint
<1> QED BY <1>2 DEF ClaimsDisjoint

LEMMA FinishFreesOnly ==
  ASSUME NEW w \in Workflow, NEW o, FinishIn(db, db', w, o)
  PROVE  \A v \in Workflow : db'.wf[v].claims \subseteq db.wf[v].claims
<1>1. db'.wf[w].claims \subseteq db.wf[w].claims BY DEF FinishIn, Finished, JobEnds
<1>2. \A v \in Workflow \ {w} : db'.wf[v].claims = db.wf[v].claims BY DEF FinishIn, Kept
<1> QED BY <1>1, <1>2

LEMMA DisjointStay ==
  ASSUME TypeInv, ClaimsDisjoint, Moves PROVE ClaimsDisjoint'
<1>1. CASE CalmStep
  <2>1. CASE Remarks(db, db')
    <3>1. \A v \in Workflow : db'.wf[v].claims = db.wf[v].claims
      BY <2>1 DEF Remarks, Kept
    <3> QED BY <3>1, FewerStayDisjoint
  <2>2. CASE \E w \in Workflow : CalmIn(db, db', w) \/ BeginIn(db, db', w)
    BY <2>2, FreshStayDisjoint DEF CalmIn, BeginIn
  <2>3. CASE \E w \in Workflow : CloseIn(db, db', w)
    <3>1. PICK w \in Workflow : CloseIn(db, db', w) BY <2>3
    <3>2. db'.wf[w].claims = {} /\ \A v \in Workflow \ {w} : db'.wf[v].claims = db.wf[v].claims
      BY <3>1 DEF CloseIn, Closed, Kept
    <3>3. \A v \in Workflow : db'.wf[v].claims \subseteq db.wf[v].claims BY <3>2
    <3> QED BY <3>3, FewerStayDisjoint
  <2> QED BY <1>1, <2>1, <2>2, <2>3 DEF CalmStep
<1>2. CASE \E p \in Proc : EndStep(p)
  <2>1. PICK p \in Proc : EndStep(p) BY <1>2
  <2>2. CASE db' = db BY <2>2, FewerStayDisjoint
  <2>3. CASE FinishIn(db, db', proc[p].w, proc[p].op)
    <3>1. proc[p].w \in Workflow BY <2>1, TypedProcess DEF EndStep
    <3> QED BY <2>3, <3>1, FinishFreesOnly, FewerStayDisjoint
  <2> QED BY <2>1, <2>2, <2>3 DEF EndStep
<1>3. CASE \E w \in Workflow : \E o \in OpName : GiveUpStep(w, o)
  BY <1>3, FinishFreesOnly, FewerStayDisjoint DEF GiveUpStep
<1>4. CASE \E w \in Workflow : \E o \in OpName : \E p \in Proc : ClaimStep(w, o, p)
  BY <1>4, FreshStayDisjoint DEF ClaimStep
<1>5. CASE RecoverStep
  <2>1. \A v \in Workflow : db'.wf[v].claims \subseteq db.wf[v].claims
    BY <1>5 DEF RecoverStep, RecoverOne
  <2> QED BY <2>1, FewerStayDisjoint
<1>6. CASE SupervisorMoves BY <1>6, FewerStayDisjoint DEF SupervisorMoves
<1> QED BY <1>1, <1>2, <1>3, <1>4, <1>5, <1>6 DEF Moves

----------------------------------------------------------------------------
\* No attempt is run twice, and none goes on whose exit was seen.

\* A process goes on with its attempt or ends.
ProcessesGoOn ==
  \A p \in Proc :
    \/ proc'[p] = proc[p] \/ GoesOn(proc[p], proc'[p]) \/ proc'[p] = NoClaim

LEMMA BusyBefore ==
  ASSUME ProcessesGoOn, NEW p \in Proc, Busy(p)'
  PROVE  Busy(p) /\ proc'[p].w = proc[p].w /\ proc'[p].op = proc[p].op
         /\ proc'[p].no = proc[p].no
BY NoClaimIsTyped DEF ProcessesGoOn, GoesOn, Busy

LEMMA BusyIsTyped ==
  ASSUME TypeInv, WorkflowsSound, Moves, NEW p \in Proc, Busy(p)
  PROVE  /\ proc[p].w \in Workflow /\ proc[p].no \in Nat
         /\ db.wf[proc[p].w].kind # "none"
         /\ db'.wf[proc[p].w].kind = db.wf[proc[p].w].kind
BY TypedProcess, AllFollow DEF Follows

LEMMA SpentStays ==
  ASSUME TypeInv, WorkflowsSound, Moves, NEW w \in Workflow,
         db.wf[w].kind = "full_collect", NEW n \in Nat, Spent(db.wf[w], n)
  PROVE  db'.wf[w].kind = "full_collect" /\ Spent(db'.wf[w], n)
BY AllFollow, RoundIsKind DEF Follows

LEMMA AttemptsGoOn ==
  ASSUME TypeInv, WorkflowsSound, Moves, AttemptsSpent, AttemptsApart, ProcessesGoOn
  PROVE  AttemptsSpent' /\ AttemptsApart'
<1>1. AttemptsSpent'
  <2> SUFFICES ASSUME NEW p \in Proc, Busy(p)', db'.wf[proc'[p].w].kind = "full_collect"
               PROVE  Spent(db'.wf[proc'[p].w], proc'[p].no)
    BY DEF AttemptsSpent
  <2>1. Busy(p) /\ proc'[p].w = proc[p].w /\ proc'[p].no = proc[p].no BY BusyBefore
  <2>2. proc[p].w \in Workflow /\ proc[p].no \in Nat
        /\ db.wf[proc[p].w].kind = "full_collect"
    BY <2>1, BusyIsTyped
  <2>3. Spent(db.wf[proc[p].w], proc[p].no) BY <2>1, <2>2 DEF AttemptsSpent
  <2> QED BY <2>1, <2>2, <2>3, SpentStays
<1>2. AttemptsApart'
  <2> SUFFICES ASSUME NEW p \in Proc, NEW q \in Proc, Busy(p)', Busy(q)', p # q,
                      proc'[p].w = proc'[q].w, db'.wf[proc'[p].w].kind = "full_collect"
               PROVE  proc'[p].no # proc'[q].no
    BY DEF AttemptsApart
  <2>1. Busy(p) /\ proc'[p].w = proc[p].w /\ proc'[p].no = proc[p].no BY BusyBefore
  <2>2. Busy(q) /\ proc'[q].w = proc[q].w /\ proc'[q].no = proc[q].no BY BusyBefore
  <2>3. db.wf[proc[p].w].kind = "full_collect" BY <2>1, BusyIsTyped
  <2> QED BY <2>1, <2>2, <2>3 DEF AttemptsApart
<1> QED BY <1>1, <1>2

LEMMA ExitsStay ==
  ASSUME TypeInv, WorkflowsSound, Moves, ExitsSeen, ProcessesGoOn,
         sup'.exited \subseteq sup.exited
  PROVE  ExitsSeen'
<1> SUFFICES ASSUME NEW e \in sup'.exited
             PROVE  /\ e[1] \in Workflow /\ e[2] \in Nat
                    /\ db'.wf[e[1]].kind = "full_collect" /\ Spent(db'.wf[e[1]], e[2])
                    /\ \A p \in Proc : Busy(p)' => ~(proc'[p].w = e[1] /\ proc'[p].no = e[2])
  BY DEF ExitsSeen
<1>1. /\ e[1] \in Workflow /\ e[2] \in Nat
      /\ db.wf[e[1]].kind = "full_collect" /\ Spent(db.wf[e[1]], e[2])
      /\ \A p \in Proc : Busy(p) => ~(proc[p].w = e[1] /\ proc[p].no = e[2])
  BY DEF ExitsSeen
<1>2. db'.wf[e[1]].kind = "full_collect" /\ Spent(db'.wf[e[1]], e[2])
  BY <1>1, SpentStays
<1> QED BY <1>1, <1>2, BusyBefore

LEMMA ExitIsSeen ==
  ASSUME Sound, Moves, NEW p \in Proc, EndStep(p) PROVE ExitsSeen'
<1>1. TypeInv /\ WorkflowsSound /\ ExitsSeen /\ AttemptsSpent /\ AttemptsApart BY DEF Sound
<1>2. Busy(p) /\ Exits(p) BY DEF EndStep
<1>3. /\ proc' = [ proc EXCEPT ![p] = NoClaim ]
      /\ \A e \in sup'.exited :
           \/ e \in sup.exited
           \/ /\ e[1] = proc[p].w /\ e[2] = proc[p].no
              /\ db'.wf[e[1]].kind \in Recoverable
  BY <1>1, <1>2, ExitsTyped
<1>4. proc \in [Proc -> Process] BY <1>1 DEF TypeInv
<1>5. proc'[p] = NoClaim /\ \A q \in Proc \ {p} : proc'[q] = proc[q] BY <1>3, <1>4
<1>6. ProcessesGoOn BY <1>5 DEF ProcessesGoOn
<1> SUFFICES ASSUME NEW e \in sup'.exited
             PROVE  /\ e[1] \in Workflow /\ e[2] \in Nat
                    /\ db'.wf[e[1]].kind = "full_collect" /\ Spent(db'.wf[e[1]], e[2])
                    /\ \A q \in Proc : Busy(q)' => ~(proc'[q].w = e[1] /\ proc'[q].no = e[2])
  BY DEF ExitsSeen
<1>7. CASE e \in sup.exited
  <2>1. /\ e[1] \in Workflow /\ e[2] \in Nat
        /\ db.wf[e[1]].kind = "full_collect" /\ Spent(db.wf[e[1]], e[2])
        /\ \A q \in Proc : Busy(q) => ~(proc[q].w = e[1] /\ proc[q].no = e[2])
    BY <1>1, <1>7 DEF ExitsSeen
  <2>2. db'.wf[e[1]].kind = "full_collect" /\ Spent(db'.wf[e[1]], e[2])
    BY <1>1, <2>1, SpentStays
  <2> QED BY <1>6, <2>1, <2>2, BusyBefore
<1>8. CASE /\ e[1] = proc[p].w /\ e[2] = proc[p].no
           /\ db'.wf[e[1]].kind \in Recoverable
  <2>1. proc[p].w \in Workflow /\ proc[p].no \in Nat
        /\ db.wf[proc[p].w].kind = "full_collect"
    BY <1>1, <1>2, <1>8, BusyIsTyped DEF Recoverable
  <2>2. Spent(db.wf[proc[p].w], proc[p].no) BY <1>1, <1>2, <2>1 DEF AttemptsSpent
  <2>3. db'.wf[e[1]].kind = "full_collect" /\ Spent(db'.wf[e[1]], e[2])
    BY <1>1, <1>8, <2>1, <2>2, SpentStays
  <2>4. ASSUME NEW q \in Proc, Busy(q)' PROVE ~(proc'[q].w = e[1] /\ proc'[q].no = e[2])
    <3>1. q # p BY <1>5, <2>4, NoClaimIsTyped DEF Busy
    <3>2. Busy(q) /\ proc'[q].w = proc[q].w /\ proc'[q].no = proc[q].no
      BY <1>6, <2>4, BusyBefore
    <3> QED BY <1>1, <1>2, <1>8, <2>1, <3>1, <3>2 DEF AttemptsApart
  <2> QED BY <1>8, <2>1, <2>3, <2>4
<1> QED BY <1>3, <1>7, <1>8

LEMMA ClaimedAttempts ==
  ASSUME Sound, Moves, NEW w \in Workflow, NEW o \in OpName, NEW p \in Proc,
         ClaimStep(w, o, p)
  PROVE  AttemptsSpent' /\ AttemptsApart' /\ ExitsSeen'
<1>1. TypeInv /\ WorkflowsSound /\ ExitsSeen /\ AttemptsSpent /\ AttemptsApart BY DEF Sound
<1>2. /\ db.wf[w].kind # "none" /\ o \in OperationsOf(db.wf[w].kind)
      /\ proc[p] = NoClaim /\ db.wf[w].job[o].status = "queued"
      /\ db.wf[w].status \in Definition[db.wf[w].kind][o].statuses
      /\ db'.wf[w].kind = db.wf[w].kind
      /\ db'.wf[w].job[o].status = "running" /\ db'.wf[w].job[o].no = db.wf[w].job[o].no
      /\ proc' = [ proc EXCEPT ![p] = Started(w, o) ] /\ sup' = sup
  BY <1>1 DEF ClaimStep
<1> DEFINE n == db.wf[w].job[o].no
<1>3. Started(w, o).w = w /\ Started(w, o).no = n
  BY <1>1, <1>2, StartedIsTyped
<1>4. proc \in [Proc -> Process] BY <1>1 DEF TypeInv
<1>5. /\ proc'[p].w = w /\ proc'[p].no = n
      /\ \A q \in Proc \ {p} : proc'[q] = proc[q]
  BY <1>2, <1>3, <1>4
<1>6. n \in Nat BY <1>1, <1>2, TypedWorkflow, JobFields
<1> HIDE DEF n
<1>7. ASSUME db.wf[w].kind = "full_collect"
      PROVE  /\ o = Batch /\ db.wf[w].status = "active" /\ Spent(db'.wf[w], n)
             /\ \A m \in Nat : Spent(db.wf[w], m) => m < n
  <2>1. o = Batch BY <1>2, <1>7, RoundIsKind
  <2>2. db.wf[w].status = "active"
    BY <1>2, <1>7, <2>1 DEF Definition, Operation, Batch
  <2>3. Spent(db'.wf[w], n) BY <1>2, <1>6, <2>1 DEF Spent, n
  <2> QED BY <1>2, <2>1, <2>2, <2>3 DEF Spent, n
<1>8. ASSUME NEW q \in Proc \ {p}, Busy(q)', db'.wf[proc'[q].w].kind = "full_collect"
      PROVE  /\ proc[q].w \in Workflow /\ proc[q].no \in Nat
             /\ db.wf[proc[q].w].kind = "full_collect"
             /\ Spent(db.wf[proc[q].w], proc[q].no) /\ Spent(db'.wf[proc[q].w], proc[q].no)
  <2>1. Busy(q) BY <1>5, <1>8 DEF Busy
  <2>2. proc[q].w \in Workflow /\ proc[q].no \in Nat
        /\ db.wf[proc[q].w].kind = "full_collect"
    BY <1>1, <1>5, <1>8, <2>1, BusyIsTyped
  <2>3. Spent(db.wf[proc[q].w], proc[q].no) BY <1>1, <2>1, <2>2 DEF AttemptsSpent
  <2> QED BY <1>1, <2>2, <2>3, SpentStays
<1>9. AttemptsSpent'
  <2> SUFFICES ASSUME NEW q \in Proc, Busy(q)', db'.wf[proc'[q].w].kind = "full_collect"
               PROVE  Spent(db'.wf[proc'[q].w], proc'[q].no)
    BY DEF AttemptsSpent
  <2>1. CASE q = p BY <1>2, <1>5, <1>7, <2>1
  <2>2. CASE q # p BY <1>5, <1>8, <2>2
  <2> QED BY <2>1, <2>2
<1>10. ASSUME NEW q \in Proc \ {p}, Busy(q)', proc'[q].w = w,
              db'.wf[w].kind = "full_collect"
       PROVE  proc'[q].no < n
  BY <1>2, <1>5, <1>7, <1>8, <1>10
<1>11. AttemptsApart'
  <2> SUFFICES ASSUME NEW q \in Proc, NEW r \in Proc, Busy(q)', Busy(r)', q # r,
                      proc'[q].w = proc'[r].w, db'.wf[proc'[q].w].kind = "full_collect"
               PROVE  proc'[q].no # proc'[r].no
    BY DEF AttemptsApart
  <2>1. CASE q = p BY <1>5, <1>6, <1>10, <2>1
  <2>2. CASE r = p BY <1>5, <1>6, <1>10, <2>2
  <2>3. CASE q # p /\ r # p
    <3>1. Busy(q) /\ Busy(r) BY <1>5, <2>3 DEF Busy
    <3>2. db.wf[proc[q].w].kind = "full_collect" BY <1>5, <1>8, <2>3
    <3> QED BY <1>1, <1>5, <2>3, <3>1, <3>2 DEF AttemptsApart
  <2> QED BY <2>1, <2>2, <2>3
<1>12. ExitsSeen'
  <2> SUFFICES ASSUME NEW e \in sup.exited
               PROVE  /\ e[1] \in Workflow /\ e[2] \in Nat
                      /\ db'.wf[e[1]].kind = "full_collect" /\ Spent(db'.wf[e[1]], e[2])
                      /\ \A q \in Proc : Busy(q)' => ~(proc'[q].w = e[1] /\ proc'[q].no = e[2])
    BY <1>2 DEF ExitsSeen
  <2>1. /\ e[1] \in Workflow /\ e[2] \in Nat
        /\ db.wf[e[1]].kind = "full_collect" /\ Spent(db.wf[e[1]], e[2])
        /\ \A q \in Proc : Busy(q) => ~(proc[q].w = e[1] /\ proc[q].no = e[2])
    BY <1>1 DEF ExitsSeen
  <2>2. db'.wf[e[1]].kind = "full_collect" /\ Spent(db'.wf[e[1]], e[2])
    BY <1>1, <2>1, SpentStays
  <2>3. ASSUME NEW q \in Proc, Busy(q)' PROVE ~(proc'[q].w = e[1] /\ proc'[q].no = e[2])
    <3>1. CASE q = p
      <4>1. ASSUME e[1] = w PROVE e[2] < n BY <1>7, <2>1, <4>1
      <4> QED BY <1>5, <1>6, <2>1, <3>1, <4>1
    <3>2. CASE q # p
      <4>1. Busy(q) BY <1>5, <2>3, <3>2 DEF Busy
      <4> QED BY <1>5, <2>1, <3>2, <4>1
    <3> QED BY <3>1, <3>2
  <2> QED BY <2>1, <2>2, <2>3
<1> QED BY <1>9, <1>11, <1>12

LEMMA SoundStays ==
  ASSUME Sound, Moves PROVE Sound'
<1>1. TypeInv /\ WorkflowsSound /\ ClaimsDisjoint /\ ExitsSeen /\ AttemptsSpent
      /\ AttemptsApart /\ SupervisorKnown
  BY DEF Sound
<1>2. TypeInv' /\ ClaimsDisjoint' BY <1>1, TypesStay, DisjointStay
<1>3. WorkflowsSound' BY <1>1, AllFollow DEF Follows, WorkflowsSound
<1>4. proc \in [Proc -> Process] BY <1>1 DEF TypeInv
<1>5. ASSUME ProcessesGoOn, sup'.exited \subseteq sup.exited
      PROVE  AttemptsSpent' /\ AttemptsApart' /\ ExitsSeen'
  BY <1>1, <1>5, AttemptsGoOn, ExitsStay
<1>6. ASSUME proc' = proc PROVE ProcessesGoOn BY <1>6 DEF ProcessesGoOn
<1>7. CASE CalmStep
  <2>1. sup' = sup /\ ProcessesGoOn BY <1>7 DEF CalmStep, Steady, ProcessesGoOn
  <2> QED BY <1>1, <1>2, <1>3, <1>5, <2>1 DEF Sound, SupervisorKnown
<1>8. CASE \E p \in Proc : EndStep(p)
  <2>1. PICK p \in Proc : EndStep(p) BY <1>8
  <2>2. Busy(p) /\ Exits(p) BY <2>1 DEF EndStep
  <2>3. /\ proc' = [ proc EXCEPT ![p] = NoClaim ]
        /\ sup'.owner = sup.owner /\ sup'.lease = sup.lease
    BY <1>1, <2>2, ExitsTyped
  <2>4. ProcessesGoOn BY <1>4, <2>3 DEF ProcessesGoOn
  <2>5. AttemptsSpent' /\ AttemptsApart' BY <1>1, <2>4, AttemptsGoOn
  <2>6. ExitsSeen' BY <2>1, ExitIsSeen
  <2> QED BY <1>1, <1>2, <1>3, <2>3, <2>5, <2>6 DEF Sound, SupervisorKnown
<1>9. CASE \E w \in Workflow : \E o \in OpName : GiveUpStep(w, o)
  <2>1. sup' = sup /\ proc' = proc BY <1>9 DEF GiveUpStep
  <2> QED BY <1>1, <1>2, <1>3, <1>5, <1>6, <2>1 DEF Sound, SupervisorKnown
<1>10. CASE \E w \in Workflow : \E o \in OpName : \E p \in Proc : ClaimStep(w, o, p)
  <2>1. PICK w \in Workflow, o \in OpName, p \in Proc : ClaimStep(w, o, p) BY <1>10
  <2>2. sup' = sup BY <2>1 DEF ClaimStep
  <2>3. AttemptsSpent' /\ AttemptsApart' /\ ExitsSeen' BY <2>1, ClaimedAttempts
  <2> QED BY <1>1, <1>2, <1>3, <2>2, <2>3 DEF Sound, SupervisorKnown
<1>11. CASE RecoverStep
  <2>1. sup' = [ sup EXCEPT !.scanned = TRUE, !.exited = {} ] /\ proc' = proc
    BY <1>11 DEF RecoverStep
  <2>2. sup \in SupervisorRow BY <1>1 DEF TypeInv
  <2>3. sup'.exited = {} /\ sup'.owner = sup.owner /\ sup'.lease = sup.lease
    BY <2>1, <2>2 DEF SupervisorRow
  <2> QED BY <1>1, <1>2, <1>3, <1>5, <1>6, <2>1, <2>3 DEF Sound, SupervisorKnown
<1>12. CASE SupervisorMoves
  <2>1. sup \in SupervisorRow /\ proc' = proc BY <1>1, <1>12 DEF TypeInv, SupervisorMoves
  <2>2. sup'.exited \subseteq sup.exited /\ (sup'.lease = "live" => sup'.owner # None)
    <3>1. sup.epoch \in Nat BY <2>1, Limits DEF SupervisorRow
    <3>2. CASE SupervisorStarts BY <3>1, <3>2 DEF SupervisorStarts, None
    <3>3. CASE SupervisorDies BY <2>1, <3>3 DEF SupervisorDies, SupervisorRow
    <3>4. CASE SupervisorDrains
      BY <1>1, <2>1, <3>4 DEF SupervisorDrains, SupervisorRow, SupervisorKnown
    <3>5. CASE SupervisorExits BY <2>1, <3>5 DEF SupervisorExits, SupervisorRow
    <3> QED BY <1>12, <3>2, <3>3, <3>4, <3>5 DEF SupervisorMoves
  <2> QED BY <1>1, <1>2, <1>3, <1>5, <1>6, <2>1, <2>2 DEF Sound, SupervisorKnown
<1> QED BY <1>7, <1>8, <1>9, <1>10, <1>11, <1>12 DEF Moves

LEMMA SoundAtFirst == Init => Sound
<1> SUFFICES ASSUME Init PROVE Sound OBVIOUS
<1>1. /\ db \in [ wf : { [w \in Workflow |-> NoWorkflow] }, row : [Manga -> OrdinaryRow] ]
      /\ sup = [ owner |-> 0, epoch |-> 0, lease |-> "none", state |-> "running",
                 exited |-> {}, scanned |-> FALSE ]
      /\ proc = [p \in Proc |-> NoClaim]
      /\ qbit = [m \in Manga |-> {}]
  BY DEF Init
<1>2. \A w \in Workflow : db.wf[w] = NoWorkflow BY <1>1
<1>3. \A p \in Proc : ~Busy(p) /\ proc[p] = NoClaim BY <1>1, NoClaimIsTyped DEF Busy
<1>4. db \in Database
  <2>1. db.row \in [Manga -> Row] BY <1>1, OrdinaryRows
  <2>2. db.wf \in [Workflow -> Record] BY <1>1, NoFields
  <2> QED BY <1>1, <2>1, <2>2 DEF Database
<1>5. sup \in SupervisorRow BY <1>1, Limits DEF SupervisorRow
<1>6. proc \in [Proc -> Process] BY <1>1, NoClaimIsTyped
<1>7. qbit \in QbitType BY <1>1 DEF QbitType
<1>8. TypeInv BY <1>3, <1>4, <1>5, <1>6, <1>7, NoClaimIsTyped DEF TypeInv, Fits
<1>9. WorkflowsSound BY <1>2, NoFields DEF WorkflowsSound, WorkInv
<1>10. ClaimsDisjoint BY <1>2, NoFields DEF ClaimsDisjoint, AllKeys
<1>11. AttemptsSpent /\ AttemptsApart BY <1>3 DEF AttemptsSpent, AttemptsApart
<1>12. ExitsSeen /\ SupervisorKnown BY <1>1 DEF ExitsSeen, SupervisorKnown
<1> QED BY <1>8, <1>9, <1>10, <1>11, <1>12 DEF Sound

LEMMA AlwaysSound == Spec => []Sound
<1>1. Sound /\ [Next]_vars => Sound'
  <2> SUFFICES ASSUME Sound, [Next]_vars PROVE Sound' OBVIOUS
  <2>1. Moves BY NextMoves DEF Sound
  <2> QED BY <2>1, SoundStays
<1> QED BY <1>1, SoundAtFirst, PTL DEF Spec

----------------------------------------------------------------------------
\* What the invariant implies.

LEMMA RunningIsRuns ==
  ASSUME TypeInv, NEW w \in Workflow
  PROVE  /\ \A o \in Running(db, w) :
              /\ db.wf[w].kind # "none" /\ db.wf[w].kind \in Kind
              /\ o \in OperationsOf(db.wf[w].kind) /\ Runs(db.wf[w], o)
         /\ db.wf[w].kind # "none" =>
              \A o \in OperationsOf(db.wf[w].kind) :
                Runs(db.wf[w], o) => o \in Running(db, w)
BY OnlyThoseHaveJobs, TypedWorkflow DEF Running, Runs

LEMMA SoundClaimsUses == Sound => ClaimsWhatItUses
<1> SUFFICES ASSUME Sound, NEW w \in Workflow PROVE Uses(w) \subseteq Keys(db, w)
  BY DEF ClaimsWhatItUses
<1> DEFINE x == db.wf[w]
<1>1. TypeInv /\ WorkInv(x) BY DEF Sound, WorkflowsSound
<1>2. Keys(db, w) = AllKeys(x) /\ WorkKeys(x) \subseteq AllKeys(x)
  BY DEF Keys, AllKeys, WorkKeys
<1>3. ASSUME Active(db, w) PROVE x.kind # "none"
  BY <1>1, <1>3, DatabaseFields, RecordKind, NoFields DEF TypeInv, Active
<1>4. Active(db, w) =>
        /\ { MangaKey(m) : m \in Bound(x) } \subseteq AllKeys(x)
        /\ x.kind = "lanraragi_metadata" =>
             { ArchiveKey(r[2]) : r \in x.data.ready } \subseteq AllKeys(x)
  BY <1>1, <1>2, <1>3 DEF Active, WorkInv, HoldsItsRows
<1>5. ASSUME Running(db, w) # {} PROVE ResourcesOf(db, w) \subseteq AllKeys(x)
  <2>1. PICK o \in Running(db, w) : TRUE BY <1>5
  <2>2. x.kind # "none" /\ o \in OperationsOf(x.kind) /\ Runs(x, o)
    BY <1>1, <2>1, RunningIsRuns
  <2>3. NeededKeys(x) \subseteq AllKeys(x) BY <1>1, <2>2 DEF WorkInv, HoldsWhatItNeeds
  <2>4. ResourcesOf(db, w) = NeededKeys(x) BY DEF ResourcesOf, NeededKeys
  <2> QED BY <2>3, <2>4
<1>6. Uses(w) = (IF Active(db, w) THEN { MangaKey(m) : m \in Bound(x) } ELSE {})
                \cup (IF Active(db, w) /\ x.kind = "lanraragi_metadata"
                      THEN { ArchiveKey(r[2]) : r \in x.data.ready } ELSE {})
                \cup (IF Running(db, w) # {} THEN ResourcesOf(db, w) ELSE {})
  BY DEF Uses
<1> QED BY <1>2, <1>4, <1>5, <1>6

LEMMA SoundExclusive == Sound => Exclusive
<1> SUFFICES ASSUME Sound, NEW v \in Workflow, NEW w \in Workflow
             PROVE  /\ v # w => Keys(db, v) \cap Keys(db, w) = {}
                    /\ ~Active(db, w) /\ Running(db, w) = {} => Keys(db, w) = {}
  BY DEF Exclusive
<1>1. TypeInv /\ WorkInv(db.wf[w]) /\ ClaimsDisjoint BY DEF Sound, WorkflowsSound
<1>2. \A u \in Workflow : Keys(db, u) = AllKeys(db.wf[u]) BY DEF Keys, AllKeys
<1>3. v # w => Keys(db, v) \cap Keys(db, w) = {} BY <1>1, <1>2 DEF ClaimsDisjoint
<1>4. ASSUME ~Active(db, w), Running(db, w) = {} PROVE db.wf[w].claims = {}
  <2>1. CASE db.wf[w].kind = "none" BY <1>1, <2>1 DEF WorkInv
  <2>2. CASE db.wf[w].kind # "none"
    <3>1. ClaimsOwned(db.wf[w]) BY <1>1, <2>2 DEF WorkInv
    <3>2. \A o \in OperationsOf(db.wf[w].kind) : ~Runs(db.wf[w], o)
      BY <1>1, <1>4, <2>2, RunningIsRuns
    <3> QED BY <1>4, <3>1, <3>2 DEF ClaimsOwned, Active
  <2> QED BY <2>1, <2>2
<1>5. db.wf[w].claims = {} => Keys(db, w) = {} BY DEF Keys
<1> QED BY <1>3, <1>4, <1>5

----------------------------------------------------------------------------
(***************************************************************************)
(* A resource is never claimed twice, and a workflow that is over with no  *)
(* job running has given back all it claimed: the claims of a workflow and *)
(* those of its jobs share one table and are released apart, by a worker,  *)
(* by a page or by the recovery, whichever comes first.                    *)
(***************************************************************************)
THEOREM NothingIsClaimedTwice == Spec => []Exclusive
BY AlwaysSound, SoundExclusive, PTL

(***************************************************************************)
(* Whatever a workflow works with, its rows, the archives it is about to   *)
(* write and what its running job needs, it has claimed at that moment.    *)
(***************************************************************************)
THEOREM UsesAreClaimed == Spec => []ClaimsWhatItUses
BY AlwaysSound, SoundClaimsUses, PTL

----------------------------------------------------------------------------
\* How an attempt comes to its end.

RunEnds(x, y, o) == Runs(x, o) /\ (~Runs(y, o) \/ y.job[o].no # x.job[o].no)

LEMMA KeptRuns ==
  ASSUME NEW x, NEW y, NEW o, Kept(x, y) PROVE ~RunEnds(x, y, o)
BY DEF Kept, RunEnds, Runs

LEMMA FinishEndsOne ==
  ASSUME Sound, NEW v \in Workflow, NEW q \in OperationsOf(db.wf[v].kind),
         db.wf[v].kind # "none", FinishIn(db, db', v, q),
         NEW w \in Workflow, NEW o \in OperationsOf(db.wf[w].kind),
         RunEnds(db.wf[w], db'.wf[w], o)
  PROVE  v = w /\ q = o
<1>1. v = w BY KeptRuns DEF FinishIn
<1>2. Runs(db.wf[w], q) /\ Runs(db.wf[w], o) BY <1>1 DEF FinishIn, Finished, Runs, RunEnds
<1>3. OneRuns(db.wf[w]) BY <1>1 DEF Sound, WorkflowsSound, WorkInv
<1> QED BY <1>1, <1>2, <1>3 DEF OneRuns

\* By its process, by hand once its lease has run out, or by the recovery.
EndsSo(w, o) ==
  \/ \E p \in Proc :
       /\ EndStep(p) /\ Valid(db, proc[p])
       /\ proc[p].w = w /\ proc[p].op = o /\ proc[p].no = db.wf[w].job[o].no
  \/ GiveUpStep(w, o)
  \/ RecoverStep /\ db.wf[w].kind = "full_collect" /\ o = Batch /\ Safe(w)

LEMMA EndsOnlySo ==
  ASSUME Sound, Moves, NEW w \in Workflow, NEW o \in DOMAIN db.wf[w].job, Ends(w, o)
  PROVE  EndsSo(w, o)
<1> DEFINE x == db.wf[w]
           y == db'.wf[w]
<1>1. TypeInv /\ WorkInv(x) BY DEF Sound, WorkflowsSound
<1>2. x.kind # "none" /\ x.kind \in Kind /\ o \in OperationsOf(x.kind)
  BY <1>1, OnlyThoseHaveJobs
<1>3. RunEnds(x, y, o) BY DEF Ends, RunEnds, Runs
<1>4. ~Kept(x, y) BY <1>3, KeptRuns
<1>5. ~CalmOn(x, y) BY <1>2, <1>3, RunningBefore DEF RunEnds
<1>6. ~Closed(x, y) BY <1>2, <1>3 DEF Closed, RunEnds, Runs
<1>7. ~Begun(x, y) BY <1>2, NoFields DEF Begun
<1>8. x # y BY <1>4, KeptReflexive
<1>9. ~CalmStep
  BY <1>4, <1>5, <1>6, <1>7 DEF CalmStep, Remarks, CalmIn, CloseIn, BeginIn
<1>10. ASSUME NEW p \in Proc, EndStep(p) PROVE EndsSo(w, o)
  <2>1. Busy(p) /\ Valid(db, proc[p]) /\ FinishIn(db, db', proc[p].w, proc[p].op)
    BY <1>8, <1>10 DEF EndStep
  <2>2. /\ proc[p].w \in Workflow /\ db.wf[proc[p].w].kind # "none"
        /\ proc[p].op \in OperationsOf(db.wf[proc[p].w].kind)
    BY <1>1, <2>1, TypedProcess
  <2>3. proc[p].w = w /\ proc[p].op = o BY <1>2, <1>3, <2>1, <2>2, FinishEndsOne
  <2>4. proc[p].no = db.wf[w].job[o].no BY <1>1, <2>1, <2>3, ValidRuns
  <2> QED BY <1>10, <2>1, <2>3, <2>4 DEF EndsSo
<1>11. ASSUME NEW v \in Workflow, NEW q \in OpName, GiveUpStep(v, q) PROVE EndsSo(w, o)
  <2>1. v = w /\ q = o BY <1>2, <1>3, <1>11, FinishEndsOne DEF GiveUpStep
  <2> QED BY <1>11, <2>1 DEF EndsSo
<1>12. ASSUME NEW v \in Workflow, NEW q \in OpName, NEW p \in Proc, ClaimStep(v, q, p)
       PROVE  EndsSo(w, o)
  <2>1. v = w BY <1>4, <1>12 DEF ClaimStep
  <2> QED BY <1>2, <1>3, <1>12, <2>1 DEF ClaimStep, RunEnds, Runs
<1>13. ASSUME RecoverStep PROVE EndsSo(w, o)
  <2>1. RecoverOne(w) BY <1>8, <1>13 DEF RecoverStep
  <2>2. x.kind = "full_collect" /\ Safe(w) BY <1>5, <1>6, <2>1 DEF RecoverOne
  <2> QED BY <1>2, <1>13, <2>2, RoundIsKind DEF EndsSo
<1>14. ~SupervisorMoves BY <1>8 DEF SupervisorMoves
<1> QED BY <1>9, <1>10, <1>11, <1>12, <1>13, <1>14 DEF Moves

LEMMA EndStepFrees ==
  ASSUME TypeInv, NEW p \in Proc, EndStep(p)
  PROVE  proc'[p] = NoClaim /\ proc' # proc
<1>1. Busy(p) /\ Exits(p) /\ proc \in [Proc -> Process] BY DEF EndStep, TypeInv
<1>2. proc' = [ proc EXCEPT ![p] = NoClaim ] BY <1>1 DEF Exits
<1> QED BY <1>1, <1>2, NoClaimIsTyped DEF Busy

LEMMA EndsByItself ==
  ASSUME Sound, Moves, NEW w \in Workflow, NEW o \in DOMAIN db.wf[w].job,
         Ends(w, o), proc' # proc
  PROVE  \E p \in RunBy(w, o) : proc'[p] = NoClaim
<1>1. EndsSo(w, o) BY EndsOnlySo
<1>2. \E p \in Proc :
        /\ EndStep(p)
        /\ proc[p].w = w /\ proc[p].op = o /\ proc[p].no = db.wf[w].job[o].no
  BY <1>1 DEF EndsSo, GiveUpStep, RecoverStep
<1> QED BY <1>2, EndStepFrees DEF Sound, RunBy

LEMMA EndsSafely ==
  ASSUME Sound, Moves, NEW w \in Workflow, NEW o \in DOMAIN db.wf[w].job,
         Ends(w, o), proc' = proc, NEW p \in RunBy(w, o)
  PROVE  ~Valid(db, proc[p])
<1>1. TypeInv BY DEF Sound
<1>2. EndsSo(w, o) BY EndsOnlySo
<1>3. ~\E q \in Proc : EndStep(q) BY <1>1, EndStepFrees
<1>4. proc[p].w = w /\ proc[p].op = o /\ proc[p].no = db.wf[w].job[o].no /\ p \in Proc
  BY DEF RunBy
<1>5. CASE GiveUpStep(w, o)
  BY <1>4, <1>5 DEF GiveUpStep, Valid
<1>6. CASE RecoverStep /\ db.wf[w].kind = "full_collect" /\ o = Batch /\ Safe(w)
  <2>1. sup.lease = "live" /\ sup.owner # None
    BY <1>6 DEF RecoverStep, Sound, SupervisorKnown
  <2>2. Job_(w).status = "running"
    BY <1>6 DEF Ends, Job_
  <2>3. << w, Job_(w).no >> \in sup.exited \/ Lost(w) BY <1>6, <2>2 DEF Safe
  <2>4. CASE Lost(w)
    <3>1. Fenced(db.wf[w].kind, o) BY <1>6 DEF Fenced, Batch
    <3> QED BY <1>4, <1>6, <2>1, <2>4, <3>1 DEF Lost, Valid, Job_
  <2>5. CASE << w, Job_(w).no >> \in sup.exited
    <3>1. Busy(p)
      <4>1. w # 0 BY WorkflowAssumption
      <4>2. NoClaim.w = 0 BY DEF NoClaim
      <4>3. proc[p].at = "idle" => proc[p] = NoClaim BY <1>1, <1>4 DEF TypeInv, Fits
      <4> QED BY <1>4, <4>1, <4>2, <4>3 DEF Busy
    <3>2. ~(proc[p].w = w /\ proc[p].no = Job_(w).no)
      <4>1. \A e \in sup.exited : ~(proc[p].w = e[1] /\ proc[p].no = e[2])
        BY <1>4, <3>1 DEF Sound, ExitsSeen
      <4> QED BY <2>5, <4>1
    <3> QED BY <1>4, <1>6, <3>2 DEF Job_
  <2> QED BY <2>3, <2>4, <2>5
<1> QED BY <1>2, <1>3, <1>5, <1>6 DEF EndsSo

(***************************************************************************)
(* When a process ends an attempt, it is its own and the last thing the    *)
(* process does.  An answer that comes late, after its job was given up,   *)
(* ends nothing, and not the attempt that was started since.               *)
(***************************************************************************)
THEOREM AttemptsEndByTheirProcess == Spec => EndedByItsProcess
<1> DEFINE A == \A w \in Workflow : \A o \in DOMAIN db.wf[w].job :
                  Ends(w, o) /\ proc' # proc =>
                    \E p \in RunBy(w, o) : proc'[p] = NoClaim
<1>1. Sound /\ [Next]_vars => [A]_vars
  <2> SUFFICES ASSUME Sound, [Next]_vars PROVE A OBVIOUS
  <2>1. Moves BY NextMoves DEF Sound
  <2> QED BY <2>1, EndsByItself
<1> QED BY <1>1, AlwaysSound, PTL DEF Spec, EndedByItsProcess

(***************************************************************************)
(* A job is taken from its process, by the Supervisor that recovers a      *)
(* round or by hand once the lease has run out, only when no process could *)
(* write for it any more: an exit that was seen is the exit of the only    *)
(* process the attempt had, and a Supervisor that has replaced the one     *)
(* that started it fences it off.                                          *)
(***************************************************************************)
THEOREM NoWriterIsReplaced == Spec => RecoveryIsSafe
<1> DEFINE A == \A w \in Workflow : \A o \in DOMAIN db.wf[w].job :
                  Ends(w, o) /\ proc' = proc =>
                    \A p \in RunBy(w, o) : ~Valid(db, proc[p])
<1>1. Sound /\ [Next]_vars => [A]_vars
  <2> SUFFICES ASSUME Sound, [Next]_vars PROVE A OBVIOUS
  <2>1. Moves BY NextMoves DEF Sound
  <2> QED BY <2>1, EndsSafely
<1> QED BY <1>1, AlwaysSound, PTL DEF Spec, RecoveryIsSafe

----------------------------------------------------------------------------
\* What a step makes of the payload and the status of a workflow.

LEMMA FinishMoves ==
  ASSUME NEW v \in Workflow, NEW o, FinishIn(db, db', v, o), NEW w \in Workflow
  PROVE  DataMoves(db.wf[w], db'.wf[w]) /\ StatusMoves(db.wf[w], db'.wf[w])
<1>1. CASE v = w BY <1>1 DEF FinishIn, Finished
<1>2. CASE v # w
  <2>1. Kept(db.wf[w], db'.wf[w]) BY <1>2 DEF FinishIn
  <2> QED BY <2>1, LikeMovesData DEF Kept, StatusMoves
<1> QED BY <1>1, <1>2

LEMMA AllMove ==
  ASSUME Sound, Moves, NEW w \in Workflow
  PROVE  DataMoves(db.wf[w], db'.wf[w]) /\ StatusMoves(db.wf[w], db'.wf[w])
<1> DEFINE x == db.wf[w]
           y == db'.wf[w]
<1>1. ASSUME Kept(x, y) PROVE DataMoves(x, y) /\ StatusMoves(x, y)
  BY <1>1, LikeMovesData DEF Kept, StatusMoves
<1>2. ASSUME CalmOn(x, y) PROVE DataMoves(x, y) /\ StatusMoves(x, y)
  BY <1>2 DEF CalmOn, StatusMoves
<1>3. ASSUME Closed(x, y) PROVE DataMoves(x, y) /\ StatusMoves(x, y)
  BY <1>3 DEF Closed, DataMoves, StatusMoves
<1>4. ASSUME Begun(x, y) PROVE DataMoves(x, y) /\ StatusMoves(x, y)
  BY <1>4, NoFields DEF Begun, DataMoves, StatusMoves
<1>5. ASSUME y = x PROVE DataMoves(x, y) /\ StatusMoves(x, y)
  BY <1>1, <1>5, KeptReflexive
<1> HIDE DEF x, y
<1>6. CASE CalmStep
  <2>1. Kept(x, y) \/ CalmOn(x, y) \/ Closed(x, y) \/ Begun(x, y)
    BY <1>6 DEF CalmStep, Remarks, CalmIn, CloseIn, BeginIn, x, y
  <2> QED BY <1>1, <1>2, <1>3, <1>4, <2>1 DEF x, y
<1>7. CASE \E p \in Proc : EndStep(p)
  <2>1. PICK p \in Proc : EndStep(p) BY <1>7
  <2>2. CASE db' = db BY <1>5, <2>2 DEF x, y
  <2>3. CASE FinishIn(db, db', proc[p].w, proc[p].op)
    <3>1. proc[p].w \in Workflow BY <2>1, TypedProcess DEF EndStep, Sound
    <3> QED BY <2>3, <3>1, FinishMoves DEF x, y
  <2> QED BY <2>1, <2>2, <2>3 DEF EndStep
<1>8. CASE \E v \in Workflow : \E o \in OpName : GiveUpStep(v, o)
  BY <1>8, FinishMoves DEF GiveUpStep, x, y
<1>9. CASE \E v \in Workflow : \E o \in OpName : \E p \in Proc : ClaimStep(v, o, p)
  <2>1. PICK v \in Workflow, o \in OpName, p \in Proc : ClaimStep(v, o, p) BY <1>9
  <2>2. CASE v = w
    <3>1. DataMoves(x, y) /\ y.status = x.status /\ y.kind = x.kind /\ y.cancel = x.cancel
      BY <2>1, <2>2 DEF ClaimStep, x, y
    <3> QED BY <3>1 DEF StatusMoves, x, y
  <2>3. CASE v # w BY <1>1, <2>1, <2>3 DEF ClaimStep, x, y
  <2> QED BY <2>2, <2>3
<1>10. CASE RecoverStep
  <2>1. y = x \/ RecoverOne(w) BY <1>10 DEF RecoverStep, x, y
  <2>2. y = x \/ CalmOn(x, y) \/ Closed(x, y) \/ (DataMoves(x, y) /\ StatusMoves(x, y))
    BY <2>1 DEF RecoverOne, Finished, x, y
  <2> QED BY <1>2, <1>3, <1>5, <2>2 DEF x, y
<1>11. CASE SupervisorMoves BY <1>5, <1>11 DEF SupervisorMoves, x, y
<1> QED BY <1>6, <1>7, <1>8, <1>9, <1>10, <1>11 DEF Moves

(***************************************************************************)
(* Once a cancellation is requested the workflow cannot complete any more, *)
(* whatever its running job, the Supervisor and the pages still do.        *)
(***************************************************************************)
THEOREM CancelledWorkIsNotCompleted == Spec => CancelledNeverCompletes
<1> DEFINE A == \A w \in Workflow :
                  Active(db, w) /\ db.wf[w].cancel => db'.wf[w].status # "completed"
<1>1. Sound /\ [Next]_vars => [A]_vars
  <2> SUFFICES ASSUME Sound, [Next]_vars, NEW w \in Workflow, Active(db, w), db.wf[w].cancel
               PROVE  db'.wf[w].status # "completed"
    OBVIOUS
  <2>1. Moves BY NextMoves DEF Sound
  <2>2. StatusMoves(db.wf[w], db'.wf[w]) BY <2>1, AllMove
  <2>3. db.wf[w] \in Record /\ WorkInv(db.wf[w])
    BY DatabaseFields DEF Sound, TypeInv, WorkflowsSound
  <2>4. db.wf[w].kind # "none" BY <2>3, RecordKind, NoFields DEF Active
  <2>5. db.wf[w].kind \notin Uncancellable BY <2>3, <2>4 DEF WorkInv
  <2> QED BY <2>2, <2>5 DEF StatusMoves, Active
<1> QED BY <1>1, AlwaysSound, PTL DEF Spec, CancelledNeverCompletes

(***************************************************************************)
(* A metadata update marks a row as uploaded only if it is still as the    *)
(* preview showed it: whatever wrote it in between has made it stale.      *)
(***************************************************************************)
THEOREM StaleRowsAreNotMarked == Spec => OnlyAsPreviewed
<1> DEFINE A == \A w \in Workflow :
                  db.wf[w].kind = "lanraragi_metadata" /\ Active(db, w) /\ Active(db', w) =>
                    (db'.wf[w].data.done \ db.wf[w].data.done) \cap db.wf[w].data.stale = {}
<1>1. Sound /\ [Next]_vars => [A]_vars
  <2> SUFFICES ASSUME Sound, [Next]_vars PROVE A OBVIOUS
  <2>1. Moves BY NextMoves DEF Sound
  <2>2. \A w \in Workflow : DataMoves(db.wf[w], db'.wf[w]) BY <2>1, AllMove
  <2> QED BY <2>2 DEF DataMoves, Active
<1> QED BY <1>1, AlwaysSound, PTL DEF Spec, OnlyAsPreviewed

(***************************************************************************)
(* A round that is not to run commits no page, even one whose request was  *)
(* under way when it was paused.                                           *)
(***************************************************************************)
THEOREM PausedRoundsStandStill == Spec => PausedCommitsNothing
<1> DEFINE A == \A w \in Workflow :
                  Round(w) /\ db.wf[w].data.intent # "run" /\ Round(w)'
                    => db'.wf[w].data.cursor = db.wf[w].data.cursor
<1>1. Sound /\ [Next]_vars => [A]_vars
  <2> SUFFICES ASSUME Sound, [Next]_vars PROVE A OBVIOUS
  <2>1. Moves BY NextMoves DEF Sound
  <2>2. \A w \in Workflow : DataMoves(db.wf[w], db'.wf[w]) BY <2>1, AllMove
  <2> QED BY <2>2 DEF DataMoves, Round, Active
<1> QED BY <1>1, AlwaysSound, PTL DEF Spec, PausedCommitsNothing

----------------------------------------------------------------------------
(***************************************************************************)
(* One process per workflow.  While jobs are released by hand only after   *)
(* their process has stopped, a process of a workflow that is not          *)
(* recovered runs the attempt that is recorded as running.                 *)
(***************************************************************************)
RunsItsAttempt(p) ==
  LET x == db.wf[proc[p].w]
  IN Runs(x, proc[p].op) /\ x.job[proc[p].op].no = proc[p].no

Alone ==
  /\ \A p \in Proc :
       Busy(p) /\ db.wf[proc[p].w].kind # "full_collect" => RunsItsAttempt(p)
  /\ \A p, q \in Proc :
       Busy(p) /\ Busy(q) /\ p # q /\ proc[p].w = proc[q].w =>
         db.wf[proc[p].w].kind = "full_collect"

\* A process whose attempt does not end goes on running it.
LEMMA AttemptGoesOn ==
  ASSUME Sound, Moves, NEW p \in Proc, Busy(p), RunsItsAttempt(p),
         ~EndsSo(proc[p].w, proc[p].op)
  PROVE  /\ Runs(db'.wf[proc[p].w], proc[p].op)
         /\ db'.wf[proc[p].w].job[proc[p].op].no = proc[p].no
<1>1. /\ proc[p].w \in Workflow /\ db.wf[proc[p].w].kind # "none"
      /\ proc[p].op \in OperationsOf(db.wf[proc[p].w].kind)
  BY TypedProcess DEF Sound
<1>2. proc[p].op \in DOMAIN db.wf[proc[p].w].job BY <1>1, TypedWorkflow DEF Sound
<1>3. ~Ends(proc[p].w, proc[p].op) BY <1>1, <1>2, EndsOnlySo
<1> QED BY <1>3 DEF Ends, RunsItsAttempt, Runs

LEMMA AloneStays ==
  ASSUME ReleaseOnlyStopped, Sound, Alone, Moves PROVE Alone'
<1>1. TypeInv /\ WorkflowsSound BY DEF Sound
<1>2. proc \in [Proc -> Process] BY <1>1 DEF TypeInv
<1>3. ASSUME NEW p \in Proc, Busy(p), db.wf[proc[p].w].kind # "full_collect",
             ~\E q \in Proc : EndStep(q) /\ q = p
      PROVE  /\ Runs(db'.wf[proc[p].w], proc[p].op)
             /\ db'.wf[proc[p].w].job[proc[p].op].no = proc[p].no
  <2> DEFINE w == proc[p].w
             o == proc[p].op
  <2>1. RunsItsAttempt(p) BY <1>3 DEF Alone
  <2>2. ASSUME NEW q \in Proc, EndStep(q), proc[q].w = w PROVE FALSE
    <3>1. Busy(q) /\ q # p BY <1>3, <2>2 DEF EndStep
    <3> QED BY <1>3, <2>2, <3>1 DEF Alone
  <2>3. ~GiveUpStep(w, o)
    <3>1. p \in RunBy(w, o) BY <2>1 DEF RunsItsAttempt, RunBy
    <3> QED BY <3>1 DEF GiveUpStep
  <2>4. ~EndsSo(w, o) BY <1>3, <2>2, <2>3 DEF EndsSo
  <2> QED BY <1>3, <2>1, <2>4, AttemptGoesOn
<1>4. ASSUME ProcessesGoOn, \A p \in Proc : EndStep(p) => proc'[p] = NoClaim PROVE Alone'
  <2>1. ASSUME NEW p \in Proc, Busy(p)', db'.wf[proc'[p].w].kind # "full_collect"
        PROVE  RunsItsAttempt(p)'
    <3>1. Busy(p) /\ proc'[p].w = proc[p].w /\ proc'[p].op = proc[p].op
          /\ proc'[p].no = proc[p].no
      BY <1>4, <2>1, BusyBefore
    <3>2. db.wf[proc[p].w].kind # "full_collect" BY <1>1, <2>1, <3>1, BusyIsTyped
    <3>3. ~EndStep(p) BY <1>4, <2>1, NoClaimIsTyped DEF Busy
    <3>4. /\ Runs(db'.wf[proc[p].w], proc[p].op)
          /\ db'.wf[proc[p].w].job[proc[p].op].no = proc[p].no
      BY <1>3, <3>1, <3>2, <3>3
    <3> QED BY <3>1, <3>4 DEF RunsItsAttempt
  <2>2. ASSUME NEW p \in Proc, NEW q \in Proc, Busy(p)', Busy(q)', p # q,
               proc'[p].w = proc'[q].w
        PROVE  db'.wf[proc'[p].w].kind = "full_collect"
    <3>1. Busy(p) /\ proc'[p].w = proc[p].w BY <1>4, <2>2, BusyBefore
    <3>2. Busy(q) /\ proc'[q].w = proc[q].w BY <1>4, <2>2, BusyBefore
    <3>3. db.wf[proc[p].w].kind = "full_collect" BY <2>2, <3>1, <3>2 DEF Alone
    <3> QED BY <1>1, <3>1, <3>3, BusyIsTyped
  <2> QED BY <2>1, <2>2 DEF Alone
<1>5. ASSUME proc' = proc PROVE Alone'
  <2>1. \A p \in Proc : ~EndStep(p) BY <1>1, <1>5, EndStepFrees
  <2>2. ProcessesGoOn BY <1>5 DEF ProcessesGoOn
  <2> QED BY <1>4, <2>1, <2>2
<1>6. CASE CalmStep
  <2>1. ProcessesGoOn BY <1>6 DEF CalmStep, Steady, ProcessesGoOn
  <2>2. \A p \in Proc : EndStep(p) => proc'[p] = NoClaim BY <1>1, EndStepFrees
  <2> QED BY <1>4, <2>1, <2>2
<1>7. CASE \E p \in Proc : EndStep(p)
  <2>1. PICK p \in Proc : EndStep(p) BY <1>7
  <2>2. proc' = [ proc EXCEPT ![p] = NoClaim ] BY <2>1 DEF EndStep, Exits
  <2>3. ProcessesGoOn BY <1>2, <2>2 DEF ProcessesGoOn
  <2>4. \A q \in Proc : EndStep(q) => proc'[q] = NoClaim BY <1>1, EndStepFrees
  <2> QED BY <1>4, <2>3, <2>4
<1>8. CASE \E w \in Workflow : \E o \in OpName : GiveUpStep(w, o)
  BY <1>5, <1>8 DEF GiveUpStep
<1>9. CASE \E w \in Workflow : \E o \in OpName : \E p \in Proc : ClaimStep(w, o, p)
  <2>1. PICK w \in Workflow, o \in OpName, p \in Proc : ClaimStep(w, o, p) BY <1>9
  <2>2. /\ db.wf[w].kind # "none" /\ o \in OperationsOf(db.wf[w].kind)
        /\ \A q \in OperationsOf(db.wf[w].kind) : db.wf[w].job[q].status # "running"
        /\ db'.wf[w].job[o].status = "running" /\ db'.wf[w].job[o].no = db.wf[w].job[o].no
        /\ proc[p] = NoClaim /\ proc' = [ proc EXCEPT ![p] = Started(w, o) ]
    BY <2>1 DEF ClaimStep
  <2>3. Started(w, o).w = w /\ Started(w, o).op = o
        /\ Started(w, o).no = db.wf[w].job[o].no
    BY <1>1, <2>2, StartedIsTyped
  <2>4. /\ proc'[p].w = w /\ proc'[p].op = o /\ proc'[p].no = db.wf[w].job[o].no
        /\ \A q \in Proc \ {p} : proc'[q] = proc[q]
    BY <1>2, <2>2, <2>3
  <2>5. RunsItsAttempt(p)' BY <2>2, <2>4 DEF RunsItsAttempt, Runs
  <2>6. ASSUME NEW q \in Proc \ {p}, Busy(q)', db'.wf[proc'[q].w].kind # "full_collect"
        PROVE  RunsItsAttempt(q)' /\ proc'[q].w # w
    <3>1. Busy(q) /\ proc'[q] = proc[q] BY <2>4, <2>6 DEF Busy
    <3>2. db.wf[proc[q].w].kind # "full_collect" BY <1>1, <2>6, <3>1, BusyIsTyped
    <3>3. RunsItsAttempt(q) BY <3>1, <3>2 DEF Alone
    <3>4. proc[q].op \in OperationsOf(db.wf[proc[q].w].kind) BY <1>1, <3>1, TypedProcess
    <3>5. proc[q].w # w BY <2>2, <3>3, <3>4 DEF RunsItsAttempt, Runs
    <3>6. ~\E r \in Proc : EndStep(r) /\ r = q
      <4>1. Started(w, o) # NoClaim
        BY <1>1, <2>2, StartedIsTyped, NoClaimIsTyped
      <4>2. proc'[q] # NoClaim BY <2>6, NoClaimIsTyped DEF Busy
      <4> QED BY <1>1, <4>2, EndStepFrees
    <3> QED BY <1>3, <3>1, <3>2, <3>5, <3>6 DEF RunsItsAttempt
  <2>7. \A q \in Proc :
          Busy(q)' /\ db'.wf[proc'[q].w].kind # "full_collect" => RunsItsAttempt(q)'
    BY <2>5, <2>6
  <2>8. ASSUME NEW q \in Proc, NEW r \in Proc, Busy(q)', Busy(r)', q # r,
               proc'[q].w = proc'[r].w
        PROVE  db'.wf[proc'[q].w].kind = "full_collect"
    <3>1. CASE q = p BY <2>4, <2>6, <2>8, <3>1
    <3>2. CASE r = p BY <2>4, <2>6, <2>8, <3>2
    <3>3. CASE q # p /\ r # p
      <4>1. Busy(q) /\ Busy(r) /\ proc'[q] = proc[q] /\ proc'[r] = proc[r]
        BY <2>4, <2>8, <3>3 DEF Busy
      <4>2. db.wf[proc[q].w].kind = "full_collect" BY <2>8, <4>1 DEF Alone
      <4> QED BY <1>1, <4>1, <4>2, BusyIsTyped
    <3> QED BY <3>1, <3>2, <3>3
  <2> QED BY <2>7, <2>8 DEF Alone
<1>10. CASE RecoverStep BY <1>5, <1>10 DEF RecoverStep
<1>11. CASE SupervisorMoves BY <1>5, <1>11 DEF SupervisorMoves
<1> QED BY <1>6, <1>7, <1>8, <1>9, <1>10, <1>11 DEF Moves

LEMMA SoundAlone == Sound /\ Alone => OneExecutor
<1> SUFFICES ASSUME Sound, Alone, NEW p \in Proc, NEW q \in Proc, Busy(p), Busy(q),
                    p # q, proc[p].w = proc[q].w
             PROVE  /\ db.wf[proc[p].w].kind \in Recoverable
                    /\ ~(Valid(db, proc[p]) /\ Valid(db, proc[q]))
  BY DEF OneExecutor
<1>1. db.wf[proc[p].w].kind = "full_collect" BY DEF Alone
<1>2. proc[p].no # proc[q].no BY <1>1 DEF Sound, AttemptsApart
<1>3. proc[p].op = Batch /\ proc[q].op = Batch
  BY <1>1, TypedProcess, RoundIsKind DEF Sound
<1> QED BY <1>1, <1>2, <1>3 DEF Recoverable, Valid

(***************************************************************************)
(* Of a workflow at most one process can still write, and no second one    *)
(* runs at all unless the first was fenced off: provided that a job whose  *)
(* lease has run out is released by hand only after its process has        *)
(* stopped, as the page asks of the administrator.                         *)
(***************************************************************************)
THEOREM OneProcessWrites ==
  ASSUME ReleaseOnlyStopped PROVE Spec => []OneExecutor
<1>1. Sound /\ Alone /\ [Next]_vars => (Sound /\ Alone)'
  <2> SUFFICES ASSUME Sound, Alone, [Next]_vars PROVE (Sound /\ Alone)' OBVIOUS
  <2>1. Moves BY NextMoves DEF Sound
  <2> QED BY <2>1, SoundStays, AloneStays
<1>2. Init => Alone
  <2>1. Init => \A p \in Proc : ~Busy(p) BY NoClaimIsTyped DEF Init, Busy
  <2> QED BY <2>1 DEF Alone
<1> QED BY <1>1, <1>2, SoundAtFirst, SoundAlone, PTL DEF Spec
=============================================================================
