---------------------------- MODULE VideoArchive ----------------------------
(***************************************************************************)
(* The video archive: two torrents, one of images and one of videos, are   *)
(* chosen, downloaded by qBittorrent and composed into the archive of one  *)
(* row, which then goes on in the ordinary pipeline; the torrents are      *)
(* deleted on command once the archive is uploaded.                        *)
(***************************************************************************)
EXTENDS SpecialJobs

\* A version of the row is written together with the remark of the workflow.
Rebased(d, w) == SyncRemark(Touch(d, TheManga(d.wf[w])), w)

\* An active workflow whose row is where it put it.
IsLocked(w) ==
  /\ db.wf[w].kind = "video_archive" /\ Active(db, w)
  /\ db.row[TheManga(db.wf[w])].status = "special_processing"

\* The row is taken over, with what it must go back to.
StartVideo(w, m, load) ==
  LET r == db.row[m]
      x == [ NewWorkflow("video_archive") EXCEPT
               !.bind = [n \in {m} |-> [ status |-> r.status, error |-> r.error ]] ]
      born == [ Touch(db, m) EXCEPT !.wf[w] = x, !.row[m].status = "special_processing" ]
      held == Acquire(born, w, { MangaKey(m) }, ByWorkflow, 0)
  IN /\ IsNew(w, "video_archive")
     /\ r.status = "manual_review" /\ ~r.busy
     /\ \A v \in Workflow : ~(Active(db, v) /\ m \in Bound(db.wf[v]))
     /\ Free(db, w, { MangaKey(m) })
     /\ db' = IF load THEN Queue(held, w, "load") ELSE held
     /\ UNCHANGED << sup, proc, qbit >>

QueueVideo(w, op) == db' = Queue(db, w, op) /\ UNCHANGED << sup, proc, qbit >>

QueueLoad(w) ==
  /\ IsLocked(w) /\ db.wf[w].job["load"].status \notin { "queued", "running" }
  /\ MayQueue(db, w, "load")
  /\ QueueVideo(w, "load")

SelectTorrents(w) ==
  LET d == [ db EXCEPT !.wf[w].phase = "torrent_submit_queued",
                       !.wf[w].data.selected = TRUE, !.wf[w].data.retry = "none" ]
  IN /\ IsLocked(w) /\ db.wf[w].phase = "awaiting_torrent_selection"
     /\ MayQueue(d, w, "submit")
     /\ db' = Queue(Rebased(d, w), w, "submit")
     /\ UNCHANGED << sup, proc, qbit >>

\* On its own page, or for every archive that is downloading.
QueueCheck(w) ==
  /\ db.wf[w].kind = "video_archive" /\ Active(db, w)
  /\ db.wf[w].phase = "downloading"
  /\ db.wf[w].job["check"].status \notin { "queued", "running" }
  /\ MayQueue(db, w, "check")
  /\ QueueVideo(w, "check")

QueueSourceCleanup(w) ==
  /\ db.wf[w].kind = "video_archive"
  /\ db.wf[w].status = "completed" /\ db.wf[w].phase = "ready"
  /\ db.row[TheManga(db.wf[w])].status = "completed"
  /\ db.wf[w].data.cleanup \in { "pending", "failed", "queued", "running" }
  /\ db.wf[w].job["cleanup"].status \notin { "queued", "running" }
  /\ MayQueue(db, w, "cleanup")
  /\ db' = Rebased([ Queue(db, w, "cleanup") EXCEPT !.wf[w].data.cleanup = "queued" ], w)
  /\ UNCHANGED << sup, proc, qbit >>

RetryVideo(w) ==
  LET op == db.wf[w].data.retry IN
  /\ IsLocked(w) /\ db.wf[w].phase = "failed"
  /\ op \notin { "none", "cancel" }
  /\ db.wf[w].job[op].status \notin { "queued", "running" }
  /\ MayQueue(db, w, op)
  /\ QueueVideo(w, op)

\* A running job is only told: the torrents are deleted by a job of its own.
CancelVideo(w) ==
  /\ IsLocked(w)
  /\ IF Running(db, w) # {}
     THEN /\ ~db.wf[w].cancel
          /\ db' = Rebased([ db EXCEPT !.wf[w].cancel = TRUE ], w)
     ELSE /\ MayQueue(CancelQueued(db, w), w, "cancel")
          /\ db' = Queue(Rebased(CancelQueued(db, w), w), w, "cancel")
  /\ UNCHANGED << sup, proc, qbit >>

ReleaseExpiredVideo(w, op) ==
  LET j == db.wf[w].job[op]
      d == Rebased(EndJob(Release(db, w, op), w, op, "abandoned"), w)
  IN /\ db.wf[w].kind = "video_archive"
     /\ j.status = "running" /\ j.lease = "expired"
     /\ ReleaseOnlyStopped => RunBy(w, op) = {}
     /\ db' = IF op = "cleanup"
              THEN [ d EXCEPT !.wf[w].data.cleanup = "failed", !.wf[w].phase = "ready" ]
              ELSE [ d EXCEPT !.wf[w].data.retry = op, !.wf[w].phase = "failed",
                              !.row[TheManga(db.wf[w])].error = "special" ]
     /\ UNCHANGED << sup, proc, qbit >>

\* The administrator gives up: the torrents stay where they are.
ExitWithoutCleanup(w) ==
  LET m == TheManga(db.wf[w])
      entry == db.wf[w].bind[m]
      d == ReleaseAll(EndWorkflow(CancelQueued(db, w), w, "cancelled", "cancelled"), w)
  IN /\ IsLocked(w) /\ Running(db, w) = {}
     /\ db' = Over(Touch([ d EXCEPT !.row[m].status = entry.status,
                                    !.row[m].error = entry.error ], m), w)
     /\ UNCHANGED << sup, proc, qbit >>

VideoCommand(w) ==
  \/ \E m \in Manga, load \in BOOLEAN : StartVideo(w, m, load)
  \/ QueueLoad(w) \/ SelectTorrents(w) \/ QueueCheck(w) \/ QueueSourceCleanup(w)
  \/ RetryVideo(w) \/ CancelVideo(w) \/ ExitWithoutCleanup(w)
  \/ \E op \in OperationsOf("video_archive") : ReleaseExpiredVideo(w, op)

----------------------------------------------------------------------------
(***************************************************************************)
(* The executor.  A step is taken while the claim is valid and the         *)
(* workflow not asked to stop; in every other case the run ends with an    *)
(* error.  So does a run that was asked to stop: it turns to the           *)
(* cancellation, whose first write is refused for the same reason.         *)
(***************************************************************************)
AtVideo(p, op, at) ==
  /\ proc[p].op = op /\ proc[p].at = at
  /\ db.wf[proc[p].w].kind = "video_archive"
  /\ Valid(db, proc[p]) /\ Going(p)

Video(p) == db.wf[proc[p].w]
VideoData(p) == Video(p).data
NextRole(p) == IF "image" \in VideoData(p).torrents THEN "video" ELSE "image"

BeginVideo(p) ==
  /\ \E op \in OperationsOf("video_archive") : AtVideo(p, op, "begin")
  /\ proc[p].op = "submit" => VideoData(p).selected
  /\ proc[p].op = "check" => VideoData(p).torrents = Role
  /\ db' = [ db EXCEPT !.wf[proc[p].w].job[proc[p].op].effect = TRUE ]
  /\ Goto(p, "work") /\ UNCHANGED << sup, qbit >>

LoadTorrents(p) ==
  LET w == proc[p].w IN
  /\ AtVideo(p, "load", "work")
  /\ db' = Succeed([ db EXCEPT !.wf[w].data.selected = FALSE,
                               !.wf[w].data.retry = "none" ],
                   proc[p], "awaiting_torrent_selection", "active")
  /\ Exits(p) /\ UNCHANGED qbit

\* One that is there already, from an attempt that was cut short, is adopted.
AddTorrent(p) ==
  LET m == TheManga(Video(p)) IN
  /\ proc[p].op = "submit" /\ proc[p].at = "work"
  /\ Video(p).kind = "video_archive" /\ VideoData(p).torrents # Role
  /\ qbit' = [ qbit EXCEPT ![m] = @ \cup { NextRole(p) } ]
  /\ Goto(p, "added") /\ UNCHANGED << db, sup >>

RecordTorrent(p) ==
  LET w == proc[p].w IN
  /\ AtVideo(p, "submit", "added")
  /\ db' = Update([ db EXCEPT !.wf[w].data.torrents = @ \cup { NextRole(p) } ],
                  proc[p], Video(p).phase)
  /\ Goto(p, "work") /\ UNCHANGED << sup, qbit >>

TorrentsSubmitted(p) ==
  /\ AtVideo(p, "submit", "work") /\ VideoData(p).torrents = Role
  /\ db' = Succeed([ db EXCEPT !.wf[proc[p].w].data.retry = "none" ],
                   proc[p], "downloading", "active")
  /\ Exits(p) /\ UNCHANGED qbit

\* qBittorrent has both, and says whether they are complete.
CheckDownloads(p, complete) ==
  /\ AtVideo(p, "check", "work")
  /\ Role \subseteq qbit[TheManga(Video(p))]
  /\ db' = Update(db, proc[p], Video(p).phase)
  /\ Goto(p, IF complete THEN "extract" ELSE "incomplete") /\ UNCHANGED << sup, qbit >>

StillDownloading(p) ==
  /\ AtVideo(p, "check", "incomplete")
  /\ db' = Succeed(db, proc[p], "downloading", "active")
  /\ Exits(p) /\ UNCHANGED qbit

Composing == [ extract |-> << "extracting", "convert" >>,
               convert |-> << "converting", "pack" >>,
               pack |-> << "packing", "promote" >> ]

Compose(p, at) ==
  /\ AtVideo(p, "check", at)
  /\ db' = Update(db, proc[p], Composing[at][1])
  /\ Goto(p, Composing[at][2]) /\ UNCHANGED << sup, qbit >>

\* The archive is in its place and its row goes on to be uploaded.
CompleteVideo(p) ==
  LET c == proc[p]
      m == TheManga(Video(p))
      d == [ EndWorkflow(EndJob(db, c.w, c.op, "succeeded"), c.w, "completed", "ready")
               EXCEPT !.wf[c.w].data.cleanup = "pending",
                      !.row[m] = [ @ EXCEPT !.status = "downloaded", !.error = "none",
                                     !.method = "torrent", !.external = FALSE ] ]
  IN /\ AtVideo(p, "check", "promote")
     /\ db' = Over(Release(Rebased(d, c.w), c.w, c.op), c.w)
     /\ Exits(p) /\ UNCHANGED qbit

\* The torrents on record are deleted; before a cleanup both must be.
DeleteTorrents(p) ==
  /\ proc[p].op \in { "cancel", "cleanup" } /\ proc[p].at = "work"
  /\ Video(p).kind = "video_archive"
  /\ proc[p].op = "cleanup" => VideoData(p).torrents = Role
  /\ qbit' = [ qbit EXCEPT ![TheManga(Video(p))] = @ \ VideoData(p).torrents ]
  /\ Goto(p, "deleted") /\ UNCHANGED << db, sup >>

VideoCancelled(p) ==
  /\ AtVideo(p, "cancel", "deleted")
  /\ db' = CancelComplete(db, proc[p])
  /\ Exits(p) /\ UNCHANGED qbit

SourcesCleaned(p) ==
  LET c == proc[p] IN
  /\ AtVideo(p, "cleanup", "deleted")
  /\ db' = Release(Rebased([ EndJob(db, c.w, c.op, "succeeded")
                               EXCEPT !.wf[c.w].data.cleanup = "completed" ], c.w),
                   c.w, c.op)
  /\ Exits(p) /\ UNCHANGED qbit

VideoStep(p) ==
  \/ BeginVideo(p) \/ LoadTorrents(p)
  \/ AddTorrent(p) \/ RecordTorrent(p) \/ TorrentsSubmitted(p)
  \/ \E complete \in BOOLEAN : CheckDownloads(p, complete)
  \/ StillDownloading(p) \/ CompleteVideo(p)
  \/ \E at \in DOMAIN Composing : Compose(p, at)
  \/ DeleteTorrents(p) \/ VideoCancelled(p) \/ SourcesCleaned(p)
=============================================================================
