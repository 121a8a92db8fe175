--------------------------- MODULE ArchiveStates ---------------------------
(***************************************************************************)
(* The vocabulary every process of the archive shares: the statuses of a   *)
(* manga row, the table of legal status changes, the rows each operation   *)
(* may claim, what a handler may report when it ends, and the Web's action *)
(* table.                                                                  *)
(***************************************************************************)
EXTENDS Naturals

Status ==
  { "discovered", "deferred", "details_pending", "download_pending",
    "download_blocked", "downloading", "downloaded", "validating",
    "preparing", "upload_pending", "uploading", "uploaded", "completed",
    "quarantined", "manual_review", "special_processing", "filtered_out",
    "skipped", "unavailable", "outdated", "force_delete_pending",
    "rename_pending", "deleted", "cancel_requested", "cancelled" }

\* Where event e takes a row in status s; an absent field is a forbidden change.
TRANSITIONS ==
  [ discovered |-> [ defer |-> "deferred", queue |-> "details_pending",
                     skip |-> "skipped", unavailable |-> "unavailable",
                     review |-> "manual_review" ],
    deferred |-> [ resume |-> "discovered", cancel |-> "cancel_requested" ],
    details_pending |-> [ block |-> "download_blocked",
                          details_ready |-> "download_pending",
                          details_retry |-> "details_pending",
                          outdate |-> "outdated", unavailable |-> "unavailable",
                          review |-> "manual_review", cancel |-> "cancel_requested" ],
    download_pending |-> [ require_details |-> "details_pending",
                           download_started |-> "downloading",
                           details_retry |-> "download_pending",
                           block |-> "download_blocked",
                           unavailable |-> "unavailable",
                           cancel |-> "cancel_requested" ],
    downloading |-> [ require_details |-> "details_pending",
                      downloaded |-> "downloaded", fallback |-> "download_pending",
                      block |-> "download_blocked", retry |-> "download_pending",
                      details_retry |-> "downloading", unavailable |-> "unavailable",
                      cancel |-> "cancel_requested" ],
    downloaded |-> [ validate |-> "validating", details_retry |-> "downloaded",
                     cancel |-> "cancel_requested" ],
    validating |-> [ upload |-> "upload_pending", prepare |-> "preparing",
                     quarantine |-> "quarantined", review |-> "manual_review",
                     retry |-> "downloaded", rename_retry |-> "rename_pending",
                     details_retry |-> "validating" ],
    preparing |-> [ ready |-> "upload_pending", retry |-> "downloaded",
                    review |-> "manual_review" ],
    upload_pending |-> [ upload_started |-> "uploading",
                         details_retry |-> "upload_pending",
                         revalidate |-> "validating", cancel |-> "cancel_requested" ],
    uploading |-> [ uploaded |-> "uploaded", retry |-> "upload_pending",
                    review |-> "manual_review", revalidate |-> "validating",
                    quarantine |-> "quarantined" ],
    uploaded |-> [ cleanup |-> "completed", cleanup_retry |-> "uploaded",
                   outdate |-> "outdated" ],
    completed |-> [ outdate |-> "outdated" ],
    outdated |-> [ deleted |-> "deleted", review |-> "manual_review" ],
    force_delete_pending |-> [ deleted |-> "deleted", review |-> "manual_review" ],
    rename_pending |-> [ validate |-> "validating" ],
    skipped |-> [ override |-> "details_pending", cancel |-> "cancel_requested" ],
    download_blocked |-> [ retry |-> "details_pending", cancel |-> "cancel_requested" ],
    unavailable |-> [ retry |-> "details_pending", cancel |-> "cancel_requested" ],
    quarantined |-> [ redownload |-> "details_pending", replace |-> "validating",
                      cancel |-> "cancel_requested" ],
    manual_review |-> [ special_start |-> "special_processing",
                        rename |-> "rename_pending",
                        resume_download |-> "details_pending",
                        resume_validate |-> "validating",
                        resume_upload |-> "upload_pending",
                        resume_outdated |-> "outdated",
                        confirm_uploaded |-> "uploaded",
                        cancel |-> "cancel_requested" ],
    filtered_out |-> [ rescreen |-> "discovered", override |-> "details_pending",
                       cancel |-> "cancel_requested" ],
    special_processing |-> [ special_downloaded |-> "downloaded",
                             special_cancel |-> "manual_review" ],
    cancel_requested |-> [ cancelled |-> "cancelled", review |-> "manual_review" ],
    cancelled |-> [ resume |-> "details_pending", resume_validate |-> "validating",
                    resume_upload |-> "upload_pending",
                    resume_uploaded |-> "uploaded" ],
    deleted |-> << >> ]

CanTransition(s, e) == e \in DOMAIN TRANSITIONS[s]

TransitionTarget(s, e) == TRANSITIONS[s][e]

\* The operations a task process claims a row for (screening takes no lease).
Operation ==
  { "details", "torrent_download", "torrent_check", "direct_download",
    "validate", "prepare", "upload", "cleanup", "delete" }

\* The statuses each operation may claim a row in ...
ClaimableStates ==
  [ details |-> { "details_pending", "download_pending" },
    torrent_download |-> { "download_pending", "downloading" },
    torrent_check |-> { "download_pending", "downloading" },
    direct_download |-> { "download_pending", "downloading" },
    validate |-> { "downloaded", "rename_pending", "validating" },
    prepare |-> { "preparing" },
    upload |-> { "upload_pending" },
    cleanup |-> { "uploaded" },
    delete |-> { "outdated", "force_delete_pending" } ]

\* Mutant: a delete is given a status of its own, as every other operation is.
ExecutionStateOfEach(op, s) ==
  CASE op = "details" -> "details_pending"
    [] op \in { "torrent_download", "torrent_check", "direct_download" } -> "downloading"
    [] op = "validate" -> "validating"
    [] op = "prepare" -> "preparing"
    [] op = "upload" -> "uploading"
    [] op = "cleanup" -> "uploaded"
    [] OTHER -> "deleting"

\* ... and the status the claim puts it in; a delete keeps the queued status.
ExecutionState(op, s) ==
  CASE op = "details" -> "details_pending"
    [] op \in { "torrent_download", "torrent_check", "direct_download" } -> "downloading"
    [] op = "validate" -> "validating"
    [] op = "prepare" -> "preparing"
    [] op = "upload" -> "uploading"
    [] op = "cleanup" -> "uploaded"
    [] OTHER -> s

\* A replacement in one of these statuses lets its predecessor be deleted.
ReplacementDeleteReady ==
  { "download_pending", "downloading", "downloaded", "rename_pending",
    "validating", "preparing", "upload_pending", "uploading", "uploaded",
    "completed" }
(***************************************************************************)
(* What the handler of an operation passes to finish() when it ends: an    *)
(* event ("none" when it reports no change) and whether it is an error.    *)
(***************************************************************************)
Done(e) == [event |-> e, error |-> FALSE]
Fail(e) == [event |-> e, error |-> TRUE]

HandlerOutcome ==
  [ details |-> { Done("outdate"), Done("details_ready"), Fail("block"),
                  Fail("details_retry"), Fail("review"), Fail("unavailable") },
    torrent_download |-> { Done("require_details"), Fail("fallback"), Fail("block"),
                           Fail("retry"), Fail("review"), Fail("unavailable") },
    torrent_check |-> { Done("none"), Done("downloaded"), Fail("fallback"),
                        Fail("block"), Fail("retry"), Fail("review") },
    direct_download |-> { Done("none"), Done("downloaded"), Done("require_details"),
                          Fail("block"), Fail("retry"), Fail("review"),
                          Fail("unavailable") },
    validate |-> { Done("prepare"), Done("upload"), Fail("quarantine"),
                   Fail("retry"), Fail("rename_retry"), Fail("review") },
    prepare |-> { Done("ready"), Fail("retry"), Fail("review") },
    upload |-> { Done("uploaded"), Done("revalidate"), Fail("revalidate"),
                 Fail("retry"), Fail("quarantine"), Fail("review") },
    cleanup |-> { Done("cleanup"), Fail("cleanup_retry"), Fail("review") },
    delete |-> { Done("none"), Done("deleted"), Fail("none"), Fail("review") } ]

\* Retries are reported by the error handler itself, which nothing guards.
RetryEvent == { "retry", "details_retry", "cleanup_retry", "rename_retry" }

(***************************************************************************)
(* The event a Web action button stands for in each status.                *)
(***************************************************************************)
WebActionEvent ==
  [ retry |-> [ download_blocked |-> "retry", unavailable |-> "retry",
                filtered_out |-> "rescreen", skipped |-> "override",
                quarantined |-> "redownload", cancelled |-> "resume",
                manual_review |-> "resume_download" ],
    skip |-> [ discovered |-> "skip" ],
    cancel |-> [ s \in { "discovered", "deferred", "download_pending",
                         "details_pending", "download_blocked", "downloading",
                         "downloaded", "upload_pending", "filtered_out", "skipped",
                         "unavailable", "quarantined", "manual_review" }
                   |-> "cancel" ],
    resume |-> [ manual_review |-> "resume_download", cancelled |-> "resume" ],
    validate |-> [ downloaded |-> "validate", manual_review |-> "resume_validate",
                   cancelled |-> "resume_validate" ],
    upload |-> [ validating |-> "upload", manual_review |-> "resume_upload",
                 cancelled |-> "resume_upload" ],
    confirm_uploaded |-> [ manual_review |-> "confirm_uploaded" ] ]

\* The status an action moves a row to, when the table and TRANSITIONS allow it.
WebTargets(s) ==
  { TRANSITIONS[s][WebActionEvent[act][s]] :
      act \in { b \in DOMAIN WebActionEvent :
                  /\ s \in DOMAIN WebActionEvent[b]
                  /\ CanTransition(s, WebActionEvent[b][s]) } }

\* The statuses an administrator may set by hand, and from where a forced delete.
ManualStatus ==
  { "discovered", "details_pending", "downloaded", "completed", "manual_review",
    "download_blocked", "skipped", "unavailable", "quarantined", "outdated",
    "force_delete_pending", "deleted" }

ForceDeleteSource == { "uploaded", "completed", "outdated", "manual_review" }
=============================================================================
