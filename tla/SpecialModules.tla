--------------------------- MODULE SpecialModules ---------------------------
(***************************************************************************)
(* What the special-processing modules declare to the core: the kinds of   *)
(* workflow, their operations and the phases, statuses and failures of     *)
(* each.  A workflow and its jobs live in the database; a worker process   *)
(* runs one job.  The core is in SpecialJobs, one module per kind of       *)
(* workflow extends it, and SpecialWork composes them.                     *)
(***************************************************************************)
EXTENDS Naturals

Kind ==
  { "video_archive", "manual_torrent", "lanraragi_metadata",
    "lanraragi_compare", "download_cleanup", "full_collect" }

\* An operation that needs nothing beside its phases: readonly, of an active
\* workflow, failing to "failed".
Operation(phases, running) ==
  [ phases |-> phases, running |-> running, statuses |-> { "active" },
    failure |-> "failed", affects |-> TRUE, cancellation |-> FALSE,
    effect |-> "readonly" ]

VideoPhase ==
  { "awaiting_torrent_load", "loading_torrent_options",
    "awaiting_torrent_selection", "torrent_submit_queued",
    "submitting_torrents", "downloading", "checking_downloads", "extracting",
    "converting", "packing", "ready", "failed", "cancelling", "cancelled" }

Definition ==
  [ video_archive |->
      [ load |-> Operation({ "awaiting_torrent_load",
                             "awaiting_torrent_selection", "failed" },
                           "loading_torrent_options"),
        submit |-> [Operation({ "torrent_submit_queued", "failed" },
                              "submitting_torrents") EXCEPT !.effect = "verify"],
        check |-> Operation({ "downloading", "failed" }, "checking_downloads"),
        cancel |-> [Operation(VideoPhase \ { "ready", "cancelled", "cancelling" },
                              "cancelling")
                      EXCEPT !.cancellation = TRUE, !.effect = "verify"],
        cleanup |-> [Operation({ "ready" }, "ready")
                      EXCEPT !.statuses = { "completed" }, !.failure = "ready",
                             !.affects = FALSE, !.effect = "verify"] ],
    manual_torrent |->
      [ load |-> Operation({ "awaiting_load" }, "loading"),
        submit |-> [Operation({ "submit_queued" }, "submitting")
                      EXCEPT !.effect = "verify"],
        verify |-> Operation({ "verify_queued" }, "verifying") ],
    lanraragi_metadata |->
      [ scan |-> Operation({ "queued" }, "scanning"),
        apply |-> [Operation({ "awaiting_confirmation" }, "applying")
                     EXCEPT !.effect = "idempotent"] ],
    lanraragi_compare |->
      [ compare |-> Operation({ "queued", "failed" }, "reading_lanraragi") ],
    download_cleanup |->
      [ scan |-> Operation({ "queued", "failed" }, "scanning"),
        apply |-> [Operation({ "awaiting_confirmation" }, "cleaning")
                     EXCEPT !.effect = "idempotent"] ],
    full_collect |->
      [ collect_batch |-> [Operation({ "queued", "cooling", "interrupted" },
                                     "collecting")
                             EXCEPT !.failure = "waiting_repair"] ] ]

OperationsOf(kind) == DOMAIN Definition[kind]

InitialPhase ==
  [ video_archive |-> "awaiting_torrent_load", manual_torrent |-> "awaiting_load",
    lanraragi_metadata |-> "queued", lanraragi_compare |-> "queued",
    download_cleanup |-> "queued", full_collect |-> "queued" ]

\* The lifecycle policy: only the full collection has one.  Its jobs are asked
\* to stop, fenced by the Supervisor's ownership and recovered after a restart.
Recoverable == { "full_collect" }
Fenced(kind, op) == kind = "full_collect" /\ op = "collect_batch"

Role == { "image", "video" }     \* the two torrents of a video archive

\* The phases a workflow can show, whoever sets them.
Phase ==
  { InitialPhase[k] : k \in Kind }
    \cup { "awaiting_selection", "completed", "completed_with_errors",
           "nothing_to_clean", "pausing", "paused", "interrupted",
           "waiting_repair", "reading_database", "comparing",
           "publishing_report", "cancelled" }
    \cup UNION { UNION { Definition[k][o].phases \cup
                         { Definition[k][o].running, Definition[k][o].failure }
                           : o \in OperationsOf(k) } : k \in Kind }
=============================================================================
