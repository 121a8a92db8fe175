------------------------------ MODULE Pipeline ------------------------------
(***************************************************************************)
(* One archive from its discovery to the library: the operations of the    *)
(* task processes, the services they use, the Supervisor, the persons who  *)
(* decide what the program will not, and the failures of all of them.      *)
(***************************************************************************)
EXTENDS Discovery, Downloading, Preparing, Uploading

Init ==
  /\ \E status \in { "deferred", "discovered" } :
       row = [ status |-> status, method |-> "unset", ext |-> FALSE,
               file |-> NoFile, gen |-> 0, sized |-> FALSE, hashed |-> FALSE,
               rename |-> FALSE, tries |-> 0, err |-> "none", lrr |-> FALSE,
               skipVideo |-> FALSE, review |-> NoReview ]
  /\ proc = Idle
  /\ disk = << >> /\ links = {} /\ torrent = "absent" /\ remote = "none"
  /\ share = << >> /\ index = Unknown
  /\ faults = 0 /\ visits = 0
  /\ witness = [ good |-> FALSE, purged |-> FALSE, permit |-> "none", granted |-> {} ]

----------------------------------------------------------------------------
(* The Supervisor, and what happens to files.                              *)

\* A request to cancel that no process will see is completed.
CompleteCancellation ==
  /\ proc.pc = "idle" /\ row.status = "cancel_requested"
  /\ row' = IF row.method = "direct"
            THEN [row EXCEPT !.status = "manual_review", !.err = "other"]
            ELSE [row EXCEPT !.status = "cancelled"]
  /\ UNCHANGED << proc, disk, links, torrent, remote, share, index, faults, visits, witness >>

\* The registered archive is cut short or rots, under each name it has.
Damage ==
  /\ Held(row.file) = "zip"
  /\ Fault
  /\ \E c \in { "cut", "rot" } : Rewrite(row.file, c)
  /\ witness' = [witness EXCEPT !.good = FALSE]
  /\ UNCHANGED << row, proc, torrent, remote, share, index, visits >>

----------------------------------------------------------------------------
(* Persons.  Inside is what none of their decisions touches.               *)

Visit == visits < MaxVisit /\ visits' = visits + 1

Inside == << proc, disk, links, torrent, remote, share, index, faults >>

Unclaimed == proc.pc = "idle"

\* The lease of a process that is gone is released.
ReleaseExpiredLease ==
  /\ proc.pc = "dead"
  /\ row' = [row EXCEPT !.status = "manual_review"]
  /\ proc' = Idle
  /\ UNCHANGED << disk, links, torrent, remote, share, index, faults, visits, witness >>

\* A button of the archive's page.  A direct download that is being registered
\* holds the row; who confirms an upload has seen the archive in the library.
Act(action) ==
  LET event == WebActionEvent[action][row.status]
      target == TransitionTarget(row.status, event)
  IN  /\ row.status \in DOMAIN WebActionEvent[action]
      /\ CanTransition(row.status, event)
      /\ ~Working("direct_download", "register")
      /\ target = "details_pending" => Unclaimed /\ ~row.ext
      /\ action = "confirm_uploaded" => index # Unknown
      /\ Visit
      /\ row' = [row EXCEPT !.status = target, !.lrr = @ \/ action = "confirm_uploaded"]
      /\ UNCHANGED << Inside, witness >>

LocationOf ==
  [ torrent |-> "torrent_download", direct |-> "direct_download",
    aria2 |-> "aria2_download", hah |-> "hah_download" ]

\* Where an archive may be put aside by hand.  (Deletions: module Replacement.)
Parked == { "manual_review", "skipped", "unavailable", "quarantined" }

\* The status is set by hand, with what its target needs; who sets an archive
\* completed has seen it in the library.
OverrideStatus(target) ==
  /\ Unclaimed /\ row.status # target
  /\ Visit
  /\ \/ target = "download_blocked"
        /\ row' = [row EXCEPT !.status = target, !.method = "unset", !.ext = FALSE,
                              !.rename = FALSE]
     \/ /\ target = "details_pending" /\ ~row.ext
        /\ \E m \in DOMAIN LocationOf :
             row' = [row EXCEPT !.status = target, !.method = m, !.rename = FALSE]
     \/ /\ target = "downloaded"
        /\ \E m \in DOMAIN LocationOf, f \in DOMAIN disk :
             /\ f.at = LocationOf[m]
             /\ row' = [row EXCEPT !.status = target, !.method = m,
                                   !.ext = @ /\ m = row.method, !.file = f,
                                   !.sized = FALSE, !.hashed = FALSE, !.rename = FALSE]
     \/ /\ target \in Parked \cup { "discovered" }
        /\ row' = [row EXCEPT !.status = target, !.rename = FALSE]
     \/ /\ target = "completed" /\ index # Unknown
        /\ row' = [row EXCEPT !.status = target, !.lrr = TRUE, !.rename = FALSE]
  /\ UNCHANGED << Inside, witness >>

\* Both archives of a name are to be kept: this one gets another name.
RequestRename ==
  /\ Unclaimed /\ row.status = "manual_review"
  /\ row.err = "duplicate" \/ row.rename
  /\ IsFile(row.file) /\ row.file # Renamed /\ ~Has(Renamed)
  /\ Visit
  /\ row' = [row EXCEPT !.status = "rename_pending", !.rename = TRUE,
                        !.sized = FALSE, !.hashed = FALSE]
  /\ UNCHANGED << Inside, witness >>

\* The videos in the list are accepted for this archive, for good.
SkipVideo ==
  /\ Unclaimed /\ row.status = "manual_review" /\ row.err = "video_torrent"
  /\ Visit
  /\ row' = [row EXCEPT !.status = "details_pending", !.skipVideo = TRUE, !.err = "none"]
  /\ UNCHANGED << Inside, witness >>

\* All warnings of the list a person saw are accepted, and perhaps others.
ConfirmWarnings(warnings) ==
  /\ Unclaimed /\ ~row.ext
  /\ row.status = "manual_review" /\ row.err \in TorrentError
  /\ row.review.scope # NoScope /\ row.review.warnings # {}
  /\ row.review.warnings \subseteq warnings
  /\ Visit
  /\ row' = [row EXCEPT !.status = "details_pending", !.method = "torrent",
                        !.review.accepted = warnings, !.err = "none"]
  /\ witness' = [witness EXCEPT !.granted = @ \cup
                   { [ scope |-> row.review.scope, choice |-> row.review.choice,
                       warning |-> w ] : w \in warnings }]
  /\ UNCHANGED Inside

RevokeWarnings ==
  /\ Unclaimed /\ ~row.ext
  /\ row.review.accepted # {} \/ row.review.next
  /\ row' = [row EXCEPT !.review.accepted = {}, !.review.next = FALSE]
  /\ witness' = [witness EXCEPT !.granted = {}, !.permit = "none"]
  /\ UNCHANGED << Inside, visits >>

\* The account's link may be used in the next attempt, or may not.
SetPermission(allow) ==
  /\ Unclaimed /\ ~row.ext
  /\ row.status = "manual_review" /\ row.err = "invalid_torrent"
  /\ IF allow THEN Visit ELSE UNCHANGED visits
  /\ LET link == "torrent_personalized_link_required"
     IN  /\ row' = [row EXCEPT !.review.accepted = @ \ { link }, !.review.next = allow]
         /\ witness' = [witness EXCEPT !.permit = IF allow THEN "given" ELSE "none",
                          !.granted = { d \in @ : d.warning # link }]
  /\ UNCHANGED Inside

----------------------------------------------------------------------------
Download ==
  \/ BeginTorrent \/ NoTorrentListed \/ SubmitFails \/ RecordTorrent
  \/ \E page \in Pages, missing \in SUBSET { "public", "private" } : Submit(page, missing)
  \/ CheckTorrent \/ DropTorrent \/ FallbackTorrent
  \/ RefuseDirect \/ TransferDirect \/ PromoteDirect \/ RegisterDirect
  \/ StartRemote \/ RecordRemote \/ PollHah \/ PollAria2 \/ RegisterAria2

Prepare ==
  \/ BeginRename \/ UnlinkSource \/ BeginValidate \/ Validate
  \/ MoveToQuarantine \/ Quarantine
  \/ Pack \/ PromotePrepared \/ RegisterPrepared

Upload ==
  \/ \E backend \in Backends : BeginUpload(backend)
  \/ PutArchive \/ TransferFile \/ Publish \/ AwaitImport \/ Confirm

Cleanup == CheckLibrary \/ CleanupFails \/ RemoveFiles \/ EndCleanup

\* What a running process does next.
Work == FetchDetails \/ Download \/ Prepare \/ Upload \/ Cleanup

Outage ==
  \/ ServiceDown \/ OrderUnanswered \/ DiskDown \/ PackFails
  \/ UploadFails \/ PutUnanswered \/ ShareDown
  \/ Pause \/ Crash

Person ==
  \/ ReleaseExpiredLease \/ RequestRename \/ SkipVideo \/ RevokeWarnings
  \/ \E action \in DOMAIN WebActionEvent : Act(action)
  \/ \E target \in Parked \cup { "discovered", "details_pending", "download_blocked",
                               "downloaded", "completed" } :
       OverrideStatus(target)
  \/ \E warnings \in SUBSET Warning : ConfirmWarnings(warnings)
  \/ \E allow \in BOOLEAN : SetPermission(allow)

\* (An outdated row is deleted once its replacement is safe: Replacement.)
Claims == \E op \in Operation \ { "delete" } : Claim(op)

World == ShinobuImport \/ NameTaken \/ LibraryForgets \/ TorrentDisturbed \/ Damage

Next ==
  \/ Collect \/ Screen
  \/ Claims \/ Work \/ Outage \/ CompleteCancellation
  \/ TorrentProgress \/ RemoteProgress \/ World \/ Person

(***************************************************************************)
(* The Supervisor keeps starting operations that have work, a process that *)
(* is not killed goes on, and torrents and remote downloads end one way or *)
(* another.  Nothing is assumed of persons, no failure is certain, and a   *)
(* gallery that is kept back may never be on a collected page again.       *)
(***************************************************************************)
Fairness ==
  /\ WF_vars(Screen) /\ WF_vars(Claims) /\ WF_vars(Work)
  /\ WF_vars(CompleteCancellation)
  /\ WF_vars(TorrentProgress) /\ WF_vars(RemoteProgress)

Spec == Init /\ [][Next]_vars /\ Fairness

----------------------------------------------------------------------------
\* Properties.

(***************************************************************************)
(* What was downloaded is never lost by the program: from the registration *)
(* of a whole copy there is one on disk or in the library's directory,     *)
(* through renaming, packing, quarantine, fallback, cleanup and the death  *)
(* of a process in any of them.                                            *)
(***************************************************************************)
NeverLost ==
  witness.good =>
    \/ \E f \in DOMAIN disk : disk[f] \in { "zip", "dir" }
    \/ \E n \in DOMAIN share : share[n] = "zip"

(***************************************************************************)
(* The library never takes up a damaged copy, and an archive counts as     *)
(* uploaded only while the library knows it, unless a person removed it.   *)
(***************************************************************************)
InLibrary ==
  /\ index # Unknown => index \in DOMAIN share /\ share[index] = "zip"
  /\ row.status \in { "uploaded", "completed" } /\ ~witness.purged => index # Unknown

(***************************************************************************)
(* No operation writes over a finished file, on disk or in the library's   *)
(* directory: what a name holds stays the same until it is removed, unless *)
(* it is damaged from outside.                                             *)
(***************************************************************************)
WriteOnce ==
  [][ /\ \A f \in DOMAIN disk \cap DOMAIN disk' :
           disk'[f] = disk[f] \/ Damage \/ TorrentProgress
      /\ \A n \in DOMAIN share \cap DOMAIN share' : share'[n] = share[n] ]_vars

(***************************************************************************)
(* A torrent handed to qBittorrent is a current, original one with seeders *)
(* of the list just read; what the list is objected to, a person accepted  *)
(* for this very list and has not taken back; the account's own link was   *)
(* used only for a candidate a person allowed it for.                      *)
(***************************************************************************)
AcceptedOnly ==
  Working("torrent_download", "record") =>
    LET page == proc.chosen.page
        taken == OptionOf(page, proc.chosen.id)
    IN  /\ taken \in Usable(page) /\ taken.seeds > 0
        /\ \A w \in Warnings(page, row.skipVideo) :
             \E d \in witness.granted : d.scope = Scope(page) /\ d.warning = w
        /\ proc.chosen.personal =>
             [ scope |-> Scope(page), choice |-> proc.chosen.id,
               warning |-> "torrent_personalized_link_required" ] \in witness.granted

\* A directory whose archive was made and never registered is packed, refused
\* and validated again for ever.
Orphaned == Has(PreparedFile) /\ Held(row.file) = "dir"

\* An archive screened once more while a download of it is still recorded: no
\* operation claims it.
Abandoned == row.status = "details_pending" /\ row.ext

\* Nothing more happens to the row without a person: it has ended or waits for
\* one, its process is dead, or its remote download has failed.
AtRest ==
  \/ Unclaimed /\ row.status \in
       { "completed", "download_blocked", "unavailable", "quarantined",
         "manual_review", "cancelled", "skipped", "outdated", "filtered_out",
         "deferred" }
  \/ proc.pc = "dead"
  \/ Polls /\ remote \in { "none", "failed", "taken" }
  \/ Orphaned \/ Abandoned

(***************************************************************************)
(* Every archive comes to rest, again and again: no failure that the retry *)
(* budget counts goes round for ever, and no step waits for another.       *)
(***************************************************************************)
Rests == []<>AtRest
=============================================================================
