---------------------------- MODULE Downloading ----------------------------
(***************************************************************************)
(* From a queued row to a registered artifact, by torrent, directly, or    *)
(* through aria2 or H@H.  A step ends where the process could be killed    *)
(* between two effects on the world: the database, qBittorrent, the disk.  *)
(***************************************************************************)
EXTENDS ArchiveRow

\* What a finished download is registered as.
Registered(f, c) ==
  [row EXCEPT !.file = f, !.gen = NextName, !.sized = TRUE, !.hashed = (c # "dir")]

\* A whole copy has been registered: from now on it must not disappear.
Kept(f) == [witness EXCEPT !.good = @ \/ Valid(f)]

----------------------------------------------------------------------------
(* Torrents.                                                               *)

\* The row as a decision sees it: its review, with the permission consumed.
ReviewSeen == [row.review EXCEPT !.next = proc.allowed]

\* The permission for one attempt is consumed before anything is requested.
BeginTorrent ==
  /\ Working("torrent_download", "start")
  /\ proc' = [proc EXCEPT !.pc = "submit", !.allowed = row.review.next]
  /\ row' = [row EXCEPT !.review.next = FALSE]
  /\ witness' = [witness EXCEPT !.permit = IF @ = "given" THEN "held" ELSE "none"]
  /\ UNCHANGED << disk, links, torrent, remote, share, index, faults, visits >>

\* The gallery lists no torrent, and this is known before anything is asked.
NoTorrentListed ==
  /\ Working("torrent_download", "start")
  /\ \E fallback \in Fallbacks : LeaveTorrent(row, fallback)
  /\ UNCHANGED << disk, links, torrent, remote, share, index, faults, visits, witness >>

\* What the one-shot permission was bound to, once a candidate is chosen.
Bound(decided) ==
  IF witness.permit = "held" /\ decided.choice # 0
  THEN { [ scope |-> decided.scope, choice |-> decided.choice,
           warning |-> "torrent_personalized_link_required" ] }
  ELSE {}

(***************************************************************************)
(* The list is read, a torrent chosen, its file fetched and handed over to *)
(* qBittorrent, which knows it by its directory: handing it over again     *)
(* finds the one that is there.                                            *)
(***************************************************************************)
Submit(page, missing) ==
  LET choice == Choose(page, ReviewSeen, row.skipVideo)
      got == IF choice.code = "chosen" THEN Fetch(page, choice.review, missing)
             ELSE [ code |-> choice.code, review |-> choice.review, personal |-> FALSE ]
      asked == [row EXCEPT !.review = got.review]
      open == got.review.warnings \ got.review.accepted
  IN  /\ Working("torrent_download", "submit")
      /\ \/ /\ got.code = "chosen"
            /\ torrent' = IF torrent = "absent" THEN "downloading" ELSE torrent
            /\ proc' = [proc EXCEPT !.pc = "record",
                          !.chosen = [ page |-> page, id |-> got.review.choice,
                                       personal |-> got.personal ]]
            /\ UNCHANGED row
         \/ /\ got.code = "review"
            /\ Finish(asked, "review",
                      IF "video_torrent" \in open THEN "video_torrent" ELSE "warning")
            /\ UNCHANGED torrent
         \/ /\ got.code = "latest_torrent_no_seeder"
            /\ Finish([row EXCEPT !.method = "direct"], "fallback", "other")
            /\ UNCHANGED torrent
         \/ /\ got.code \in FallbackCode \ { "latest_torrent_no_seeder" }
            /\ \E fallback \in Fallbacks : LeaveTorrent(row, fallback)
            /\ UNCHANGED torrent
         \/ /\ got.code \in { "ambiguous_torrent_versions", "torrent_file_not_found" }
            /\ Finish(row, "review", "other")
            /\ UNCHANGED torrent
      /\ witness' = [witness EXCEPT !.granted =
                       @ \cup (IF got.code \in { "chosen", "review" }
                               THEN Bound(got.review) ELSE {})]
      /\ UNCHANGED << disk, links, remote, share, index, faults, visits >>

\* The gallery is gone, the file it offers is no torrent, or qBittorrent took
\* the torrent but does not list it yet; or the site or qBittorrent is down.
SubmitFails ==
  /\ Working("torrent_download", "submit")
  /\ \/ Finish(row, "unavailable", "other") /\ UNCHANGED << torrent, faults >>
     \/ Finish(row, "review", "invalid_torrent") /\ UNCHANGED << torrent, faults >>
     \/ /\ torrent = "absent"
        /\ torrent' = "downloading"
        /\ RetryOrReview(row)
        /\ UNCHANGED faults
     \/ SystemRetry(row) /\ Fault /\ UNCHANGED torrent
  /\ UNCHANGED << disk, links, remote, share, index, visits, witness >>

RecordTorrent ==
  /\ Working("torrent_download", "record")
  /\ Finish([row EXCEPT !.method = "torrent", !.ext = TRUE], "none", "none")
  /\ UNCHANGED << disk, links, torrent, remote, share, index, faults, visits, witness >>

TorrentFile == [ at |-> "torrent_download", name |-> GalleryName ]

\* A poll of qBittorrent; what it finds complete is validated and registered.
CheckTorrent ==
  LET f == TorrentFile
  IN  /\ Working("torrent_check", "start")
      /\ \/ /\ torrent = "absent"
            /\ Finish([row EXCEPT !.ext = FALSE], "review", "other")
            /\ UNCHANGED << torrent, witness >>
         \/ /\ torrent = "downloading"
            /\ Finish(row, "none", "none")
            /\ UNCHANGED << torrent, witness >>
         \/ /\ torrent = "error"
            /\ Finish(row, "review", "other")
            /\ UNCHANGED << torrent, witness >>
         \/ /\ torrent = "complete"
            /\ IF Valid(f)
               THEN Finish(Registered(f, disk[f]), "downloaded", "none") /\ witness' = Kept(f)
               ELSE Finish(row, "review", "other") /\ UNCHANGED witness
            /\ UNCHANGED torrent
      /\ UNCHANGED << disk, links, remote, share, index, faults, visits >>

\* What qBittorrent removes with a torrent: a stalled one has not finished, so a
\* whole file is another torrent's and stays; a person who tags one failed gives
\* up what it has.
Discarded ==
  { f \in DOMAIN disk : f = TorrentFile /\ (torrent = "stalled" => ~Valid(f)) }

\* A stalled torrent, or one a person tagged failed, is removed with its files,
\* unless qBittorrent refuses ...
DropTorrent ==
  /\ Working("torrent_check", "start")
  /\ torrent \in { "stalled", "failed" }
  /\ \/ /\ torrent' = "absent"
        /\ Drop(Discarded)
        /\ witness' = [witness EXCEPT !.good = @ /\ ~\E f \in Discarded : Valid(f)]
        /\ proc' = [proc EXCEPT !.pc = "fallback"] /\ UNCHANGED row
     \/ Finish(row, "review", "other") /\ UNCHANGED << torrent, disk, links, witness >>
  /\ UNCHANGED << remote, share, index, faults, visits >>

\* ... and the row goes to the archive route without it.
FallbackTorrent ==
  /\ Working("torrent_check", "fallback")
  /\ \E fallback \in Fallbacks : LeaveTorrent([row EXCEPT !.ext = FALSE], fallback)
  /\ UNCHANGED << disk, links, torrent, remote, share, index, faults, visits, witness >>

----------------------------------------------------------------------------
(* Direct downloads, and the start of the optional ones.                   *)

Polls == row.method \in { "aria2", "hah" } /\ row.ext

\* The archive route has been disabled, whatever the row was waiting for.
RefuseDirect ==
  /\ Working("direct_download", "start") /\ ~Polls
  /\ "none" \in Fallbacks
  /\ Finish([row EXCEPT !.method = "unset", !.ext = FALSE], "block", "other")
  /\ UNCHANGED << disk, links, torrent, remote, share, index, faults, visits, witness >>

\* The archive is written to a name of this attempt and validated there.
TransferDirect ==
  /\ Working("direct_download", "start") /\ row.method = "direct"
  /\ \/ proc' = [proc EXCEPT !.pc = "promote", !.staged = "zip"] /\ UNCHANGED row
     \/ Finish(row, "review", "other")       \* it is no whole archive, or gone
     \/ Finish(row, "unavailable", "other")  \* the gallery itself is gone
     \/ RetryOrReview(row)
     \/ row.status = "cancel_requested" /\ Finish(row, "review", "other")
  /\ UNCHANGED << disk, links, torrent, remote, share, index, faults, visits, witness >>

\* The site, aria2 or qBittorrent is unavailable, or rejects the account.
ServiceDown ==
  /\ \/ Working("details", "start")
     \/ Working("direct_download", "start") /\ row.method # "hah"
     \/ Working("direct_download", "start") /\ ~Polls
     \/ Working("torrent_check", "start")
  /\ Fault
  /\ SystemRetry(row)
  /\ UNCHANGED << disk, links, torrent, remote, share, index, visits, witness >>

\* Under the row's lock: an accepted cancellation, or a file already under the
\* gallery's name, ends the attempt; otherwise the archive gets its name.
PromoteDirect ==
  /\ Working("direct_download", "promote")
  /\ IF row.status = "cancel_requested" \/ Has(FinalOfDirect)
     THEN Finish(row, "review", "other") /\ UNCHANGED << disk, links >>
     ELSE Put(FinalOfDirect, proc.staged)
          /\ proc' = [proc EXCEPT !.pc = "register"] /\ UNCHANGED row
  /\ UNCHANGED << torrent, remote, share, index, faults, visits, witness >>

RegisterDirect ==
  /\ Working("direct_download", "register") /\ row.method = "direct"
  /\ Finish(Registered(FinalOfDirect, "zip"), "downloaded", "none")
  /\ witness' = Kept(FinalOfDirect)
  /\ UNCHANGED << disk, links, torrent, remote, share, index, faults, visits >>

\* The archive is ordered from aria2 or H@H.
StartRemote ==
  /\ Working("direct_download", "start")
  /\ row.method \in { "aria2", "hah" } /\ ~row.ext
  /\ \/ remote' = "active" /\ proc' = [proc EXCEPT !.pc = "record"] /\ UNCHANGED row
     \/ Finish(row, "review", "other") /\ UNCHANGED remote
     \/ row.method = "aria2" /\ Finish(row, "unavailable", "other") /\ UNCHANGED remote
     \/ RetryOrReview(row) /\ UNCHANGED remote
  /\ UNCHANGED << disk, links, torrent, share, index, faults, visits, witness >>

\* An order that was taken and not answered is given again.
OrderUnanswered ==
  /\ Working("direct_download", "start")
  /\ row.method \in { "aria2", "hah" } /\ ~row.ext
  /\ Fault
  /\ remote' = "active"
  /\ RetryOrReview(row)
  /\ UNCHANGED << disk, links, torrent, share, index, visits, witness >>

RecordRemote ==
  /\ Working("direct_download", "record")
  /\ Finish([row EXCEPT !.ext = TRUE], "none", "none")
  /\ UNCHANGED << disk, links, torrent, remote, share, index, faults, visits, witness >>

\* H@H leaves the gallery in a directory, which is registered where it is.
HahDirectory == [ at |-> "hah_download", name |-> GalleryName ]

PollHah ==
  /\ Working("direct_download", "start") /\ Polls /\ row.method = "hah"
  /\ IF Has(HahDirectory)
     THEN Finish(Registered(HahDirectory, "dir"), "downloaded", "none") /\ witness' = Kept(HahDirectory)
     ELSE Finish(row, "none", "none") /\ UNCHANGED witness
  /\ UNCHANGED << disk, links, torrent, remote, share, index, faults, visits >>

\* aria2's file has a name of the next generation until it is validated; a
\* download that failed is never complete, and is polled again.
FinalOfAria2 == [ at |-> "aria2_download", name |-> NextName ]

PollAria2 ==
  /\ Working("direct_download", "start") /\ Polls /\ row.method = "aria2"
  /\ \/ remote \in { "active", "failed" } /\ Finish(row, "none", "none") /\ UNCHANGED << disk, links, remote >>
     \/ /\ remote = "done" /\ ~Has(FinalOfAria2)
        /\ Put(FinalOfAria2, "zip") /\ remote' = "taken"
        /\ proc' = [proc EXCEPT !.pc = "register"] /\ UNCHANGED row
     \/ /\ remote \in { "done", "taken" }    \* not whole, or its name is taken
        /\ Finish(row, "review", "other") /\ UNCHANGED << disk, links, remote >>
  /\ UNCHANGED << torrent, share, index, faults, visits, witness >>

RegisterAria2 ==
  /\ Working("direct_download", "register") /\ row.method = "aria2"
  /\ Finish(Registered(FinalOfAria2, "zip"), "downloaded", "none")
  /\ witness' = Kept(FinalOfAria2)
  /\ UNCHANGED << disk, links, torrent, remote, share, index, faults, visits >>

----------------------------------------------------------------------------
(* qBittorrent, aria2 and H@H work on their own.                           *)

\* A torrent completes with an archive, a directory or a damaged file (what is
\* already there whole stays), stalls, or fails.
TorrentProgress ==
  LET f == TorrentFile
  IN  /\ torrent = "downloading"
      /\ \/ /\ torrent' = "complete"
            /\ IF Valid(f) THEN UNCHANGED << disk, links >>
                           ELSE \E c \in { "zip", "dir", "cut" } :
                                  (Has(f) => c # "dir") /\ Rewrite(f, c)
         \/ torrent' \in { "stalled", "error" } /\ UNCHANGED << disk, links >>
      /\ UNCHANGED << row, proc, remote, share, index, faults, visits, witness >>

\* A person tags a torrent failed that has not finished, or takes it away.
TorrentDisturbed ==
  /\ torrent \in { "downloading", "error" }
  /\ Fault
  /\ torrent' \in { "failed", "absent" }
  /\ UNCHANGED << row, proc, disk, links, remote, share, index, visits, witness >>

RemoteProgress ==
  /\ remote = "active"
  /\ \/ /\ remote' = "done"
        /\ IF row.method = "hah" THEN Put(HahDirectory, "dir") ELSE UNCHANGED << disk, links >>
     \/ remote' = "failed" /\ UNCHANGED << disk, links >>
  /\ UNCHANGED << row, proc, torrent, share, index, faults, visits, witness >>
=============================================================================
