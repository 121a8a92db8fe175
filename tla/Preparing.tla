----------------------------- MODULE Preparing -----------------------------
(***************************************************************************)
(* Between the download and the library: a file is renamed when a person   *)
(* asked for it, validated, quarantined when it is not whole, packed when  *)
(* it is a directory; and what is left of it is removed after the upload.  *)
(***************************************************************************)
EXTENDS ArchiveRow

(* Renaming and validation.                                                *)

\* The name is given with a hard link, then the old one is taken away; an
\* attempt that finds two names of one file continues where the last one was
\* stopped.  Two different files, or none, are for a person.
BeginRename ==
  LET fresh == IsFile(row.file) /\ ~Has(Renamed)
      linked == row.file \in links
      done == IsFile(Renamed) /\ (row.file = Renamed \/ ~Has(row.file))
  IN  /\ Working("validate", "start") /\ row.rename
      /\ \/ /\ fresh
            /\ disk' = With(disk, Renamed, disk[row.file]) /\ links' = links \cup { row.file }
            /\ proc' = [proc EXCEPT !.pc = "unlink"] /\ UNCHANGED row
         \/ /\ linked
            /\ proc' = [proc EXCEPT !.pc = "unlink"] /\ UNCHANGED << row, disk, links >>
         \/ /\ ~fresh /\ ~linked
            /\ IF done THEN proc' = [proc EXCEPT !.pc = "check"] /\ UNCHANGED row
                       ELSE Finish(row, "review", "other")
            /\ UNCHANGED << disk, links >>
      /\ UNCHANGED << torrent, remote, share, index, faults, visits, witness >>

UnlinkSource ==
  /\ Working("validate", "unlink")
  /\ Drop({ row.file })
  /\ proc' = [proc EXCEPT !.pc = "check"]
  /\ UNCHANGED << row, torrent, remote, share, index, faults, visits, witness >>

BeginValidate ==
  /\ Working("validate", "start") /\ ~row.rename
  /\ proc' = [proc EXCEPT !.pc = "check"]
  /\ UNCHANGED << row, disk, links, torrent, remote, share, index, faults, visits, witness >>

\* The row as the renaming left it; it is written when the attempt ends.
AfterRename ==
  IF proc.op = "validate" /\ row.rename
  THEN [row EXCEPT !.file = Renamed, !.sized = FALSE, !.hashed = FALSE]
  ELSE row

\* A whole file goes to the library, a directory is packed first; nothing there
\* is for a person to decide; anything else goes to quarantine.
Validate ==
  LET seen == AfterRename
      ended == [seen EXCEPT !.rename = FALSE]
  IN  /\ Working("validate", "check")
      /\ \/ /\ Held(seen.file) = "zip"
            /\ Finish([ended EXCEPT !.sized = TRUE, !.hashed = TRUE], "upload", "none")
         \/ /\ Held(seen.file) = "dir"
            /\ Finish([ended EXCEPT !.sized = TRUE], "prepare", "none")
         \/ /\ ~Has(seen.file)
            /\ Finish(ended, "review", "other")
         \/ /\ Has(seen.file) /\ ~Valid(seen.file)
            /\ proc' = [proc EXCEPT !.pc = "quarantine"] /\ UNCHANGED row
      /\ UNCHANGED << disk, links, torrent, remote, share, index, faults, visits, witness >>

\* The disk fails at an inspection, while a name changes, or at the move.
DiskDown ==
  /\ \/ proc.op = "validate" /\ proc.pc \in { "start", "unlink", "check" }
     \/ proc.pc = "quarantine"
  /\ Fault
  /\ SystemRetry(CASE proc.pc = "check" -> AfterRename
                   [] proc.pc = "quarantine" /\ proc.op = "validate" ->
                        [AfterRename EXCEPT !.rename = FALSE]
                   [] OTHER -> row)
  /\ UNCHANGED << disk, links, torrent, remote, share, index, visits, witness >>

\* The name in quarantine is of this attempt: no other file has it.
QuarantineFile(n) == [ at |-> "quarantine", name |-> n ]

Unused(n) ==
  /\ ~Has(QuarantineFile(n))
  /\ \A m \in 0 .. n - 1 : Has(QuarantineFile(m))

MoveToQuarantine ==
  /\ proc.pc = "quarantine" /\ Has(AfterRename.file)
  /\ \E n \in 0 .. Cardinality(DOMAIN disk) :
       /\ Unused(n)
       /\ Move(AfterRename.file, QuarantineFile(n))
       /\ proc' = [proc EXCEPT !.pc = "quarantined", !.chosen.id = n]
  /\ UNCHANGED << row, torrent, remote, share, index, faults, visits, witness >>

\* After a validation the fingerprint is gone too, after an upload it stays.
Quarantine ==
  LET moved == [AfterRename EXCEPT !.file = QuarantineFile(proc.chosen.id), !.gen = NextName]
  IN  /\ proc.pc = "quarantined"
      /\ Finish(IF proc.op = "validate"
                THEN [moved EXCEPT !.sized = FALSE, !.hashed = FALSE, !.rename = FALSE]
                ELSE moved, "quarantine", "other")
      /\ UNCHANGED << disk, links, torrent, remote, share, index, faults, visits, witness >>

----------------------------------------------------------------------------
(* Packing a directory.                                                    *)

PreparedFile == [ at |-> "prepared", name |-> NextName ]

\* A file under the next generation's name is an error of the system: retried.
Pack ==
  /\ Working("prepare", "start")
  /\ IF Held(row.file) # "dir"
     THEN Finish(row, "review", "other")
     ELSE IF Has(PreparedFile)
          THEN SystemRetry(row)
          ELSE proc' = [proc EXCEPT !.pc = "promote", !.staged = "zip"] /\ UNCHANGED row
  /\ UNCHANGED << disk, links, torrent, remote, share, index, faults, visits, witness >>

PackFails ==
  /\ Working("prepare", "start")
  /\ Fault
  /\ SystemRetry(row)
  /\ UNCHANGED << disk, links, torrent, remote, share, index, visits, witness >>

PromotePrepared ==
  /\ Working("prepare", "promote")
  /\ Put(PreparedFile, proc.staged)
  /\ proc' = [proc EXCEPT !.pc = "register"]
  /\ UNCHANGED << row, torrent, remote, share, index, faults, visits, witness >>

RegisterPrepared ==
  /\ Working("prepare", "register")
  /\ Finish([row EXCEPT !.file = PreparedFile, !.gen = NextName, !.sized = TRUE,
                        !.hashed = TRUE], "ready", "none")
  /\ witness' = [witness EXCEPT !.good = @ \/ Valid(PreparedFile)]
  /\ UNCHANGED << disk, links, torrent, remote, share, index, faults, visits >>

----------------------------------------------------------------------------
(* After the upload.                                                       *)

\* Mutant: the local copy is removed without asking the library once more.
CheckNothing ==
  /\ Working("cleanup", "start") /\ row.lrr
  /\ proc' = [proc EXCEPT !.pc = "files"]
  /\ UNCHANGED << row, disk, links, torrent, remote, share, index, faults, visits, witness >>

\* The library must still know the archive; its torrent is removed, with the
\* files left to the next step.
CheckLibrary ==
  /\ Working("cleanup", "start")
  /\ IF ~row.lrr \/ index = Unknown
     THEN Finish(row, "review", "other") /\ UNCHANGED torrent
     ELSE /\ proc' = [proc EXCEPT !.pc = "files"]
          /\ torrent' = IF row.method = "torrent" /\ row.ext THEN "absent" ELSE torrent
          /\ UNCHANGED row
  /\ UNCHANGED << disk, links, remote, share, index, faults, visits, witness >>

\* The library or qBittorrent, or aria2 after the files, answers that it cannot
\* now, or not at all.
CleanupFails ==
  /\ \/ Working("cleanup", "start") /\ row.lrr
     \/ Working("cleanup", "detach") /\ row.method = "aria2" /\ row.ext
  /\ \/ RetryOrReview(row) /\ UNCHANGED faults
     \/ SystemRetry(row) /\ Fault
  /\ UNCHANGED << disk, links, torrent, remote, share, index, visits, witness >>

\* The gallery's directory, or the registered file; a file that cannot be
\* removed stays, with a remark.
RemoveFiles ==
  LET mine == IF row.file.at = "torrent_download"
              THEN { f \in DOMAIN disk : f.at = "torrent_download" }
              ELSE { row.file }
  IN  /\ Working("cleanup", "files")
      /\ \/ Drop(mine) /\ UNCHANGED faults
         \/ Fault /\ UNCHANGED << disk, links >>
      /\ proc' = [proc EXCEPT !.pc = "detach"]
      /\ UNCHANGED << row, torrent, remote, share, index, visits, witness >>

EndCleanup ==
  /\ Working("cleanup", "detach")
  /\ remote' = IF row.method = "aria2" /\ row.ext THEN "none" ELSE remote
  /\ Finish(row, "cleanup", "none")
  /\ UNCHANGED << disk, links, torrent, share, index, faults, visits, witness >>
=============================================================================
