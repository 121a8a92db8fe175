----------------------------- MODULE Uploading -----------------------------
(***************************************************************************)
(* From a validated file to an archive the library knows: over HTTP, where *)
(* the library compares the bytes, or through its shared directory, where  *)
(* the uploader does and the library's watcher imports what appears.       *)
(*                                                                         *)
(* The library knows an archive by its first bytes, the same in a whole    *)
(* copy and in one cut short later.                                        *)
(***************************************************************************)
EXTENDS ArchiveRow

CONSTANT Backends    \* the backends the configured mode and threshold select

ASSUME BackendAssumption ==
  Backends # {} /\ Backends \subseteq { "lanraragi_http", "lanraragi_filesystem" }

OwnName == row.file.name

\* What the library holds under a name has this archive's identity and bytes.
Matches(n) == index # Unknown /\ index = n /\ share[n] = "zip"

\* A file of the shared directory, read back, has the bytes that were validated.
SameBytes(c) == c = "zip"

\* What a transfer may leave under its temporary name: all of the file, or less.
Transferred == { Held(row.file), "cut" }

\* The file is not what was validated: it is validated again.
Revalidate == Finish([row EXCEPT !.hashed = FALSE], "revalidate", "none")
RevalidateAfterError == Finish([row EXCEPT !.hashed = FALSE], "revalidate", "other")

(***************************************************************************)
(* The local checks, and what the library already knows.                   *)
(***************************************************************************)
BeginUpload(backend) ==
  LET changed == Held(row.file) \in { "none", "dir", "cut" }
      rotten == backend = "lanraragi_filesystem" /\ Held(row.file) = "rot"
  IN  /\ Working("upload", "start")
      /\ \/ ~(row.sized /\ row.hashed) /\ Finish(row, "review", "other")
         \/ row.sized /\ row.hashed /\ changed /\ Revalidate
         \/ row.sized /\ row.hashed /\ ~changed /\ rotten /\ RevalidateAfterError
         \/ /\ row.sized /\ row.hashed /\ ~changed /\ ~rotten
            /\ \/ /\ index # Unknown /\ ~Matches(OwnName)
                  /\ Finish(row, "review", "other")
               \/ /\ Matches(OwnName)
                  /\ proc' = [proc EXCEPT !.pc = "metadata"] /\ UNCHANGED row
               \/ /\ index = Unknown
                  /\ proc' = [proc EXCEPT !.pc = IF backend = "lanraragi_http"
                                                 THEN "put" ELSE "transfer"]
                  /\ UNCHANGED row
      /\ UNCHANGED << disk, links, torrent, remote, share, index, faults, visits, witness >>

\* The library, its watcher or the share cannot be used now: later, however
\* often; an answer nobody expects goes to a person.
UploadFails ==
  /\ Working("upload", "start") \/ Working("upload", "metadata")
  /\ Fault
  /\ \/ Finish(row, "retry", "other")
     \/ Finish(row, "review", "other")
  /\ UNCHANGED << disk, links, torrent, remote, share, index, visits, witness >>

----------------------------------------------------------------------------
(* HTTP.                                                                   *)

\* The library refuses a name or an identity it has, bytes that are not those
\* announced, and a type it does not take; else it keeps the archive.
PutArchive ==
  /\ Working("upload", "put")
  /\ \/ /\ Held(row.file) \in { "rot", "cut" }
        /\ RevalidateAfterError /\ UNCHANGED << share, index >>
     \/ /\ OwnName \in DOMAIN share \/ index # Unknown
        /\ Finish(row, "review", "duplicate") /\ UNCHANGED << share, index >>
     \/ /\ proc' = [proc EXCEPT !.pc = "quarantine"] /\ UNCHANGED << row, share, index >>
     \/ Finish(row, "review", "other") /\ UNCHANGED << share, index >>
     \/ /\ Held(row.file) = "zip" /\ OwnName \notin DOMAIN share /\ index = Unknown
        /\ share' = With(share, OwnName, "zip") /\ index' = OwnName
        /\ proc' = [proc EXCEPT !.pc = "metadata"] /\ UNCHANGED row
  /\ UNCHANGED << disk, links, torrent, remote, faults, visits, witness >>

\* The answer is lost or an error of the server, whether the library has taken
\* the archive or not; or the server asks to come back later.
PutUnanswered ==
  /\ Working("upload", "put")
  /\ Fault
  /\ \/ UNCHANGED << share, index >>
     \/ /\ Held(row.file) = "zip" /\ OwnName \notin DOMAIN share /\ index = Unknown
        /\ share' = With(share, OwnName, "zip") /\ index' = OwnName
  /\ \/ Finish(row, "retry", "other")
     \/ Finish(row, "review", "other")
  /\ UNCHANGED << disk, links, torrent, remote, visits, witness >>

----------------------------------------------------------------------------
(* The shared directory.                                                   *)

\* A file that is there under the name is the archive itself, published by an
\* earlier attempt, or a conflict; else the bytes go to a name of this attempt,
\* as they are or in part; that the source is too short is noticed at once.
TransferFile ==
  /\ Working("upload", "transfer")
  /\ \/ /\ OwnName \in DOMAIN share /\ SameBytes(share[OwnName])
        /\ proc' = [proc EXCEPT !.pc = "wait"] /\ UNCHANGED row
     \/ /\ OwnName \in DOMAIN share /\ ~SameBytes(share[OwnName])
        /\ Finish(row, "review", "duplicate")
     \/ /\ OwnName \notin DOMAIN share
        /\ IF Held(row.file) = "cut"
           THEN Finish(row, "retry", "other")
           ELSE /\ \E c \in Transferred :
                     proc' = [proc EXCEPT !.pc = "staged", !.staged = c]
                /\ UNCHANGED row
  /\ UNCHANGED << disk, links, torrent, remote, share, index, faults, visits, witness >>

\* Mutant: what was transferred gets its name without being read back.
PublishUnread ==
  /\ Working("upload", "staged")
  /\ IF OwnName \in DOMAIN share
     THEN Finish(row, "review", "duplicate") /\ UNCHANGED share
     ELSE /\ share' = With(share, OwnName, proc.staged)
          /\ proc' = [proc EXCEPT !.pc = "wait"] /\ UNCHANGED row
  /\ UNCHANGED << disk, links, torrent, remote, index, faults, visits, witness >>

\* Mutant: the rename replaces a file that appeared under the name meanwhile.
PublishOver ==
  /\ Working("upload", "staged")
  /\ IF ~SameBytes(proc.staged)
     THEN Finish(row, "review", "other") /\ UNCHANGED share
     ELSE /\ share' = With(share, OwnName, proc.staged)
          /\ proc' = [proc EXCEPT !.pc = "wait"] /\ UNCHANGED row
  /\ UNCHANGED << disk, links, torrent, remote, index, faults, visits, witness >>

\* Read back, compared, and renamed, which replaces nothing.
Publish ==
  /\ Working("upload", "staged")
  /\ \/ /\ ~SameBytes(proc.staged)
        /\ Finish(row, "review", "other") /\ UNCHANGED share
     \/ /\ SameBytes(proc.staged) /\ OwnName \in DOMAIN share
        /\ Finish(row, "review", "duplicate") /\ UNCHANGED share
     \/ /\ SameBytes(proc.staged) /\ OwnName \notin DOMAIN share
        /\ share' = With(share, OwnName, proc.staged)
        /\ proc' = [proc EXCEPT !.pc = "wait"] /\ UNCHANGED row
  /\ UNCHANGED << disk, links, torrent, remote, index, faults, visits, witness >>

\* The share fails before anything is published: again, however often.
ShareDown ==
  /\ Working("upload", "transfer") \/ Working("upload", "staged")
  /\ Fault
  /\ SystemRetry(row)
  /\ UNCHANGED << disk, links, torrent, remote, share, index, visits, witness >>

\* The watcher imports the file, something else, or nothing in time.
AwaitImport ==
  /\ Working("upload", "wait")
  /\ \/ /\ Matches(OwnName)
        /\ proc' = [proc EXCEPT !.pc = "metadata"] /\ UNCHANGED row
     \/ /\ ~Matches(OwnName)
        /\ Finish(row, "review", "other")
  /\ UNCHANGED << disk, links, torrent, remote, share, index, faults, visits, witness >>

----------------------------------------------------------------------------
\* The metadata is written and read back with the size and the name; what was
\* read back in part leaves the archive's ID on the row.
Confirm ==
  /\ Working("upload", "metadata")
  /\ \/ Matches(OwnName) /\ Finish([row EXCEPT !.lrr = TRUE], "uploaded", "none")
     \/ Matches(OwnName) /\ Finish([row EXCEPT !.lrr = TRUE], "review", "other")
     \/ ~Matches(OwnName) /\ \E event \in { "retry", "review" } : Finish(row, event, "other")
  /\ UNCHANGED << disk, links, torrent, remote, share, index, faults, visits, witness >>

----------------------------------------------------------------------------
(* The library works on its own.                                           *)

\* Its watcher finds a file whose archive it does not know.
ShinobuImport ==
  /\ index = Unknown
  /\ \E n \in DOMAIN share : share[n] # "other" /\ index' = n
  /\ UNCHANGED << row, proc, disk, links, torrent, remote, share, faults, visits, witness >>

\* Another archive takes the name this one would be published under.
NameTaken ==
  /\ Fault
  /\ row.file # NoFile /\ OwnName \notin DOMAIN share
  /\ share' = With(share, OwnName, "other")
  /\ UNCHANGED << row, proc, disk, links, torrent, remote, index, visits, witness >>

\* A person removes the archive from the library, while it is uploaded here or
\* before it is cleaned up (the check and the removal of a cleanup are one):
\* the registered copy, if it is still whole, is then the only one.
LibraryForgets ==
  /\ proc.op # "cleanup" /\ row.status \in { "uploading", "uploaded" } /\ index # Unknown
  /\ Fault
  /\ share' = Without(share, { index })
  /\ index' = Unknown
  /\ witness' = [witness EXCEPT !.purged = TRUE,
                                !.good = Valid(row.file)]
  /\ UNCHANGED << row, proc, disk, links, torrent, remote, visits >>
=============================================================================
