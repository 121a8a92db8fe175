----------------------------- MODULE ArchiveRow -----------------------------
(***************************************************************************)
(* One archive on its way from the download to the library: its row, the   *)
(* files it leaves on disk, the services that work for it, and the process *)
(* that holds its lease.  How processes compete for a row is TaskLease;    *)
(* here one process at a time holds it, may die between any two effects,   *)
(* and its lease is released by a person once it is gone.                  *)
(*                                                                         *)
(* A file is a place and a name.  Names are numbers: the gallery's own     *)
(* name is 0, a generation has the name of its number, and the name a      *)
(* person chose after a conflict is none of them.                          *)
(***************************************************************************)
EXTENDS ArchiveStates, TorrentChoice

CONSTANTS
  Fallbacks,    \* the values fallback_method takes
  RetryLimit,   \* supervisor.retry_limit
  MaxFault,     \* bound: crashes, outages and losses
  MaxVisit      \* bound: decisions a person takes

ASSUME FallbackAssumption ==
  Fallbacks # {} /\ Fallbacks \subseteq { "direct", "aria2", "hah", "none" }
ASSUME BoundAssumption ==
  RetryLimit \in Nat \ {0} /\ MaxFault \in Nat /\ MaxVisit \in Nat

VARIABLES
  row,       \* the manga row
  proc,      \* the process that holds its lease
  disk,      \* disk[f]: what each existing file holds
  links,     \* which of them have a second name, under NewName
  torrent,   \* its torrent in qBittorrent
  remote,    \* its download in aria2 or H@H
  share,     \* share[n]: what the library's directory holds under each name
  index,     \* under which name the library knows this archive's ID
  faults, visits,
  witness    \* history, read by the properties only

vars == << row, proc, disk, links, torrent, remote, share, index, faults, visits, witness >>

GalleryName == 0
NewName == -1
Name == Nat \cup { NewName }

\* The library does not know the archive's ID.
Unknown == -2

Location ==
  { "direct_download", "torrent_download", "aria2_download", "hah_download",
    "prepared", "quarantine" }
File == [ at : Location, name : Name ]
NoFile == [ at |-> "none", name |-> GalleryName ]

\* The name a person chose, a hard link beside the file's own until either goes.
SecondName(f) == [f EXCEPT !.name = NewName]

\* A whole archive or directory; a file cut short; one that rotted in place.
Content == { "zip", "dir", "cut", "rot" }

Method == { "unset", "torrent", "direct", "aria2", "hah" }

\* What the row remembers of its last error, as far as a decision asks for it.
TorrentError == { "warning", "video_torrent", "invalid_torrent" }
Error == TorrentError \cup { "none", "duplicate", "other" }

Row ==
  [ status : Status, method : Method, ext : BOOLEAN, file : File \cup { NoFile },
    gen : Nat, sized : BOOLEAN, hashed : BOOLEAN, rename : BOOLEAN,
    tries : 0 .. RetryLimit, err : Error, lrr : BOOLEAN, skipVideo : BOOLEAN,
    review : [ scope : { NoScope } \cup { Scope(p) : p \in Pages }, warnings : SUBSET Warning,
               accepted : SUBSET Warning, choice : Nat, next : BOOLEAN ] ]

Step ==
  { "idle", "dead", "start", "submit", "record", "fallback", "promote", "register",
    "unlink", "check", "quarantine", "quarantined", "put", "transfer", "staged",
    "wait", "metadata", "files", "detach" }

NoChosen == [ page |-> {}, id |-> 0, personal |-> FALSE ]

Process ==
  [ pc : Step, op : Operation \cup { "none" },
    staged : Content \cup { "none" },      \* a temporary file of this attempt
    allowed : BOOLEAN,                     \* the one-shot permission it consumed
    chosen : [ page : Pages \cup { {} }, id : Nat, personal : BOOLEAN ] ]

\* A decision of a person: for which list, which of its torrents, which warning.
Decision ==
  [ scope : { Scope(p) : p \in Pages }, choice : Nat, warning : Warning ]

Witness ==
  [ good : BOOLEAN,      \* a whole copy was registered, and nobody else destroyed it
    purged : BOOLEAN,    \* a person removed it from the library
    permit : { "none", "given", "held" },  \* by the person, by this attempt
    granted : SUBSET Decision ]

Idle == [ pc |-> "idle", op |-> "none", staged |-> "none", allowed |-> FALSE,
          chosen |-> NoChosen ]

TypeOK ==
  /\ row \in Row
  /\ proc \in Process
  /\ DOMAIN disk \subseteq File /\ \A f \in DOMAIN disk : disk[f] \in Content
  /\ links \subseteq DOMAIN disk /\ \A f \in links : SecondName(f) \in DOMAIN disk
  /\ torrent \in { "absent", "downloading", "complete", "stalled", "failed", "error" }
  /\ remote \in { "none", "active", "done", "failed", "taken" }
  /\ DOMAIN share \subseteq Name
  /\ \A n \in DOMAIN share : share[n] \in { "zip", "cut", "rot", "other" }
  /\ index \in Name \cup { Unknown }
  /\ faults \in 0 .. MaxFault /\ visits \in 0 .. MaxVisit
  /\ witness \in Witness

----------------------------------------------------------------------------
\* A directory with one more name, and without some.
With(files, f, c) == [g \in DOMAIN files \cup {f} |-> IF g = f THEN c ELSE files[g]]
Without(files, fs) == [g \in DOMAIN files \ fs |-> files[g]]

\* Two names of one file: what happens to it shows under both.
Linked(fs) == { f \in links : f \in fs \/ SecondName(f) \in fs }
Names(f) == {f} \cup { SecondName(g) : g \in links \cap {f} }
                \cup { g \in links : SecondName(g) = f }

Put(f, c) == disk' = With(disk, f, c) /\ UNCHANGED links
Drop(fs) == disk' = Without(disk, fs) /\ links' = links \ Linked(fs)
Move(f, g) ==
  disk' = With(Without(disk, {f}), g, disk[f]) /\ links' = links \ Linked({f})
Rewrite(f, c) ==
  /\ disk' = [g \in DOMAIN disk \cup {f} |-> IF g \in Names(f) THEN c ELSE disk[g]]
  /\ UNCHANGED links

Has(f) == f \in DOMAIN disk
Held(f) == IF Has(f) THEN disk[f] ELSE "none"

IsFile(f) == Held(f) \notin { "none", "dir" }

\* validate_artifact: what it accepts.
Valid(f) == Held(f) \in { "zip", "dir" }

NextName == row.gen + 1
Renamed == SecondName(row.file)

Working(op, pc) == proc.op = op /\ proc.pc = pc

\* A failure that no retry budget counts happens a bounded number of times.
Fault == faults < MaxFault /\ faults' = faults + 1

----------------------------------------------------------------------------
(***************************************************************************)
(* finish(): the row with the handler's changes takes the status the event *)
(* leads to; a request to cancel wins; an event the status does not allow  *)
(* is an error, for manual review.  Without an error the retry budget is   *)
(* renewed.                                                                *)
(***************************************************************************)
EndStatus(r, event) ==
  IF r.status = "cancel_requested"
  THEN IF r.method = "direct" THEN "manual_review" ELSE "cancelled"
  ELSE IF event = "none" THEN r.status
  ELSE IF CanTransition(r.status, event) THEN TransitionTarget(r.status, event)
  ELSE "manual_review"

Allowed(r, event) ==
  event = "none" \/ r.status = "cancel_requested" \/ CanTransition(r.status, event)

Finish(r, event, err) ==
  LET told == IF err = "none" /\ ~Allowed(r, event) THEN "other" ELSE err
  IN  /\ row' = [r EXCEPT !.status = EndStatus(r, event), !.err = told,
                          !.tries = IF told = "none" THEN 0 ELSE @]
      /\ proc' = Idle

RetryOf(op, r) ==
  CASE op = "cleanup" -> "cleanup_retry"
    [] op = "details" -> "details_retry"
    [] op = "validate" /\ r.rename -> "rename_retry"
    [] OTHER -> "retry"

\* Mutant: a temporary failure is retried however often it has happened.
RetryForever(r) == Finish(r, RetryOf(proc.op, r), "other")

\* A temporary failure: again later, until the budget is spent.
RetryOrReview(r) ==
  IF r.tries >= RetryLimit /\ proc.op # "details"
  THEN Finish(r, "review", "other")
  ELSE Finish(r, RetryOf(proc.op, r), "other")

\* A failure of the system: again later, whatever the budget.
SystemRetry(r) == Finish(r, RetryOf(proc.op, r), "other")

\* Mutant: what the configuration says is taken for a method, "none" too.
LeaveTorrentAnyway(r, fallback) == Finish([r EXCEPT !.method = fallback], "fallback", "other")

\* No archive route is configured, or one is: the failed torrent's successor.
LeaveTorrent(r, fallback) ==
  IF fallback = "none"
  THEN Finish([r EXCEPT !.method = "unset", !.ext = FALSE], "block", "other")
  ELSE Finish([r EXCEPT !.method = fallback], "fallback", "other")

----------------------------------------------------------------------------
\* The operation's conditions on a row, beside its status and its lease.
Eligible(op) ==
  CASE op = "details" -> row.status = "details_pending" /\ ~row.ext
    [] op = "torrent_download" -> row.method \in { "unset", "torrent" } /\ ~row.ext
    [] op = "torrent_check" -> row.method = "torrent" /\ row.ext
    [] op = "direct_download" -> row.method \in { "direct", "aria2", "hah" }
    [] OTHER -> TRUE

\* The Supervisor starts an operation's process, which claims the row.
Claim(op) ==
  /\ proc.pc = "idle"
  /\ row.status \in ClaimableStates[op]
  /\ Eligible(op)
  /\ row' = [row EXCEPT !.status = ExecutionState(op, @),
                        !.tries = IF @ < RetryLimit THEN @ + 1 ELSE @]
  /\ proc' = [Idle EXCEPT !.pc = "start", !.op = op]
  /\ UNCHANGED << disk, links, torrent, remote, share, index, faults, visits, witness >>

\* The gallery's details are fetched; a gallery without torrents takes the
\* archive route at once, or waits when there is none.  (Module Replacement
\* says what the details change in other rows, and when an outdated one is
\* deleted.)
FetchDetails ==
  /\ Working("details", "start")
  /\ \/ \E listed \in BOOLEAN, fallback \in Fallbacks :
          IF listed \/ row.method \notin { "unset", "torrent" }
          THEN Finish(row, "details_ready", "none")
          ELSE IF fallback = "none"
               THEN Finish([row EXCEPT !.method = "unset", !.ext = FALSE], "block", "other")
               ELSE Finish([row EXCEPT !.method = fallback], "details_ready", "none")
     \/ Finish(row, "outdate", "none")        \* a newer version is to replace it
     \/ Finish(row, "unavailable", "other")   \* the gallery is gone
     \/ Finish(row, "review", "other")        \* its page cannot be used
  /\ UNCHANGED << disk, links, torrent, remote, share, index, faults, visits, witness >>

FinalOfDirect == [ at |-> "direct_download", name |-> GalleryName ]

\* Whether this attempt has told the database that something outside may change.
EffectStarted ==
  /\ proc.pc # "start"
  /\ \/ proc.op \in { "torrent_download", "torrent_check", "direct_download", "upload" }
     \/ proc.op = "cleanup" /\ row.method = "torrent" /\ row.ext

\* The maintenance window stops the process, which settles its own attempt:
\* back in the queue when nothing outside can have happened, else to review.
Pause ==
  /\ proc.pc \notin { "idle", "dead" }
  /\ Fault
  /\ IF \/ ~EffectStarted
        \/ /\ proc.op = "direct_download" /\ row.method = "direct" /\ ~row.ext
           /\ ~Has(FinalOfDirect)
     THEN SystemRetry([row EXCEPT !.tries = IF @ = 0 THEN 0 ELSE @ - 1])
     ELSE Finish(row, "review", "other")
  /\ UNCHANGED << disk, links, torrent, remote, share, index, visits, witness >>

\* The process is killed between two of its effects; its lease stays on the row.
Crash ==
  /\ proc.pc \notin { "idle", "dead" }
  /\ Fault
  /\ proc' = [Idle EXCEPT !.pc = "dead"]
  /\ UNCHANGED << row, disk, links, torrent, remote, share, index, visits, witness >>
=============================================================================
