----------------------------- MODULE Discovery -----------------------------
(***************************************************************************)
(* How an archive comes into the queue.  The collector finds its gallery   *)
(* on a listing page and keeps it back while it is new; screening filters  *)
(* it, queues it, or compares it with the other versions of the archive.   *)
(* Both are one transaction and hold no lease.                             *)
(***************************************************************************)
EXTENDS ArchiveRow, VersionChoice

CONSTANT Versions    \* what this gallery and its rivals may look like

ASSUME VersionsAssumption ==
  Versions \subseteq Version /\ \A v, w \in Versions : v.age = w.age => v = w

\* What the policy makes of a gallery's name, category, tags and rating.
ScreenAction == { "filter_out", "queue", "compare_group" }

\* The gallery is met again after its observation period.  (Met within it, or
\* in any other status, only what the listing says of it changes.)
Collect ==
  /\ row.status = "deferred"
  /\ row' = [row EXCEPT !.status = "discovered"]
  /\ UNCHANGED << proc, disk, links, torrent, remote, share, index, faults, visits, witness >>

\* The rows of the same name, whatever became of them, as far as they compete:
\* those kept back or filtered out do not.
Rivals(own) == SUBSET (Versions \ { own })

ScreenOutcome(action, named, own, rivals) ==
  CASE action = "filter_out" -> "filtered_out"
    [] action = "queue" -> "details_pending"
    [] action = "compare_group" /\ ~named -> "manual_review"
    [] action = "compare_group" /\ named ->
         IF own \in Selected({ own } \cup rivals) THEN "details_pending" ELSE "skipped"

\* One row of a batch.
Screen ==
  /\ row.status = "discovered"
  /\ \E action \in ScreenAction, named \in BOOLEAN, own \in Versions :
       \E rivals \in Rivals(own) :
         row' = [row EXCEPT !.status = ScreenOutcome(action, named, own, rivals)]
  /\ UNCHANGED << proc, disk, links, torrent, remote, share, index, faults, visits, witness >>
=============================================================================
