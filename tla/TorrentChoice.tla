--------------------------- MODULE TorrentChoice ---------------------------
(***************************************************************************)
(* Which torrent of a gallery's list is taken, and which decisions that    *)
(* leaves to a person.  A page is the list the site shows at one moment;   *)
(* what a person accepts is bound to what identified the list they saw.    *)
(***************************************************************************)
EXTENDS Integers, FiniteSets

CONSTANTS
  Pages,       \* the lists the site may show for this gallery
  Estimated    \* the size the gallery's details page announces

ASSUME EstimatedAssumption == Estimated \in Nat

\* One row of the list; mine: the gallery's own uploader made it, private: it
\* also has a link bound to the account that reads the page.
Option ==
  [ id : Nat \ {0}, size : Nat, seeds : Nat, posted : Nat, outdated : BOOLEAN,
    resampled : BOOLEAN, video : BOOLEAN, mine : BOOLEAN, private : BOOLEAN ]

\* A list as it is read: every torrent is listed once.
Page(p) ==
  p \subseteq Option /\ IsFiniteSet(p) /\ \A c, d \in p : c.id = d.id => c = d

ASSUME PagesAssumption == \A p \in Pages : Page(p)

Warning == { "video_torrent", "torrent_size_too_small",
             "torrent_personalized_link_required" }

\* What select_torrent and its callers may answer instead of a torrent.
FallbackCode ==
  { "no_torrent", "only_outdated_torrents", "only_resampled_torrents",
    "latest_torrent_no_seeder" }

----------------------------------------------------------------------------
Active(p) == { c \in p : ~c.outdated }
Usable(p) == { c \in Active(p) : ~c.resampled }
LargeEnough(c) == c.size * 5 >= Estimated * 3

\* A candidate survives unless another one is both larger and newer.
Survivors(cs) ==
  { c \in cs : ~\E d \in cs : d.size > c.size /\ d.posted > c.posted }

\* Once the sizes agree: more seeders, then newer, then first on the page.
Before(c, d) ==
  \/ c.seeds > d.seeds
  \/ c.seeds = d.seeds /\ c.posted > d.posted
  \/ c.seeds = d.seeds /\ c.posted = d.posted /\ c.id =< d.id

(***************************************************************************)
(* select_torrent, as the review calls it: the size limit is waived when   *)
(* every usable torrent is too small, since that is a question of its own. *)
(***************************************************************************)
Select(p) ==
  LET large == { c \in Usable(p) : LargeEnough(c) }
      fit == IF large = {} THEN Usable(p) ELSE large
      mine == { c \in fit : c.mine /\ c.seeds > 0 }
      last == Survivors(IF mine = {} THEN fit ELSE mine)
      best == CHOOSE c \in last : \A d \in last : Before(c, d)
  IN  CASE Usable(p) = {} -> [ code |-> "only_resampled_torrents", id |-> 0 ]
        [] Usable(p) # {} /\ Cardinality({ c.size : c \in last }) > 1 ->
             [ code |-> "ambiguous_torrent_versions", id |-> 0 ]
        [] Usable(p) # {} /\ Cardinality({ c.size : c \in last }) = 1 /\ best.seeds = 0 ->
             [ code |-> "latest_torrent_no_seeder", id |-> 0 ]
        [] OTHER -> [ code |-> "chosen", id |-> best.id ]

----------------------------------------------------------------------------
\* What a decision is bound to: the torrents listed, whatever their seeders.
Scope(p) == { << c.id, c.mine, c.resampled, c.video >> : c \in Active(p) }
NoScope == {}

NoReview ==
  [ scope |-> NoScope, warnings |-> {}, accepted |-> {}, choice |-> 0, next |-> FALSE ]

\* The soft objections to a list; a remark on the archive waives the first.
Warnings(p, skipVideo) ==
  { w \in Warning :
      \/ w = "video_torrent" /\ ~skipVideo /\ \E c \in Active(p) : c.video
      \/ /\ w = "torrent_size_too_small"
         /\ Usable(p) # {} /\ \A c \in Usable(p) : ~LargeEnough(c) }

\* Mutant: what was accepted for one list counts for the next one too.
AcceptedEver(p, review) == review.accepted

\* What a person accepted, if it was for this very list.
Accepted(p, review) == IF review.scope = Scope(p) THEN review.accepted ELSE {}

(***************************************************************************)
(* choose_with_review: the torrent, the review a person has to answer, or  *)
(* the error code.  The permission to use the account's link is bound to   *)
(* one candidate.                                                          *)
(***************************************************************************)
Choose(p, review, skipVideo) ==
  LET warnings == Warnings(p, skipVideo)
      accepted == Accepted(p, review)
      open == warnings \ accepted # {}
      pick == Select(p)
      link == "torrent_personalized_link_required"
      bound == (IF review.choice = pick.id THEN accepted ELSE accepted \ { link })
                 \cup (IF review.next THEN { link } ELSE {})
      decided == [ scope |-> Scope(p), warnings |-> warnings, accepted |-> bound,
                   choice |-> pick.id, next |-> FALSE ]
      undecided == [ decided EXCEPT !.accepted = accepted, !.choice = 0 ]
  IN  CASE p = {} -> [ code |-> "no_torrent", review |-> review ]
        [] p # {} /\ Active(p) = {} ->
             [ code |-> "only_outdated_torrents", review |-> review ]
        [] Active(p) # {} /\ pick.code = "chosen" ->
             [ code |-> IF open THEN "review" ELSE "chosen", review |-> decided ]
        [] Active(p) # {} /\ pick.code = "latest_torrent_no_seeder" ->
             [ code |-> pick.code, review |-> review ]
        [] OTHER ->
             [ code |-> IF open THEN "review" ELSE pick.code, review |-> undecided ]

OptionOf(p, id) == CHOOSE c \in p : c.id = id

(***************************************************************************)
(* download_torrent: the public link, and the account's link only after    *)
(* its use was allowed for this candidate.  missing says which of the two  *)
(* answer that the torrent file does not exist.                            *)
(***************************************************************************)
Fetch(p, decided, missing) ==
  LET link == "torrent_personalized_link_required"
      own == OptionOf(p, decided.choice).private
  IN  CASE "public" \notin missing ->
             [ code |-> "chosen", review |-> decided, personal |-> FALSE ]
        [] "public" \in missing /\ own /\ link \notin decided.accepted ->
             [ code |-> "review", personal |-> FALSE,
               review |-> [decided EXCEPT !.warnings = @ \cup { link }] ]
        [] "public" \in missing /\ own /\ link \in decided.accepted
             /\ "private" \notin missing ->
             [ code |-> "chosen", review |-> decided, personal |-> TRUE ]
        [] OTHER ->
             [ code |-> "torrent_file_not_found", review |-> decided, personal |-> FALSE ]
=============================================================================
