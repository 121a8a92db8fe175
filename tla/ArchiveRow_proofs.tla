------------------------- MODULE ArchiveRow_proofs -------------------------
(***************************************************************************)
(* Facts about what a row is handled by, apart from any step: the shared   *)
(* tables, in which whichever status is looked up leads to a status, and   *)
(* the choice of a torrent, for every list the site may show.  Whatever    *)
(* the list, the torrent that is taken is a current and original one with  *)
(* seeders, and nothing it is objected to is open.                         *)
(***************************************************************************)
EXTENDS ArchiveStates, TorrentChoice, FiniteSetTheorems, WellFoundedInduction, TLAPS

\* Every legal change of status leads to a status (states.py, TRANSITIONS).
LEMMA TransitionTyped ==
  ASSUME NEW s \in Status, NEW e, CanTransition(s, e)
  PROVE  TransitionTarget(s, e) \in Status
<1> USE DEF Status, CanTransition, TransitionTarget, TRANSITIONS
<1>1. CASE s = "discovered" BY <1>1
<1>2. CASE s = "deferred" BY <1>2
<1>3. CASE s = "details_pending" BY <1>3
<1>4. CASE s = "download_pending" BY <1>4
<1>5. CASE s = "download_blocked" BY <1>5
<1>6. CASE s = "downloading" BY <1>6
<1>7. CASE s = "downloaded" BY <1>7
<1>8. CASE s = "validating" BY <1>8
<1>9. CASE s = "preparing" BY <1>9
<1>10. CASE s = "upload_pending" BY <1>10
<1>11. CASE s = "uploading" BY <1>11
<1>12. CASE s = "uploaded" BY <1>12
<1>13. CASE s = "completed" BY <1>13
<1>14. CASE s = "quarantined" BY <1>14
<1>15. CASE s = "manual_review" BY <1>15
<1>16. CASE s = "special_processing" BY <1>16
<1>17. CASE s = "filtered_out" BY <1>17
<1>18. CASE s = "skipped" BY <1>18
<1>19. CASE s = "unavailable" BY <1>19
<1>20. CASE s = "outdated" BY <1>20
<1>21. CASE s = "force_delete_pending" BY <1>21
<1>22. CASE s = "rename_pending" BY <1>22
<1>23. CASE s = "deleted" BY <1>23
<1>24. CASE s = "cancel_requested" BY <1>24
<1>25. CASE s = "cancelled" BY <1>25
<1> QED BY <1>1, <1>2, <1>3, <1>4, <1>5, <1>6, <1>7, <1>8, <1>9, <1>10, <1>11, <1>12,
           <1>13, <1>14, <1>15, <1>16, <1>17, <1>18, <1>19, <1>20, <1>21, <1>22, <1>23, <1>24, <1>25 DEF Status

\* Claiming a row for an operation gives it a status.
LEMMA ExecutionStateTyped ==
  ASSUME NEW op \in Operation, NEW s \in Status
  PROVE  ExecutionState(op, s) \in Status
BY DEF Operation, Status, ExecutionState

\* So does an action button of the Web.
LEMMA WebTargetTyped ==
  ASSUME NEW s \in Status
  PROVE  WebTargets(s) \subseteq Status
BY TransitionTyped DEF WebTargets, TransitionTarget

\* What a handler reports names an event and says whether it is an error.
LEMMA OutcomeTyped ==
  ASSUME NEW op \in Operation, NEW o \in HandlerOutcome[op]
  PROVE  o.error \in BOOLEAN
<1>1. \A e : Done(e).error \in BOOLEAN /\ Fail(e).error \in BOOLEAN
  BY DEF Done, Fail
<1> QED BY <1>1 DEF Operation, HandlerOutcome

----------------------------------------------------------------------------
\* The choice of a torrent.

\* In a finite set that is not empty some element has none before it, in any
\* order R.
LEMMA FiniteHasFirst ==
  ASSUME NEW S, IsFiniteSet(S), S # {}, NEW R,
         \A x \in S : << x, x >> \notin R,
         \A x, y, z \in S : << x, y >> \in R /\ << y, z >> \in R => << x, z >> \in R
  PROVE  \E x \in S : \A y \in S : << y, x >> \notin R
<1> DEFINE Before_(x) == { y \in S : << y, x >> \in R }
           T == { Before_(x) : x \in S }
<1>1. T \subseteq FiniteSubsetsOf(S) /\ T # {}
  <2>1. \A x \in S : Before_(x) \in SUBSET S
    OBVIOUS
  <2>2. T \subseteq SUBSET S
    BY <2>1
  <2> HIDE DEF Before_
  <2>3. T # {}
    OBVIOUS
  <2> QED BY <2>2, <2>3, FS_FiniteSubsetsOfFinite
<1>2. IsWellFoundedOn(StrictSubsetOrdering(S), FiniteSubsetsOf(S))
  BY FS_StrictSubsetOrderingWellFounded
<1>3. \E t \in T : \A u \in T : << u, t >> \notin StrictSubsetOrdering(S)
  <2> HIDE DEF T
  <2> QED BY <1>1, <1>2, WFMin
<1>4. PICK x \in S : \A y \in S : << Before_(y), Before_(x) >> \notin StrictSubsetOrdering(S)
  <2> HIDE DEF Before_
  <2> QED BY <1>3
<1>5. ASSUME NEW y \in S, << y, x >> \in R PROVE FALSE
  <2>1. Before_(y) \subseteq Before_(x)
    BY <1>5
  <2>2. y \in Before_(x) /\ y \notin Before_(y)
    BY <1>5
  <2>3. << Before_(y), Before_(x) >> \in StrictSubsetOrdering(S)
    BY <2>1, <2>2 DEF StrictSubsetOrdering
  <2> QED BY <1>4, <2>3
<1> QED BY <1>5

\* Of torrents that are listed, some survive.
LEMMA SomeSurvive ==
  ASSUME NEW cs, cs \subseteq Option, IsFiniteSet(cs), cs # {}
  PROVE  Survivors(cs) # {}
<1> DEFINE R == { pair \in cs \X cs :
                    pair[1].size > pair[2].size /\ pair[1].posted > pair[2].posted }
<1>1. \A c \in cs : c.size \in Nat /\ c.posted \in Nat
  BY DEF Option
<1>2. \A c, d \in cs : << c, d >> \in R <=> c.size > d.size /\ c.posted > d.posted
  OBVIOUS
<1>3. \E c \in cs : \A d \in cs : << d, c >> \notin R
  <2>1. \A c \in cs : << c, c >> \notin R
    BY <1>1, <1>2
  <2>2. \A c, d, e \in cs : << c, d >> \in R /\ << d, e >> \in R => << c, e >> \in R
    BY <1>1, <1>2
  <2> HIDE DEF R
  <2> QED BY <2>1, <2>2, FiniteHasFirst
<1> QED BY <1>2, <1>3 DEF Survivors

\* Among torrents that are listed, one goes before all the others.
LEMMA OneIsBest ==
  ASSUME NEW cs, cs \subseteq Option, IsFiniteSet(cs), cs # {}
  PROVE  \E c \in cs : \A d \in cs : Before(c, d)
<1> DEFINE R == { pair \in cs \X cs : ~Before(pair[2], pair[1]) }
<1>1. \A c \in cs : c.seeds \in Nat /\ c.posted \in Nat /\ c.id \in Nat
  BY DEF Option
<1>2. \A c, d \in cs : << c, d >> \in R <=> ~Before(d, c)
  OBVIOUS
<1>3. \A c \in cs : Before(c, c)
  BY <1>1 DEF Before
<1>4. \A c, d, e \in cs : ~Before(d, c) /\ ~Before(e, d) => ~Before(e, c)
  BY <1>1 DEF Before
<1>5. \E c \in cs : \A d \in cs : << d, c >> \notin R
  <2>1. \A c \in cs : << c, c >> \notin R
    BY <1>2, <1>3
  <2>2. \A c, d, e \in cs : << c, d >> \in R /\ << d, e >> \in R => << c, e >> \in R
    BY <1>2, <1>4
  <2> HIDE DEF R
  <2> QED BY <2>1, <2>2, FiniteHasFirst
<1> QED BY <1>2, <1>5

(***************************************************************************)
(* select_torrent takes a usable torrent with seeders from any list: the   *)
(* ranking never ends with none, and the fallbacks come first.             *)
(***************************************************************************)
THEOREM ChosenIsUsable ==
  ASSUME NEW p, Page(p), Select(p).code = "chosen"
  PROVE  \E c \in Usable(p) : c.id = Select(p).id /\ c.seeds > 0
<1> DEFINE large == { c \in Usable(p) : LargeEnough(c) }
           fit == IF large = {} THEN Usable(p) ELSE large
           mine == { c \in fit : c.mine /\ c.seeds > 0 }
           base == IF mine = {} THEN fit ELSE mine
           last == Survivors(base)
           best == CHOOSE c \in last : \A d \in last : Before(c, d)
           sizes == { c.size : c \in last }
<1>1. Usable(p) # {}
  BY DEF Select
<1>2. base \subseteq Usable(p) /\ base # {}
  BY <1>1
<1>3. Usable(p) \subseteq p
  BY DEF Usable, Active
<1>4. base \subseteq Option /\ IsFiniteSet(base)
  BY <1>2, <1>3, FS_Subset DEF Page
<1>5. last # {} /\ last \subseteq base
  BY <1>2, <1>4, SomeSurvive DEF Survivors
<1>6. last \subseteq Option /\ IsFiniteSet(last)
  BY <1>4, <1>5, FS_Subset
<1>7. best \in last
  <2> HIDE DEF last
  <2> QED BY <1>5, <1>6, OneIsBest
<1>8. IsFiniteSet(sizes) /\ Cardinality(sizes) \in Nat /\ Cardinality(sizes) # 0
  <2> HIDE DEF last
  <2>1. IsFiniteSet(sizes)
    <3> DEFINE f == [c \in last |-> c.size]
    <3>1. f \in Surjection(last, sizes)
      BY DEF Surjection
    <3> QED BY <1>6, <3>1, FS_Surjection
  <2>2. sizes # {}
    BY <1>5
  <2> QED BY <2>1, <2>2, FS_EmptySet, FS_CardinalityType
<1>9. Cardinality(sizes) = 1 /\ best.seeds # 0 /\ Select(p).id = best.id
  <2>1. Select(p) =
          CASE Usable(p) = {} -> [ code |-> "only_resampled_torrents", id |-> 0 ]
            [] Usable(p) # {} /\ Cardinality(sizes) > 1 ->
                 [ code |-> "ambiguous_torrent_versions", id |-> 0 ]
            [] Usable(p) # {} /\ Cardinality(sizes) = 1 /\ best.seeds = 0 ->
                 [ code |-> "latest_torrent_no_seeder", id |-> 0 ]
            [] OTHER -> [ code |-> "chosen", id |-> best.id ]
    BY DEF Select
  <2> HIDE DEF sizes, best
  <2> QED BY <1>1, <1>8, <2>1
<1>10. best \in Usable(p) /\ best.seeds \in Nat
  <2> HIDE DEF best, last, base
  <2> QED BY <1>2, <1>5, <1>6, <1>7 DEF Option
<1> HIDE DEF best, sizes
<1> QED BY <1>9, <1>10

\* A decision that lets the torrent be taken was made for this list; the use of
\* the account's link was allowed just now, or before for this very torrent.
THEOREM NothingIsOpen ==
  ASSUME NEW p, NEW review, NEW skipVideo,
         Choose(p, review, skipVideo).code = "chosen"
  PROVE  LET made == Choose(p, review, skipVideo).review
             link == "torrent_personalized_link_required"
         IN  /\ Select(p).code = "chosen"
             /\ made.scope = Scope(p) /\ made.choice = Select(p).id
             /\ Warnings(p, skipVideo) \subseteq Accepted(p, review)
             /\ made.accepted \subseteq Accepted(p, review) \cup { link }
             /\ link \in made.accepted /\ ~review.next =>
                  review.choice = made.choice /\ link \in Accepted(p, review)
<1>1. /\ p # {} /\ Active(p) # {} /\ Select(p).code = "chosen"
      /\ Warnings(p, skipVideo) \ Accepted(p, review) = {}
  BY DEF Choose, Active
<1> QED BY <1>1 DEF Choose

\* What is recorded of a decision: its list, and the torrent it was made for, or
\* none; every permission in it is used up.
LEMMA ReviewMade ==
  ASSUME NEW p, NEW review, NEW skipVideo,
         Choose(p, review, skipVideo).code \in { "chosen", "review" }
  PROVE  LET made == Choose(p, review, skipVideo).review
             link == "torrent_personalized_link_required"
         IN  /\ DOMAIN made = DOMAIN NoReview
             /\ made.scope = Scope(p) /\ ~made.next
             /\ \/ made.choice = 0 /\ made.accepted = Accepted(p, review)
                \/ /\ Select(p).code = "chosen" /\ made.choice = Select(p).id
                   /\ made.accepted \subseteq Accepted(p, review) \cup { link }
                   /\ link \in made.accepted /\ ~review.next =>
                        review.choice = made.choice /\ link \in Accepted(p, review)
<1> DEFINE pick == Select(p)
           made == Choose(p, review, skipVideo).review
<1>1. p # {} /\ Active(p) # {} /\ pick.code # "latest_torrent_no_seeder"
  BY DEF Choose, Active
<1>2. CASE pick.code = "chosen"
  BY <1>1, <1>2 DEF Choose, NoReview
<1>3. CASE pick.code # "chosen"
  BY <1>1, <1>3 DEF Choose, NoReview
<1> QED BY <1>2, <1>3

\* The objection that is about one candidate's link.
Link == "torrent_personalized_link_required"

\* A torrent that is handed over, or a question that is asked, with what the
\* choice records, and perhaps one more warning.
LEMMA FetchKeeps ==
  ASSUME NEW p, NEW decided, NEW missing
  PROVE  LET got == Fetch(p, decided, missing)
         IN  /\ got.code \in { "chosen", "review", "torrent_file_not_found" }
             /\ DOMAIN got.review = DOMAIN decided
             /\ got.review.scope = decided.scope /\ got.review.choice = decided.choice
             /\ got.review.accepted = decided.accepted /\ got.review.next = decided.next
             /\ got.code = "chosen" /\ got.personal => Link \in decided.accepted
BY DEF Fetch, Link
=============================================================================
