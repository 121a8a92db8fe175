--------------------------- MODULE VersionChoice ---------------------------
(***************************************************************************)
(* Which versions of an archive are wanted.  Galleries that share their    *)
(* real name are versions of one archive; they are ranked by language and  *)
(* censorship, and those of the best rank compete in pairs.                *)
(***************************************************************************)
EXTENDS Integers

\* A version as its listing shows it; age: its place in the order of discovery.
Version ==
  [ chinese : BOOLEAN, uncensored : BOOLEAN, rating : 0 .. 50, posted : Nat, age : Nat ]

\* Both depend on the rating, but never for an original in a foreign language.
Tier(v) ==
  CASE v.chinese /\ v.uncensored /\ v.rating > 30 -> 3
    [] v.chinese /\ ~v.uncensored /\ v.rating =< 30 -> 1
    [] ~v.chinese /\ ~v.uncensored -> 1
    [] OTHER -> 2

Variant(v) ==
  CASE v.chinese /\ v.uncensored -> IF v.rating > 30 THEN 1 ELSE 2
    [] v.chinese /\ ~v.uncensored -> IF v.rating > 30 THEN 3 ELSE 2
    [] OTHER -> 1

\* The better rated, then the newer, then the one discovered first.
Better(v, w) ==
  \/ v.rating > w.rating
  \/ v.rating = w.rating /\ v.posted > w.posted
  \/ v.rating = w.rating /\ v.posted = w.posted /\ v.age < w.age

\* select_versions: the best of each variant of the highest tier there is.
Selected(group) ==
  { v \in group :
      /\ \A w \in group : Tier(w) =< Tier(v)
      /\ ~\E w \in group : Tier(w) = Tier(v) /\ Variant(w) = Variant(v) /\ Better(w, v) }
=============================================================================
