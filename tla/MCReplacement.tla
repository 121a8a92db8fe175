--------------------------- MODULE MCReplacement ---------------------------
(***************************************************************************)
(* Instances of Replacement for TLC.                                       *)
(***************************************************************************)
EXTENDS Replacement, TLC

\* Rows are interchangeable, and so are processes; for safety properties only.
RowSymmetry ==
  Permutations(Administered) \cup Permutations(Manga \ Administered) \cup Permutations(Worker)
=============================================================================
