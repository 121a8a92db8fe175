---------------------------- MODULE MCSpecialWork ----------------------------
(***************************************************************************)
(* Instances of SpecialWork for TLC.                                       *)
(***************************************************************************)
EXTENDS SpecialWork

\* Two workflows, the second one always of a kind that can be begun beside the
\* first.
TwoWorkflows == { 1, 2 }

\* About one row: a workflow that takes it over, then or beside it another.
RowKinds ==
  [w \in TwoWorkflows |-> IF w = 1 THEN { "video_archive", "manual_torrent" }
                                   ELSE { "lanraragi_metadata", "manual_torrent" }]
RowMixes == { { "video_archive", "lanraragi_metadata" },
              { "manual_torrent", "lanraragi_metadata" },
              { "video_archive", "manual_torrent" } }
RowAttempts ==
  [ load |-> 1, submit |-> 2, check |-> 1, cancel |-> 1, cleanup |-> 1,
    verify |-> 1, scan |-> 2, apply |-> 1, compare |-> 1, collect_batch |-> 1 ]

\* About the library: a round of the full collection, or two runs of a scan.
LibraryKinds ==
  [w \in TwoWorkflows |-> { "lanraragi_compare", "download_cleanup" }
                           \cup IF w = 1 THEN { "full_collect" } ELSE {}]
LibraryMixes == { { "full_collect" }, { "lanraragi_compare" }, { "download_cleanup" } }
LibraryAttempts ==
  [ RowAttempts EXCEPT !.compare = 2, !.collect_batch = 2 ]
==============================================================================
