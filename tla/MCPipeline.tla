----------------------------- MODULE MCPipeline -----------------------------
(* Lists of torrents that meet every branch of the choice, and versions of *)
(* two tiers.                                                              *)
EXTENDS Pipeline

Plain ==
  [ id |-> 1, size |-> 10, seeds |-> 2, posted |-> 1, outdated |-> FALSE,
    resampled |-> FALSE, video |-> FALSE, mine |-> FALSE, private |-> FALSE ]

Video == [Plain EXCEPT !.id = 2, !.size = 1, !.video = TRUE, !.private = TRUE]

MCEstimated == 10

MCPages ==
  { {},
    { Plain },                                          \* taken at once
    { [Plain EXCEPT !.seeds = 0] },                     \* the same, without seeders
    { Video },                                          \* two questions at once
    { Video, [Plain EXCEPT !.seeds = 1, !.mine = TRUE] },  \* the list has changed
    { [Plain EXCEPT !.outdated = TRUE] } }

MCVersions ==
  { [ chinese |-> c, uncensored |-> u, rating |-> 35, posted |-> 1, age |-> a ] :
      << c, u, a >> \in { << TRUE, TRUE, 1 >>, << TRUE, FALSE, 2 >>, << FALSE, FALSE, 3 >> } }

MCFallbacks == { "direct", "aria2", "hah", "none" }
MCBackends == { "lanraragi_http", "lanraragi_filesystem" }
=============================================================================
