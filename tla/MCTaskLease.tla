---------------------------- MODULE MCTaskLease ----------------------------
(***************************************************************************)
(* Instances of TaskLease for TLC.                                         *)
(***************************************************************************)
EXTENDS TaskLease, TLC

\* Every operation, and those a direct download's promotion depends on.
EveryOperation == Operation
DownloadOperations == { "details", "direct_download" }

\* Processes are interchangeable; used by the runs of safety properties only.
WorkerSymmetry == Permutations(Worker)
=============================================================================
