---------------------------- MODULE MCDeployment ----------------------------
(***************************************************************************)
(* Instances of Deployment for TLC.                                        *)
(***************************************************************************)
EXTENDS Deployment

On(kind, units) == [ kind |-> kind, units |-> units ]
Both == { "supervisor", "web" }

OneOfEach == << "collect", "upload" >>

\* A change of configuration, an update or a stop, then the Supervisor is
\* started again.
TwoOperations ==
  << { On("apply_config", Both), On("git_update", Both), On("stop", { "supervisor" }) },
     { On("start", { "supervisor" }) } >>
=============================================================================
