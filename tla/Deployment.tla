----------------------------- MODULE Deployment -----------------------------
(***************************************************************************)
(* The Supervisor, the management executor, the web interface and systemd, *)
(* together.                                                               *)
(***************************************************************************)
EXTENDS Management

vars == << supVars, mgmtVars >>

Init ==
  /\ SupervisorInit(Original)
  /\ ops = [o \in Operations |-> NoOperation]
  /\ lock = Free /\ live = Original /\ web = TRUE /\ write = "none"

SupervisorLoop == Loop /\ UNCHANGED mgmtVars

\* RestartSec after a failure; the new process reads the live configuration.
\* An executor that waits polls the unit more often than that (2 s and 5 s), so
\* it has seen the failure before the unit is active again.
Restart ==
  /\ unit = "restarting" /\ Launch(live) /\ ctl' = FormerOwner(ctl)
  /\ \A o \in Operations : ~At(o, "wait_for_supervisor_exit")
  /\ UNCHANGED << served, want, faults, mgmtVars >>

\* At most one executor is alive, and none while the web interface writes: the
\* holder of the lock is one process.
LockHolder == WriteControl \/ \E o \in Operations : ExecutorSteps(o)

Operator ==
  \/ \E o \in Operations :
       (Submit(o) \/ EnsureIdle(o) \/ RequestCancel(o)) /\ UNCHANGED supVars
  \/ \E state \in { "running", "paused", "draining" } : CheckControl(state)
  \/ web /\ PageRequests /\ UNCHANGED mgmtVars

Next ==
  \/ SupervisorLoop \/ Restart \/ Operator \/ LockHolder \/ EditConfiguration
  \/ Surroundings /\ UNCHANGED mgmtVars
  \/ \E o \in Operations : ExecutorCrashes(o)

Spec == Init /\ [][Next]_vars

(***************************************************************************)
(* Every process that is alive goes on, systemd restarts what failed, a    *)
(* lease that is not renewed runs out, and a child that is waited for      *)
(* finishes.  Nobody has to click anything, and nothing has to fail.       *)
(***************************************************************************)
ChildFinishes ==
  (\E m \in Module : ChildExits(m, "ok")) /\ UNCHANGED mgmtVars

Fairness ==
  /\ WF_vars(SupervisorLoop \/ Restart)
  /\ WF_vars(LockHolder)
  /\ WF_vars(ChildFinishes)
  /\ WF_vars(LeaseExpires /\ UNCHANGED mgmtVars)

FairSpec == Spec /\ Fairness

(***************************************************************************)
(* Properties.                                                             *)
(***************************************************************************)
TypeOK ==
  /\ SupervisorTypeOK
  /\ lock \in Operations \cup { Free, WebService }
  /\ live \in Operations \cup { Original, Edited }
  /\ \A o \in Operations :
       /\ ops[o].kind \in Kinds \cup { "none" }
       /\ ops[o].status \in Terminal \cup { "none", "pending", "running" }
       /\ ops[o].cancel \in { "no", "requested", "rejected" }
       /\ ops[o].alive => Unfinished(o)
       /\ lock = o => ops[o].alive
  /\ (lock = WebService) = (write # "none")

\* An operation that has failed, was cancelled or interrupted has not left its
\* configuration behind, wherever it stopped; one that has succeeded has left
\* it, and left the Supervisor running with it.
ConfigurationSettled ==
  \A o \in Operations : ops[o].kind = "apply_config" =>
    /\ ops[o].status \in { "failed", "cancelled", "interrupted" } => live # o
    /\ ops[o].outcome = "succeeded" /\ "supervisor" \in ops[o].units /\ live = o
       => (Alive => sup.conf = o)

\* However it ends, an operation returns the control state the operator has
\* asked for, and it never overwrites what the operator asks for meanwhile.
\* Not so one that was interrupted, or that failed after it began to migrate
\* the database.
ControlReturned ==
  (\A o \in Operations :
     /\ ops[o].status \notin { "running", "interrupted" }
     /\ ~(ops[o].status = "failed" /\ ops[o].migrated))
  => ctl.state = want

\* A drain whose cancellation was accepted does not take the Supervisor down,
\* unless the process had been leaving already when the drain was asked for.
CancelledDrainSpares ==
  \A o \in Operations :
    "cancelled" \in { ops[o].outcome, ops[o].status } /\ sup.asked = o /\ sup.pc = "exit"
      => sup.drain

\* An executor that lives ends its operation: the drain it waits for comes to
\* an end, and so does every wait, however many operations follow.
OperationEnds ==
  (\E o \in Operations : ops[o].alive) ~> (\A o \in Operations : ~ops[o].alive)
=============================================================================
