----------------------------- MODULE Management -----------------------------
(***************************************************************************)
(* The management operations: one executor process per operation, started  *)
(* by systemd, that stops and starts the services, publishes a new         *)
(* configuration or updates the code, and puts back what it finds.         *)
(*                                                                         *)
(* An operation is a directory of files: its request, its state, the       *)
(* staged configuration and the request to cancel it.  One deployment lock *)
(* is held by the executor for as long as it runs, and by the web          *)
(* interface while it submits an operation or sets the control state.      *)
(***************************************************************************)
EXTENDS Supervisor

CONSTANT
  Requests      \* bound: what may be submitted, first, second...: [kind, units]

Operations == 1..Len(Requests)

\* The deployment lock when no operation holds it, and the live configuration
\* when it is no operation's.
Free == 0
WebService == Len(Requests) + 1
Original == 0
Edited == Len(Requests) + 1

Kinds == { "stop", "start", "restart", "apply_config", "git_update" }
Services == { "supervisor", "web" }
Terminal == { "succeeded", "failed", "cancelled", "interrupted" }

ASSUME RequestsAreOperations ==
  Requests \in Seq(SUBSET [ kind : Kinds, units : SUBSET Services ])

VARIABLES
  ops,      \* the directory of each operation, and its executor
  lock,     \* the holder of the deployment lock
  live,     \* whose configuration the live files are
  web,      \* whether the web service runs
  write     \* the control state the web interface has checked, not yet written

mgmtVars == << ops, lock, live, web, write >>

NoOperation ==
  [ kind |-> "none", units |-> {}, status |-> "none", alive |-> FALSE,
    todo |-> << >>, handling |-> FALSE, outcome |-> "none", cancel |-> "no",
    prev |-> [ supervisor |-> FALSE, web |-> FALSE, control |-> "running" ],
    orig |-> Original, applied |-> FALSE, restored |-> FALSE,
    changed |-> FALSE, migrated |-> FALSE ]

Unfinished(o) == ops[o].status \in { "pending", "running" }
Lost(o) == Unfinished(o) /\ ~ops[o].alive
UnitActive == unit # "inactive"

(***************************************************************************)
(* What an operation does, as the steps it still has to take.              *)
(***************************************************************************)
StopSupervisor == << "drain", "wait_for_supervisor_exit" >>
StartSupervisor ==
  << "start_supervisor", "wait_for_supervisor_heartbeat",
     "restore_previous_control_state", "verify_supervisor_heartbeat" >>

If(condition, steps) == IF condition THEN steps ELSE << >>

\* The Supervisor is stopped first and started last.
Stops(op) ==
  If("supervisor" \in op.units /\ op.prev.supervisor, StopSupervisor)
    \o If("web" \in op.units /\ op.prev.web, << "stop_web" >>)

RestoreServices(op) ==
  If(op.prev.web, << "start_web" >>) \o If(op.prev.supervisor, StartSupervisor)

\* The main part of an operation, once the services' state is captured.
Program(op) ==
  CASE op.kind = "stop" -> Stops(op)
    [] op.kind = "start" ->
         If("web" \in op.units /\ ~op.prev.web, << "start_web" >>)
           \o If("supervisor" \in op.units /\ ~op.prev.supervisor, StartSupervisor)
    [] op.kind = "restart" ->
         Stops(op) \o If("web" \in op.units, << "start_web" >>)
           \o If("supervisor" \in op.units, StartSupervisor)
    [] op.kind = "apply_config" ->
         Stops(op) \o << "record_intent", "publish_configuration" >>
           \o RestoreServices(op) \o << "publish_management_configuration" >>
    [] op.kind = "git_update" ->
         Stops(op) \o << "fast_forward_checkout", "validate_configuration",
                         "upgrade_database", "refresh_systemd_units" >>
           \o RestoreServices(op)

\* What follows a failure of the main part.
Rollback(op) ==
  CASE op.kind = "apply_config" ->
         << "restore_configuration", "record_restored" >> \o Stops(op)
           \o RestoreServices(op)
    [] op.kind = "git_update" /\ ~op.migrated ->
         If(op.changed, << "restore_old_commit" >>) \o RestoreServices(op)
    [] OTHER -> << >>

\* The step "finally": the control state is put back, unless a database
\* migration has begun or the operation has nothing to do with the Supervisor.
PutsBackIfItFailed(op) ==
  "supervisor" \in op.units /\ op.outcome # "succeeded"
PutsControlBack(op) ==
  "supervisor" \in op.units /\ (op.kind = "git_update" => ~op.migrated)

Ending(op, outcome) ==
  [op EXCEPT !.outcome = outcome, !.todo = << "finally", "record" >>]

\* An exception in the main part starts the rollback, one in the rollback ends
\* it.
Failing(op) ==
  IF ~op.handling /\ Rollback(op) # << >>
  THEN [op EXCEPT !.handling = TRUE, !.todo = Rollback(op)]
  ELSE Ending(op, "failed")

\* One step done.
Stepped(op) ==
  IF Len(op.todo) > 1 THEN [op EXCEPT !.todo = Tail(@)]
  ELSE Ending(op, IF op.handling THEN "failed" ELSE "succeeded")

\* A closed operation; what nobody reads again is left out.
Closed(op, status) ==
  [NoOperation EXCEPT !.kind = op.kind, !.units = op.units, !.status = status,
                      !.migrated = op.migrated]

At(o, step) ==
  ops[o].alive /\ lock = o /\ ops[o].todo # << >> /\ Head(ops[o].todo) = step

Become(o, op) == ops' = [ops EXCEPT ![o] = op]

(***************************************************************************)
(* Operations whose executor is gone.                                      *)
(***************************************************************************)
\* restore(): refused when the file is neither the old nor the new one.
NothingToRestore(op) ==
  op.kind # "apply_config" \/ ~op.applied \/ op.restored
RestoreRefused(o) ==
  ~NothingToRestore(ops[o]) /\ live \notin { o, ops[o].orig }

InterruptsOnly(o) == live' = live /\ Become(o, Closed(ops[o], "interrupted"))
Interrupt(o) ==
  /\ ~RestoreRefused(o)
  /\ live' = IF NothingToRestore(ops[o]) THEN live ELSE ops[o].orig
  /\ Become(o, Closed(ops[o], "interrupted"))

\* ensure_idle(), before anything is submitted or the control state is set: an
\* operation whose executor runs is a conflict, one without is interrupted.
EnsureIdle(o) ==
  /\ lock = Free /\ \A other \in Operations : ~ops[other].alive
  /\ Lost(o) /\ Interrupt(o)
  /\ UNCHANGED << lock, web, write >>

Idle == lock = Free /\ \A o \in Operations : ~Unfinished(o)

(***************************************************************************)
(* The web interface and the operator.                                     *)
(***************************************************************************)
Submit(o) ==
  /\ Idle /\ ops[o].status = "none" /\ (o > 1 => ops[o - 1].status # "none")
  /\ \E request \in Requests[o] :
       Become(o, [NoOperation EXCEPT !.kind = request.kind,
                    !.units = request.units, !.status = "pending",
                    !.alive = TRUE, !.orig = live, !.todo = << "acquire_lock" >>])
  /\ UNCHANGED << lock, live, web, write >>

\* cancel(): the phase is read first and the file is written afterwards, while
\* the executor waits or at any later time.  A file nobody would read is left
\* out: only a change of configuration may drain once more, when it is undone.
RequestCancel(o) ==
  /\ ops[o].status = "running" /\ ops[o].alive /\ ops[o].cancel = "no"
  /\ \/ At(o, "wait_for_supervisor_exit")
     \/ /\ ops[o].kind = "apply_config" /\ ~ops[o].handling
        /\ ops[o].prev.supervisor /\ "drain" \notin ToSet(ops[o].todo)
  /\ ops' = [ops EXCEPT ![o].cancel = "requested"]
  /\ UNCHANGED << lock, live, web, write >>

\* set_control() of the Supervisor, under the lock: the row is read without a
\* row lock, its version is checked, and the new state is written later.
CheckControl(state) ==
  /\ web /\ Idle /\ write = "none" /\ state # ctl.state /\ Fault
  /\ write' = state /\ lock' = WebService
  /\ UNCHANGED << sup, unit, ctl, mods, served, want, ops, live, web >>

WriteControl ==
  /\ write # "none"
  /\ ctl' = [ctl EXCEPT !.state = write]
  /\ want' = write
  /\ sup' = [sup EXCEPT !.asked = 0]
  /\ write' = "none" /\ lock' = Free
  /\ UNCHANGED << unit, mods, served, faults, ops, live, web >>

\* Somebody edits the live files.
EditConfiguration ==
  /\ live # Edited /\ Fault
  /\ live' = Edited
  /\ UNCHANGED << sup, unit, ctl, mods, served, want, ops, lock, web, write >>

(***************************************************************************)
(* The executor.                                                           *)
(***************************************************************************)
ControlledBy(state) == ctl' = [ctl EXCEPT !.state = state]

\* run(): the lock, then the status.  _recover_interrupted() finds nothing to do:
\* an operation without its executor was interrupted before this one could be
\* submitted.
Run(o) ==
  /\ ops[o].alive /\ lock = Free /\ ops[o].todo = << "acquire_lock" >>
  /\ lock' = o
  /\ Become(o, [ops[o] EXCEPT !.status = "running",
                              !.todo = << "capture_service_state" >>])
  /\ UNCHANGED << supVars, live, web, write >>

\* capture(): a Supervisor that drains already is a conflict.
Capture(o) ==
  /\ At(o, "capture_service_state")
  /\ LET op == [ops[o] EXCEPT !.prev =
                  [ supervisor |-> "supervisor" \in ops[o].units /\ UnitActive,
                    web |-> "web" \in ops[o].units /\ web,
                    control |-> IF "supervisor" \in ops[o].units
                                THEN ctl.state ELSE "running" ]]
     IN  IF op.prev.control = "draining"
         THEN Become(o, [ops[o] EXCEPT !.outcome = "failed", !.todo = << "record" >>])
         ELSE Become(o, IF Program(op) = << >> THEN Ending(op, "succeeded")
                        ELSE [op EXCEPT !.todo = Program(op)])
  /\ UNCHANGED << supVars, lock, live, web, write >>

\* drain(): a Supervisor that is not active needs none.
Drain(o) ==
  /\ At(o, "drain")
  /\ IF UnitActive THEN ControlledBy("draining") ELSE UNCHANGED ctl
  /\ Become(o, IF UnitActive THEN Stepped(ops[o]) ELSE Stepped(Stepped(ops[o])))
  /\ sup' = [sup EXCEPT !.asked = IF sup.pc # "exit" THEN o ELSE 0]
  /\ UNCHANGED << unit, mods, served, want, faults, lock, live, web, write >>

\* A request to cancel is accepted while the row still says "draining".
AcceptsLateCancel(o) ==
  /\ At(o, "wait_for_supervisor_exit") /\ ops[o].cancel = "requested"
  /\ ControlledBy(ops[o].prev.control)
  /\ Become(o, Ending(ops[o], "cancelled"))
  /\ UNCHANGED << sup, unit, mods, served, want, faults, lock, live, web, write >>
AcceptCancel(o) ==
  /\ At(o, "wait_for_supervisor_exit") /\ ops[o].cancel = "requested"
  /\ ctl.state = "draining"
  /\ ControlledBy(ops[o].prev.control)
  /\ Become(o, Ending(ops[o], "cancelled"))
  /\ UNCHANGED << sup, unit, mods, served, want, faults, lock, live, web, write >>

RejectCancel(o) ==
  /\ At(o, "wait_for_supervisor_exit") /\ ops[o].cancel = "requested"
  /\ ctl.state # "draining"
  /\ ops' = [ops EXCEPT ![o].cancel = "rejected"]
  /\ UNCHANGED << supVars, lock, live, web, write >>

SupervisorHasPaused(o) ==
  /\ At(o, "wait_for_supervisor_exit") /\ ops[o].cancel # "requested"
  /\ ctl.state = "paused" /\ unit = "inactive"
  /\ Become(o, Stepped([ops[o] EXCEPT !.cancel = "no"]))
  /\ UNCHANGED << supVars, lock, live, web, write >>
SupervisorExited(o) ==
  /\ At(o, "wait_for_supervisor_exit") /\ ops[o].cancel # "requested"
  /\ unit = "inactive"
  /\ Become(o, Stepped([ops[o] EXCEPT !.cancel = "no"]))
  /\ UNCHANGED << supVars, lock, live, web, write >>

\* The unit has failed, or the drain has taken longer than is allowed.
DrainFails(o) ==
  /\ At(o, "wait_for_supervisor_exit") /\ ops[o].cancel # "requested"
  /\ \/ unit = "restarting" /\ UNCHANGED faults
     \/ unit = "active" /\ Fault
  /\ ControlledBy(ops[o].prev.control)
  /\ Become(o, Failing(ops[o]))
  /\ UNCHANGED << sup, unit, mods, served, want, lock, live, web, write >>

StopWeb(o) ==
  /\ At(o, "stop_web")
  /\ web' = FALSE
  /\ Become(o, Stepped(ops[o]))
  /\ UNCHANGED << supVars, lock, live, write >>

StartWeb(o) ==
  /\ At(o, "start_web")
  /\ web' = TRUE
  /\ Become(o, Stepped(ops[o]))
  /\ UNCHANGED << supVars, lock, live, write >>

\* The process is started paused, with the live configuration.
StartUnit(o) ==
  /\ At(o, "start_supervisor")
  /\ LET row == [ctl EXCEPT !.state = "paused", !.beat = FALSE]
     IN  IF Alive THEN ctl' = row /\ UNCHANGED << sup, unit, mods >>
                  ELSE ctl' = FormerOwner(row) /\ Launch(live)
  /\ Become(o, Stepped(ops[o]))
  /\ UNCHANGED << served, want, faults, lock, live, web, write >>

\* A fresh heartbeat under a lease, and a unit that is active.
Heartbeat(o) ==
  /\ \/ At(o, "wait_for_supervisor_heartbeat")
     \/ At(o, "verify_supervisor_heartbeat")
  /\ ctl.beat /\ ctl.owner # "nobody" /\ UnitActive
  /\ Become(o, Stepped(ops[o]))
  /\ UNCHANGED << supVars, lock, live, web, write >>

\* The wait is over without one.
NoHeartbeat(o) ==
  /\ \/ At(o, "wait_for_supervisor_heartbeat")
     \/ At(o, "verify_supervisor_heartbeat")
  /\ \/ (~Alive \/ LeasedByAnother \/ sup.drain) /\ UNCHANGED faults
     \/ Alive /\ Fault
  /\ Become(o, Failing(ops[o]))
  /\ UNCHANGED << sup, unit, ctl, mods, served, want, lock, live, web, write >>

RestoreControl(o) ==
  /\ At(o, "restore_previous_control_state")
  /\ ctl' = [ctl EXCEPT !.state = ops[o].prev.control, !.beat = FALSE]
  /\ Become(o, Stepped(ops[o]))
  /\ UNCHANGED << sup, unit, mods, served, want, faults, lock, live, web, write >>

\* _publish(): the live file must be the one the candidate was made from; the
\* intent is recorded before the file is replaced.
RecordIntent(o) ==
  /\ At(o, "record_intent")
  /\ Become(o, IF live = ops[o].orig
               THEN [Stepped(ops[o]) EXCEPT !.applied = TRUE] ELSE Failing(ops[o]))
  /\ UNCHANGED << supVars, lock, live, web, write >>

PublishConfiguration(o) ==
  /\ At(o, "publish_configuration")
  /\ live' = o
  /\ Become(o, Stepped(ops[o]))
  /\ UNCHANGED << supVars, lock, web, write >>

RestoreConfiguration(o) ==
  /\ At(o, "restore_configuration")
  /\ live' = IF RestoreRefused(o) \/ NothingToRestore(ops[o]) THEN live ELSE ops[o].orig
  /\ Become(o, IF RestoreRefused(o) THEN Failing(ops[o]) ELSE Stepped(ops[o]))
  /\ UNCHANGED << supVars, lock, web, write >>

RecordRestored(o) ==
  /\ At(o, "record_restored")
  /\ Become(o, [Stepped(ops[o]) EXCEPT !.restored = ops[o].applied])
  /\ UNCHANGED << supVars, lock, live, web, write >>

\* The steps of an update that touch only the checkout, the environment or the
\* database, and the last step of a change of configuration.
Checkout(o) ==
  /\ At(o, "fast_forward_checkout") \/ At(o, "upgrade_database")
  /\ LET checkout == At(o, "fast_forward_checkout")
     IN  Become(o, [Stepped(ops[o]) EXCEPT !.changed = @ \/ checkout,
                                           !.migrated = @ \/ ~checkout])
  /\ UNCHANGED << supVars, lock, live, web, write >>

PlainStep(o) ==
  /\ \E step \in { "validate_configuration", "refresh_systemd_units",
                   "restore_old_commit", "publish_management_configuration" } :
       At(o, step)
  /\ Become(o, Stepped(ops[o]))
  /\ UNCHANGED << supVars, lock, live, web, write >>

\* A command fails or a service does not become healthy.  A checkout or a
\* migration that fails counts as begun.
StepFails(o) ==
  /\ \E step \in { "stop_web", "start_web", "start_supervisor", "record_intent",
                   "fast_forward_checkout", "validate_configuration",
                   "upgrade_database", "refresh_systemd_units",
                   "publish_management_configuration" } : At(o, step)
  /\ Fault
  /\ Become(o, Failing([ops[o] EXCEPT
                 !.changed = @ \/ At(o, "fast_forward_checkout"),
                 !.migrated = @ \/ At(o, "upgrade_database")]))
  /\ IF At(o, "start_supervisor") THEN ControlledBy("paused") ELSE UNCHANGED ctl
  /\ UNCHANGED << sup, unit, mods, served, want, lock, live, web, write >>

Finally(o) ==
  /\ At(o, "finally")
  /\ IF PutsControlBack(ops[o]) THEN ControlledBy(ops[o].prev.control)
     ELSE UNCHANGED ctl
  /\ ops' = [ops EXCEPT ![o].todo = << "record" >>]
  /\ UNCHANGED << sup, unit, mods, served, want, faults, lock, live, web, write >>

\* The status is written, the lock released, the executor gone.
Record(o) ==
  /\ At(o, "record")
  /\ Become(o, Closed(ops[o], ops[o].outcome))
  /\ lock' = Free
  /\ UNCHANGED << supVars, live, web, write >>

CrashKeepsLock(o) ==
  /\ ops[o].alive /\ Fault
  /\ ops' = [ops EXCEPT ![o].alive = FALSE]
  /\ UNCHANGED << sup, unit, ctl, mods, served, want, lock, live, web, write >>
ExecutorCrashes(o) ==
  /\ ops[o].alive /\ Fault
  /\ ops' = [ops EXCEPT ![o].alive = FALSE]
  /\ lock' = IF lock = o THEN Free ELSE lock
  /\ UNCHANGED << sup, unit, ctl, mods, served, want, live, web, write >>

ExecutorSteps(o) ==
  \/ Run(o) \/ Capture(o) \/ Drain(o)
  \/ AcceptCancel(o) \/ RejectCancel(o) \/ SupervisorExited(o) \/ DrainFails(o)
  \/ StopWeb(o) \/ StartWeb(o) \/ StartUnit(o)
  \/ Heartbeat(o) \/ NoHeartbeat(o) \/ RestoreControl(o)
  \/ RecordIntent(o) \/ PublishConfiguration(o)
  \/ RestoreConfiguration(o) \/ RecordRestored(o)
  \/ Checkout(o) \/ PlainStep(o) \/ StepFails(o) \/ Finally(o) \/ Record(o)
=============================================================================
