----------------------------- MODULE Supervisor -----------------------------
(***************************************************************************)
(* The Supervisor: one process under systemd that keeps the lease of the   *)
(* "supervisor" row of SystemControl, starts the modules that are due, and *)
(* leaves when it is asked to drain or when a module fails severely.       *)
(*                                                                         *)
(* The control row and one row per module are the only way the web         *)
(* interface, the management executor and the process talk to each other:  *)
(* the process publishes what it does with every heartbeat, the others     *)
(* write what they want.  A manual run is requested by writing "pending"   *)
(* into the row of a module, for the owner of the lease at that moment.    *)
(***************************************************************************)
EXTENDS Naturals, Sequences, SequencesExt

CONSTANTS
  Modules,              \* every module, in the order in which they are started
  IntervalModules,      \* those started by a timer, or by hand; the others are
                        \* started while their queue has work
  MaxFault              \* bound: crashes, failures and interventions in all

Module == ToSet(Modules)
WorkModules == Module \ IntervalModules

\* Who owns a lease, a row or a request, told from the process that runs now:
\* this one, or one before it.
Owner == { "nobody", "this", "former" }
ActiveRequests == { "pending", "starting" }
Ended == { "ok", "severe", "unavailable" }    \* how a child has exited

ASSUME ModulesAreListed == Modules \in Seq(Module)
ASSUME IntervalModulesAreModules == IntervalModules \subseteq Module

VARIABLES
  sup,      \* the process: its memory and where its loop is
  unit,     \* systemd's unit: "inactive", "active" or "restarting"
  ctl,      \* the "supervisor" row
  mods,     \* the row of each module
  served,   \* history: processes started for the last manual request
  want,     \* history: the control state the operator has asked for
  faults    \* the faults used up so far

supVars == << sup, unit, ctl, mods, served, want, faults >>

Fault == faults < MaxFault /\ faults' = faults + 1

(***************************************************************************)
(* The process.                                                            *)
(***************************************************************************)
Alive == sup.pc # "dead"
NoChildren(s) == \A m \in Module : s.kids[m] = "none"

\* A process that has just been launched with the given configuration.
\* "asked" is a history: the operation that last asked it to drain.
NewProcess(conf) ==
  [ asked |-> 0, pc |-> "tick", mem |-> "unknown", drain |-> FALSE,
    beats |-> TRUE, code |-> 0, conf |-> conf, todo |-> << >>, module |-> "none",
    manual |-> FALSE, cooldowns |-> 0, kids |-> [m \in Module |-> "none"],
    delay |-> [m \in Module |-> FALSE], cool |-> [m \in Module |-> 0] ]

Aged(owner) == IF owner = "this" THEN "former" ELSE owner
FormerOwner(row) == [row EXCEPT !.owner = Aged(@)]

\* systemd starts the unit: after a failure, or when told to.  What the rows
\* say of the control row's owner is up to the caller.
Launch(conf) ==
  /\ ~Alive
  /\ sup' = NewProcess(conf)
  /\ unit' = "active"
  /\ mods' = [m \in Module |-> [FormerOwner(mods[m]) EXCEPT !.towner = Aged(@)]]

\* _enter_draining(): memory only; the rows of the failed modules are paused
\* by the caller.
Draining(s, code, beats) ==
  [s EXCEPT !.drain = TRUE, !.beats = @ /\ beats,
            !.code = IF code = 2 \/ @ = 2 THEN 2 ELSE 1]

(***************************************************************************)
(* What a heartbeat publishes.                                             *)
(***************************************************************************)
BlockReason(s, row, m) ==
  s.drain \/ s.mem \in { "draining", "paused" } \/ row.state = "paused" \/ s.delay[m]

\* The row of an interval module: a request addressed to another process has
\* expired, one that cannot be served now is rejected.
PublishInterval(s, row, m) ==
  LET trig == IF row.trig \in ActiveRequests /\ row.towner # "this"
              THEN "expired" ELSE row.trig
      running == s.kids[m] = "running"
      blocked == BlockReason(s, row, m)
      after == IF trig = "pending" /\ (blocked \/ running) THEN "rejected" ELSE trig
  IN  [row EXCEPT !.trig = after, !.running = running, !.blocked = blocked,
                  !.towner = IF after \in ActiveRequests THEN @ ELSE "nobody",
                  !.owner = "this"]

\* A release counts only for the cooldown it was requested for.
Released(s, m) ==
  s.cool[m] # 0 /\ mods[m].release /\ mods[m].owner = "this" /\ mods[m].cool = s.cool[m]

AfterReleases(s) ==
  [s EXCEPT !.delay = [m \in Module |-> @[m] /\ ~Released(s, m)],
            !.cool = [m \in Module |-> IF Released(s, m) THEN 0 ELSE @[m]]]

PublishCooldowns(s) ==
  [m \in Module |-> [mods[m] EXCEPT !.cool = s.cool[m], !.release = FALSE,
                                    !.owner = "this"]]

Published(s) ==
  [m \in Module |-> IF m \in IntervalModules
                    THEN PublishInterval(s, PublishCooldowns(s)[m], m)
                    ELSE PublishCooldowns(s)[m]]

LeasedByAnother == ctl.live /\ ctl.owner \notin { "nobody", "this" }

(***************************************************************************)
(* Children that have exited.  A severe failure of a module pauses its row *)
(* and drains the process; a site that is unavailable delays the module.   *)
(***************************************************************************)
Exited(s, how) == { m \in Module : s.kids[m] = how }

Reaped(s) ==
  LET gone == UNION { Exited(s, how) : how \in Ended }
      cooling == Exited(s, "unavailable")
      clean == [s EXCEPT !.kids = [m \in Module |-> IF m \in gone THEN "none" ELSE @[m]],
                         !.delay = [m \in Module |-> @[m] \/ m \in gone],
                         !.cooldowns = IF cooling = {} THEN @ ELSE @ + 1,
                         !.cool = [m \in Module |-> IF m \in cooling
                                                    THEN s.cooldowns + 1 ELSE @[m]]]
  IN  IF Exited(s, "severe") = {} THEN clean ELSE Draining(clean, 1, TRUE)

ReapedRows(s, rows) ==
  [m \in Module |-> IF s.kids[m] = "severe" THEN [rows[m] EXCEPT !.state = "paused"]
                    ELSE rows[m]]

\* Where the loop goes once the children are reaped.
AfterReap(s) ==
  CASE s.drain \/ s.mem = "draining" -> [s EXCEPT !.pc = "end"]
    [] ~s.drain /\ s.mem = "paused" -> [s EXCEPT !.pc = "tick"]
    [] OTHER -> [s EXCEPT !.pc = "plan", !.todo = Modules]

\* A tick of the loop: heartbeat, then reap.
Tick ==
  /\ sup.pc = "tick" /\ ~sup.drain /\ ~LeasedByAnother
  /\ LET s == AfterReleases([sup EXCEPT !.mem = ctl.state])
     IN  /\ mods' = ReapedRows(s, Published(s))
         /\ sup' = AfterReap(Reaped(s))
  /\ ctl' = [ctl EXCEPT !.owner = "this", !.live = TRUE, !.beat = TRUE]
  /\ UNCHANGED << unit, served, want, faults >>

\* A tick that raises (another owner, or the database has failed): the loop
\* drains and stops its heartbeat.
FailedTick(s) == [Draining(s, 1, FALSE) EXCEPT !.pc = "end", !.todo = << >>]

TickRaises ==
  /\ sup.pc = "tick" /\ ~sup.drain
  /\ \/ LeasedByAnother /\ UNCHANGED faults
     \/ Fault
  /\ sup' = FailedTick(sup)
  /\ UNCHANGED << unit, ctl, mods, served, want >>

\* While it drains after a failure: reap, then heartbeat if the failure was
\* not the heartbeat's own.
DrainTick ==
  /\ sup.pc = "tick" /\ sup.drain /\ ~(sup.beats /\ LeasedByAnother)
  /\ LET reaped == [Reaped(sup) EXCEPT !.pc = "end"]
         rows == ReapedRows(sup, mods)
     IN  IF sup.beats
         THEN LET s == AfterReleases([reaped EXCEPT !.mem = ctl.state])
                  cooled == PublishCooldowns(s)
              IN  /\ sup' = s
                  /\ mods' = [m \in Module |->
                       LET row == [cooled[m] EXCEPT !.state = rows[m].state]
                       IN  IF m \in IntervalModules THEN PublishInterval(s, row, m)
                           ELSE row]
                  /\ ctl' = [ctl EXCEPT !.owner = "this", !.live = TRUE, !.beat = TRUE]
         ELSE sup' = reaped /\ mods' = rows /\ UNCHANGED ctl
  /\ UNCHANGED << unit, served, want, faults >>

(***************************************************************************)
(* Starting modules, one after the other.                                  *)
(***************************************************************************)
\* A child that has exited since the last reap does not hold the module back:
\* the new child takes its place and its exit code is never seen.
MayStart(m) ==
  /\ sup.pc = "plan" /\ m = Head(sup.todo)
  /\ mods[m].state # "paused" /\ ~sup.delay[m] /\ sup.kids[m] # "running"

\* On to the next module, or to the next tick.
Planned(s) == [s EXCEPT !.pc = IF s.todo = << >> THEN "tick" ELSE "plan"]
Considered(m) == [sup EXCEPT !.todo = Tail(@)]

OwnsRunningRow ==
  ctl.owner = "this" /\ ctl.live /\ ctl.state = "running"

\* The claim that is committed before the process is started.
ClaimsOnlyItself(row, manual) == [row EXCEPT !.running = TRUE]
Claimed(row, manual) ==
  [row EXCEPT !.running = TRUE, !.trig = IF manual THEN "starting" ELSE @]

\* _prepare_interval_start(): under the lock of both rows the request or the
\* timer's turn is claimed before the process is started.
PrepareIntervalStart(m, due) ==
  /\ m \in IntervalModules /\ MayStart(m) /\ OwnsRunningRow
  /\ LET row == PublishInterval(sup, mods[m], m)
         manual == row.trig = "pending" /\ row.towner = "this"
         reserve == /\ ~row.running /\ ~row.blocked /\ (manual \/ due)
                    /\ row.trig # "starting"
     IN  IF reserve
         THEN /\ mods' = [mods EXCEPT ![m] = Claimed(row, manual)]
              /\ sup' = [Considered(m) EXCEPT !.pc = "popen", !.module = m,
                                              !.manual = manual]
         ELSE mods' = [mods EXCEPT ![m] = row] /\ sup' = Planned(Considered(m))
  /\ UNCHANGED << unit, ctl, served, want, faults >>

Started(s) == [s EXCEPT !.kids[s.module] = "running", !.pc = "finish"]

StartInterval ==
  /\ sup.pc = "popen"
  /\ sup' = Started(sup)
  /\ served' = IF sup.manual THEN [served EXCEPT ![sup.module] = @ + 1] ELSE served
  /\ UNCHANGED << unit, ctl, mods, want, faults >>

\* _finish_interval_start(): whoever has lost the row writes nothing.
Finished(s, verdict) ==
  LET m == s.module
      row == PublishInterval(s, mods[m], m)
  IN  IF ctl.owner # "this" THEN mods
      ELSE [mods EXCEPT ![m] = IF s.manual THEN [row EXCEPT !.trig = verdict,
                                                            !.towner = "nobody"]
                               ELSE row]

FinishIntervalStart ==
  /\ sup.pc = "finish"
  /\ mods' = Finished(sup, "started")
  /\ sup' = Planned([sup EXCEPT !.module = "none", !.manual = FALSE])
  /\ UNCHANGED << unit, ctl, served, want, faults >>

\* The child cannot be started: the request has failed and so has the tick.
StartIntervalFails ==
  /\ sup.pc = "popen" /\ Fault
  /\ mods' = Finished(sup, "failed")
  /\ sup' = [FailedTick(sup) EXCEPT !.module = "none", !.manual = FALSE]
  /\ UNCHANGED << unit, ctl, served, want >>

\* A module with work to do is started without another look at the rows.
StartWork(m) ==
  /\ m \in WorkModules /\ MayStart(m)
  /\ sup' = Planned([Considered(m) EXCEPT !.kids[m] = "running"])
  /\ UNCHANGED << unit, ctl, mods, served, want, faults >>

\* Not startable, not ours to start, or without work.
SkipModule(m) ==
  /\ sup.pc = "plan" /\ m = Head(sup.todo)
  /\ m \in WorkModules \/ ~MayStart(m) \/ ~OwnsRunningRow
  /\ sup' = Planned(Considered(m))
  /\ UNCHANGED << unit, ctl, mods, served, want, faults >>

(***************************************************************************)
(* The end of a tick, and of the process.                                  *)
(***************************************************************************)
\* _complete_graceful_drain(): the request is consumed under the row's lock.
\* The operator who asked for the drain gets the pause that ends it.
Drained ==
  /\ sup.pc = "end" /\ ~sup.drain /\ sup.mem = "draining" /\ NoChildren(sup)
  /\ IF ctl.owner # "this"
     THEN sup' = FailedTick(sup) /\ UNCHANGED << ctl, want >>
     ELSE IF ctl.state # "draining"
     THEN /\ sup' = [sup EXCEPT !.mem = ctl.state, !.pc = "tick"]
          /\ UNCHANGED << ctl, want >>
     ELSE /\ ctl' = [ctl EXCEPT !.state = "paused"]
          /\ sup' = [sup EXCEPT !.mem = "paused", !.pc = "exit"]
          /\ want' = IF want = "draining" THEN "paused" ELSE want
  /\ UNCHANGED << unit, mods, served, faults >>

EndOfTick ==
  /\ sup.pc = "end" /\ (sup.drain \/ ~NoChildren(sup))
  /\ sup' = [sup EXCEPT !.pc = IF sup.drain /\ NoChildren(sup) THEN "exit" ELSE "tick"]
  /\ UNCHANGED << unit, ctl, mods, served, want, faults >>

\* The process is gone, its memory and its children with it.
Gone == [NewProcess(0) EXCEPT !.pc = "dead"]

LeaseReleased ==
  IF ctl.owner = "this"
  THEN [ctl EXCEPT !.owner = "nobody", !.live = FALSE, !.beat = TRUE] ELSE ctl

\* _release_lease(), and systemd restarts whatever failed.
Exit ==
  /\ sup.pc = "exit"
  /\ ctl' = LeaseReleased
  /\ sup' = Gone
  /\ unit' = IF sup.code = 0 THEN "inactive" ELSE "restarting"
  /\ UNCHANGED << mods, served, want, faults >>

\* A signal: the children are terminated and the lease is released.
StoppedBySignal ==
  /\ sup.pc \in { "tick", "end" } /\ Fault
  /\ ctl' = LeaseReleased
  /\ sup' = Gone
  /\ unit' = "inactive"
  /\ UNCHANGED << mods, served, want >>

\* Killed with its children; nothing is released.
Crash ==
  /\ Alive /\ Fault
  /\ sup' = Gone
  /\ unit' = "restarting"
  /\ UNCHANGED << ctl, mods, served, want >>

(***************************************************************************)
(* Children, time, and the requests of the web interface.                  *)
(***************************************************************************)
ChildExits(m, how) ==
  /\ Alive /\ sup.kids[m] = "running"
  /\ IF how = "ok" THEN UNCHANGED faults ELSE Fault
  /\ sup' = [sup EXCEPT !.kids[m] = how]
  /\ UNCHANGED << unit, ctl, mods, served, want >>

\* The restart delay or the cooldown of a module is over.
DelayEnds(m) ==
  /\ Alive /\ sup.delay[m]
  /\ sup' = [sup EXCEPT !.delay[m] = FALSE, !.cool[m] = 0]
  /\ UNCHANGED << unit, ctl, mods, served, want, faults >>

\* The lease of a process that no longer renews it.
LeaseExpires ==
  /\ ctl.live /\ (~Alive \/ ctl.owner # "this")
  /\ ctl' = [ctl EXCEPT !.live = FALSE]
  /\ UNCHANGED << sup, unit, mods, served, want, faults >>

Online == ctl.owner # "nobody" /\ ctl.live

\* request_run(), from a page that shows the current owner and request; any
\* other page is refused and changes nothing.
RequestRun(m) ==
  /\ m \in IntervalModules /\ Online
  /\ mods[m].owner = ctl.owner /\ ctl.state = "running" /\ mods[m].state = "running"
  /\ ~mods[m].running /\ ~mods[m].blocked /\ mods[m].trig \notin ActiveRequests
  /\ mods' = [mods EXCEPT ![m].trig = "pending", ![m].towner = ctl.owner]
  /\ served' = [served EXCEPT ![m] = 0]
  /\ UNCHANGED << sup, unit, ctl, want, faults >>

RequestCooldownRelease(m) ==
  /\ Online /\ mods[m].owner = ctl.owner
  /\ mods[m].cool # 0 /\ ~mods[m].release
  /\ mods' = [mods EXCEPT ![m].release = TRUE]
  /\ UNCHANGED << sup, unit, ctl, served, want, faults >>

\* set_control() of a module: not guarded by the deployment lock.
SetModuleControl(m, state) ==
  /\ mods[m].state # state /\ Fault
  /\ mods' = [mods EXCEPT ![m].state = state]
  /\ UNCHANGED << sup, unit, ctl, served, want >>

(***************************************************************************)
(* Initially the process runs as systemd started it, before its first      *)
(* heartbeat, and its predecessor has released the lease.                  *)
(***************************************************************************)
SupervisorInit(conf) ==
  /\ ctl = [ state |-> "running", owner |-> "nobody", live |-> FALSE, beat |-> FALSE ]
  /\ mods = [m \in Module |->
               [ state |-> "running", trig |-> "none", towner |-> "nobody",
                 owner |-> "nobody", running |-> FALSE, blocked |-> FALSE,
                 cool |-> 0, release |-> FALSE ]]
  /\ sup = NewProcess(conf)
  /\ unit = "active"
  /\ served = [m \in Module |-> 0]
  /\ want = "running"
  /\ faults = 0

\* The steps of the process's own loop.
Loop ==
  \/ Tick \/ TickRaises \/ DrainTick
  \/ \E m \in Module :
       \/ \E due \in BOOLEAN : PrepareIntervalStart(m, due)
       \/ StartWork(m) \/ SkipModule(m)
  \/ StartInterval \/ FinishIntervalStart \/ StartIntervalFails
  \/ Drained \/ EndOfTick \/ Exit

Surroundings ==
  \/ \E m \in Module : DelayEnds(m) \/ \E how \in Ended : ChildExits(m, how)
  \/ StoppedBySignal \/ Crash \/ LeaseExpires

PageRequests ==
  \E m \in Module :
    \/ RequestRun(m) \/ RequestCooldownRelease(m)
    \/ \E state \in { "running", "paused" } : SetModuleControl(m, state)

(***************************************************************************)
(* Properties.                                                             *)
(***************************************************************************)
SupervisorTypeOK ==
  /\ sup.drain \in BOOLEAN /\ sup.code \in 0..2
  /\ sup.pc \in { "tick", "plan", "popen", "finish", "end", "exit", "dead" }
  /\ sup.mem \in { "unknown", "running", "paused", "draining" }
  /\ IsSuffix(sup.todo, Modules)
  /\ sup.kids \in [Module -> Ended \cup { "none", "running" }]
  /\ unit \in { "inactive", "active", "restarting" }
  /\ ctl.state \in { "running", "paused", "draining" }
  /\ ctl.owner \in Owner
  /\ \A m \in Module :
       /\ mods[m].state \in { "running", "paused" }
       /\ mods[m].trig \in { "none", "expired", "rejected", "failed", "started" }
                             \cup ActiveRequests
       /\ mods[m].towner \in Owner
  /\ unit = "active" <=> Alive

\* A manual request starts its module at most once, and what the row says of
\* it is what happened: rejected and failed runs were not started, started ones
\* were, whatever crashes between the claim, the start and the verdict.
TriggerServedOnce ==
  \A m \in IntervalModules :
    /\ served[m] <= 1
    /\ mods[m].trig \in { "pending", "rejected", "failed" } => served[m] = 0
    /\ mods[m].trig = "started" => served[m] = 1
=============================================================================
