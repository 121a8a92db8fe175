------------------------- MODULE Deployment_proofs -------------------------
(***************************************************************************)
(* What is proved of the Supervisor and the management operations, for     *)
(* every list of modules, every list of requests and every bound.          *)
(*                                                                         *)
(* What an operation still has to do is a sequence of steps.  Everything   *)
(* below needs only two facts of it: the steps are taken in one fixed      *)
(* order, and they are the end of the operation's program, or of its       *)
(* rollback.                                                               *)
(***************************************************************************)
EXTENDS Deployment, TLAPS

(***************************************************************************)
(* The records the actions write.                                          *)
(***************************************************************************)
ProcessState ==
  [ asked : Nat, pc : { "tick", "plan", "popen", "finish", "end", "exit", "dead" },
    mem : { "unknown", "running", "paused", "draining" }, drain : BOOLEAN,
    beats : BOOLEAN, code : 0..2, conf : Nat, todo : Seq(Module),
    module : Module \cup { "none" }, manual : BOOLEAN, cooldowns : Nat,
    kids : [Module -> Ended \cup { "none", "running" }],
    delay : [Module -> BOOLEAN], cool : [Module -> Nat] ]

Control == { "running", "paused", "draining" }
ControlRow == [ state : Control, owner : Owner, live : BOOLEAN, beat : BOOLEAN ]

ModuleRow ==
  [ state : { "running", "paused" },
    trig : { "none", "expired", "rejected", "failed", "started" } \cup ActiveRequests,
    towner : Owner, owner : Owner, running : BOOLEAN, blocked : BOOLEAN,
    cool : Nat, release : BOOLEAN ]

\* The order in which every program and every rollback takes its steps.
Rank ==
  [ acquire_lock |-> 1, capture_service_state |-> 2, restore_configuration |-> 3,
    record_restored |-> 4, drain |-> 5, wait_for_supervisor_exit |-> 6,
    stop_web |-> 7, record_intent |-> 8, publish_configuration |-> 9,
    fast_forward_checkout |-> 10, validate_configuration |-> 11,
    upgrade_database |-> 12, refresh_systemd_units |-> 13,
    restore_old_commit |-> 14, start_web |-> 15, start_supervisor |-> 16,
    wait_for_supervisor_heartbeat |-> 17, restore_previous_control_state |-> 18,
    verify_supervisor_heartbeat |-> 19, publish_management_configuration |-> 20,
    finally |-> 21, record |-> 22 ]
Steps == DOMAIN Rank

Operation ==
  [ kind : Kinds \cup { "none" }, units : SUBSET Services,
    status : Terminal \cup { "none", "pending", "running" }, alive : BOOLEAN,
    todo : Seq(Steps), handling : BOOLEAN,
    outcome : { "none", "succeeded", "failed", "cancelled" },
    cancel : { "no", "requested", "rejected" },
    prev : [ supervisor : BOOLEAN, web : BOOLEAN, control : { "running", "paused" } ],
    orig : Operations \cup { Original, Edited }, applied : BOOLEAN,
    restored : BOOLEAN, changed : BOOLEAN, migrated : BOOLEAN ]

SupervisorTypes ==
  /\ sup \in ProcessState /\ ctl \in ControlRow /\ mods \in [Module -> ModuleRow]
  /\ unit \in { "inactive", "active", "restarting" }
  /\ IsSuffix(sup.todo, Modules)
  /\ sup.pc = "plan" /\ Modules # << >> => sup.todo # << >>
  /\ unit = "active" <=> Alive

(***************************************************************************)
(* A manual run.                                                           *)
(***************************************************************************)
\* The process that is about to start a module for a request, or has just done
\* so, finds the request as it has claimed it.
ClaimHeld ==
  /\ sup.pc \in { "popen", "finish" } => sup.module \in IntervalModules
  /\ sup.pc \in { "popen", "finish" } /\ sup.manual =>
       /\ mods[sup.module].trig = "starting" /\ mods[sup.module].towner = "this"
       /\ served[sup.module] = IF sup.pc = "popen" THEN 0 ELSE 1

TriggerInv ==
  /\ served \in [Module -> Nat] /\ ClaimHeld /\ TriggerServedOnce

(***************************************************************************)
(* What an operation still has to do.                                      *)
(***************************************************************************)
InOrder(todo) == \A i, j \in 1..Len(todo) : i < j => Rank[todo[i]] < Rank[todo[j]]

\* The steps of a program from some step on.
RestOf(todo, program) ==
  /\ ToSet(todo) \subseteq program
  /\ \A x \in ToSet(todo), y \in program : Rank[x] < Rank[y] => y \in ToSet(todo)

Whole(op) == ToSet(IF op.handling THEN Rollback(op) ELSE Program(op))

Untouched(op) ==
  /\ ~op.handling /\ ~op.applied /\ ~op.restored /\ ~op.changed /\ ~op.migrated
  /\ op.prev = NoOperation.prev

Over(op) ==
  op.status \in Terminal \cup { "none" } /\ ~op.alive /\ op.todo = << >>
    /\ op.outcome = "none"
Waits(op) ==
  op.status = "pending" /\ op.todo = << "acquire_lock" >> /\ op.outcome = "none"
    /\ op.kind \in Kinds /\ Untouched(op)
Captures(op) ==
  op.status = "running" /\ op.todo = << "capture_service_state" >>
    /\ op.outcome = "none" /\ op.kind \in Kinds /\ Untouched(op)
Works(op) ==
  op.status = "running" /\ op.todo # << >> /\ op.outcome = "none" /\ op.kind \in Kinds
    /\ InOrder(op.todo) /\ RestOf(op.todo, Whole(op))
Ends(op) ==
  op.status = "running" /\ op.outcome # "none" /\ op.kind \in Kinds
    /\ op.todo \in { << "finally", "record" >>, << "record" >> }

OperationOK(op) ==
  /\ op \in Operation
  /\ Over(op) \/ Waits(op) \/ Captures(op) \/ Works(op) \/ Ends(op)
  /\ op.prev.supervisor => "supervisor" \in op.units

\* One operation at a time, and who may hold the lock.
LockInv ==
  /\ lock \in Operations \cup { Free, WebService }
  /\ \A o \in Operations : lock = o => ops[o].alive /\ ops[o].status = "running"
  /\ \A o, p \in Operations : Unfinished(o) /\ Unfinished(p) => o = p
  /\ write \in Control \cup { "none" }
  /\ lock = WebService <=> write # "none"
  /\ write # "none" => \A o \in Operations : ~Unfinished(o)

OperationTypes ==
  /\ ops \in [Operations -> Operation]
  /\ \A o \in Operations : OperationOK(ops[o])
  /\ live \in Operations \cup { Original, Edited } /\ web \in BOOLEAN
  /\ LockInv

Types == SupervisorTypes /\ OperationTypes /\ want \in Control

(***************************************************************************)
(* A cancelled drain.                                                      *)
(***************************************************************************)
DrainInv ==
  /\ sup.asked # 0 /\ sup.pc = "exit" /\ ~sup.drain => ctl.state # "draining"
  /\ \A o \in Operations :
       "cancelled" \in { ops[o].outcome, ops[o].status } /\ sup.asked = o
         => ctl.state # "draining"
  /\ CancelledDrainSpares

(***************************************************************************)
(* The control state.                                                      *)
(***************************************************************************)
Excused ==
  \E o \in Operations : \/ ops[o].status = "interrupted"
                        \/ ops[o].status = "failed" /\ ops[o].migrated

Has(op, step) == step \in ToSet(op.todo)
Returned(o) ==
  ctl.state = want \/ (ops[o].outcome = "failed" /\ ops[o].migrated)

\* What the control state is at each point of an operation that runs: nobody has
\* touched it yet, or it is to go back to what was captured, or it is back.
ControlUntouched(o) ==
  Captures(ops[o]) \/ "supervisor" \notin ops[o].units => ctl.state = want
ControlCaptured(o) ==
  "supervisor" \in ops[o].units /\ (Works(ops[o]) \/ Has(ops[o], "finally"))
    => want = ops[o].prev.control
ControlBack(o) ==
  /\ Has(ops[o], "finally") => PutsControlBack(ops[o]) \/ Returned(o)
  /\ ~Has(ops[o], "finally") /\ Has(ops[o], "record") => Returned(o)

\* An update does not put it back once it has begun to migrate: by then the
\* steps that start the Supervisor will, or have.
ControlOfUpdate(o) ==
  LET op == ops[o]
  IN  /\ Works(op) /\ op.kind = "git_update" /\ ~op.handling =>
           /\ ctl.state = want \/ Has(op, "restore_previous_control_state")
           /\ op.migrated => \A x \in ToSet(op.todo) : Rank[x] > Rank["upgrade_database"]
      /\ op.migrated => op.kind = "git_update" /\ ~op.handling

ControlOf(o) ==
  ControlUntouched(o) /\ ControlCaptured(o) /\ ControlBack(o) /\ ControlOfUpdate(o)

ControlInv ==
  Excused \/ /\ (\A o \in Operations : ops[o].status # "running") => ctl.state = want
             /\ \A o \in Operations :
                  ops[o].status = "running" /\ ops[o].alive => ControlOf(o)

(***************************************************************************)
(* The configuration.                                                      *)
(***************************************************************************)
\* An operation whose configuration is live has published it, and will take it
\* back if it fails.
LiveInv ==
  \A o \in Operations : live = o =>
    LET op == ops[o]
    IN  /\ op.kind = "apply_config" /\ op.status \in { "running", "succeeded" }
        /\ op.status = "running" =>
             /\ op.applied /\ ~op.restored /\ op.outcome \in { "none", "succeeded" }
             /\ Works(op) =>
                  IF op.handling THEN Has(op, "restore_configuration")
                  ELSE \A x \in ToSet(op.todo) : Rank[x] > Rank["publish_configuration"]

\* The configuration an operation goes back to is not its own, and nobody takes
\* that one back.
OrigInv ==
  \A o \in Operations :
    /\ Unfinished(o) /\ ops[o].orig \in Operations
         => /\ ops[ops[o].orig].status = "succeeded"
            /\ ops[ops[o].orig].kind = "apply_config"
    /\ ops[o].restored => ops[o].handling
    /\ ops[o].outcome = "succeeded" => ~ops[o].handling
    /\ Works(ops[o]) /\ Has(ops[o], "publish_configuration")
         => Has(ops[o], "record_intent") \/ ops[o].applied

\* Between the drain and the start of the Supervisor there is no process, and
\* the one that is started reads the new configuration.
ProcessInv ==
  \A o \in Operations :
    LET op == ops[o]
    IN  op.kind = "apply_config" /\ op.status = "running" /\ ~op.handling
          /\ "supervisor" \in op.units =>
          /\ Works(op) /\ ~Has(op, "wait_for_supervisor_exit")
               /\ (Has(op, "start_supervisor") \/ ~op.prev.supervisor)
               => unit = "inactive"
          /\ live = o /\ ~Has(op, "start_supervisor") => (Alive => sup.conf = o)

ConfigurationInv == LiveInv /\ OrigInv /\ ProcessInv

(***************************************************************************)
(* Sequences.                                                              *)
(***************************************************************************)
\* The tail of a sequence.
LEMMA TailFacts ==
  ASSUME NEW S, NEW s \in Seq(S), s # << >>
  PROVE  /\ Tail(s) \in Seq(S) /\ Len(Tail(s)) = Len(s) - 1 /\ Len(s) \in Nat
         /\ \A i \in 1..Len(Tail(s)) : Tail(s)[i] = s[i + 1]
         /\ Len(s) > 0 /\ Head(s) = s[1] /\ Head(s) \in S
         /\ \A i \in 1..Len(s) : s[i] \in S
OBVIOUS

\* A suffix, index by index.
LEMMA SuffixIndex ==
  ASSUME NEW S, NEW s \in Seq(S), NEW t \in Seq(S)
  PROVE  IsSuffix(s, t) <=>
           Len(s) <= Len(t) /\ \A i \in 1..Len(s) : s[i] = t[Len(t) - Len(s) + i]
<1> DEFINE rs == Reverse(s)  rt == Reverse(t)
<1>1. /\ Len(s) \in Nat /\ Len(t) \in Nat
      /\ \A i \in 1..Len(s) : s[i] \in S
      /\ \A i \in 1..Len(t) : t[i] \in S
  OBVIOUS
<1>2. rs \in Seq(S) /\ Len(rs) = Len(s) /\ \A i \in 1..Len(s) : rs[i] = s[Len(s) - i + 1]
  BY <1>1 DEF Reverse
<1>3. rt \in Seq(S) /\ Len(rt) = Len(t) /\ \A i \in 1..Len(t) : rt[i] = t[Len(t) - i + 1]
  BY <1>1 DEF Reverse
<1> HIDE DEF rs, rt
<1>4. IsSuffix(s, t) <=>
        Len(s) <= Len(t) /\ SubSeq(rs, 1, Len(s)) = SubSeq(rt, 1, Len(s))
  BY <1>2, <1>3 DEF IsSuffix, IsPrefix, rs, rt
<1>5. CASE ~(Len(s) <= Len(t)) BY <1>4, <1>5
<1>6. CASE Len(s) <= Len(t)
  <2>1. SubSeq(rs, 1, Len(s)) = SubSeq(rt, 1, Len(s))
          <=> \A i \in 1..Len(s) : rs[i] = rt[i]
    BY <1>1, <1>2, <1>3, <1>6
  <2>2. (\A i \in 1..Len(s) : rs[i] = rt[i])
          <=> \A i \in 1..Len(s) : s[i] = t[Len(t) - Len(s) + i]
    <3>1. ASSUME \A i \in 1..Len(s) : rs[i] = rt[i], NEW i \in 1..Len(s)
          PROVE  s[i] = t[Len(t) - Len(s) + i]
      <4>1. Len(s) - i + 1 \in 1..Len(s) BY <1>1
      <4>2. rs[Len(s) - i + 1] = s[i] BY <1>1, <1>2, <4>1
      <4>3. rt[Len(s) - i + 1] = t[Len(t) - Len(s) + i] BY <1>1, <1>3, <1>6, <4>1
      <4> QED BY <3>1, <4>1, <4>2, <4>3
    <3>2. ASSUME \A i \in 1..Len(s) : s[i] = t[Len(t) - Len(s) + i], NEW i \in 1..Len(s)
          PROVE  rs[i] = rt[i]
      <4>1. Len(s) - i + 1 \in 1..Len(s) BY <1>1
      <4>2. rs[i] = t[Len(t) - Len(s) + (Len(s) - i + 1)] BY <1>2, <3>2, <4>1
      <4>3. Len(t) - Len(s) + (Len(s) - i + 1) = Len(t) - i + 1 BY <1>1
      <4> QED BY <1>1, <1>3, <1>6, <4>2, <4>3
    <3> QED BY <3>1, <3>2
  <2> QED BY <1>4, <1>6, <2>1, <2>2
<1> QED BY <1>5, <1>6

\* The suffixes of the modules: nothing, all of them, and what follows the head
\* of one.
LEMMA ModuleSuffixes ==
  /\ IsSuffix(<< >>, Modules) /\ IsSuffix(Modules, Modules)
  /\ \A s \in Seq(Module) : s # << >> /\ IsSuffix(s, Modules)
       => IsSuffix(Tail(s), Modules)
<1>1. << >> \in Seq(Module) /\ Modules \in Seq(Module) BY ModulesAreListed
<1>2. IsSuffix(<< >>, Modules)
  <2>1. Len(<< >>) = 0 /\ Len(Modules) \in Nat BY <1>1
  <2>2. Len(<< >>) <= Len(Modules) /\ 1..Len(<< >>) = {} BY <2>1
  <2> QED BY <1>1, <2>2, SuffixIndex
<1>3. IsSuffix(Modules, Modules)
  <2>1. Len(Modules) \in Nat BY <1>1
  <2>2. \A i \in 1..Len(Modules) : Modules[i] = Modules[Len(Modules) - Len(Modules) + i]
    BY <2>1
  <2> QED BY <1>1, <2>1, <2>2, SuffixIndex
<1>4. ASSUME NEW s \in Seq(Module), s # << >>, IsSuffix(s, Modules)
      PROVE  IsSuffix(Tail(s), Modules)
  <2>1. /\ Len(s) <= Len(Modules)
        /\ \A i \in 1..Len(s) : s[i] = Modules[Len(Modules) - Len(s) + i]
    BY <1>1, <1>4, SuffixIndex
  <2>2. /\ Tail(s) \in Seq(Module) /\ Len(Tail(s)) = Len(s) - 1 /\ Len(s) \in Nat
        /\ \A i \in 1..Len(Tail(s)) : Tail(s)[i] = s[i + 1]
        /\ Len(Modules) \in Nat
    BY <1>1, <1>4, TailFacts
  <2>3. ASSUME NEW i \in 1..Len(Tail(s))
        PROVE  Tail(s)[i] = Modules[Len(Modules) - Len(Tail(s)) + i]
    <3>1. i + 1 \in 1..Len(s) BY <2>2
    <3>2. Tail(s)[i] = Modules[Len(Modules) - Len(s) + (i + 1)] BY <2>1, <2>2, <3>1
    <3>3. Len(Modules) - Len(s) + (i + 1) = Len(Modules) - Len(Tail(s)) + i BY <2>2
    <3> QED BY <3>2, <3>3
  <2>4. Len(Tail(s)) <= Len(Modules) BY <2>1, <2>2
  <2>5. Tail(s) \in Seq(Module) BY <2>2
  <2> QED BY <1>1, <2>3, <2>4, <2>5, SuffixIndex
<1> QED BY <1>2, <1>3, <1>4

\* The ranks are natural numbers.
LEMMA RankIsNat == \A x \in Steps : Rank[x] \in Nat
BY DEF Rank, Steps

\* Numbers instead of names.
LEMMA Ranks ==
  /\ Rank["acquire_lock"] = 1 /\ Rank["capture_service_state"] = 2
  /\ Rank["restore_configuration"] = 3 /\ Rank["record_restored"] = 4
  /\ Rank["drain"] = 5 /\ Rank["wait_for_supervisor_exit"] = 6
  /\ Rank["stop_web"] = 7 /\ Rank["record_intent"] = 8
  /\ Rank["publish_configuration"] = 9 /\ Rank["fast_forward_checkout"] = 10
  /\ Rank["validate_configuration"] = 11 /\ Rank["upgrade_database"] = 12
  /\ Rank["refresh_systemd_units"] = 13 /\ Rank["restore_old_commit"] = 14
  /\ Rank["start_web"] = 15 /\ Rank["start_supervisor"] = 16
  /\ Rank["wait_for_supervisor_heartbeat"] = 17
  /\ Rank["restore_previous_control_state"] = 18
  /\ Rank["verify_supervisor_heartbeat"] = 19
  /\ Rank["publish_management_configuration"] = 20
  /\ Rank["finally"] = 21 /\ Rank["record"] = 22
BY DEF Rank

\* The first of a sequence of steps in order comes before the others, and the
\* others are what is left.
LEMMA FirstStep ==
  ASSUME NEW s \in Seq(Steps), s # << >>, InOrder(s)
  PROVE  /\ Head(s) \in ToSet(s) /\ ToSet(s) \subseteq Steps
         /\ Tail(s) \in Seq(Steps) /\ InOrder(Tail(s))
         /\ ToSet(Tail(s)) = ToSet(s) \ { Head(s) }
         /\ \A x \in ToSet(Tail(s)) : Rank[Head(s)] < Rank[x]
         /\ Len(s) > 1 <=> Tail(s) # << >>
<1>1. /\ Tail(s) \in Seq(Steps) /\ Len(Tail(s)) = Len(s) - 1 /\ Len(s) \in Nat
      /\ \A i \in 1..Len(Tail(s)) : Tail(s)[i] = s[i + 1]
      /\ Len(s) > 0 /\ Head(s) = s[1] /\ Head(s) \in Steps
      /\ \A i \in 1..Len(s) : s[i] \in Steps
      /\ DOMAIN s = 1..Len(s) /\ DOMAIN Tail(s) = 1..Len(Tail(s))
  BY TailFacts
<1>2. \A i \in 1..Len(s) : Rank[s[i]] \in Nat BY <1>1, RankIsNat
<1>3. \A i \in 2..Len(s) : Rank[s[1]] < Rank[s[i]] BY <1>1 DEF InOrder
<1>4. \A i \in 2..Len(s) : i - 1 \in 1..Len(Tail(s)) /\ Tail(s)[i - 1] = s[i] BY <1>1
<1>5. ToSet(Tail(s)) = { s[i] : i \in 2..Len(s) }
  <2>1. ASSUME NEW x \in ToSet(Tail(s)) PROVE x \in { s[i] : i \in 2..Len(s) }
    <3>1. PICK i \in 1..Len(Tail(s)) : x = Tail(s)[i] BY <1>1 DEF ToSet
    <3>2. i + 1 \in 2..Len(s) /\ x = s[i + 1] BY <1>1, <3>1
    <3> QED BY <3>2
  <2>2. ASSUME NEW i \in 2..Len(s) PROVE s[i] \in ToSet(Tail(s))
    BY <1>1, <1>4 DEF ToSet
  <2> QED BY <2>1, <2>2
<1>6. ToSet(s) = { s[i] : i \in 1..Len(s) } BY <1>1 DEF ToSet
<1>7. ToSet(s) = { s[1] } \cup { s[i] : i \in 2..Len(s) }
  BY <1>1, <1>6
<1>8. s[1] \notin { s[i] : i \in 2..Len(s) } BY <1>1, <1>2, <1>3
<1>9. InOrder(Tail(s))
  <2>1. ASSUME NEW i \in 1..Len(Tail(s)), NEW j \in 1..Len(Tail(s)), i < j
        PROVE  Rank[Tail(s)[i]] < Rank[Tail(s)[j]]
    <3>1. i + 1 \in 1..Len(s) /\ j + 1 \in 1..Len(s) /\ i + 1 < j + 1 BY <1>1, <2>1
    <3> QED BY <1>1, <3>1 DEF InOrder
  <2> QED BY <2>1 DEF InOrder
<1>10. Len(s) > 1 <=> Tail(s) # << >> BY <1>1
<1> QED BY <1>1, <1>3, <1>5, <1>6, <1>7, <1>8, <1>9, <1>10

\* Two sequences in order, one after the other.
LEMMA InOrderConcat ==
  ASSUME NEW s \in Seq(Steps), NEW t \in Seq(Steps), InOrder(s), InOrder(t),
         \A x \in ToSet(s), y \in ToSet(t) : Rank[x] < Rank[y]
  PROVE  /\ s \o t \in Seq(Steps) /\ InOrder(s \o t)
         /\ ToSet(s \o t) = ToSet(s) \cup ToSet(t)
<1> DEFINE u == s \o t
<1>1. /\ u \in Seq(Steps) /\ Len(u) = Len(s) + Len(t)
      /\ Len(s) \in Nat /\ Len(t) \in Nat
      /\ \A i \in 1..Len(s) : u[i] = s[i]
      /\ \A i \in 1..Len(t) : u[Len(s) + i] = t[i]
      /\ DOMAIN s = 1..Len(s) /\ DOMAIN t = 1..Len(t) /\ DOMAIN u = 1..Len(u)
  OBVIOUS
<1>2. \A i \in 1..Len(u) : i \in 1..Len(s) \/ (i - Len(s) \in 1..Len(t)
                                               /\ u[i] = t[i - Len(s)])
  BY <1>1
<1>3. InOrder(u)
  <2>1. ASSUME NEW i \in 1..Len(u), NEW j \in 1..Len(u), i < j
        PROVE  Rank[u[i]] < Rank[u[j]]
    <3>1. CASE j \in 1..Len(s)
      <4>1. i \in 1..Len(s) BY <1>1, <2>1, <3>1
      <4> QED BY <1>1, <2>1, <3>1, <4>1 DEF InOrder
    <3>2. CASE i \in 1..Len(s) /\ j \notin 1..Len(s)
      <4>1. u[i] \in ToSet(s) /\ u[j] \in ToSet(t) BY <1>1, <1>2, <3>2 DEF ToSet
      <4> QED BY <4>1
    <3>3. CASE i \notin 1..Len(s) /\ j \notin 1..Len(s)
      <4>1. i - Len(s) < j - Len(s) BY <1>1, <2>1
      <4> QED BY <1>1, <1>2, <3>3, <4>1 DEF InOrder
    <3> QED BY <3>1, <3>2, <3>3
  <2> QED BY <2>1 DEF InOrder
<1>4. ToSet(u) = ToSet(s) \cup ToSet(t)
  <2>1. ASSUME NEW i \in 1..Len(u) PROVE u[i] \in ToSet(s) \cup ToSet(t)
    BY <1>1, <1>2 DEF ToSet
  <2>2. ASSUME NEW i \in 1..Len(s) PROVE s[i] \in ToSet(u)
    <3>1. i \in 1..Len(u) BY <1>1
    <3> QED BY <1>1, <3>1 DEF ToSet
  <2>3. ASSUME NEW i \in 1..Len(t) PROVE t[i] \in ToSet(u)
    <3>1. Len(s) + i \in 1..Len(u) BY <1>1
    <3> QED BY <1>1, <3>1 DEF ToSet
  <2> QED BY <1>1, <2>1, <2>2, <2>3 DEF ToSet
<1> QED BY <1>1, <1>3, <1>4

(***************************************************************************)
(* Programs.                                                               *)
(***************************************************************************)
\* A sequence of steps in order, with these elements.
Ordered(s, S) == s \in Seq(Steps) /\ InOrder(s) /\ ToSet(s) = S

Stopping == { "drain", "wait_for_supervisor_exit" }
Starting ==
  { "start_supervisor", "wait_for_supervisor_heartbeat",
    "restore_previous_control_state", "verify_supervisor_heartbeat" }
SupervisorSteps == Stopping \cup Starting
Only(condition, S) == IF condition THEN S ELSE { }

StopsSet(op) ==
  Only("supervisor" \in op.units /\ op.prev.supervisor, Stopping)
    \cup Only("web" \in op.units /\ op.prev.web, { "stop_web" })
RestoreSet(op) ==
  Only(op.prev.web, { "start_web" }) \cup Only(op.prev.supervisor, Starting)

ProgramSet(op) ==
  CASE op.kind = "stop" -> StopsSet(op)
    [] op.kind = "start" ->
         Only("web" \in op.units /\ ~op.prev.web, { "start_web" })
           \cup Only("supervisor" \in op.units /\ ~op.prev.supervisor, Starting)
    [] op.kind = "restart" ->
         StopsSet(op) \cup Only("web" \in op.units, { "start_web" })
           \cup Only("supervisor" \in op.units, Starting)
    [] op.kind = "apply_config" ->
         StopsSet(op) \cup { "record_intent", "publish_configuration" }
           \cup RestoreSet(op) \cup { "publish_management_configuration" }
    [] op.kind = "git_update" ->
         StopsSet(op) \cup { "fast_forward_checkout", "validate_configuration",
                             "upgrade_database", "refresh_systemd_units" }
           \cup RestoreSet(op)

RollbackSet(op) ==
  CASE op.kind = "apply_config" ->
         { "restore_configuration", "record_restored" } \cup StopsSet(op)
           \cup RestoreSet(op)
    [] op.kind = "git_update" /\ ~op.migrated ->
         Only(op.changed, { "restore_old_commit" }) \cup RestoreSet(op)
    [] OTHER -> { }

\* The parts of the programs.
LEMMA Parts ==
  /\ Ordered(StopSupervisor, Stopping) /\ Ordered(StartSupervisor, Starting)
  /\ \A x \in Steps : Ordered(<< x >>, { x })
  /\ Ordered(<< "record_intent", "publish_configuration" >>,
             { "record_intent", "publish_configuration" })
  /\ Ordered(<< "restore_configuration", "record_restored" >>,
             { "restore_configuration", "record_restored" })
  /\ Ordered(<< "fast_forward_checkout", "validate_configuration",
                "upgrade_database", "refresh_systemd_units" >>,
             { "fast_forward_checkout", "validate_configuration",
               "upgrade_database", "refresh_systemd_units" })
<1>1. /\ { "drain", "wait_for_supervisor_exit", "start_supervisor",
           "wait_for_supervisor_heartbeat", "restore_previous_control_state",
           "verify_supervisor_heartbeat", "record_intent", "publish_configuration",
           "restore_configuration", "record_restored", "fast_forward_checkout",
           "validate_configuration", "upgrade_database",
           "refresh_systemd_units" } \subseteq Steps
  BY DEF Rank, Steps
<1>2. ASSUME NEW a \in Steps, NEW b \in Steps, Rank[a] < Rank[b]
      PROVE  Ordered(<< a, b >>, { a, b })
  <2> DEFINE s == << a, b >>
  <2>1. s \in Seq(Steps) /\ Len(s) = 2 /\ s[1] = a /\ s[2] = b /\ DOMAIN s = 1..2
    OBVIOUS
  <2>2. InOrder(s)
    <3>1. ASSUME NEW i \in 1..2, NEW j \in 1..2, i < j PROVE i = 1 /\ j = 2
      BY <3>1
    <3> QED BY <1>2, <2>1, <3>1 DEF InOrder
  <2>3. ToSet(s) = { a, b } BY <2>1 DEF ToSet
  <2> QED BY <2>1, <2>2, <2>3 DEF Ordered
<1>3. ASSUME NEW a \in Steps, NEW b \in Steps, NEW c \in Steps, NEW d \in Steps,
             Rank[a] < Rank[b], Rank[b] < Rank[c], Rank[c] < Rank[d]
      PROVE  Ordered(<< a, b, c, d >>, { a, b, c, d })
  <2> DEFINE s == << a, b, c, d >>
  <2>1. s \in Seq(Steps) /\ Len(s) = 4 /\ s[1] = a /\ s[2] = b /\ s[3] = c /\ s[4] = d
          /\ DOMAIN s = 1..4
    OBVIOUS
  <2>2. InOrder(s)
    <3>1. /\ Rank[a] \in Nat /\ Rank[b] \in Nat /\ Rank[c] \in Nat /\ Rank[d] \in Nat
      BY RankIsNat
    <3>2. ASSUME NEW i \in 1..4, NEW j \in 1..4, i < j
          PROVE  Rank[s[i]] < Rank[s[j]]
      <4>1. i \in { 1, 2, 3 } /\ j \in { 2, 3, 4 } BY <3>2
      <4> QED BY <1>3, <2>1, <3>1, <3>2, <4>1
    <3> QED BY <2>1, <3>2 DEF InOrder
  <2>3. ToSet(s) = { a, b, c, d } BY <2>1 DEF ToSet
  <2> QED BY <2>1, <2>2, <2>3 DEF Ordered
<1>4. ASSUME NEW x \in Steps PROVE Ordered(<< x >>, { x })
  <2>1. << x >> \in Seq(Steps) /\ Len(<< x >>) = 1 /\ << x >>[1] = x
          /\ DOMAIN << x >> = 1..1
    OBVIOUS
  <2> QED BY <2>1 DEF Ordered, InOrder, ToSet
<1>5. Ordered(StopSupervisor, Stopping)
  BY <1>1, <1>2, Ranks DEF StopSupervisor, Stopping
<1>6. Ordered(StartSupervisor, Starting)
  BY <1>1, <1>3, Ranks DEF StartSupervisor, Starting
<1>7. Ordered(<< "record_intent", "publish_configuration" >>,
              { "record_intent", "publish_configuration" })
  BY <1>1, <1>2, Ranks
<1>8. Ordered(<< "restore_configuration", "record_restored" >>,
              { "restore_configuration", "record_restored" })
  BY <1>1, <1>2, Ranks
<1>9. Ordered(<< "fast_forward_checkout", "validate_configuration",
                 "upgrade_database", "refresh_systemd_units" >>,
              { "fast_forward_checkout", "validate_configuration",
                "upgrade_database", "refresh_systemd_units" })
  BY <1>1, <1>3, Ranks
<1> QED BY <1>4, <1>5, <1>6, <1>7, <1>8, <1>9

\* A part that is taken or left out, and one part after another.
LEMMA OrderedIf ==
  ASSUME NEW c \in BOOLEAN, NEW s, NEW S, Ordered(s, S)
  PROVE  Ordered(If(c, s), Only(c, S))
<1>1. << >> \in Seq(Steps) /\ Len(<< >>) = 0 /\ DOMAIN << >> = 1..0 OBVIOUS
<1>2. Ordered(<< >>, { }) BY <1>1 DEF Ordered, InOrder, ToSet
<1> QED BY <1>2 DEF If, Only

\* Two ordered parts make an ordered whole when every step of the first ranks before
\* every step of the second.
LEMMA OrderedConcat ==
  ASSUME NEW s, NEW S, NEW t, NEW T, Ordered(s, S), Ordered(t, T),
         \A x \in S, y \in T : Rank[x] < Rank[y]
  PROVE  Ordered(s \o t, S \cup T)
BY InOrderConcat DEF Ordered

\* Both parts of what stops and of what starts the services.
LEMMA StopsOrdered ==
  ASSUME NEW op \in Operation
  PROVE  /\ Ordered(Stops(op), StopsSet(op))
         /\ Ordered(RestoreServices(op), RestoreSet(op))
<1>1. { "stop_web", "start_web" } \subseteq Steps BY DEF Rank, Steps
<1>2. op.prev.supervisor \in BOOLEAN /\ op.prev.web \in BOOLEAN BY DEF Operation
<1>3. /\ Ordered(If("supervisor" \in op.units /\ op.prev.supervisor, StopSupervisor),
                 Only("supervisor" \in op.units /\ op.prev.supervisor, Stopping))
      /\ Ordered(If("web" \in op.units /\ op.prev.web, << "stop_web" >>),
                 Only("web" \in op.units /\ op.prev.web, { "stop_web" }))
  BY <1>1, <1>2, Parts, OrderedIf
<1>4. /\ Ordered(If(op.prev.web, << "start_web" >>), Only(op.prev.web, { "start_web" }))
      /\ Ordered(If(op.prev.supervisor, StartSupervisor),
                 Only(op.prev.supervisor, Starting))
  BY <1>1, <1>2, Parts, OrderedIf
<1>5. \A x \in Stopping : Rank[x] < Rank["stop_web"] BY Ranks DEF Stopping
<1>6. \A x \in Starting : Rank["start_web"] < Rank[x] BY Ranks DEF Starting
<1>7. Ordered(Stops(op), StopsSet(op))
  BY <1>3, <1>5, OrderedConcat DEF Stops, StopsSet, Only
<1>8. Ordered(RestoreServices(op), RestoreSet(op))
  BY <1>4, <1>6, OrderedConcat DEF RestoreServices, RestoreSet, Only
<1> QED BY <1>7, <1>8

\* Every program takes its steps in the order of their ranks.
LEMMA ProgramOrdered ==
  ASSUME NEW op \in Operation, op.kind \in Kinds
  PROVE  Ordered(Program(op), ProgramSet(op))
<1> DEFINE rest == RestoreServices(op)
<1>1. { "start_web", "publish_management_configuration" } \subseteq Steps
  BY DEF Rank, Steps
<1>2. /\ op.prev.supervisor \in BOOLEAN /\ op.prev.web \in BOOLEAN
      /\ op.kind \in { "stop", "start", "restart", "apply_config", "git_update" }
  BY DEF Operation, Kinds
<1>3. Ordered(Stops(op), StopsSet(op)) /\ Ordered(rest, RestoreSet(op))
  BY StopsOrdered
<1>4. /\ \A x \in StopsSet(op) : Rank[x] \in 5..7
      /\ \A x \in RestoreSet(op) : Rank[x] \in 15..19
      /\ \A x \in Starting : Rank[x] \in 16..19
  BY Ranks DEF StopsSet, RestoreSet, Only, Stopping, Starting
<1>5. CASE op.kind = "stop" BY <1>3, <1>5 DEF Program, ProgramSet
<1>6. CASE op.kind = "start"
  <2>1. /\ Ordered(If("web" \in op.units /\ ~op.prev.web, << "start_web" >>),
                   Only("web" \in op.units /\ ~op.prev.web, { "start_web" }))
        /\ Ordered(If("supervisor" \in op.units /\ ~op.prev.supervisor, StartSupervisor),
                   Only("supervisor" \in op.units /\ ~op.prev.supervisor, Starting))
    BY <1>1, <1>2, Parts, OrderedIf
  <2>2. \A x \in { "start_web" }, y \in Starting : Rank[x] < Rank[y] BY <1>4, Ranks
  <2> QED BY <1>6, <2>1, <2>2, OrderedConcat DEF Program, ProgramSet, Only
<1>7. CASE op.kind = "restart"
  <2>1. /\ Ordered(If("web" \in op.units, << "start_web" >>),
                   Only("web" \in op.units, { "start_web" }))
        /\ Ordered(If("supervisor" \in op.units, StartSupervisor),
                   Only("supervisor" \in op.units, Starting))
    <3> DEFINE web_ == "web" \in op.units  supervisor_ == "supervisor" \in op.units
    <3>1. web_ \in BOOLEAN /\ supervisor_ \in BOOLEAN OBVIOUS
    <3>2. Ordered(<< "start_web" >>, { "start_web" })
            /\ Ordered(StartSupervisor, Starting)
      BY <1>1, Parts
    <3> HIDE DEF web_, supervisor_
    <3>3. /\ Ordered(If(web_, << "start_web" >>), Only(web_, { "start_web" }))
          /\ Ordered(If(supervisor_, StartSupervisor), Only(supervisor_, Starting))
      BY <3>1, <3>2, OrderedIf
    <3> QED BY <3>3 DEF web_, supervisor_
  <2>2. Ordered(Stops(op) \o If("web" \in op.units, << "start_web" >>),
                StopsSet(op) \cup Only("web" \in op.units, { "start_web" }))
    <3>1. \A x \in StopsSet(op), y \in { "start_web" } : Rank[x] < Rank[y]
      BY <1>4, Ranks
    <3> QED BY <1>3, <2>1, <3>1, OrderedConcat DEF Only
  <2>3. \A x \in StopsSet(op) \cup { "start_web" }, y \in Starting : Rank[x] < Rank[y]
    BY <1>4, Ranks
  <2>4. \A x \in StopsSet(op) \cup Only("web" \in op.units, { "start_web" }),
           y \in Only("supervisor" \in op.units, Starting) : Rank[x] < Rank[y]
    BY <2>3 DEF Only
  <2>5. Ordered((Stops(op) \o If("web" \in op.units, << "start_web" >>))
                  \o If("supervisor" \in op.units, StartSupervisor),
                (StopsSet(op) \cup Only("web" \in op.units, { "start_web" }))
                  \cup Only("supervisor" \in op.units, Starting))
    BY <2>1, <2>2, <2>4, OrderedConcat
  <2> QED BY <1>7, <2>5 DEF Program, ProgramSet
<1>8. CASE op.kind = "apply_config"
  <2> DEFINE a == << "record_intent", "publish_configuration" >>
             A == { "record_intent", "publish_configuration" }
             end == << "publish_management_configuration" >>
             End == { "publish_management_configuration" }
  <2>1. Ordered(a, A) /\ Ordered(end, End) BY <1>1, Parts
  <2>2. /\ \A x \in A : Rank[x] \in 8..9 /\ \A y \in End : Rank[y] = 20
    BY Ranks
  <2> HIDE DEF a, A, end, End
  <2>3. Ordered(Stops(op) \o a, StopsSet(op) \cup A)
    BY <1>3, <1>4, <2>1, <2>2, OrderedConcat
  <2>4. Ordered((Stops(op) \o a) \o rest, (StopsSet(op) \cup A) \cup RestoreSet(op))
    <3>1. \A x \in StopsSet(op) \cup A, y \in RestoreSet(op) : Rank[x] < Rank[y]
      BY <1>4, <2>2
    <3> HIDE DEF rest
    <3> QED BY <1>3, <2>3, <3>1, OrderedConcat
  <2>5. Ordered(((Stops(op) \o a) \o rest) \o end,
                ((StopsSet(op) \cup A) \cup RestoreSet(op)) \cup End)
    <3>1. \A x \in (StopsSet(op) \cup A) \cup RestoreSet(op) : Rank[x] \in 5..19
      BY <1>4, <2>2
    <3>2. ASSUME NEW x \in (StopsSet(op) \cup A) \cup RestoreSet(op), NEW y \in End
          PROVE  Rank[x] < Rank[y]
      <4>1. Rank[x] \in 5..19 BY <3>1
      <4>2. Rank[y] = 20
        <5>1. y = "publish_management_configuration" BY DEF End
        <5> QED BY <5>1, Ranks
      <4> QED BY <4>1, <4>2
    <3> HIDE DEF rest
    <3> QED BY <2>1, <2>4, <3>2, OrderedConcat
  <2> QED BY <1>8, <2>5 DEF Program, ProgramSet, a, A, end, End
<1>9. CASE op.kind = "git_update"
  <2> DEFINE a == << "fast_forward_checkout", "validate_configuration",
                     "upgrade_database", "refresh_systemd_units" >>
             A == { "fast_forward_checkout", "validate_configuration",
                    "upgrade_database", "refresh_systemd_units" }
  <2>1. Ordered(a, A) BY Parts
  <2>2. \A x \in A : Rank[x] \in 10..13 BY Ranks
  <2> HIDE DEF a, A
  <2>3. Ordered(Stops(op) \o a, StopsSet(op) \cup A)
    BY <1>3, <1>4, <2>1, <2>2, OrderedConcat
  <2>4. Ordered((Stops(op) \o a) \o rest, (StopsSet(op) \cup A) \cup RestoreSet(op))
    <3>1. \A x \in StopsSet(op) \cup A, y \in RestoreSet(op) : Rank[x] < Rank[y]
      BY <1>4, <2>2
    <3> HIDE DEF rest
    <3> QED BY <1>3, <2>3, <3>1, OrderedConcat
  <2> QED BY <1>9, <2>4 DEF Program, ProgramSet, a, A
<1> QED BY <1>2, <1>5, <1>6, <1>7, <1>8, <1>9

\* So does every rollback.
LEMMA RollbackOrdered ==
  ASSUME NEW op \in Operation
  PROVE  Ordered(Rollback(op), RollbackSet(op))
<1>1. /\ op.changed \in BOOLEAN /\ op.migrated \in BOOLEAN
      /\ { "restore_old_commit" } \subseteq Steps
  BY DEF Operation, Rank, Steps
<1>2. Ordered(Stops(op), StopsSet(op)) /\ Ordered(RestoreServices(op), RestoreSet(op))
  BY StopsOrdered
<1>3. /\ \A x \in StopsSet(op) : Rank[x] \in 5..7
      /\ \A x \in RestoreSet(op) : Rank[x] \in 15..19
  BY Ranks DEF StopsSet, RestoreSet, Only, Stopping, Starting
<1>4. CASE op.kind = "apply_config"
  <2> DEFINE a == << "restore_configuration", "record_restored" >>
             A == { "restore_configuration", "record_restored" }
  <2>1. Ordered(a, A) /\ \A x \in A : Rank[x] \in 3..4 BY Parts, Ranks
  <2> HIDE DEF a, A
  <2>2. Ordered(a \o Stops(op), A \cup StopsSet(op))
    BY <1>2, <1>3, <2>1, OrderedConcat
  <2>3. \A x \in A \cup StopsSet(op), y \in RestoreSet(op) : Rank[x] < Rank[y]
    BY <1>3, <2>1
  <2>4. Ordered((a \o Stops(op)) \o RestoreServices(op),
                (A \cup StopsSet(op)) \cup RestoreSet(op))
    BY <1>2, <2>2, <2>3, OrderedConcat
  <2> QED BY <1>4, <2>4 DEF Rollback, RollbackSet, a, A
<1>5. CASE op.kind = "git_update" /\ ~op.migrated
  <2>1. Ordered(If(op.changed, << "restore_old_commit" >>),
                Only(op.changed, { "restore_old_commit" }))
    BY <1>1, Parts, OrderedIf
  <2>2. \A x \in Only(op.changed, { "restore_old_commit" }), y \in RestoreSet(op) :
          Rank[x] < Rank[y]
    BY <1>3, Ranks DEF Only
  <2>3. Ordered(If(op.changed, << "restore_old_commit" >>) \o RestoreServices(op),
                Only(op.changed, { "restore_old_commit" }) \cup RestoreSet(op))
    BY <1>2, <2>1, <2>2, OrderedConcat
  <2> QED BY <1>5, <2>3 DEF Rollback, RollbackSet
<1>6. CASE op.kind # "apply_config" /\ ~(op.kind = "git_update" /\ ~op.migrated)
  <2>1. << >> \in Seq(Steps) /\ Len(<< >>) = 0 /\ DOMAIN << >> = 1..0 OBVIOUS
  <2> QED BY <1>6, <2>1 DEF Rollback, RollbackSet, Ordered, InOrder, ToSet
<1> QED BY <1>4, <1>5, <1>6

(***************************************************************************)
(* The records of the Supervisor.                                          *)
(***************************************************************************)
\* A process whose list of modules to look at is well formed.
ProcessOK(s) ==
  /\ s \in ProcessState /\ IsSuffix(s.todo, Modules)
  /\ s.pc = "plan" /\ Modules # << >> => s.todo # << >>

\* A process that has just been started, or is gone.
LEMMA NewProcessOK ==
  ASSUME NEW conf \in Nat
  PROVE  ProcessOK(NewProcess(conf)) /\ ProcessOK(Gone)
<1>1. << >> \in Seq(Module) OBVIOUS
<1>2. /\ NewProcess(conf) \in ProcessState /\ NewProcess(0) \in ProcessState
      /\ NewProcess(conf).todo = << >> /\ NewProcess(conf).pc = "tick"
      /\ NewProcess(0).todo = << >>
  BY <1>1 DEF NewProcess, ProcessState
<1>3. Gone \in ProcessState /\ Gone.todo = << >> /\ Gone.pc = "dead"
  BY <1>2 DEF Gone, ProcessState
<1> QED BY <1>2, <1>3, ModuleSuffixes DEF ProcessOK

\* What changes a process's memory.
LEMMA DrainingOK ==
  ASSUME NEW s \in ProcessState, NEW beats \in BOOLEAN
  PROVE  /\ Draining(s, 1, beats) \in ProcessState
         /\ Draining(s, 1, beats).todo = s.todo /\ Draining(s, 1, beats).pc = s.pc
         /\ Draining(s, 1, beats).drain
         /\ Draining(s, 1, beats).conf = s.conf /\ Draining(s, 1, beats).asked = s.asked
         /\ Draining(s, 1, beats).kids = s.kids
         /\ Draining(s, 1, beats).module = s.module
         /\ Draining(s, 1, beats).manual = s.manual
<1>1. (s.beats /\ beats) \in BOOLEAN
        /\ (IF 1 = 2 \/ s.code = 2 THEN 2 ELSE 1) \in 0..2
  BY DEF ProcessState
<1> QED BY <1>1 DEF Draining, ProcessState

\* A tick that raised leaves a draining process that only waits for its end.
LEMMA FailedTickOK ==
  ASSUME NEW s \in ProcessState
  PROVE  /\ ProcessOK(FailedTick(s)) /\ FailedTick(s).pc = "end" /\ FailedTick(s).drain
         /\ FailedTick(s).conf = s.conf /\ FailedTick(s).asked = s.asked
<1>1. << >> \in Seq(Module) OBVIOUS
<1>2. /\ FailedTick(s) \in ProcessState /\ FailedTick(s).todo = << >>
      /\ FailedTick(s).pc = "end" /\ FailedTick(s).drain
      /\ FailedTick(s).conf = s.conf /\ FailedTick(s).asked = s.asked
  <2> DEFINE d == Draining(s, 1, FALSE)
  <2>1. d \in ProcessState /\ d.drain /\ d.conf = s.conf /\ d.asked = s.asked
    BY DrainingOK
  <2>2. FailedTick(s) = [d EXCEPT !.pc = "end", !.todo = << >>] BY DEF FailedTick
  <2> HIDE DEF d
  <2> QED BY <1>1, <2>1, <2>2 DEF ProcessState
<1> QED BY <1>2, ModuleSuffixes DEF ProcessOK

\* What a process reads at the start of its tick changes only what it holds of the
\* control row and of the cooldowns.
LEMMA AfterReleasesOK ==
  ASSUME NEW s \in ProcessState, NEW state \in Control
  PROVE  LET t == AfterReleases([s EXCEPT !.mem = state])
         IN  /\ t \in ProcessState /\ t.todo = s.todo /\ t.pc = s.pc /\ t.kids = s.kids
             /\ t.drain = s.drain /\ t.conf = s.conf /\ t.asked = s.asked
             /\ t.mem = state /\ t.cooldowns = s.cooldowns
<1> DEFINE u == [s EXCEPT !.mem = state]
<1>1. /\ u \in ProcessState /\ u.todo = s.todo /\ u.pc = s.pc /\ u.kids = s.kids
      /\ u.drain = s.drain /\ u.conf = s.conf /\ u.asked = s.asked /\ u.mem = state
      /\ u.cooldowns = s.cooldowns
  BY DEF ProcessState, Control
<1> HIDE DEF u
<1>2. /\ [m \in Module |-> u.delay[m] /\ ~Released(u, m)] \in [Module -> BOOLEAN]
      /\ [m \in Module |-> IF Released(u, m) THEN 0 ELSE u.cool[m]] \in [Module -> Nat]
  BY <1>1 DEF ProcessState
<1> QED BY <1>1, <1>2 DEF AfterReleases, ProcessState, u

\* Reaping finished children never undoes a drain, and touches neither the plan nor
\* the answer to a request to stop.
LEMMA ReapedOK ==
  ASSUME NEW s \in ProcessState
  PROVE  /\ Reaped(s) \in ProcessState /\ Reaped(s).todo = s.todo /\ Reaped(s).pc = s.pc
         /\ Reaped(s).conf = s.conf /\ Reaped(s).asked = s.asked
         /\ s.drain => Reaped(s).drain
         /\ Reaped(s).mem = s.mem
<1> DEFINE gone == UNION { Exited(s, how) : how \in Ended }
           cooling == Exited(s, "unavailable")
           clean == [s EXCEPT !.kids = [m \in Module |-> IF m \in gone THEN "none"
                                                         ELSE s.kids[m]],
                              !.delay = [m \in Module |-> s.delay[m] \/ m \in gone],
                              !.cooldowns = IF cooling = { } THEN s.cooldowns
                                            ELSE s.cooldowns + 1,
                              !.cool = [m \in Module |-> IF m \in cooling
                                                         THEN s.cooldowns + 1
                                                         ELSE s.cool[m]]]
<1> HIDE DEF gone, cooling
<1>1. /\ [m \in Module |-> IF m \in gone THEN "none" ELSE s.kids[m]]
           \in [Module -> Ended \cup { "none", "running" }]
      /\ [m \in Module |-> s.delay[m] \/ m \in gone] \in [Module -> BOOLEAN]
      /\ (IF cooling = { } THEN s.cooldowns ELSE s.cooldowns + 1) \in Nat
      /\ [m \in Module |-> IF m \in cooling THEN s.cooldowns + 1 ELSE s.cool[m]]
           \in [Module -> Nat]
  BY DEF ProcessState
<1>2. /\ clean \in ProcessState /\ clean.todo = s.todo /\ clean.pc = s.pc
      /\ clean.conf = s.conf /\ clean.asked = s.asked /\ clean.drain = s.drain
      /\ clean.mem = s.mem
  BY <1>1 DEF ProcessState
<1>3. Reaped(s) = IF Exited(s, "severe") = { } THEN clean ELSE Draining(clean, 1, TRUE)
  BY DEF Reaped, gone, cooling
<1> HIDE DEF clean
<1>4. Draining(clean, 1, TRUE).mem = s.mem BY <1>2 DEF Draining, ProcessState
<1> QED BY <1>2, <1>3, <1>4, DrainingOK

\* Where the loop goes next.
LEMMA AfterReapOK ==
  ASSUME NEW s \in ProcessState, IsSuffix(s.todo, Modules)
  PROVE  /\ ProcessOK(AfterReap(s)) /\ AfterReap(s).pc \in { "end", "tick", "plan" }
         /\ AfterReap(s).conf = s.conf /\ AfterReap(s).asked = s.asked
<1>1. Modules \in Seq(Module) BY ModulesAreListed
<1>2. CASE s.drain \/ s.mem = "draining"
  <2>1. AfterReap(s) = [s EXCEPT !.pc = "end"] BY <1>2 DEF AfterReap
  <2> QED BY <2>1 DEF ProcessState, ProcessOK
<1>3. CASE ~s.drain /\ s.mem = "paused"
  <2>1. AfterReap(s) = [s EXCEPT !.pc = "tick"] BY <1>3 DEF AfterReap
  <2> QED BY <2>1 DEF ProcessState, ProcessOK
<1>4. CASE ~(s.drain \/ s.mem = "draining") /\ ~(~s.drain /\ s.mem = "paused")
  <2>1. AfterReap(s) = [s EXCEPT !.pc = "plan", !.todo = Modules]
    BY <1>4 DEF AfterReap
  <2>2. /\ AfterReap(s) \in ProcessState /\ AfterReap(s).todo = Modules
        /\ AfterReap(s).pc = "plan"
        /\ AfterReap(s).conf = s.conf /\ AfterReap(s).asked = s.asked
    BY <1>1, <2>1 DEF ProcessState
  <2> QED BY <2>2, ModuleSuffixes DEF ProcessOK
<1> QED BY <1>2, <1>3, <1>4

\* The plan of a tick starts with every module still to be considered.
LEMMA PlannedOK ==
  ASSUME NEW s \in ProcessState, IsSuffix(s.todo, Modules)
  PROVE  /\ ProcessOK(Planned(s)) /\ Planned(s).pc \in { "tick", "plan" }
         /\ Planned(s).conf = s.conf /\ Planned(s).asked = s.asked
         /\ Planned(s).manual = s.manual
BY DEF Planned, ProcessState, ProcessOK

\* Considering one module leaves the modules that follow it to be considered.
LEMMA ConsideredOK ==
  ASSUME NEW m \in Module, ProcessOK(sup), sup.pc = "plan"
  PROVE  /\ Considered(m) \in ProcessState /\ IsSuffix(Considered(m).todo, Modules)
         /\ Considered(m).conf = sup.conf /\ Considered(m).asked = sup.asked
         /\ Considered(m).manual = sup.manual
<1>1. Modules # << >>
  <2>1. CASE Modules = << >>
    <3>1. DOMAIN Modules = { } BY <2>1
    <3> QED BY <3>1 DEF Module, ToSet
  <2> QED BY <2>1
<1>2. sup \in ProcessState /\ sup.todo \in Seq(Module) /\ sup.todo # << >>
        /\ IsSuffix(sup.todo, Modules)
  BY <1>1 DEF ProcessOK, ProcessState
<1>3. Tail(sup.todo) \in Seq(Module) BY <1>2
<1>4. IsSuffix(Tail(sup.todo), Modules) BY <1>2, ModuleSuffixes
<1>5. /\ Considered(m) \in ProcessState /\ Considered(m).todo = Tail(sup.todo)
      /\ Considered(m).conf = sup.conf /\ Considered(m).asked = sup.asked
      /\ Considered(m).manual = sup.manual
  BY <1>2, <1>3 DEF Considered, ProcessState
<1> QED BY <1>4, <1>5

\* The rows.
LEMMA RowsOK ==
  ASSUME mods \in [Module -> ModuleRow], NEW s \in ProcessState
  PROVE  /\ \A row \in ModuleRow, m \in Module :
              /\ PublishInterval(s, row, m) \in ModuleRow
              /\ FormerOwner(row) \in ModuleRow
         /\ PublishCooldowns(s) \in [Module -> ModuleRow]
         /\ Published(s) \in [Module -> ModuleRow]
         /\ \A rows \in [Module -> ModuleRow] : ReapedRows(s, rows) \in [Module -> ModuleRow]
<1>1. ASSUME NEW row \in ModuleRow, NEW m \in Module
      PROVE  PublishInterval(s, row, m) \in ModuleRow
  <2> DEFINE trig == IF row.trig \in ActiveRequests /\ row.towner # "this"
                     THEN "expired" ELSE row.trig
             running == s.kids[m] = "running"
             blocked == BlockReason(s, row, m)
             after == IF trig = "pending" /\ (blocked \/ running) THEN "rejected" ELSE trig
  <2>1. /\ row.trig \in { "none", "expired", "rejected", "failed", "started" }
                         \cup ActiveRequests
        /\ row.towner \in Owner /\ row.owner \in Owner
    BY DEF ModuleRow
  <2>2. trig \in { "none", "expired", "rejected", "failed", "started" }
                   \cup ActiveRequests
    BY <2>1
  <2>3. running \in BOOLEAN /\ blocked \in BOOLEAN
    BY DEF BlockReason, ProcessState
  <2> HIDE DEF trig, running, blocked
  <2>4. after \in { "none", "expired", "rejected", "failed", "started" }
                   \cup ActiveRequests
    BY <2>2
  <2> HIDE DEF after
  <2>5. /\ (IF after \in ActiveRequests THEN row.towner ELSE "nobody") \in Owner
        /\ "this" \in Owner
    BY <2>1 DEF Owner
  <2>6. PublishInterval(s, row, m) =
          [row EXCEPT !.trig = after, !.running = running, !.blocked = blocked,
                      !.towner = IF after \in ActiveRequests THEN @ ELSE "nobody",
                      !.owner = "this"]
    BY DEF PublishInterval, after, trig, running, blocked
  <2> QED BY <2>3, <2>4, <2>5, <2>6 DEF ModuleRow
<1>2. \A row \in ModuleRow : FormerOwner(row) \in ModuleRow
  BY DEF FormerOwner, Aged, ModuleRow, Owner
<1>3. PublishCooldowns(s) \in [Module -> ModuleRow]
  <2>1. ASSUME NEW m \in Module
        PROVE  [mods[m] EXCEPT !.cool = s.cool[m], !.release = FALSE, !.owner = "this"]
                 \in ModuleRow
    <3>1. mods[m] \in ModuleRow /\ s.cool[m] \in Nat /\ "this" \in Owner
      BY DEF ProcessState, Owner
    <3> QED BY <3>1 DEF ModuleRow
  <2> QED BY <2>1 DEF PublishCooldowns
<1>4. Published(s) \in [Module -> ModuleRow]
  BY <1>1, <1>3 DEF Published
<1>5. ASSUME NEW rows \in [Module -> ModuleRow]
      PROVE  ReapedRows(s, rows) \in [Module -> ModuleRow]
  <2>1. \A m \in Module : [rows[m] EXCEPT !.state = "paused"] \in ModuleRow
    <3>1. \A m \in Module : rows[m] \in ModuleRow OBVIOUS
    <3> QED BY <3>1 DEF ModuleRow
  <2> QED BY <2>1 DEF ReapedRows
<1> QED BY <1>1, <1>2, <1>3, <1>4, <1>5

(***************************************************************************)
(* What the process does, as the others see it: the control state changes  *)
(* only when a drain ends, the process keeps its configuration, and a unit *)
(* that is inactive stays so.                                              *)
(***************************************************************************)
ProcessFrame ==
  /\ \/ ctl'.state = ctl.state /\ want' = want
     \/ /\ ctl.state = "draining" /\ ctl'.state = "paused"
        /\ want' = IF want = "draining" THEN "paused" ELSE want
  /\ Alive' => Alive /\ sup'.conf = sup.conf /\ sup'.asked = sup.asked
  /\ ~Alive' => sup'.asked \in { 0, sup.asked }
  /\ sup'.pc = "exit" /\ ~sup'.drain =>
       \/ sup.pc = "exit" /\ ~sup.drain /\ ctl'.state = ctl.state
       \/ ctl.state = "draining" /\ ctl'.state = "paused"
  /\ unit = "inactive" => unit' = "inactive"

ProcessGoal == SupervisorTypes' /\ want' \in Control /\ ProcessFrame

\* A heartbeat leaves a well-formed control row.
LEMMA RowWrites ==
  ASSUME ctl \in ControlRow
  PROVE  /\ [ctl EXCEPT !.owner = "this", !.live = TRUE, !.beat = TRUE] \in ControlRow
         /\ [ctl EXCEPT !.owner = "this", !.live = TRUE, !.beat = TRUE].state = ctl.state
         /\ LeaseReleased \in ControlRow /\ LeaseReleased.state = ctl.state
         /\ [ctl EXCEPT !.live = FALSE] \in ControlRow
         /\ [ctl EXCEPT !.live = FALSE].state = ctl.state
         /\ FormerOwner(ctl) \in ControlRow /\ FormerOwner(ctl).state = ctl.state
         /\ \A state \in Control : /\ [ctl EXCEPT !.state = state] \in ControlRow
                                   /\ [ctl EXCEPT !.state = state].state = state
BY DEF ControlRow, Owner, LeaseReleased, FormerOwner, Aged

\* A step that leaves the control row and the unit alone, and whose process is
\* as alive as before.
LEMMA QuietStep ==
  ASSUME SupervisorTypes, want \in Control, ProcessOK(sup'),
         mods' \in [Module -> ModuleRow], ctl' \in ControlRow, ctl'.state = ctl.state,
         UNCHANGED << unit, want >>, sup.pc # "dead", sup'.pc # "dead",
         sup'.conf = sup.conf, sup'.asked = sup.asked,
         sup'.pc = "exit" /\ ~sup'.drain => sup.pc = "exit" /\ ~sup.drain
  PROVE  ProcessGoal
<1>1. Alive /\ Alive' BY DEF Alive
<1> QED BY <1>1 DEF ProcessGoal, SupervisorTypes, ProcessOK, ProcessFrame, Alive

\* A tick.
LEMMA TickStep ==
  ASSUME SupervisorTypes, want \in Control, Tick \/ TickRaises \/ DrainTick
  PROVE  ProcessGoal
<1>1. /\ sup \in ProcessState /\ IsSuffix(sup.todo, Modules) /\ ctl.state \in Control
      /\ ctl \in ControlRow /\ mods \in [Module -> ModuleRow]
      /\ sup.drain \in BOOLEAN /\ sup.beats \in BOOLEAN
  BY DEF SupervisorTypes, ControlRow, ProcessState
<1>2. CASE Tick
  <2> DEFINE s == AfterReleases([sup EXCEPT !.mem = ctl.state])
  <2>1. s \in ProcessState /\ s.todo = sup.todo /\ s.conf = sup.conf /\ s.asked = sup.asked
    BY <1>1, AfterReleasesOK
  <2>2. /\ mods' = ReapedRows(s, Published(s)) /\ sup' = AfterReap(Reaped(s))
        /\ ctl' = [ctl EXCEPT !.owner = "this", !.live = TRUE, !.beat = TRUE]
        /\ UNCHANGED << unit, want >> /\ sup.pc = "tick"
    BY <1>2 DEF Tick
  <2> HIDE DEF s
  <2>3. mods' \in [Module -> ModuleRow] BY <1>1, <2>1, <2>2, RowsOK
  <2>4. /\ ProcessOK(sup') /\ sup'.pc \in { "end", "tick", "plan" }
        /\ sup'.conf = sup.conf /\ sup'.asked = sup.asked
    <3>1. /\ Reaped(s) \in ProcessState /\ Reaped(s).todo = s.todo
          /\ Reaped(s).conf = s.conf /\ Reaped(s).asked = s.asked
      BY <2>1, ReapedOK
    <3> QED BY <1>1, <2>1, <2>2, <3>1, AfterReapOK
  <2>5. ctl' \in ControlRow /\ ctl'.state = ctl.state BY <1>1, <2>2, RowWrites
  <2> QED BY <2>2, <2>3, <2>4, <2>5, QuietStep
<1>3. CASE TickRaises
  <2>1. sup' = FailedTick(sup) /\ UNCHANGED << unit, ctl, mods, want >> /\ sup.pc = "tick"
    BY <1>3 DEF TickRaises
  <2>2. /\ ProcessOK(sup') /\ sup'.pc = "end"
        /\ sup'.conf = sup.conf /\ sup'.asked = sup.asked
    BY <1>1, <2>1, FailedTickOK
  <2> QED BY <1>1, <2>1, <2>2, QuietStep
<1>4. CASE DrainTick
  <2> DEFINE r == Reaped(sup)
             reaped == [r EXCEPT !.pc = "end"]
             rows == ReapedRows(sup, mods)
             s == AfterReleases([reaped EXCEPT !.mem = ctl.state])
  <2>1. r \in ProcessState /\ r.todo = sup.todo /\ r.conf = sup.conf /\ r.asked = sup.asked
    BY <1>1, ReapedOK
  <2> HIDE DEF r
  <2>2. /\ reaped \in ProcessState /\ reaped.todo = sup.todo /\ reaped.conf = sup.conf
        /\ reaped.asked = sup.asked /\ reaped.pc = "end"
    BY <2>1 DEF ProcessState
  <2> HIDE DEF reaped
  <2>3. /\ s \in ProcessState /\ s.todo = sup.todo /\ s.pc = "end"
        /\ s.conf = sup.conf /\ s.asked = sup.asked
    BY <1>1, <2>2, AfterReleasesOK
  <2> HIDE DEF s
  <2>4. rows \in [Module -> ModuleRow] BY <1>1, RowsOK
  <2> HIDE DEF rows
  <2>5. sup.pc = "tick" /\ UNCHANGED << unit, want >> BY <1>4 DEF DrainTick
  <2>6. CASE sup.beats
    <3>1. /\ sup' = s
          /\ mods' = [m \in Module |->
                        LET row == [PublishCooldowns(s)[m] EXCEPT !.state = rows[m].state]
                        IN  IF m \in IntervalModules THEN PublishInterval(s, row, m)
                            ELSE row]
          /\ ctl' = [ctl EXCEPT !.owner = "this", !.live = TRUE, !.beat = TRUE]
      BY <1>4, <2>6 DEF DrainTick, s, reaped, rows, r
    <3>2. \A m \in Module : [PublishCooldowns(s)[m] EXCEPT !.state = rows[m].state]
                              \in ModuleRow
      <4>1. PublishCooldowns(s) \in [Module -> ModuleRow] BY <1>1, <2>3, RowsOK
      <4>2. \A m \in Module : PublishCooldowns(s)[m] \in ModuleRow /\ rows[m] \in ModuleRow
        BY <2>4, <4>1
      <4> QED BY <4>2 DEF ModuleRow
    <3>3. mods' \in [Module -> ModuleRow]
      <4>1. \A m \in Module, row \in ModuleRow : PublishInterval(s, row, m) \in ModuleRow
        BY <1>1, <2>3, RowsOK
      <4> QED BY <3>1, <3>2, <4>1
    <3>4. ctl' \in ControlRow /\ ctl'.state = ctl.state BY <1>1, <3>1, RowWrites
    <3>5. ProcessOK(sup') BY <1>1, <2>3, <3>1 DEF ProcessOK
    <3> QED BY <2>3, <2>5, <3>1, <3>3, <3>4, <3>5, QuietStep
  <2>7. CASE ~sup.beats
    <3>1. sup' = reaped /\ mods' = rows /\ UNCHANGED ctl
      BY <1>4, <2>7 DEF DrainTick, s, reaped, rows, r
    <3>2. ProcessOK(sup') BY <1>1, <2>2, <3>1 DEF ProcessOK
    <3> QED BY <1>1, <2>2, <2>4, <2>5, <3>1, <3>2, QuietStep
  <2> QED BY <2>6, <2>7
<1> QED BY <1>2, <1>3, <1>4

\* Planning a module.
LEMMA PlanStep ==
  ASSUME SupervisorTypes, want \in Control, NEW m \in Module,
         \/ \E due \in BOOLEAN : PrepareIntervalStart(m, due)
         \/ StartWork(m) \/ SkipModule(m)
  PROVE  ProcessGoal
<1>1. /\ sup \in ProcessState /\ ProcessOK(sup) /\ ctl \in ControlRow
      /\ mods \in [Module -> ModuleRow] /\ mods[m] \in ModuleRow
  BY DEF SupervisorTypes, ProcessOK
<1>2. /\ sup.pc = "plan" /\ UNCHANGED << unit, ctl, want >>
  BY DEF PrepareIntervalStart, StartWork, SkipModule, MayStart
<1> DEFINE c == Considered(m)
<1>3. /\ c \in ProcessState /\ IsSuffix(c.todo, Modules)
      /\ c.conf = sup.conf /\ c.asked = sup.asked
  BY <1>1, <1>2, ConsideredOK
<1> HIDE DEF c
<1>4. /\ ProcessOK(Planned(c)) /\ Planned(c).pc \in { "tick", "plan" }
      /\ Planned(c).conf = sup.conf /\ Planned(c).asked = sup.asked
  BY <1>3, PlannedOK
<1>5. CASE \E due \in BOOLEAN : PrepareIntervalStart(m, due)
  <2>1. PICK due \in BOOLEAN : PrepareIntervalStart(m, due) BY <1>5
  <2> DEFINE row == PublishInterval(sup, mods[m], m)
             manual == row.trig = "pending" /\ row.towner = "this"
  <2>2. row \in ModuleRow BY <1>1, RowsOK
  <2>3. manual \in BOOLEAN OBVIOUS
  <2>4. \/ /\ mods' = [mods EXCEPT ![m] = Claimed(row, manual)]
           /\ sup' = [c EXCEPT !.pc = "popen", !.module = m, !.manual = manual]
        \/ mods' = [mods EXCEPT ![m] = row] /\ sup' = Planned(c)
    BY <2>1 DEF PrepareIntervalStart, c
  <2> HIDE DEF row, manual
  <2>5. Claimed(row, manual) \in ModuleRow
    BY <2>2, <2>3 DEF Claimed, ModuleRow, ActiveRequests
  <2>6. mods' \in [Module -> ModuleRow] BY <1>1, <2>2, <2>4, <2>5
  <2>7. /\ ProcessOK(sup') /\ sup'.pc \in { "tick", "plan", "popen" }
        /\ sup'.conf = sup.conf /\ sup'.asked = sup.asked
    <3>1. CASE sup' = [c EXCEPT !.pc = "popen", !.module = m, !.manual = manual]
      <4>1. /\ sup' \in ProcessState /\ sup'.todo = c.todo /\ sup'.pc = "popen"
            /\ sup'.conf = c.conf /\ sup'.asked = c.asked
        BY <1>3, <2>3, <3>1 DEF ProcessState
      <4> QED BY <1>3, <4>1 DEF ProcessOK
    <3> QED BY <1>4, <2>4, <3>1
  <2> QED BY <1>1, <1>2, <2>6, <2>7, QuietStep
<1>6. CASE StartWork(m)
  <2> DEFINE w == [c EXCEPT !.kids[m] = "running"]
  <2>1. sup' = Planned(w) /\ UNCHANGED mods
    BY <1>6 DEF StartWork, c
  <2>2. w \in ProcessState /\ w.todo = c.todo /\ w.conf = c.conf /\ w.asked = c.asked
    BY <1>3 DEF ProcessState
  <2> HIDE DEF w
  <2>3. /\ ProcessOK(sup') /\ sup'.pc \in { "tick", "plan" }
        /\ sup'.conf = sup.conf /\ sup'.asked = sup.asked
    BY <1>3, <2>1, <2>2, PlannedOK
  <2> QED BY <1>1, <1>2, <2>1, <2>3, QuietStep
<1>7. CASE SkipModule(m)
  <2>1. sup' = Planned(c) /\ UNCHANGED mods BY <1>7 DEF SkipModule, c
  <2> QED BY <1>1, <1>2, <1>4, <2>1, QuietStep
<1> QED BY <1>5, <1>6, <1>7

\* The verdict of a start.
LEMMA FinishedOK ==
  ASSUME mods \in [Module -> ModuleRow], NEW s \in ProcessState, s.module \in Module,
         NEW verdict \in { "started", "failed" }
  PROVE  Finished(s, verdict) \in [Module -> ModuleRow]
<1> DEFINE row == PublishInterval(s, mods[s.module], s.module)
<1>1. row \in ModuleRow BY RowsOK
<1> HIDE DEF row
<1>2. [row EXCEPT !.trig = verdict, !.towner = "nobody"] \in ModuleRow
  BY <1>1 DEF ModuleRow, Owner
<1>3. Finished(s, verdict) =
        IF ctl.owner # "this" THEN mods
        ELSE [mods EXCEPT ![s.module] =
                IF s.manual THEN [row EXCEPT !.trig = verdict, !.towner = "nobody"]
                ELSE row]
  BY DEF Finished, row
<1> QED BY <1>1, <1>2, <1>3

\* Starting an interval module.
LEMMA StartStep ==
  ASSUME SupervisorTypes, want \in Control, ClaimHeld,
         StartInterval \/ FinishIntervalStart \/ StartIntervalFails
  PROVE  ProcessGoal
<1>1. /\ sup \in ProcessState /\ ProcessOK(sup) /\ ctl \in ControlRow
      /\ mods \in [Module -> ModuleRow]
  BY DEF SupervisorTypes, ProcessOK
<1>2. sup.module \in Module /\ sup.pc \in { "popen", "finish" }
  BY IntervalModulesAreModules
     DEF ClaimHeld, StartInterval, FinishIntervalStart, StartIntervalFails
<1>3. UNCHANGED << unit, ctl, want >>
  BY DEF StartInterval, FinishIntervalStart, StartIntervalFails
<1>4. CASE StartInterval
  <2>1. sup' = [sup EXCEPT !.kids[sup.module] = "running", !.pc = "finish"]
          /\ UNCHANGED mods
    BY <1>4 DEF StartInterval, Started
  <2>2. /\ sup' \in ProcessState /\ sup'.todo = sup.todo /\ sup'.pc = "finish"
        /\ sup'.conf = sup.conf /\ sup'.asked = sup.asked
    BY <1>1, <1>2, <2>1 DEF ProcessState
  <2>3. ProcessOK(sup') BY <1>1, <2>2 DEF ProcessOK
  <2> QED BY <1>1, <1>2, <1>3, <2>1, <2>2, <2>3, QuietStep
<1>5. CASE FinishIntervalStart
  <2> DEFINE f == [sup EXCEPT !.module = "none", !.manual = FALSE]
  <2>1. sup' = Planned(f) /\ mods' = Finished(sup, "started")
    BY <1>5 DEF FinishIntervalStart
  <2>2. /\ f \in ProcessState /\ f.todo = sup.todo /\ f.conf = sup.conf
        /\ f.asked = sup.asked
    BY <1>1 DEF ProcessState
  <2> HIDE DEF f
  <2>3. /\ ProcessOK(sup') /\ sup'.pc \in { "tick", "plan" }
        /\ sup'.conf = sup.conf /\ sup'.asked = sup.asked
    <3>1. IsSuffix(f.todo, Modules) BY <1>1, <2>2 DEF ProcessOK
    <3> QED BY <2>1, <2>2, <3>1, PlannedOK
  <2>4. mods' \in [Module -> ModuleRow] BY <1>1, <1>2, <2>1, FinishedOK
  <2> QED BY <1>1, <1>2, <1>3, <2>3, <2>4, QuietStep
<1>6. CASE StartIntervalFails
  <2> DEFINE f == FailedTick(sup)
  <2>1. sup' = [f EXCEPT !.module = "none", !.manual = FALSE]
          /\ mods' = Finished(sup, "failed")
    BY <1>6 DEF StartIntervalFails
  <2>2. ProcessOK(f) /\ f.pc = "end" /\ f.conf = sup.conf /\ f.asked = sup.asked
    BY <1>1, FailedTickOK
  <2> HIDE DEF f
  <2>3. /\ sup' \in ProcessState /\ sup'.pc = "end" /\ sup'.todo = f.todo
        /\ sup'.conf = sup.conf /\ sup'.asked = sup.asked
    BY <2>1, <2>2 DEF ProcessState, ProcessOK
  <2>4. ProcessOK(sup') BY <2>2, <2>3 DEF ProcessOK
  <2>5. mods' \in [Module -> ModuleRow] BY <1>1, <1>2, <2>1, FinishedOK
  <2> QED BY <1>1, <1>2, <1>3, <2>3, <2>4, <2>5, QuietStep
<1> QED BY <1>4, <1>5, <1>6

\* The end of a tick or of the process.
LEMMA LeaveStep ==
  ASSUME SupervisorTypes, want \in Control,
         Drained \/ EndOfTick \/ Exit \/ StoppedBySignal \/ Crash
  PROVE  ProcessGoal
<1>1. /\ sup \in ProcessState /\ ProcessOK(sup) /\ ctl \in ControlRow
      /\ mods \in [Module -> ModuleRow] /\ ctl.state \in Control
      /\ unit \in { "inactive", "active", "restarting" }
  BY DEF SupervisorTypes, ProcessOK, ControlRow
<1>2. UNCHANGED mods
  BY DEF Drained, EndOfTick, Exit, StoppedBySignal, Crash
<1>3. CASE Drained
  <2>1. sup.pc = "end" /\ ~sup.drain /\ sup.mem = "draining" /\ UNCHANGED unit
    BY <1>3 DEF Drained
  <2>2. CASE ctl.owner # "this"
    <3>1. sup' = FailedTick(sup) /\ UNCHANGED << ctl, want >> BY <1>3, <2>2 DEF Drained
    <3>2. /\ ProcessOK(sup') /\ sup'.pc = "end"
          /\ sup'.conf = sup.conf /\ sup'.asked = sup.asked
      BY <1>1, <3>1, FailedTickOK
    <3> QED BY <1>1, <1>2, <2>1, <3>1, <3>2, QuietStep
  <2>3. CASE ctl.owner = "this" /\ ctl.state # "draining"
    <3>1. sup' = [sup EXCEPT !.mem = ctl.state, !.pc = "tick"] /\ UNCHANGED << ctl, want >>
      BY <1>3, <2>3 DEF Drained
    <3>2. /\ sup' \in ProcessState /\ sup'.todo = sup.todo /\ sup'.pc = "tick"
          /\ sup'.conf = sup.conf /\ sup'.asked = sup.asked
      BY <1>1, <3>1 DEF ProcessState, Control
    <3>3. ProcessOK(sup') BY <1>1, <3>2 DEF ProcessOK
    <3> QED BY <1>1, <1>2, <2>1, <3>1, <3>2, <3>3, QuietStep
  <2>4. CASE ctl.owner = "this" /\ ctl.state = "draining"
    <3>1. /\ ctl' = [ctl EXCEPT !.state = "paused"]
          /\ sup' = [sup EXCEPT !.mem = "paused", !.pc = "exit"]
          /\ want' = IF want = "draining" THEN "paused" ELSE want
      BY <1>3, <2>4 DEF Drained
    <3>2. /\ sup' \in ProcessState /\ sup'.todo = sup.todo /\ sup'.pc = "exit"
          /\ sup'.conf = sup.conf /\ sup'.asked = sup.asked
      BY <1>1, <3>1 DEF ProcessState
    <3>3. ctl' \in ControlRow /\ ctl'.state = "paused"
      BY <1>1, <3>1, RowWrites DEF Control
    <3>4. Alive /\ Alive' BY <2>1, <3>2 DEF Alive
    <3> QED BY <1>1, <1>2, <2>1, <2>4, <3>1, <3>2, <3>3, <3>4
            DEF ProcessGoal, SupervisorTypes, ProcessOK, ProcessFrame, Control, Alive
  <2> QED BY <2>2, <2>3, <2>4
<1>4. CASE EndOfTick
  <2>1. /\ sup.pc = "end" /\ UNCHANGED << unit, ctl, want >>
        /\ sup' = [sup EXCEPT !.pc = IF sup.drain /\ NoChildren(sup) THEN "exit"
                                     ELSE "tick"]
    BY <1>4 DEF EndOfTick
  <2>2. /\ sup' \in ProcessState /\ sup'.todo = sup.todo /\ sup'.pc \in { "exit", "tick" }
        /\ sup'.conf = sup.conf /\ sup'.asked = sup.asked /\ sup'.drain = sup.drain
        /\ sup'.pc = "exit" => sup.drain
    BY <1>1, <2>1 DEF ProcessState
  <2>3. ProcessOK(sup') BY <1>1, <2>2 DEF ProcessOK
  <2> QED BY <1>1, <1>2, <2>1, <2>2, <2>3, QuietStep
<1>5. CASE Exit \/ StoppedBySignal \/ Crash
  <2>1. /\ sup' = Gone /\ unit' \in { "inactive", "restarting" } /\ UNCHANGED want
        /\ ctl' \in { ctl, LeaseReleased } /\ Alive
    BY <1>5 DEF Exit, StoppedBySignal, Crash, Alive
  <2>2. ctl' \in ControlRow /\ ctl'.state = ctl.state BY <1>1, <2>1, RowWrites
  <2>3. ProcessOK(sup') /\ sup'.pc = "dead" /\ sup'.asked = 0
    <3>1. ProcessOK(sup') BY <2>1, NewProcessOK
    <3> QED BY <2>1, <3>1 DEF Gone, NewProcess
  <2>4. unit = "active" /\ ~Alive' BY <2>1, <2>3 DEF SupervisorTypes, Alive
  <2> QED BY <1>1, <1>2, <2>1, <2>2, <2>3, <2>4
          DEF ProcessGoal, SupervisorTypes, ProcessOK, ProcessFrame
<1> QED BY <1>3, <1>4, <1>5

\* What happens around the process: its children, time, and the pages.
LEMMA SurroundingStep ==
  ASSUME SupervisorTypes, want \in Control, Surroundings \/ PageRequests
  PROVE  ProcessGoal
<1>1. /\ sup \in ProcessState /\ ProcessOK(sup) /\ ctl \in ControlRow
      /\ mods \in [Module -> ModuleRow] /\ ctl.state \in Control
      /\ \A m \in Module : mods[m] \in ModuleRow
  BY DEF SupervisorTypes, ProcessOK, ControlRow
<1>2. ASSUME NEW m \in Module, NEW how \in Ended, ChildExits(m, how) PROVE ProcessGoal
  <2>1. sup' = [sup EXCEPT !.kids[m] = how] /\ Alive /\ UNCHANGED << unit, ctl, mods, want >>
    BY <1>2 DEF ChildExits
  <2>2. /\ sup' \in ProcessState /\ sup'.todo = sup.todo /\ sup'.pc = sup.pc
        /\ sup'.conf = sup.conf /\ sup'.asked = sup.asked /\ sup'.drain = sup.drain
    BY <1>1, <2>1 DEF ProcessState
  <2>3. ProcessOK(sup') BY <1>1, <2>2 DEF ProcessOK
  <2> QED BY <1>1, <2>1, <2>2, <2>3, QuietStep DEF Alive
<1>3. ASSUME NEW m \in Module, DelayEnds(m) PROVE ProcessGoal
  <2>1. /\ sup' = [sup EXCEPT !.delay[m] = FALSE, !.cool[m] = 0]
        /\ Alive /\ UNCHANGED << unit, ctl, mods, want >>
    BY <1>3 DEF DelayEnds
  <2>2. /\ sup' \in ProcessState /\ sup'.todo = sup.todo /\ sup'.pc = sup.pc
        /\ sup'.conf = sup.conf /\ sup'.asked = sup.asked /\ sup'.drain = sup.drain
    BY <1>1, <2>1 DEF ProcessState
  <2>3. ProcessOK(sup') BY <1>1, <2>2 DEF ProcessOK
  <2> QED BY <1>1, <2>1, <2>2, <2>3, QuietStep DEF Alive
<1>4. CASE LeaseExpires
  <2>1. ctl' = [ctl EXCEPT !.live = FALSE] /\ UNCHANGED << sup, unit, mods, want >>
    BY <1>4 DEF LeaseExpires
  <2>2. ctl' \in ControlRow /\ ctl'.state = ctl.state BY <1>1, <2>1, RowWrites
  <2> QED BY <1>1, <2>1, <2>2
          DEF ProcessGoal, SupervisorTypes, ProcessFrame, Alive
<1>5. CASE PageRequests
  <2>1. PICK m \in Module :
          \/ RequestRun(m) \/ RequestCooldownRelease(m)
          \/ \E state \in { "running", "paused" } : SetModuleControl(m, state)
    BY <1>5 DEF PageRequests
  <2>2. UNCHANGED << sup, unit, ctl, want >>
    BY <2>1 DEF RequestRun, RequestCooldownRelease, SetModuleControl
  <2>3. mods' \in [Module -> ModuleRow]
    <3>1. CASE RequestRun(m)
      <4>1. mods' = [mods EXCEPT ![m].trig = "pending", ![m].towner = ctl.owner]
        BY <3>1 DEF RequestRun
      <4>2. [mods[m] EXCEPT !.trig = "pending", !.towner = ctl.owner] \in ModuleRow
        BY <1>1 DEF ModuleRow, ActiveRequests, ControlRow
      <4> QED BY <1>1, <4>1, <4>2
    <3>2. CASE RequestCooldownRelease(m)
      <4>1. mods' = [mods EXCEPT ![m].release = TRUE] BY <3>2 DEF RequestCooldownRelease
      <4>2. [mods[m] EXCEPT !.release = TRUE] \in ModuleRow BY <1>1 DEF ModuleRow
      <4> QED BY <1>1, <4>1, <4>2
    <3>3. CASE \E state \in { "running", "paused" } : SetModuleControl(m, state)
      <4>1. PICK state \in { "running", "paused" } :
              mods' = [mods EXCEPT ![m].state = state]
        BY <3>3 DEF SetModuleControl
      <4>2. [mods[m] EXCEPT !.state = state] \in ModuleRow BY <1>1 DEF ModuleRow
      <4> QED BY <1>1, <4>1, <4>2
    <3> QED BY <2>1, <3>1, <3>2, <3>3
  <2> QED BY <1>1, <2>2, <2>3
          DEF ProcessGoal, SupervisorTypes, ProcessFrame, Alive
<1>6. CASE StoppedBySignal \/ Crash BY <1>6, LeaveStep
<1> QED BY <1>2, <1>3, <1>4, <1>5, <1>6 DEF Surroundings

\* Every step of the process and of what is around it.
LEMMA ProcessStep ==
  ASSUME SupervisorTypes, want \in Control, ClaimHeld,
         Loop \/ Surroundings \/ PageRequests
  PROVE  ProcessGoal
<1>1. CASE Tick \/ TickRaises \/ DrainTick BY <1>1, TickStep
<1>2. CASE \E m \in Module :
             \/ \E due \in BOOLEAN : PrepareIntervalStart(m, due)
             \/ StartWork(m) \/ SkipModule(m)
  BY <1>2, PlanStep
<1>3. CASE StartInterval \/ FinishIntervalStart \/ StartIntervalFails BY <1>3, StartStep
<1>4. CASE Drained \/ EndOfTick \/ Exit BY <1>4, LeaveStep
<1>5. CASE Surroundings \/ PageRequests BY <1>5, SurroundingStep
<1> QED BY <1>1, <1>2, <1>3, <1>4, <1>5 DEF Loop

(***************************************************************************)
(* A manual run is served once.                                            *)
(***************************************************************************)
\* What a heartbeat or a click may do to a request: nothing, or end it before
\* the module was started.
RequestKept(row, after) ==
  \/ after.trig = row.trig \/ after.trig = "expired"
  \/ after.trig = "rejected" /\ row.trig = "pending"
ClaimKept(row, after) ==
  row.trig = "starting" /\ row.towner = "this"
    => after.trig = "starting" /\ after.towner = "this"

\* Publishing a module's row neither revives a request that ended nor takes a claim
\* from the process that made it.
LEMMA PublishKeeps ==
  ASSUME NEW s, NEW row \in ModuleRow, NEW m
  PROVE  /\ RequestKept(row, PublishInterval(s, row, m))
         /\ ClaimKept(row, PublishInterval(s, row, m))
         /\ PublishInterval(s, row, m).trig = "pending" => row.trig = "pending"
<1> DEFINE trig == IF row.trig \in ActiveRequests /\ row.towner # "this"
                   THEN "expired" ELSE row.trig
           running == s.kids[m] = "running"
           blocked == BlockReason(s, row, m)
           after == IF trig = "pending" /\ (blocked \/ running) THEN "rejected" ELSE trig
<1> HIDE DEF running, blocked
<1>1. PublishInterval(s, row, m) =
        [row EXCEPT !.trig = after, !.running = running, !.blocked = blocked,
                    !.towner = IF after \in ActiveRequests THEN @ ELSE "nobody",
                    !.owner = "this"]
  BY DEF PublishInterval, running, blocked
<1>2. /\ PublishInterval(s, row, m).trig = after
      /\ after \in ActiveRequests => PublishInterval(s, row, m).towner = row.towner
  <2> HIDE DEF after
  <2> QED BY <1>1 DEF ModuleRow
<1> QED BY <1>2 DEF RequestKept, ClaimKept, ActiveRequests

\* Rows that keep their requests, and a process that is not starting anything,
\* or starts what it was starting.
LEMMA TriggerKept ==
  ASSUME TriggerInv, UNCHANGED served,
         \A m \in IntervalModules : RequestKept(mods[m], mods'[m]),
         \/ sup'.pc \notin { "popen", "finish" }
         \/ /\ sup'.pc = sup.pc /\ sup'.module = sup.module /\ sup'.manual = sup.manual
            /\ \A m \in IntervalModules : ClaimKept(mods[m], mods'[m])
  PROVE  TriggerInv'
<1>1. ClaimHeld' BY DEF TriggerInv, ClaimHeld, ClaimKept
<1>2. TriggerServedOnce'
  <2>1. ASSUME NEW m \in IntervalModules
        PROVE  /\ served'[m] <= 1
               /\ mods'[m].trig \in { "pending", "rejected", "failed" } => served'[m] = 0
               /\ mods'[m].trig = "started" => served'[m] = 1
    BY DEF TriggerInv, TriggerServedOnce, RequestKept
  <2> QED BY <2>1 DEF TriggerServedOnce
<1> QED BY <1>1, <1>2 DEF TriggerInv

\* A row that changes for one module only.
LEMMA OneRow ==
  ASSUME mods \in [Module -> ModuleRow], NEW m \in Module, NEW row \in ModuleRow,
         mods' = [mods EXCEPT ![m] = row], RequestKept(mods[m], row)
  PROVE  /\ \A n \in IntervalModules : RequestKept(mods[n], mods'[n])
         /\ ClaimKept(mods[m], row)
              => \A n \in IntervalModules : ClaimKept(mods[n], mods'[n])
<1>1. \A n \in IntervalModules : n \in Module BY IntervalModulesAreModules
<1> QED BY <1>1 DEF RequestKept, ClaimKept

\* A tick, one that raises and one of a draining process serve no request twice.
LEMMA TickTrigger ==
  ASSUME SupervisorTypes, want \in Control, TriggerInv, Tick \/ TickRaises \/ DrainTick
  PROVE  TriggerInv'
<1>1. /\ sup \in ProcessState /\ mods \in [Module -> ModuleRow] /\ ctl.state \in Control
      /\ IsSuffix(sup.todo, Modules)
      /\ \A m \in IntervalModules : m \in Module /\ mods[m] \in ModuleRow
  BY IntervalModulesAreModules DEF SupervisorTypes, ControlRow
<1>2. CASE Tick
  <2> DEFINE s == AfterReleases([sup EXCEPT !.mem = ctl.state])
  <2>1. s \in ProcessState /\ s.todo = sup.todo BY <1>1, AfterReleasesOK
  <2>2. mods' = ReapedRows(s, Published(s)) /\ sup' = AfterReap(Reaped(s))
          /\ UNCHANGED served
    BY <1>2 DEF Tick
  <2> HIDE DEF s
  <2>3. sup'.pc \in { "end", "tick", "plan" }
    <3>1. Reaped(s) \in ProcessState /\ Reaped(s).todo = s.todo BY <2>1, ReapedOK
    <3> QED BY <1>1, <2>1, <2>2, <3>1, AfterReapOK
  <2>4. ASSUME NEW m \in IntervalModules PROVE RequestKept(mods[m], mods'[m])
    <3> DEFINE cooled == PublishCooldowns(s)[m]
               row == PublishInterval(s, cooled, m)
    <3>1. cooled \in ModuleRow /\ cooled.trig = mods[m].trig
      <4>1. cooled \in ModuleRow BY <1>1, <2>1, RowsOK
      <4>2. cooled = [mods[m] EXCEPT !.cool = s.cool[m], !.release = FALSE,
                                     !.owner = "this"]
        BY <1>1 DEF PublishCooldowns
      <4> QED BY <1>1, <4>1, <4>2 DEF ModuleRow
    <3> HIDE DEF cooled
    <3>2. row \in ModuleRow /\ RequestKept(cooled, row)
      BY <1>1, <2>1, <3>1, RowsOK, PublishKeeps
    <3>3. Published(s)[m] = row BY <1>1 DEF Published, cooled
    <3> HIDE DEF row
    <3>4. mods'[m].trig = row.trig
      BY <1>1, <2>2, <3>2, <3>3 DEF ReapedRows, ModuleRow
    <3> QED BY <3>1, <3>2, <3>4 DEF RequestKept
  <2> QED BY <2>2, <2>3, <2>4, TriggerKept
<1>3. CASE TickRaises
  <2>1. sup' = FailedTick(sup) /\ UNCHANGED << mods, served >> BY <1>3 DEF TickRaises
  <2>2. sup'.pc = "end" BY <1>1, <2>1, FailedTickOK
  <2> QED BY <2>1, <2>2, TriggerKept DEF RequestKept
<1>4. CASE DrainTick
  <2> DEFINE reaped == [Reaped(sup) EXCEPT !.pc = "end"]
             rows == ReapedRows(sup, mods)
             s == AfterReleases([reaped EXCEPT !.mem = ctl.state])
  <2>1. reaped \in ProcessState /\ reaped.pc = "end"
    <3>1. Reaped(sup) \in ProcessState BY <1>1, ReapedOK
    <3> QED BY <3>1 DEF ProcessState
  <2>2. UNCHANGED served BY <1>4 DEF DrainTick
  <2> HIDE DEF reaped
  <2>3. s \in ProcessState /\ s.pc = "end" BY <1>1, <2>1, AfterReleasesOK
  <2> HIDE DEF s
  <2>4. rows \in [Module -> ModuleRow] /\ \A m \in Module : rows[m].trig = mods[m].trig
    <3>1. rows \in [Module -> ModuleRow] BY <1>1, RowsOK
    <3> QED BY <1>1, <3>1 DEF ReapedRows, ModuleRow
  <2> HIDE DEF rows
  <2>5. CASE sup.beats
    <3>1. /\ sup' = s
          /\ mods' = [m \in Module |->
                        LET row == [PublishCooldowns(s)[m] EXCEPT !.state = rows[m].state]
                        IN  IF m \in IntervalModules THEN PublishInterval(s, row, m)
                            ELSE row]
      BY <1>4, <2>5 DEF DrainTick, s, reaped, rows
    <3>2. ASSUME NEW m \in IntervalModules PROVE RequestKept(mods[m], mods'[m])
      <4> DEFINE row == [PublishCooldowns(s)[m] EXCEPT !.state = rows[m].state]
      <4>1. row \in ModuleRow /\ row.trig = mods[m].trig
        <5>1. PublishCooldowns(s)[m] \in ModuleRow /\ rows[m] \in ModuleRow
          BY <1>1, <2>3, <2>4, RowsOK
        <5>2. PublishCooldowns(s)[m] =
                [mods[m] EXCEPT !.cool = s.cool[m], !.release = FALSE, !.owner = "this"]
          BY <1>1 DEF PublishCooldowns
        <5> QED BY <1>1, <5>1, <5>2 DEF ModuleRow
      <4>2. mods'[m] = PublishInterval(s, row, m) BY <1>1, <3>1
      <4> HIDE DEF row
      <4>3. RequestKept(row, mods'[m]) BY <4>1, <4>2, PublishKeeps
      <4> QED BY <4>1, <4>3 DEF RequestKept
    <3> QED BY <2>2, <2>3, <3>1, <3>2, TriggerKept
  <2>6. CASE ~sup.beats
    <3>1. sup' = reaped /\ mods' = rows BY <1>4, <2>6 DEF DrainTick, s, reaped, rows
    <3> QED BY <1>1, <2>1, <2>2, <2>4, <3>1, TriggerKept DEF RequestKept
  <2> QED BY <2>5, <2>6
<1> QED BY <1>2, <1>3, <1>4

\* The claim is committed with the request still unserved.
LEMMA PrepareTrigger ==
  ASSUME SupervisorTypes, TriggerInv, NEW m \in Module, NEW due \in BOOLEAN,
         PrepareIntervalStart(m, due)
  PROVE  TriggerInv'
<1> DEFINE row == PublishInterval(sup, mods[m], m)
           manual == row.trig = "pending" /\ row.towner = "this"
           c == Considered(m)
<1>1. /\ sup \in ProcessState /\ ProcessOK(sup) /\ mods \in [Module -> ModuleRow]
      /\ mods[m] \in ModuleRow /\ sup.pc = "plan"
  BY DEF SupervisorTypes, ProcessOK, PrepareIntervalStart, MayStart
<1>2. m \in IntervalModules /\ UNCHANGED served BY DEF PrepareIntervalStart
<1>3. /\ row \in ModuleRow /\ RequestKept(mods[m], row) /\ ClaimKept(mods[m], row)
      /\ row.trig = "pending" => mods[m].trig = "pending"
  BY <1>1, RowsOK, PublishKeeps
<1>4. c \in ProcessState /\ IsSuffix(c.todo, Modules) BY <1>1, ConsideredOK
<1>5. \/ /\ mods' = [mods EXCEPT ![m] = Claimed(row, manual)]
         /\ sup' = [c EXCEPT !.pc = "popen", !.module = m, !.manual = manual]
      \/ mods' = [mods EXCEPT ![m] = row] /\ sup' = Planned(c)
  BY DEF PrepareIntervalStart
<1> HIDE DEF row, c
<1>6. CASE mods' = [mods EXCEPT ![m] = row] /\ sup' = Planned(c)
  <2>1. sup'.pc \notin { "popen", "finish" } BY <1>4, <1>6, PlannedOK
  <2> QED BY <1>1, <1>2, <1>3, <1>6, <2>1, OneRow, TriggerKept
<1>7. CASE /\ mods' = [mods EXCEPT ![m] = Claimed(row, manual)]
           /\ sup' = [c EXCEPT !.pc = "popen", !.module = m, !.manual = manual]
  <2>1. sup'.pc = "popen" /\ sup'.module = m /\ sup'.manual = manual
    BY <1>4, <1>7 DEF ProcessState
  <2>2. /\ mods'[m].trig = IF manual THEN "starting" ELSE row.trig
        /\ mods'[m].towner = row.towner
        /\ \A n \in IntervalModules : n # m => mods'[n] = mods[n]
    <3>1. \A n \in IntervalModules : n \in Module BY IntervalModulesAreModules
    <3>2. mods'[m] = Claimed(row, manual) BY <1>1, <1>7
    <3>3. \A n \in IntervalModules : n # m => mods'[n] = mods[n] BY <1>1, <1>7, <3>1
    <3>4. /\ Claimed(row, manual).trig = IF manual THEN "starting" ELSE row.trig
          /\ Claimed(row, manual).towner = row.towner
      BY <1>3 DEF Claimed, ModuleRow
    <3> QED BY <3>2, <3>3, <3>4
  <2>3. manual => served[m] = 0
    BY <1>2, <1>3 DEF TriggerInv, TriggerServedOnce
  <2>4. ClaimHeld' BY <1>2, <2>1, <2>2, <2>3 DEF ClaimHeld
  <2>5. TriggerServedOnce'
    BY <1>2, <1>3, <2>2 DEF TriggerInv, TriggerServedOnce, RequestKept
  <2> QED BY <1>2, <2>4, <2>5 DEF TriggerInv
<1> QED BY <1>5, <1>6, <1>7

\* The start, and its verdict.
LEMMA StartTrigger ==
  ASSUME SupervisorTypes, TriggerInv,
         StartInterval \/ FinishIntervalStart \/ StartIntervalFails
  PROVE  TriggerInv'
<1>1. /\ sup \in ProcessState /\ ProcessOK(sup) /\ mods \in [Module -> ModuleRow]
      /\ sup.module \in IntervalModules /\ sup.pc \in { "popen", "finish" }
      /\ \A n \in IntervalModules : n \in Module /\ mods[n] \in ModuleRow
      /\ served \in [Module -> Nat]
  BY IntervalModulesAreModules
     DEF SupervisorTypes, ProcessOK, TriggerInv, ClaimHeld, StartInterval,
         FinishIntervalStart, StartIntervalFails
<1>2. CASE StartInterval
  <2>1. /\ sup' = [sup EXCEPT !.kids[sup.module] = "running", !.pc = "finish"]
        /\ sup.pc = "popen" /\ UNCHANGED mods
        /\ served' = IF sup.manual THEN [served EXCEPT ![sup.module] = @ + 1] ELSE served
    BY <1>2 DEF StartInterval, Started
  <2>2. sup'.pc = "finish" /\ sup'.module = sup.module /\ sup'.manual = sup.manual
    BY <1>1, <2>1 DEF ProcessState
  <2>3. CASE ~sup.manual
    <3>1. served' = served /\ ~sup'.manual BY <2>1, <2>2, <2>3
    <3>2. ClaimHeld' BY <1>1, <2>2, <3>1 DEF ClaimHeld
    <3>3. TriggerServedOnce' BY <2>1, <3>1 DEF TriggerInv, TriggerServedOnce
    <3> QED BY <1>1, <3>1, <3>2, <3>3 DEF TriggerInv
  <2>4. CASE sup.manual
    <3>1. /\ mods[sup.module].trig = "starting" /\ mods[sup.module].towner = "this"
          /\ served[sup.module] = 0
      BY <2>1, <2>4 DEF TriggerInv, ClaimHeld
    <3>2. /\ served'[sup.module] = 1 /\ served' \in [Module -> Nat]
          /\ \A n \in IntervalModules : n # sup.module => served'[n] = served[n]
      BY <1>1, <2>1, <2>4, <3>1
    <3>3. ClaimHeld' BY <1>1, <2>1, <2>2, <3>1, <3>2 DEF ClaimHeld
    <3>4. TriggerServedOnce'
      BY <2>1, <3>1, <3>2 DEF TriggerInv, TriggerServedOnce
    <3> QED BY <3>2, <3>3, <3>4 DEF TriggerInv
  <2> QED BY <2>3, <2>4
<1>3. ASSUME NEW verdict \in { "started", "failed" }, mods' = Finished(sup, verdict),
             UNCHANGED served, sup'.pc \notin { "popen", "finish" },
             sup.manual => served[sup.module] = IF verdict = "failed" THEN 0 ELSE 1
      PROVE  TriggerInv'
  <2> DEFINE m == sup.module
             row == PublishInterval(sup, mods[m], m)
  <2>1. row \in ModuleRow /\ RequestKept(mods[m], row) BY <1>1, RowsOK, PublishKeeps
  <2>2. mods' = IF ctl.owner # "this" THEN mods
                ELSE [mods EXCEPT ![m] = IF sup.manual
                        THEN [row EXCEPT !.trig = verdict, !.towner = "nobody"] ELSE row]
    BY <1>3 DEF Finished
  <2> HIDE DEF row
  <2>3. CASE ctl.owner # "this"
    BY <1>3, <2>2, <2>3, TriggerKept DEF RequestKept
  <2>4. CASE ctl.owner = "this" /\ ~sup.manual
    BY <1>1, <1>3, <2>1, <2>2, <2>4, OneRow, TriggerKept
  <2>5. CASE ctl.owner = "this" /\ sup.manual
    <3>1. /\ mods'[m].trig = verdict
          /\ \A n \in IntervalModules : n # m => mods'[n] = mods[n]
      BY <1>1, <2>1, <2>2, <2>5 DEF ModuleRow
    <3>2. ClaimHeld' BY <1>3 DEF ClaimHeld
    <3>3. TriggerServedOnce'
      BY <1>1, <1>3, <2>5, <3>1 DEF TriggerInv, TriggerServedOnce
    <3> QED BY <1>1, <1>3, <3>2, <3>3 DEF TriggerInv
  <2> QED BY <2>3, <2>4, <2>5
<1>4. CASE FinishIntervalStart
  <2> DEFINE f == [sup EXCEPT !.module = "none", !.manual = FALSE]
  <2>1. /\ sup' = Planned(f) /\ mods' = Finished(sup, "started") /\ sup.pc = "finish"
        /\ UNCHANGED served
    BY <1>4 DEF FinishIntervalStart
  <2>2. f \in ProcessState /\ f.todo = sup.todo BY <1>1 DEF ProcessState
  <2> HIDE DEF f
  <2>3. sup'.pc \notin { "popen", "finish" }
    <3>1. IsSuffix(f.todo, Modules) BY <1>1, <2>2 DEF ProcessOK
    <3> QED BY <2>1, <2>2, <3>1, PlannedOK
  <2>4. sup.manual => served[sup.module] = 1 BY <2>1 DEF TriggerInv, ClaimHeld
  <2> QED BY <1>3, <2>1, <2>3, <2>4
<1>5. CASE StartIntervalFails
  <2> DEFINE f == FailedTick(sup)
  <2>1. /\ sup' = [f EXCEPT !.module = "none", !.manual = FALSE] /\ sup.pc = "popen"
        /\ mods' = Finished(sup, "failed") /\ UNCHANGED served
    BY <1>5 DEF StartIntervalFails
  <2>2. f \in ProcessState /\ f.pc = "end" BY <1>1, FailedTickOK DEF ProcessOK
  <2> HIDE DEF f
  <2>3. sup'.pc \notin { "popen", "finish" } BY <2>1, <2>2 DEF ProcessState
  <2>4. sup.manual => served[sup.module] = 0 BY <2>1 DEF TriggerInv, ClaimHeld
  <2> QED BY <1>3, <2>1, <2>3, <2>4
<1> QED BY <1>2, <1>4, <1>5

\* The other steps of the process, and what is around it.
LEMMA OtherTrigger ==
  ASSUME SupervisorTypes, TriggerInv,
         \/ \E m \in Module : StartWork(m) \/ SkipModule(m)
         \/ Drained \/ EndOfTick \/ Exit \/ Surroundings
  PROVE  TriggerInv'
<1>1. /\ sup \in ProcessState /\ ProcessOK(sup)
  BY DEF SupervisorTypes, ProcessOK
<1>2. UNCHANGED << mods, served >>
  BY DEF StartWork, SkipModule, Drained, EndOfTick, Exit, Surroundings, ChildExits,
         DelayEnds, StoppedBySignal, Crash, LeaseExpires
<1>3. sup'.pc \notin { "popen", "finish" } \/
        (sup'.pc = sup.pc /\ sup'.module = sup.module /\ sup'.manual = sup.manual)
  <2>1. ASSUME NEW m \in Module, StartWork(m) PROVE sup'.pc \notin { "popen", "finish" }
    <3> DEFINE c == Considered(m)
               w == [c EXCEPT !.kids[m] = "running"]
    <3>1. sup' = Planned(w) /\ sup.pc = "plan" BY <2>1 DEF StartWork, MayStart
    <3>2. c \in ProcessState /\ IsSuffix(c.todo, Modules) BY <1>1, <3>1, ConsideredOK
    <3> HIDE DEF c
    <3>3. w \in ProcessState /\ w.todo = c.todo BY <3>2 DEF ProcessState
    <3> HIDE DEF w
    <3> QED BY <3>1, <3>2, <3>3, PlannedOK
  <2>2. ASSUME NEW m \in Module, SkipModule(m) PROVE sup'.pc \notin { "popen", "finish" }
    <3>1. sup' = Planned(Considered(m)) /\ sup.pc = "plan" BY <2>2 DEF SkipModule
    <3>2. Considered(m) \in ProcessState /\ IsSuffix(Considered(m).todo, Modules)
      BY <1>1, <3>1, ConsideredOK
    <3> QED BY <3>1, <3>2, PlannedOK
  <2>3. CASE Drained
    <3>1. \/ sup' = FailedTick(sup)
          \/ sup' = [sup EXCEPT !.mem = ctl.state, !.pc = "tick"]
          \/ sup' = [sup EXCEPT !.mem = "paused", !.pc = "exit"]
      BY <2>3 DEF Drained
    <3>2. FailedTick(sup).pc = "end" BY <1>1, FailedTickOK
    <3> QED BY <1>1, <3>1, <3>2 DEF ProcessState
  <2>4. CASE EndOfTick
    <3>1. sup' = [sup EXCEPT !.pc = IF sup.drain /\ NoChildren(sup) THEN "exit" ELSE "tick"]
      BY <2>4 DEF EndOfTick
    <3> QED BY <1>1, <3>1 DEF ProcessState
  <2>5. CASE Exit \/ StoppedBySignal \/ Crash
    <3>1. sup' = Gone BY <2>5 DEF Exit, StoppedBySignal, Crash
    <3>2. Gone.pc = "dead" BY DEF Gone, NewProcess
    <3> QED BY <3>1, <3>2
  <2>6. ASSUME NEW m \in Module, NEW how \in Ended, ChildExits(m, how)
        PROVE  sup'.pc = sup.pc /\ sup'.module = sup.module /\ sup'.manual = sup.manual
    <3>1. sup' = [sup EXCEPT !.kids[m] = how] BY <2>6 DEF ChildExits
    <3> QED BY <1>1, <3>1 DEF ProcessState
  <2>7. ASSUME NEW m \in Module, DelayEnds(m)
        PROVE  sup'.pc = sup.pc /\ sup'.module = sup.module /\ sup'.manual = sup.manual
    <3>1. sup' = [sup EXCEPT !.delay[m] = FALSE, !.cool[m] = 0] BY <2>7 DEF DelayEnds
    <3> QED BY <1>1, <3>1 DEF ProcessState
  <2>8. CASE LeaseExpires BY <2>8 DEF LeaseExpires
  <2> QED BY <2>1, <2>2, <2>3, <2>4, <2>5, <2>6, <2>7, <2>8 DEF Surroundings
<1> QED BY <1>2, <1>3, TriggerKept DEF RequestKept, ClaimKept

\* A click.
LEMMA PageTrigger ==
  ASSUME SupervisorTypes, TriggerInv, PageRequests
  PROVE  TriggerInv'
<1>1. /\ mods \in [Module -> ModuleRow] /\ served \in [Module -> Nat]
      /\ \A m \in Module : mods[m] \in ModuleRow
      /\ \A m \in IntervalModules : m \in Module
  BY IntervalModulesAreModules DEF SupervisorTypes, TriggerInv
<1>2. PICK m \in Module :
        \/ RequestRun(m) \/ RequestCooldownRelease(m)
        \/ \E state \in { "running", "paused" } : SetModuleControl(m, state)
  BY DEF PageRequests
<1>3. CASE RequestRun(m)
  <2>1. /\ mods' = [mods EXCEPT ![m].trig = "pending", ![m].towner = ctl.owner]
        /\ served' = [served EXCEPT ![m] = 0] /\ UNCHANGED sup
        /\ mods[m].trig \notin ActiveRequests /\ m \in IntervalModules
    BY <1>3 DEF RequestRun
  <2>2. /\ mods'[m].trig = "pending" /\ served'[m] = 0 /\ served' \in [Module -> Nat]
        /\ \A n \in IntervalModules : n # m => mods'[n] = mods[n] /\ served'[n] = served[n]
    BY <1>1, <2>1 DEF ModuleRow
  <2>3. sup.pc \in { "popen", "finish" } /\ sup.manual => sup.module # m
    BY <2>1 DEF TriggerInv, ClaimHeld, ActiveRequests
  <2>4. ClaimHeld' BY <2>1, <2>2, <2>3 DEF TriggerInv, ClaimHeld
  <2>5. TriggerServedOnce' BY <2>2 DEF TriggerInv, TriggerServedOnce
  <2> QED BY <2>2, <2>4, <2>5 DEF TriggerInv
<1>4. ASSUME NEW row \in ModuleRow, mods' = [mods EXCEPT ![m] = row],
             row.trig = mods[m].trig, row.towner = mods[m].towner,
             UNCHANGED << sup, served >>
      PROVE  TriggerInv'
  BY <1>1, <1>4, OneRow, TriggerKept DEF RequestKept, ClaimKept
<1>5. CASE RequestCooldownRelease(m)
  <2> DEFINE row == [mods[m] EXCEPT !.release = TRUE]
  <2>1. mods' = [mods EXCEPT ![m] = row] /\ UNCHANGED << sup, served >>
    BY <1>1, <1>5 DEF RequestCooldownRelease
  <2>2. row \in ModuleRow /\ row.trig = mods[m].trig /\ row.towner = mods[m].towner
    BY <1>1 DEF ModuleRow
  <2> QED BY <1>4, <2>1, <2>2
<1>6. ASSUME NEW state \in { "running", "paused" }, SetModuleControl(m, state)
      PROVE  TriggerInv'
  <2> DEFINE row == [mods[m] EXCEPT !.state = state]
  <2>1. mods' = [mods EXCEPT ![m] = row] /\ UNCHANGED << sup, served >>
    BY <1>1, <1>6 DEF SetModuleControl
  <2>2. row \in ModuleRow /\ row.trig = mods[m].trig /\ row.towner = mods[m].towner
    BY <1>1 DEF ModuleRow
  <2> QED BY <1>4, <2>1, <2>2
<1> QED BY <1>2, <1>3, <1>5, <1>6

\* A new process: it starts nothing, and every request is a former process's.
LEMMA LaunchTrigger ==
  ASSUME SupervisorTypes, TriggerInv, NEW conf \in Nat, Launch(conf), UNCHANGED served
  PROVE  TriggerInv'
<1>1. \A m \in IntervalModules : m \in Module /\ mods[m] \in ModuleRow
  BY IntervalModulesAreModules DEF SupervisorTypes
<1>2. sup'.pc = "tick" BY DEF Launch, NewProcess
<1>3. \A m \in IntervalModules : mods'[m].trig = mods[m].trig
  BY <1>1 DEF Launch, FormerOwner, ModuleRow
<1> QED BY <1>2, <1>3, TriggerKept DEF RequestKept

\* Every step of the process and of what is around it.
LEMMA ProcessTrigger ==
  ASSUME SupervisorTypes, want \in Control, TriggerInv,
         Loop \/ Surroundings \/ PageRequests
  PROVE  TriggerInv'
<1>1. CASE Tick \/ TickRaises \/ DrainTick BY <1>1, TickTrigger
<1>2. CASE \E m \in Module, due \in BOOLEAN : PrepareIntervalStart(m, due)
  BY <1>2, PrepareTrigger
<1>3. CASE StartInterval \/ FinishIntervalStart \/ StartIntervalFails
  BY <1>3, StartTrigger
<1>4. CASE \/ \E m \in Module : StartWork(m) \/ SkipModule(m)
           \/ Drained \/ EndOfTick \/ Exit \/ Surroundings
  BY <1>4, OtherTrigger
<1>5. CASE PageRequests BY <1>5, PageTrigger
<1> QED BY <1>1, <1>2, <1>3, <1>4, <1>5 DEF Loop

(***************************************************************************)
(* Operations.                                                             *)
(***************************************************************************)
\* What no step of an executor changes.
SameJob(op, t) ==
  /\ t.kind = op.kind /\ t.units = op.units /\ t.status = op.status
  /\ t.alive = op.alive /\ t.prev = op.prev /\ t.orig = op.orig

EndSteps == << "finally", "record" >>

\* One step further, a failure, and a cancellation.
Advances(op, t) ==
  /\ t.handling = op.handling
  /\ \/ Works(t) /\ ToSet(t.todo) = ToSet(op.todo) \ { Head(op.todo) }
     \/ /\ Ends(t) /\ t.todo = EndSteps /\ ToSet(op.todo) = { Head(op.todo) }
        /\ t.outcome = IF op.handling THEN "failed" ELSE "succeeded"
FailsTo(op, t) ==
  \/ /\ ~op.handling /\ t.handling /\ Works(t) /\ t.todo = Rollback(t)
     /\ Rollback(t) # << >>
  \/ /\ t.handling = op.handling /\ Ends(t) /\ t.todo = EndSteps /\ t.outcome = "failed"
     /\ op.handling \/ Rollback(t) = << >>
Cancels(op, t) ==
  t.handling = op.handling /\ Ends(t) /\ t.todo = EndSteps /\ t.outcome = "cancelled"

\* The programs depend on what the operation is and has found.
LEMMA SamePrograms ==
  ASSUME NEW op, NEW t, t.kind = op.kind, t.units = op.units, t.prev = op.prev
  PROVE  /\ Program(t) = Program(op)
         /\ t.migrated = op.migrated /\ t.changed = op.changed
              => Rollback(t) = Rollback(op)
<1>1. Stops(t) = Stops(op) /\ RestoreServices(t) = RestoreServices(op)
  BY DEF Stops, RestoreServices
<1>2. Program(t) = Program(op) BY <1>1 DEF Program
<1>3. ASSUME t.migrated = op.migrated, t.changed = op.changed
      PROVE  Rollback(t) = Rollback(op)
  BY <1>1, <1>3 DEF Rollback
<1> QED BY <1>2, <1>3

\* The last steps.
LEMMA LastSteps ==
  /\ EndSteps \in Seq(Steps) /\ EndSteps # << >>
  /\ ToSet(EndSteps) = { "finally", "record" }
  /\ << "record" >> \in Seq(Steps) /\ ToSet(<< "record" >>) = { "record" }
  /\ Head(EndSteps) = "finally" /\ Head(<< "record" >>) = "record"
  /\ EndSteps # << "record" >> /\ << "record" >> # << >>
<1>1. { "finally", "record" } \subseteq Steps BY DEF Rank, Steps
<1>2. /\ Len(EndSteps) = 2 /\ DOMAIN EndSteps = 1..2
      /\ EndSteps[1] = "finally" /\ EndSteps[2] = "record"
      /\ EndSteps \in Seq(Steps) /\ Len(<< "record" >>) = 1
      /\ DOMAIN << "record" >> = 1..1
  BY <1>1 DEF EndSteps
<1>3. ToSet(EndSteps) = { "finally", "record" } BY <1>2 DEF ToSet
<1>4. ToSet(<< "record" >>) = { "record" } BY <1>2 DEF ToSet
<1> QED BY <1>1, <1>2, <1>3, <1>4

\* The steps of an operation that works are those of its program or rollback.
LEMMA WorkSteps ==
  ASSUME NEW op, op \in Operation, Works(op)
  PROVE  /\ Whole(op) = IF op.handling THEN RollbackSet(op) ELSE ProgramSet(op)
         /\ ToSet(op.todo) \subseteq Whole(op) /\ Head(op.todo) \in ToSet(op.todo)
         /\ ToSet(op.todo) \subseteq Steps
         /\ \A x \in ToSet(op.todo) \ { Head(op.todo) } : Rank[Head(op.todo)] < Rank[x]
<1>1. /\ op.todo \in Seq(Steps) /\ op.todo # << >> /\ InOrder(op.todo)
      /\ RestOf(op.todo, Whole(op)) /\ op.kind \in Kinds
  BY DEF Operation, Works
<1>2. /\ Ordered(Program(op), ProgramSet(op)) /\ Ordered(Rollback(op), RollbackSet(op))
  BY <1>1, ProgramOrdered, RollbackOrdered
<1>3. Whole(op) = IF op.handling THEN RollbackSet(op) ELSE ProgramSet(op)
  BY <1>2 DEF Whole, Ordered
<1> QED BY <1>1, <1>3, FirstStep DEF RestOf

\* An operation that works on its first step, and then on the others.
LEMMA AdvanceOK ==
  ASSUME NEW op, NEW t, OperationOK(op), Works(op), t \in Operation, SameJob(op, t),
         t.handling = op.handling,
         op.handling => t.migrated = op.migrated /\ t.changed = op.changed,
         IF Len(op.todo) > 1 THEN t.todo = Tail(op.todo) /\ t.outcome = "none"
         ELSE /\ t.todo = EndSteps
              /\ t.outcome = IF op.handling THEN "failed" ELSE "succeeded"
  PROVE  OperationOK(t) /\ Advances(op, t)
<1>1. /\ op \in Operation /\ op.todo \in Seq(Steps) /\ op.todo # << >>
      /\ InOrder(op.todo) /\ RestOf(op.todo, Whole(op)) /\ op.kind \in Kinds
      /\ op.status = "running"
      /\ op.prev.supervisor => "supervisor" \in op.units
  BY DEF OperationOK, Operation, Works
<1>2. /\ Tail(op.todo) \in Seq(Steps) /\ InOrder(Tail(op.todo))
      /\ ToSet(Tail(op.todo)) = ToSet(op.todo) \ { Head(op.todo) }
      /\ \A x \in ToSet(Tail(op.todo)) : Rank[Head(op.todo)] < Rank[x]
      /\ Head(op.todo) \in ToSet(op.todo) /\ ToSet(op.todo) \subseteq Steps
      /\ Len(op.todo) > 1 <=> Tail(op.todo) # << >>
  BY <1>1, FirstStep
<1>3. Whole(t) = Whole(op)
  BY SamePrograms DEF Whole, SameJob
<1>4. CASE Len(op.todo) > 1
  <2>1. RestOf(Tail(op.todo), Whole(op))
    <3>1. ASSUME NEW x \in ToSet(Tail(op.todo)), NEW y \in Whole(op), Rank[x] < Rank[y]
          PROVE  y \in ToSet(Tail(op.todo))
      <4>1. y \in ToSet(op.todo) BY <1>1, <1>2, <3>1 DEF RestOf
      <4>2. y # Head(op.todo)
        <5>1. Rank[Head(op.todo)] \in Nat /\ Rank[x] \in Nat BY <1>2, RankIsNat
        <5> QED BY <1>2, <3>1, <5>1
      <4> QED BY <1>2, <4>1, <4>2
    <3> QED BY <1>1, <1>2, <3>1 DEF RestOf
  <2>2. Works(t) BY <1>1, <1>2, <1>3, <1>4, <2>1 DEF Works, SameJob
  <2> QED BY <1>1, <1>2, <1>4, <2>2 DEF OperationOK, Advances, SameJob
<1>5. CASE ~(Len(op.todo) > 1)
  <2>1. ToSet(op.todo) = { Head(op.todo) }
    <3>1. Tail(op.todo) = << >> BY <1>2, <1>5
    <3>2. ToSet(Tail(op.todo)) = { }
      <4>1. DOMAIN << >> = { } OBVIOUS
      <4> QED BY <3>1, <4>1 DEF ToSet
    <3> QED BY <1>2, <3>2
  <2>2. Ends(t) BY <1>1, <1>5 DEF Ends, SameJob, EndSteps
  <2> QED BY <1>1, <1>5, <2>1, <2>2 DEF OperationOK, Advances, SameJob
<1> QED BY <1>4, <1>5

\* The fields a step leaves alone.
LEMMA SteppedFields ==
  ASSUME NEW op, OperationOK(op), Works(op)
  PROVE  LET t == Stepped(op)
         IN  /\ t \in Operation /\ SameJob(op, t) /\ t.handling = op.handling
             /\ t.applied = op.applied /\ t.restored = op.restored
             /\ t.changed = op.changed /\ t.migrated = op.migrated
             /\ t.cancel = op.cancel
             /\ IF Len(op.todo) > 1 THEN t.todo = Tail(op.todo) /\ t.outcome = "none"
                ELSE /\ t.todo = EndSteps
                     /\ t.outcome = IF op.handling THEN "failed" ELSE "succeeded"
<1>1. /\ op \in Operation /\ op.todo \in Seq(Steps) /\ op.todo # << >>
      /\ op.outcome = "none"
  BY DEF OperationOK, Works, Operation
<1>2. Tail(op.todo) \in Seq(Steps) BY <1>1
<1>3. CASE Len(op.todo) > 1
  <2>1. Stepped(op) = [op EXCEPT !.todo = Tail(op.todo)] BY <1>3 DEF Stepped
  <2> QED BY <1>1, <1>2, <1>3, <2>1 DEF Operation, SameJob
<1>4. CASE ~(Len(op.todo) > 1)
  <2> DEFINE outcome == IF op.handling THEN "failed" ELSE "succeeded"
  <2>1. Stepped(op) = [op EXCEPT !.outcome = outcome, !.todo = EndSteps]
    BY <1>4 DEF Stepped, Ending, EndSteps
  <2>2. outcome \in { "none", "succeeded", "failed", "cancelled" } OBVIOUS
  <2>3. outcome = IF op.handling THEN "failed" ELSE "succeeded" OBVIOUS
  <2> HIDE DEF outcome
  <2>4. /\ Stepped(op) \in Operation /\ SameJob(op, Stepped(op))
        /\ Stepped(op).todo = EndSteps /\ Stepped(op).outcome = outcome
        /\ Stepped(op).handling = op.handling
        /\ Stepped(op).applied = op.applied /\ Stepped(op).restored = op.restored
        /\ Stepped(op).changed = op.changed /\ Stepped(op).migrated = op.migrated
        /\ Stepped(op).cancel = op.cancel
    BY <1>1, <2>1, <2>2, LastSteps DEF Operation, SameJob
  <2> QED BY <1>4, <2>3, <2>4
<1> QED BY <1>3, <1>4

\* Going to the next step keeps an operation well formed.
LEMMA SteppedOK ==
  ASSUME NEW op, OperationOK(op), Works(op)
  PROVE  OperationOK(Stepped(op)) /\ Advances(op, Stepped(op))
BY SteppedFields, AdvanceOK

\* An end that is no success.
LEMMA EndingOK ==
  ASSUME NEW op, op \in Operation, op.status = "running", op.kind \in Kinds,
         op.prev.supervisor => "supervisor" \in op.units,
         NEW outcome \in { "succeeded", "failed", "cancelled" }
  PROVE  LET t == Ending(op, outcome)
         IN  /\ t \in Operation /\ SameJob(op, t) /\ OperationOK(t) /\ Ends(t)
             /\ t.todo = EndSteps /\ t.outcome = outcome /\ t.handling = op.handling
             /\ t.applied = op.applied /\ t.restored = op.restored
             /\ t.changed = op.changed /\ t.migrated = op.migrated
<1>1. Ending(op, outcome) = [op EXCEPT !.outcome = outcome, !.todo = EndSteps]
  BY DEF Ending, EndSteps
<1>2. LET t == Ending(op, outcome)
      IN  /\ t \in Operation /\ SameJob(op, t)
          /\ t.todo = EndSteps /\ t.outcome = outcome /\ t.handling = op.handling
          /\ t.applied = op.applied /\ t.restored = op.restored
          /\ t.changed = op.changed /\ t.migrated = op.migrated
  BY <1>1, LastSteps DEF Operation, SameJob
<1> QED BY <1>2 DEF OperationOK, Ends, SameJob, EndSteps

\* A failure.
LEMMA FailingOK ==
  ASSUME NEW op, op \in Operation, op.status = "running", op.kind \in Kinds,
         op.outcome = "none", op.prev.supervisor => "supervisor" \in op.units
  PROVE  LET t == Failing(op)
         IN  /\ t \in Operation /\ SameJob(op, t) /\ OperationOK(t) /\ FailsTo(op, t)
             /\ t.applied = op.applied /\ t.restored = op.restored
             /\ t.changed = op.changed /\ t.migrated = op.migrated
<1>1. CASE ~op.handling /\ Rollback(op) # << >>
  <2> DEFINE r == Rollback(op)
  <2>1. Ordered(r, RollbackSet(op)) BY RollbackOrdered
  <2>2. r \in Seq(Steps) /\ InOrder(r) /\ r # << >> BY <1>1, <2>1 DEF Ordered
  <2>3. Failing(op) = [op EXCEPT !.handling = TRUE, !.todo = r] BY <1>1 DEF Failing
  <2> HIDE DEF r
  <2>4. LET t == Failing(op)
        IN  /\ t \in Operation /\ SameJob(op, t) /\ t.handling /\ t.todo = r
            /\ t.outcome = "none"
            /\ t.applied = op.applied /\ t.restored = op.restored
            /\ t.changed = op.changed /\ t.migrated = op.migrated
    BY <2>2, <2>3 DEF Operation, SameJob
  <2>5. Rollback(Failing(op)) = r BY <2>4, SamePrograms DEF SameJob, r
  <2>6. RestOf(r, Whole(Failing(op))) BY <2>4, <2>5 DEF RestOf, Whole
  <2>7. Works(Failing(op)) BY <2>2, <2>4, <2>6 DEF Works, SameJob
  <2> QED BY <1>1, <2>2, <2>4, <2>5, <2>7 DEF OperationOK, FailsTo, SameJob
<1>2. CASE ~(~op.handling /\ Rollback(op) # << >>)
  <2>1. Failing(op) = Ending(op, "failed") BY <1>2 DEF Failing
  <2>2. op.handling \in BOOLEAN BY DEF Operation
  <2>3. ~op.handling => Rollback(Failing(op)) = << >>
    BY <1>2, <2>1, EndingOK, SamePrograms DEF SameJob
  <2> QED BY <1>2, <2>1, <2>2, <2>3, EndingOK DEF FailsTo
<1> QED BY <1>1, <1>2

\* The step an executor is at.
LEMMA AtStep ==
  ASSUME OperationTypes, NEW o \in Operations, NEW step, At(o, step)
  PROVE  /\ ops[o] \in Operation /\ OperationOK(ops[o]) /\ ops[o].alive /\ lock = o
         /\ ops[o].status = "running" /\ Head(ops[o].todo) = step
         /\ Captures(ops[o]) => step = "capture_service_state"
         /\ Ends(ops[o]) => step \in { "finally", "record" }
         /\ Works(ops[o]) => step \in Whole(ops[o])
         /\ Captures(ops[o]) \/ Works(ops[o]) \/ Ends(ops[o])
<1>1. /\ ops[o] \in Operation /\ OperationOK(ops[o]) /\ ops[o].alive /\ lock = o
      /\ ops[o].status = "running" /\ Head(ops[o].todo) = step
  BY DEF OperationTypes, LockInv, At
<1>2. /\ Head(<< "capture_service_state" >>) = "capture_service_state"
      /\ Head(<< "record" >>) = "record" /\ Head(<< "finally", "record" >>) = "finally"
  OBVIOUS
<1>3. Captures(ops[o]) \/ Works(ops[o]) \/ Ends(ops[o])
  BY <1>1 DEF OperationOK, Over, Waits, Terminal
<1>4. Captures(ops[o]) => step = "capture_service_state" BY <1>1, <1>2 DEF Captures
<1>5. Ends(ops[o]) => step \in { "finally", "record" } BY <1>1, <1>2 DEF Ends
<1>6. Works(ops[o]) => step \in Whole(ops[o]) BY <1>1, WorkSteps
<1> QED BY <1>1, <1>3, <1>4, <1>5, <1>6

\* Neither the first nor the last steps are steps of a program.
LEMMA WholeSteps ==
  ASSUME NEW op, op \in Operation, Works(op)
  PROVE  /\ \A x \in Whole(op) : x \notin { "acquire_lock", "capture_service_state",
                                            "finally", "record" }
         /\ \A x \in SupervisorSteps : x \in Whole(op) /\ op.kind = "git_update"
              => op.prev.supervisor
         /\ Whole(op) \cap { "fast_forward_checkout", "upgrade_database" } # { }
              => op.kind = "git_update" /\ ~op.handling
         /\ Whole(op) \cap { "record_intent", "publish_configuration" } # { }
              => op.kind = "apply_config" /\ ~op.handling
         /\ Whole(op) \cap { "restore_configuration", "record_restored" } # { }
              => op.kind = "apply_config" /\ op.handling
<1>1. /\ Whole(op) = IF op.handling THEN RollbackSet(op) ELSE ProgramSet(op)
      /\ op.kind \in { "stop", "start", "restart", "apply_config", "git_update" }
      /\ op.handling \in BOOLEAN
  BY WorkSteps DEF Works, Kinds, Operation
<1>2. CASE op.handling
  BY <1>1, <1>2 DEF RollbackSet, StopsSet, RestoreSet, Only, Stopping, Starting,
                    SupervisorSteps
<1>3. CASE ~op.handling
  <2>1. Whole(op) = ProgramSet(op) BY <1>1, <1>3
  <2>2. CASE op.kind \in { "stop", "start", "restart" }
    BY <1>3, <2>1, <2>2 DEF ProgramSet, StopsSet, Only, Stopping, Starting,
                            SupervisorSteps
  <2>3. CASE op.kind = "apply_config"
    BY <1>3, <2>1, <2>3 DEF ProgramSet, StopsSet, RestoreSet, Only, Stopping, Starting,
                            SupervisorSteps
  <2>4. CASE op.kind = "git_update"
    BY <1>3, <2>1, <2>4 DEF ProgramSet, StopsSet, RestoreSet, Only, Stopping, Starting,
                            SupervisorSteps
  <2> QED BY <1>1, <2>2, <2>3, <2>4
<1> QED BY <1>1, <1>2, <1>3

(***************************************************************************)
(* A step of a program: what it does to the operation, the control row,    *)
(* the live configuration and the unit.                                    *)
(***************************************************************************)
MiddleStep(o, how) ==
  LET op == ops[o]
      t == ops'[o]
      step == Head(op.todo)
  IN  /\ op.alive /\ lock = o /\ Works(op) /\ op \in Operation
      /\ ops' = [ops EXCEPT ![o] = t] /\ SameJob(op, t) /\ OperationOK(t)
      /\ UNCHANGED << want, lock, write, served >> /\ web' \in BOOLEAN
      /\ ctl' \in ControlRow
      /\ how \in { "advance", "fail", "cancel" }
      /\ how = "advance" => Advances(op, t)
      /\ how = "fail" => FailsTo(op, t)
      /\ how = "cancel" =>
           /\ step = "wait_for_supervisor_exit" /\ Cancels(op, t)
           /\ ctl.state = "draining" /\ ctl'.state = op.prev.control
      /\ op.migrated => t.migrated
      /\ t.migrated => op.migrated \/ step = "upgrade_database"
      /\ t.applied = op.applied \/ (step = "record_intent" /\ t.applied)
      /\ step = "record_intent" /\ how = "advance" => t.applied
      /\ t.restored = op.restored \/ step = "record_restored"
      /\ step = "record_restored" => t.restored = op.applied
      /\ step \notin { "start_supervisor", "restore_previous_control_state",
                       "wait_for_supervisor_exit" } => ctl'.state = ctl.state
      /\ step = "restore_previous_control_state" =>
           ctl'.state = op.prev.control /\ how = "advance"
      /\ step = "wait_for_supervisor_exit" =>
           /\ ctl'.state \in { ctl.state, op.prev.control }
           /\ how = "advance" => ctl'.state = ctl.state /\ unit = "inactive"
      /\ step = "start_supervisor" => ctl'.state = "paused"
      /\ step \notin { "publish_configuration", "restore_configuration" } => live' = live
      /\ step = "publish_configuration" => live' = o /\ how = "advance"
      /\ step = "restore_configuration" =>
           \/ RestoreRefused(o) /\ live' = live
           \/ ~RestoreRefused(o) /\ live' = IF NothingToRestore(op) THEN live ELSE op.orig
      /\ \/ /\ UNCHANGED << sup, unit, mods >>
            /\ step = "start_supervisor" => Alive \/ how = "fail"
         \/ /\ step = "start_supervisor" /\ how = "advance" /\ Launch(live)

\* What an executor at a step of a program has.
LEMMA AtWork ==
  ASSUME Types, NEW o \in Operations, NEW step, At(o, step),
         step \notin { "capture_service_state", "finally", "record" }
  PROVE  /\ ops[o] \in Operation /\ OperationOK(ops[o]) /\ ops[o].alive /\ lock = o
         /\ ops[o].status = "running" /\ Head(ops[o].todo) = step /\ Works(ops[o])
         /\ ops \in [Operations -> Operation] /\ ctl \in ControlRow
         /\ ops[o].kind \in Kinds /\ ops[o].outcome = "none"
         /\ ops[o].prev.supervisor => "supervisor" \in ops[o].units
         /\ ops[o].prev.control \in Control /\ ctl.state \in Control
         /\ web \in BOOLEAN
         /\ \A op : Become(o, op) => ops' = [ops EXCEPT ![o] = ops'[o]] /\ ops'[o] = op
         /\ \A state \in Control :
              ControlledBy(state) => ctl' \in ControlRow /\ ctl'.state = state
<1>1. /\ ops[o] \in Operation /\ OperationOK(ops[o]) /\ ops[o].alive /\ lock = o
      /\ ops[o].status = "running" /\ Head(ops[o].todo) = step /\ Works(ops[o])
      /\ ops \in [Operations -> Operation] /\ ctl \in ControlRow /\ web \in BOOLEAN
  BY AtStep DEF Types, OperationTypes, SupervisorTypes
<1>2. /\ ops[o].kind \in Kinds /\ ops[o].outcome = "none"
      /\ ops[o].prev.supervisor => "supervisor" \in ops[o].units
      /\ ops[o].prev.control \in Control /\ ctl.state \in Control
  BY <1>1 DEF Works, OperationOK, Operation, Control, ControlRow
<1>3. \A op : Become(o, op) => ops' = [ops EXCEPT ![o] = ops'[o]] /\ ops'[o] = op
  BY <1>1 DEF Become
<1>4. \A state \in Control :
        ControlledBy(state) => ctl' \in ControlRow /\ ctl'.state = state
  BY <1>1, RowWrites DEF ControlledBy
<1> QED BY <1>1, <1>2, <1>3, <1>4

\* A step that only goes on with the operation, or fails.
LEMMA PlainMiddle ==
  ASSUME Types, NEW o \in Operations, NEW step, At(o, step),
         step \notin { "capture_service_state", "finally", "record", "start_supervisor",
                       "restore_previous_control_state", "wait_for_supervisor_exit",
                       "publish_configuration", "restore_configuration",
                       "record_restored", "record_intent" },
         UNCHANGED << sup, unit, mods, ctl, want, served, live, lock, write >>,
         web' \in BOOLEAN,
         Become(o, Stepped(ops[o])) \/ Become(o, Failing(ops[o]))
  PROVE  \E how \in { "advance", "fail" } : MiddleStep(o, how)
<1> DEFINE op == ops[o]  t == ops'[o]
<1>1. /\ op \in Operation /\ OperationOK(op) /\ op.alive /\ lock = o
      /\ Head(op.todo) = step /\ Works(op) /\ ctl \in ControlRow
      /\ op.kind \in Kinds /\ op.outcome = "none" /\ op.status = "running"
      /\ op.prev.supervisor => "supervisor" \in op.units
      /\ ops' = [ops EXCEPT ![o] = t]
      /\ t = Stepped(op) \/ t = Failing(op)
  BY AtWork
<1>2. PICK how \in { "advance", "fail" } :
        /\ OperationOK(t) /\ SameJob(op, t)
        /\ how = "advance" => Advances(op, t)
        /\ how = "fail" => FailsTo(op, t)
        /\ t.migrated = op.migrated /\ t.applied = op.applied /\ t.restored = op.restored
  <2>1. CASE t = Stepped(op) BY <1>1, <2>1, SteppedOK, SteppedFields
  <2>2. CASE t = Failing(op) BY <1>1, <2>2, FailingOK
  <2> QED BY <1>1, <2>1, <2>2
<1> HIDE DEF t
<1>3. CASE how = "advance"
  <2>1. MiddleStep(o, "advance") BY <1>1, <1>2, <1>3 DEF MiddleStep, t
  <2> QED BY <2>1
<1>4. CASE how = "fail"
  <2>1. MiddleStep(o, "fail") BY <1>1, <1>2, <1>4 DEF MiddleStep, t
  <2> QED BY <2>1
<1> QED BY <1>3, <1>4

\* Waiting for the Supervisor, and what the control row says afterwards.
LEMMA WaitMiddle ==
  ASSUME Types, NEW o \in Operations,
         AcceptCancel(o) \/ SupervisorExited(o) \/ DrainFails(o)
  PROVE  \E how : MiddleStep(o, how)
<1> DEFINE op == ops[o]  t == ops'[o]
<1>1. At(o, "wait_for_supervisor_exit")
  BY DEF AcceptCancel, SupervisorExited, DrainFails
<1>2. /\ op \in Operation /\ OperationOK(op) /\ op.alive /\ lock = o
      /\ Head(op.todo) = "wait_for_supervisor_exit" /\ Works(op) /\ ctl \in ControlRow
      /\ op.kind \in Kinds /\ op.outcome = "none" /\ op.status = "running"
      /\ op.prev.supervisor => "supervisor" \in op.units
      /\ op.prev.control \in Control /\ web \in BOOLEAN
      /\ \A u : Become(o, u) => ops' = [ops EXCEPT ![o] = t] /\ t = u
      /\ \A state \in Control :
           ControlledBy(state) => ctl' \in ControlRow /\ ctl'.state = state
  BY <1>1, AtWork
<1>4. UNCHANGED << sup, unit, mods, want, served, live, lock, web, write >>
  BY DEF AcceptCancel, SupervisorExited, DrainFails, supVars
<1>6. CASE AcceptCancel(o)
  <2>1. /\ t = Ending(op, "cancelled") /\ ops' = [ops EXCEPT ![o] = t]
        /\ ctl.state = "draining" /\ ctl' \in ControlRow /\ ctl'.state = op.prev.control
    BY <1>2, <1>6 DEF AcceptCancel
  <2>2. /\ OperationOK(t) /\ SameJob(op, t) /\ Cancels(op, t)
        /\ t.migrated = op.migrated /\ t.applied = op.applied /\ t.restored = op.restored
    BY <1>2, <2>1, EndingOK DEF Cancels
  <2> HIDE DEF t
  <2>3. MiddleStep(o, "cancel") BY <1>2, <1>4, <2>1, <2>2 DEF MiddleStep, t
  <2> QED BY <2>3
<1>7. CASE SupervisorExited(o)
  <2> DEFINE u == [op EXCEPT !.cancel = "no"]
  <2>1. t = Stepped(u) /\ ops' = [ops EXCEPT ![o] = t] /\ UNCHANGED ctl
          /\ unit = "inactive"
    BY <1>2, <1>7 DEF SupervisorExited, supVars
  <2>2. /\ u \in Operation /\ SameJob(op, u) /\ u.todo = op.todo
        /\ u.outcome = op.outcome /\ u.handling = op.handling
        /\ u.migrated = op.migrated /\ u.changed = op.changed
        /\ u.applied = op.applied /\ u.restored = op.restored
    BY <1>2 DEF Operation, SameJob
  <2> HIDE DEF u
  <2>3. Works(u)
    <3>1. Whole(u) = Whole(op) BY <2>2, SamePrograms DEF Whole, SameJob
    <3> QED BY <1>2, <2>2, <3>1 DEF Works, SameJob
  <2>4. OperationOK(u) BY <1>2, <2>2, <2>3 DEF OperationOK, SameJob
  <2>5. /\ OperationOK(t) /\ SameJob(u, t) /\ Advances(u, t)
        /\ t.migrated = u.migrated /\ t.applied = u.applied /\ t.restored = u.restored
    BY <2>1, <2>3, <2>4, SteppedOK, SteppedFields
  <2>6. SameJob(op, t) /\ Advances(op, t) BY <2>2, <2>5 DEF SameJob, Advances
  <2> HIDE DEF t
  <2>7. MiddleStep(o, "advance")
    BY <1>2, <1>4, <2>1, <2>2, <2>5, <2>6 DEF MiddleStep, t
  <2> QED BY <2>7
<1>8. CASE DrainFails(o)
  <2>1. /\ t = Failing(op) /\ ops' = [ops EXCEPT ![o] = t]
        /\ ctl' \in ControlRow /\ ctl'.state = op.prev.control
    BY <1>2, <1>8 DEF DrainFails
  <2>2. /\ OperationOK(t) /\ SameJob(op, t) /\ FailsTo(op, t)
        /\ t.migrated = op.migrated /\ t.applied = op.applied /\ t.restored = op.restored
    BY <1>2, <2>1, FailingOK
  <2> HIDE DEF t
  <2>3. MiddleStep(o, "fail") BY <1>2, <1>4, <2>1, <2>2 DEF MiddleStep, t
  <2> QED BY <2>3
<1> QED BY <1>6, <1>7, <1>8

\* Starting the unit, and putting the control state back.
LEMMA StartMiddle ==
  ASSUME Types, NEW o \in Operations, StartUnit(o) \/ RestoreControl(o)
  PROVE  MiddleStep(o, "advance")
<1> DEFINE op == ops[o]  t == ops'[o]
<1>1. PICK step \in { "start_supervisor", "restore_previous_control_state" } :
        At(o, step) /\ (StartUnit(o) => step = "start_supervisor")
          /\ (RestoreControl(o) => step = "restore_previous_control_state")
  BY DEF StartUnit, RestoreControl, At
<1>2. /\ op \in Operation /\ OperationOK(op) /\ op.alive /\ lock = o
      /\ Head(op.todo) = step /\ Works(op) /\ ctl \in ControlRow
      /\ op.prev.control \in Control /\ web \in BOOLEAN
      /\ \A u : Become(o, u) => ops' = [ops EXCEPT ![o] = t] /\ t = u
  BY <1>1, AtWork
<1>3. t = Stepped(op) /\ ops' = [ops EXCEPT ![o] = t]
        /\ UNCHANGED << want, served, live, lock, web, write >>
  BY <1>2 DEF StartUnit, RestoreControl
<1>4. /\ OperationOK(t) /\ SameJob(op, t) /\ Advances(op, t)
      /\ t.migrated = op.migrated /\ t.applied = op.applied /\ t.restored = op.restored
  BY <1>2, <1>3, SteppedOK, SteppedFields
<1> HIDE DEF t
<1>5. CASE StartUnit(o)
  <2> DEFINE row == [ctl EXCEPT !.state = "paused", !.beat = FALSE]
  <2>1. row \in ControlRow /\ row.state = "paused"
    BY <1>2 DEF ControlRow, Control
  <2>2. IF Alive THEN ctl' = row /\ UNCHANGED << sup, unit, mods >>
                 ELSE ctl' = FormerOwner(row) /\ Launch(live)
    BY <1>5 DEF StartUnit
  <2> HIDE DEF row
  <2>3. FormerOwner(row) \in ControlRow /\ FormerOwner(row).state = "paused"
    BY <2>1 DEF FormerOwner, Aged, ControlRow, Owner
  <2>4. ctl' \in ControlRow /\ ctl'.state = "paused" BY <2>1, <2>2, <2>3
  <2> QED BY <1>1, <1>2, <1>3, <1>4, <1>5, <2>2, <2>4 DEF MiddleStep, t
<1>6. CASE RestoreControl(o)
  <2>1. /\ ctl' = [ctl EXCEPT !.state = op.prev.control, !.beat = FALSE]
        /\ UNCHANGED << sup, unit, mods >>
    BY <1>6 DEF RestoreControl
  <2>2. ctl' \in ControlRow /\ ctl'.state = op.prev.control
    BY <1>2, <2>1 DEF ControlRow
  <2> QED BY <1>1, <1>2, <1>3, <1>4, <1>6, <2>1, <2>2 DEF MiddleStep, t
<1> QED BY <1>5, <1>6

\* The configuration files.
LEMMA FilesMiddle ==
  ASSUME Types, NEW o \in Operations,
         \/ RecordIntent(o) \/ PublishConfiguration(o)
         \/ RestoreConfiguration(o) \/ RecordRestored(o)
  PROVE  \E how : MiddleStep(o, how)
<1> DEFINE op == ops[o]  t == ops'[o]
<1>1. PICK step \in { "record_intent", "publish_configuration",
                      "restore_configuration", "record_restored" } :
        /\ At(o, step)
        /\ RecordIntent(o) => step = "record_intent"
        /\ PublishConfiguration(o) => step = "publish_configuration"
        /\ RestoreConfiguration(o) => step = "restore_configuration"
        /\ RecordRestored(o) => step = "record_restored"
  BY DEF RecordIntent, PublishConfiguration, RestoreConfiguration, RecordRestored, At
<1>2. /\ op \in Operation /\ OperationOK(op) /\ op.alive /\ lock = o
      /\ Head(op.todo) = step /\ Works(op) /\ ctl \in ControlRow
      /\ op.kind \in Kinds /\ op.outcome = "none" /\ op.status = "running"
      /\ op.prev.supervisor => "supervisor" \in op.units
      /\ web \in BOOLEAN
      /\ \A u : Become(o, u) => ops' = [ops EXCEPT ![o] = t] /\ t = u
  BY <1>1, AtWork
<1>3. UNCHANGED << sup, unit, mods, ctl, want, served, lock, web, write >>
  BY DEF RecordIntent, PublishConfiguration, RestoreConfiguration, RecordRestored, supVars
<1> DEFINE s == Stepped(op)  f == Failing(op)
<1>4. /\ OperationOK(s) /\ SameJob(op, s) /\ Advances(op, s) /\ s \in Operation
      /\ s.migrated = op.migrated /\ s.applied = op.applied /\ s.restored = op.restored
      /\ s.changed = op.changed /\ s.handling = op.handling
      /\ IF Len(op.todo) > 1 THEN s.todo = Tail(op.todo) /\ s.outcome = "none"
         ELSE /\ s.todo = EndSteps
              /\ s.outcome = IF op.handling THEN "failed" ELSE "succeeded"
  BY <1>2, SteppedOK, SteppedFields
<1>5. /\ OperationOK(f) /\ SameJob(op, f) /\ FailsTo(op, f)
      /\ f.migrated = op.migrated /\ f.applied = op.applied /\ f.restored = op.restored
  BY <1>2, FailingOK
<1> HIDE DEF s, f
<1>6. CASE RecordIntent(o)
  <2>1. /\ t = IF live = op.orig THEN [s EXCEPT !.applied = TRUE] ELSE f
        /\ ops' = [ops EXCEPT ![o] = t] /\ UNCHANGED live
    BY <1>2, <1>6 DEF RecordIntent, s, f
  <2>2. CASE live = op.orig
    <3>1. /\ t \in Operation /\ SameJob(op, t) /\ t.handling = op.handling /\ t.applied
          /\ t.migrated = op.migrated /\ t.changed = op.changed
          /\ t.restored = op.restored /\ t.todo = s.todo /\ t.outcome = s.outcome
      <4>1. t = [s EXCEPT !.applied = TRUE] BY <2>1, <2>2
      <4> HIDE DEF t
      <4>2. t \in Operation BY <1>4, <4>1 DEF Operation
      <4>3. SameJob(s, t) BY <1>4, <4>1 DEF Operation, SameJob
      <4> QED BY <1>4, <4>1, <4>2, <4>3 DEF Operation, SameJob
    <3>2. OperationOK(t) /\ Advances(op, t) BY <1>2, <1>4, <3>1, AdvanceOK
    <3> HIDE DEF t
    <3>3. MiddleStep(o, "advance")
      BY <1>1, <1>2, <1>3, <1>6, <2>1, <3>1, <3>2 DEF MiddleStep, t
    <3> QED BY <3>3
  <2>3. CASE live # op.orig
    <3>1. t = f BY <2>1, <2>3
    <3> HIDE DEF t
    <3>2. MiddleStep(o, "fail")
      BY <1>1, <1>2, <1>3, <1>5, <1>6, <2>1, <3>1 DEF MiddleStep, t
    <3> QED BY <3>2
  <2> QED BY <2>2, <2>3
<1>7. CASE PublishConfiguration(o)
  <2>1. t = s /\ ops' = [ops EXCEPT ![o] = t] /\ live' = o
    BY <1>2, <1>7 DEF PublishConfiguration, s
  <2> HIDE DEF t
  <2>2. MiddleStep(o, "advance")
    BY <1>1, <1>2, <1>3, <1>4, <1>7, <2>1 DEF MiddleStep, t
  <2> QED BY <2>2
<1>8. CASE RestoreConfiguration(o)
  <2>1. /\ t = IF RestoreRefused(o) THEN f ELSE s
        /\ ops' = [ops EXCEPT ![o] = t]
        /\ live' = IF RestoreRefused(o) \/ NothingToRestore(op) THEN live ELSE op.orig
    BY <1>2, <1>8 DEF RestoreConfiguration, s, f
  <2> HIDE DEF t
  <2>2. CASE RestoreRefused(o)
    <3>1. MiddleStep(o, "fail")
      BY <1>1, <1>2, <1>3, <1>5, <1>8, <2>1, <2>2 DEF MiddleStep, t
    <3> QED BY <3>1
  <2>3. CASE ~RestoreRefused(o)
    <3>1. MiddleStep(o, "advance")
      BY <1>1, <1>2, <1>3, <1>4, <1>8, <2>1, <2>3 DEF MiddleStep, t
    <3> QED BY <3>1
  <2> QED BY <2>2, <2>3
<1>9. CASE RecordRestored(o)
  <2>1. /\ t = [s EXCEPT !.restored = op.applied]
        /\ ops' = [ops EXCEPT ![o] = t] /\ UNCHANGED live
    BY <1>2, <1>9 DEF RecordRestored, s
  <2>2. /\ t \in Operation /\ SameJob(op, t) /\ t.handling = op.handling
        /\ t.applied = op.applied /\ t.restored = op.applied
        /\ t.migrated = op.migrated /\ t.changed = op.changed
        /\ t.todo = s.todo /\ t.outcome = s.outcome
    <3>1. op.applied \in BOOLEAN BY <1>2 DEF Operation
    <3> QED BY <1>4, <2>1, <3>1 DEF Operation, SameJob
  <2>3. OperationOK(t) /\ Advances(op, t) BY <1>2, <1>4, <2>2, AdvanceOK
  <2> HIDE DEF t
  <2>4. MiddleStep(o, "advance")
    BY <1>1, <1>2, <1>3, <1>9, <2>1, <2>2, <2>3 DEF MiddleStep, t
  <2> QED BY <2>4
<1> QED BY <1>6, <1>7, <1>8, <1>9

\* The checkout and the database.
LEMMA CheckoutMiddle ==
  ASSUME Types, NEW o \in Operations, Checkout(o)
  PROVE  MiddleStep(o, "advance")
<1> DEFINE op == ops[o]  t == ops'[o]  s == Stepped(op)
           checkout == At(o, "fast_forward_checkout")
<1>1. PICK step \in { "fast_forward_checkout", "upgrade_database" } : At(o, step)
  BY DEF Checkout
<1>2. /\ op \in Operation /\ OperationOK(op) /\ op.alive /\ lock = o
      /\ Head(op.todo) = step /\ Works(op) /\ ctl \in ControlRow /\ web \in BOOLEAN
      /\ \A u : Become(o, u) => ops' = [ops EXCEPT ![o] = t] /\ t = u
  BY <1>1, AtWork
<1>3. UNCHANGED << sup, unit, mods, ctl, want, served, live, lock, web, write >>
  BY DEF Checkout, supVars
<1>4. ~op.handling
  <2>1. step \in Whole(op) BY <1>1, <1>2, AtStep DEF Types
  <2> QED BY <1>2, <2>1, WholeSteps
<1>5. checkout \in BOOLEAN /\ (~checkout => step = "upgrade_database")
  BY <1>1 DEF At
<1>6. /\ t = [s EXCEPT !.changed = @ \/ checkout, !.migrated = @ \/ ~checkout]
      /\ ops' = [ops EXCEPT ![o] = t]
  BY <1>2 DEF Checkout
<1> HIDE DEF checkout
<1>7. /\ s \in Operation /\ SameJob(op, s) /\ s.handling = op.handling
      /\ s.applied = op.applied /\ s.restored = op.restored
      /\ s.migrated = op.migrated
      /\ IF Len(op.todo) > 1 THEN s.todo = Tail(op.todo) /\ s.outcome = "none"
         ELSE /\ s.todo = EndSteps
              /\ s.outcome = IF op.handling THEN "failed" ELSE "succeeded"
  BY <1>2, SteppedFields
<1> HIDE DEF s
<1>8. /\ t \in Operation /\ SameJob(op, t) /\ t.handling = op.handling
      /\ t.applied = op.applied /\ t.restored = op.restored
      /\ t.todo = s.todo /\ t.outcome = s.outcome
      /\ t.migrated = (op.migrated \/ ~checkout)
  <2>1. (s.changed \/ checkout) \in BOOLEAN /\ (s.migrated \/ ~checkout) \in BOOLEAN
    BY <1>5, <1>7 DEF Operation
  <2> QED BY <1>6, <1>7, <2>1 DEF Operation, SameJob
<1>9. OperationOK(t) /\ Advances(op, t) BY <1>2, <1>4, <1>7, <1>8, AdvanceOK
<1> HIDE DEF t
<1> QED BY <1>1, <1>2, <1>3, <1>5, <1>6, <1>8, <1>9 DEF MiddleStep, t

\* A command that fails.
LEMMA FailMiddle ==
  ASSUME Types, NEW o \in Operations, StepFails(o)
  PROVE  MiddleStep(o, "fail")
<1> DEFINE op == ops[o]  t == ops'[o]
           u == [op EXCEPT !.changed = @ \/ At(o, "fast_forward_checkout"),
                           !.migrated = @ \/ At(o, "upgrade_database")]
<1>1. PICK step \in { "stop_web", "start_web", "start_supervisor", "record_intent",
                      "fast_forward_checkout", "validate_configuration",
                      "upgrade_database", "refresh_systemd_units",
                      "publish_management_configuration" } : At(o, step)
  BY DEF StepFails
<1>2. /\ op \in Operation /\ OperationOK(op) /\ op.alive /\ lock = o
      /\ Head(op.todo) = step /\ Works(op) /\ ctl \in ControlRow /\ web \in BOOLEAN
      /\ op.kind \in Kinds /\ op.outcome = "none" /\ op.status = "running"
      /\ op.prev.supervisor => "supervisor" \in op.units
      /\ \A v : Become(o, v) => ops' = [ops EXCEPT ![o] = t] /\ t = v
      /\ \A state \in Control :
           ControlledBy(state) => ctl' \in ControlRow /\ ctl'.state = state
  BY <1>1, AtWork
<1>3. /\ UNCHANGED << sup, unit, mods, want, served, live, lock, web, write >>
      /\ t = Failing(u) /\ ops' = [ops EXCEPT ![o] = t]
  BY <1>2 DEF StepFails
<1>4. /\ ctl' \in ControlRow
      /\ step # "start_supervisor" => ctl'.state = ctl.state
      /\ step = "start_supervisor" => ctl'.state = "paused"
  <2>1. At(o, "start_supervisor") <=> step = "start_supervisor" BY <1>1 DEF At
  <2> QED BY <1>2, <2>1 DEF StepFails, Control
<1>5. /\ u \in Operation /\ SameJob(op, u) /\ u.outcome = "none"
      /\ u.handling = op.handling /\ u.applied = op.applied /\ u.restored = op.restored
      /\ u.todo = op.todo /\ u.migrated = (op.migrated \/ step = "upgrade_database")
  <2> DEFINE c == At(o, "fast_forward_checkout")  d == At(o, "upgrade_database")
  <2>1. c \in BOOLEAN /\ d \in BOOLEAN /\ d = (step = "upgrade_database")
    BY <1>1 DEF At
  <2> HIDE DEF c, d
  <2>2. (op.changed \/ c) \in BOOLEAN /\ (op.migrated \/ d) \in BOOLEAN
    BY <1>2, <2>1 DEF Operation
  <2>3. u = [op EXCEPT !.changed = op.changed \/ c, !.migrated = op.migrated \/ d]
    BY DEF c, d
  <2> QED BY <1>2, <2>1, <2>2, <2>3 DEF Operation, SameJob
<1> HIDE DEF u
<1>6. /\ OperationOK(t) /\ SameJob(u, t) /\ FailsTo(u, t)
      /\ t.applied = u.applied /\ t.restored = u.restored /\ t.migrated = u.migrated
  <2>1. u.status = "running" /\ u.kind \in Kinds
          /\ (u.prev.supervisor => "supervisor" \in u.units)
    BY <1>2, <1>5 DEF SameJob
  <2> QED BY <1>3, <1>5, <2>1, FailingOK
<1>7. SameJob(op, t) /\ FailsTo(op, t) BY <1>5, <1>6 DEF SameJob, FailsTo
<1> HIDE DEF t
<1> QED BY <1>1, <1>2, <1>3, <1>4, <1>5, <1>6, <1>7 DEF MiddleStep, t

\* All of them.
LEMMA MiddleSteps ==
  ASSUME Types, NEW o \in Operations,
         \/ AcceptCancel(o) \/ SupervisorExited(o) \/ DrainFails(o)
         \/ StopWeb(o) \/ StartWeb(o) \/ StartUnit(o)
         \/ Heartbeat(o) \/ NoHeartbeat(o) \/ RestoreControl(o)
         \/ RecordIntent(o) \/ PublishConfiguration(o)
         \/ RestoreConfiguration(o) \/ RecordRestored(o)
         \/ Checkout(o) \/ PlainStep(o) \/ StepFails(o)
  PROVE  \E how : MiddleStep(o, how)
<1>1. web \in BOOLEAN BY DEF Types, OperationTypes
<1>2. CASE StopWeb(o) \/ StartWeb(o)
  <2>1. PICK step \in { "stop_web", "start_web" } : At(o, step)
    BY <1>2 DEF StopWeb, StartWeb
  <2>2. /\ Become(o, Stepped(ops[o])) /\ web' \in BOOLEAN
        /\ UNCHANGED << sup, unit, mods, ctl, want, served, live, lock, write >>
    BY <1>2 DEF StopWeb, StartWeb, supVars
  <2> QED BY <2>1, <2>2, PlainMiddle
<1>3. CASE Heartbeat(o) \/ NoHeartbeat(o)
  <2>1. PICK step \in { "wait_for_supervisor_heartbeat", "verify_supervisor_heartbeat" } :
          At(o, step)
    BY <1>3 DEF Heartbeat, NoHeartbeat
  <2>2. /\ Become(o, Stepped(ops[o])) \/ Become(o, Failing(ops[o]))
        /\ UNCHANGED << sup, unit, mods, ctl, want, served, live, lock, write, web >>
    BY <1>3 DEF Heartbeat, NoHeartbeat, supVars
  <2> QED BY <1>1, <2>1, <2>2, PlainMiddle
<1>4. CASE PlainStep(o)
  <2>1. PICK step \in { "validate_configuration", "refresh_systemd_units",
                        "restore_old_commit", "publish_management_configuration" } :
          At(o, step)
    BY <1>4 DEF PlainStep
  <2>2. /\ Become(o, Stepped(ops[o]))
        /\ UNCHANGED << sup, unit, mods, ctl, want, served, live, lock, write, web >>
    BY <1>4 DEF PlainStep, supVars
  <2> QED BY <1>1, <2>1, <2>2, PlainMiddle
<1>5. CASE AcceptCancel(o) \/ SupervisorExited(o) \/ DrainFails(o) BY <1>5, WaitMiddle
<1>6. CASE StartUnit(o) \/ RestoreControl(o) BY <1>6, StartMiddle
<1>7. CASE RecordIntent(o) \/ PublishConfiguration(o) \/ RestoreConfiguration(o)
             \/ RecordRestored(o)
  BY <1>7, FilesMiddle
<1>8. CASE Checkout(o) BY <1>8, CheckoutMiddle
<1>9. CASE StepFails(o) BY <1>9, FailMiddle
<1> QED BY <1>2, <1>3, <1>4, <1>5, <1>6, <1>7, <1>8, <1>9

(***************************************************************************)
(* The steps of an executor that are not steps of a program.               *)
(***************************************************************************)
\* The numbers of the operations, of the web service and of the configurations.
LEMMA Numbers ==
  /\ Len(Requests) \in Nat /\ Operations \subseteq Nat \ { 0 }
  /\ Free \notin Operations /\ WebService \notin Operations /\ Free # WebService
  /\ Original \notin Operations /\ Edited \notin Operations
  /\ Operations \cup { Original, Edited } \subseteq Nat
  /\ \A o \in Operations :
       Requests[o] \subseteq [ kind : Kinds, units : SUBSET Services ]
<1>1. Len(Requests) \in Nat
        /\ \A o \in 1..Len(Requests) :
             Requests[o] \in SUBSET [ kind : Kinds, units : SUBSET Services ]
  BY RequestsAreOperations
<1> QED BY <1>1 DEF Operations, Free, WebService, Original, Edited

\* An operation nobody has submitted, and one that is closed.
LEMMA ClosedOK ==
  ASSUME NEW op, op \in Operation, NEW status \in Terminal
  PROVE  /\ NoOperation \in Operation
         /\ OperationOK(Closed(op, status))
         /\ Closed(op, status).status = status /\ Closed(op, status).kind = op.kind
         /\ Closed(op, status).migrated = op.migrated
         /\ Closed(op, status).outcome = "none" /\ ~Closed(op, status).alive
         /\ Closed(op, status).handling = FALSE /\ Closed(op, status).restored = FALSE
<1>1. << >> \in Seq(Steps) OBVIOUS
<1>2. NoOperation \in Operation /\ ~NoOperation.prev.supervisor
  BY <1>1 DEF NoOperation, Operation, Original
<1>3. /\ Closed(op, status) \in Operation
      /\ Closed(op, status).status = status /\ Closed(op, status).kind = op.kind
      /\ Closed(op, status).migrated = op.migrated
      /\ Closed(op, status).outcome = "none" /\ ~Closed(op, status).alive
      /\ Closed(op, status).todo = << >> /\ ~Closed(op, status).prev.supervisor
      /\ Closed(op, status).handling = FALSE /\ Closed(op, status).restored = FALSE
  <2>1. Closed(op, status) =
          [NoOperation EXCEPT !.kind = op.kind, !.units = op.units, !.status = status,
                              !.migrated = op.migrated]
    BY DEF Closed
  <2>2. /\ NoOperation.outcome = "none" /\ NoOperation.alive = FALSE
        /\ NoOperation.todo = << >> /\ ~NoOperation.prev.supervisor
        /\ NoOperation.handling = FALSE /\ NoOperation.restored = FALSE
    BY DEF NoOperation
  <2> QED BY <1>2, <2>1, <2>2 DEF Operation
<1> QED BY <1>2, <1>3 DEF OperationOK, Over

\* What the capture of the services' state makes of an operation.
CaptureStep(o) ==
  LET op == ops[o]
      t == ops'[o]
  IN  /\ op.alive /\ lock = o /\ Captures(op) /\ op \in Operation
      /\ ops' = [ops EXCEPT ![o] = t] /\ OperationOK(t)
      /\ t.kind = op.kind /\ t.units = op.units /\ t.status = op.status
      /\ t.alive = op.alive /\ t.orig = op.orig
      /\ ~t.handling /\ ~t.applied /\ ~t.restored /\ ~t.migrated
      /\ \/ /\ "supervisor" \in op.units /\ ctl.state = "draining"
            /\ Ends(t) /\ t.todo = << "record" >> /\ t.outcome = "failed"
         \/ /\ t.prev = [ supervisor |-> "supervisor" \in op.units /\ UnitActive,
                          web |-> "web" \in op.units /\ web,
                          control |-> IF "supervisor" \in op.units
                                      THEN ctl.state ELSE "running" ]
            /\ \/ Ends(t) /\ t.todo = EndSteps /\ t.outcome = "succeeded"
                    /\ Program(t) = << >>
               \/ Works(t) /\ t.todo = Program(t)
      /\ UNCHANGED << supVars, lock, live, web, write >>

\* The step that captures what the services were is a CaptureStep.
LEMMA CaptureOK ==
  ASSUME Types, NEW o \in Operations, Capture(o)
  PROVE  CaptureStep(o)
<1> DEFINE op == ops[o]  t == ops'[o]
           prev == [ supervisor |-> "supervisor" \in op.units /\ UnitActive,
                     web |-> "web" \in op.units /\ web,
                     control |-> IF "supervisor" \in op.units
                                 THEN ctl.state ELSE "running" ]
           u == [op EXCEPT !.prev = prev]
<1>1. /\ op \in Operation /\ OperationOK(op) /\ op.alive /\ lock = o
      /\ Head(op.todo) = "capture_service_state"
      /\ Captures(op) \/ Works(op)
      /\ ops \in [Operations -> Operation] /\ web \in BOOLEAN
      /\ ctl.state \in Control
  <2>1. At(o, "capture_service_state") BY DEF Capture
  <2>2. /\ op \in Operation /\ OperationOK(op) /\ op.alive /\ lock = o
        /\ Head(op.todo) = "capture_service_state"
        /\ Captures(op) \/ Works(op) \/ Ends(op)
        /\ ~Ends(op)
    BY <2>1, AtStep DEF Types
  <2> QED BY <2>2 DEF Types, OperationTypes, SupervisorTypes, ControlRow
<1>2. Captures(op)
  <2>1. ASSUME Works(op) PROVE FALSE
    <3>1. "capture_service_state" \in Whole(op) BY <1>1, <2>1, WorkSteps
    <3> QED BY <1>1, <2>1, <3>1, WholeSteps
  <2> QED BY <1>1, <2>1
<1>3. /\ op.status = "running" /\ op.outcome = "none" /\ op.kind \in Kinds
      /\ ~op.handling /\ ~op.applied /\ ~op.restored /\ ~op.migrated
      /\ op.prev = NoOperation.prev
  BY <1>2 DEF Captures, Untouched
<1>4. UNCHANGED << supVars, lock, live, web, write >> BY DEF Capture
<1>5. IF u.prev.control = "draining"
      THEN Become(o, [op EXCEPT !.outcome = "failed", !.todo = << "record" >>])
      ELSE Become(o, IF Program(u) = << >> THEN Ending(u, "succeeded")
                     ELSE [u EXCEPT !.todo = Program(u)])
  BY DEF Capture
<1>6. u.prev = prev /\ prev.control = (IF "supervisor" \in op.units THEN ctl.state
                                       ELSE "running")
        /\ prev.supervisor = ("supervisor" \in op.units /\ UnitActive)
  BY <1>1 DEF Operation
<1>7. \A v : Become(o, v) => t = v /\ ops' = [ops EXCEPT ![o] = t]
  BY <1>1 DEF Become
<1>8. CASE prev.control = "draining"
  <2>1. /\ t = [op EXCEPT !.outcome = "failed", !.todo = << "record" >>]
        /\ ops' = [ops EXCEPT ![o] = t]
    BY <1>5, <1>6, <1>7, <1>8
  <2>2. /\ t \in Operation /\ SameJob(op, t) /\ t.handling = op.handling
        /\ t.applied = op.applied /\ t.restored = op.restored
        /\ t.migrated = op.migrated /\ t.outcome = "failed" /\ t.todo = << "record" >>
    BY <1>1, <2>1, LastSteps DEF Operation, SameJob
  <2>3. Ends(t) BY <1>3, <2>2 DEF Ends, SameJob
  <2>4. OperationOK(t) BY <1>1, <2>2, <2>3 DEF OperationOK, SameJob
  <2>5. "supervisor" \in op.units /\ ctl.state = "draining" BY <1>6, <1>8
  <2> HIDE DEF t
  <2> QED BY <1>1, <1>2, <1>3, <1>4, <2>1, <2>2, <2>3, <2>4, <2>5
          DEF CaptureStep, SameJob, t
<1>9. CASE prev.control # "draining"
  <2>1. /\ t = IF Program(u) = << >> THEN Ending(u, "succeeded")
               ELSE [u EXCEPT !.todo = Program(u)]
        /\ ops' = [ops EXCEPT ![o] = t]
    BY <1>5, <1>6, <1>7, <1>9
  <2>2. prev \in [ supervisor : BOOLEAN, web : BOOLEAN, control : { "running", "paused" } ]
    BY <1>1, <1>9 DEF Control
  <2> HIDE DEF prev
  <2>3. /\ u \in Operation /\ u.kind = op.kind /\ u.units = op.units
        /\ u.status = op.status /\ u.alive = op.alive /\ u.orig = op.orig
        /\ u.handling = op.handling /\ u.applied = op.applied
        /\ u.restored = op.restored /\ u.migrated = op.migrated
        /\ u.outcome = op.outcome /\ u.prev = prev
    BY <1>1, <2>2 DEF Operation
  <2> HIDE DEF u
  <2>4. u.prev.supervisor => "supervisor" \in u.units BY <1>6, <2>3
  <2>5. CASE Program(u) = << >>
    <3>1. t = Ending(u, "succeeded") BY <2>1, <2>5
    <3>2. /\ t \in Operation /\ SameJob(u, t) /\ OperationOK(t) /\ Ends(t)
          /\ t.todo = EndSteps /\ t.outcome = "succeeded" /\ t.handling = u.handling
          /\ t.applied = u.applied /\ t.restored = u.restored /\ t.migrated = u.migrated
      BY <1>3, <2>3, <2>4, <3>1, EndingOK
    <3>3. Program(t) = << >> BY <2>5, <3>2, SamePrograms DEF SameJob
    <3> HIDE DEF t
    <3> QED BY <1>1, <1>2, <1>3, <1>4, <2>1, <2>3, <3>2, <3>3
            DEF CaptureStep, SameJob, t, prev
  <2>6. CASE Program(u) # << >>
    <3> DEFINE p == Program(u)
    <3>1. Ordered(p, ProgramSet(u)) BY <1>3, <2>3, ProgramOrdered
    <3>2. p \in Seq(Steps) /\ InOrder(p) BY <3>1 DEF Ordered
    <3>3. t = [u EXCEPT !.todo = p] BY <2>1, <2>6
    <3> HIDE DEF p
    <3>4. /\ t \in Operation /\ SameJob(u, t) /\ t.handling = u.handling
          /\ t.applied = u.applied /\ t.restored = u.restored
          /\ t.migrated = u.migrated /\ t.outcome = u.outcome /\ t.todo = p
      BY <2>3, <3>2, <3>3 DEF Operation, SameJob
    <3>5. Program(t) = p BY <3>4, SamePrograms DEF SameJob, p
    <3>6. Whole(t) = ToSet(p) BY <1>3, <2>3, <3>4, <3>5 DEF Whole
    <3>7. Works(t)
      BY <1>3, <2>3, <2>6, <3>2, <3>4, <3>6 DEF Works, RestOf, SameJob, p
    <3>8. OperationOK(t) BY <2>4, <3>4, <3>7 DEF OperationOK, SameJob
    <3> HIDE DEF t
    <3> QED BY <1>1, <1>2, <1>3, <1>4, <2>1, <2>3, <3>4, <3>5, <3>7, <3>8
            DEF CaptureStep, SameJob, t, prev
  <2> QED BY <2>5, <2>6
<1> QED BY <1>8, <1>9

\* Whoever still has to drain still has to wait for the exit, and that is the
\* next step.
LEMMA DrainThenWait ==
  ASSUME NEW op, op \in Operation, Works(op), Head(op.todo) = "drain"
  PROVE  "wait_for_supervisor_exit" \in ToSet(op.todo)
<1>1. /\ "drain" \in Whole(op) /\ "drain" \in ToSet(op.todo)
      /\ Whole(op) = IF op.handling THEN RollbackSet(op) ELSE ProgramSet(op)
      /\ op.kind \in { "stop", "start", "restart", "apply_config", "git_update" }
  BY WorkSteps DEF Works, Kinds
<1>2. "wait_for_supervisor_exit" \in Whole(op)
  <2>1. CASE op.handling
    BY <1>1, <2>1 DEF RollbackSet, StopsSet, RestoreSet, Only, Stopping, Starting
  <2>2. CASE ~op.handling
    BY <1>1, <2>2 DEF ProgramSet, StopsSet, RestoreSet, Only, Stopping, Starting
  <2> QED BY <2>1, <2>2
<1> QED BY <1>1, <1>2, Ranks DEF Works, RestOf

DrainStep(o) ==
  LET op == ops[o]
      t == ops'[o]
  IN  /\ op.alive /\ lock = o /\ Works(op) /\ op \in Operation
      /\ Head(op.todo) = "drain" /\ "wait_for_supervisor_exit" \in ToSet(op.todo)
      /\ ops' = [ops EXCEPT ![o] = t] /\ SameJob(op, t) /\ OperationOK(t)
      /\ t.handling = op.handling
      /\ t.applied = op.applied /\ t.restored = op.restored /\ t.migrated = op.migrated
      /\ IF UnitActive
         THEN /\ ctl' = [ctl EXCEPT !.state = "draining"]
              /\ Works(t) /\ ToSet(t.todo) = ToSet(op.todo) \ { "drain" }
         ELSE /\ UNCHANGED ctl
              /\ \/ /\ Works(t)
                    /\ ToSet(t.todo) = ToSet(op.todo) \ Stopping
                 \/ /\ Ends(t) /\ t.todo = EndSteps /\ ToSet(op.todo) = Stopping
                    /\ t.outcome = IF op.handling THEN "failed" ELSE "succeeded"
      /\ sup' = [sup EXCEPT !.asked = IF sup.pc # "exit" THEN o ELSE 0]
      /\ UNCHANGED << unit, mods, served, want, lock, live, web, write >>

\* The step that asks the supervisor to drain is a DrainStep.
LEMMA DrainOK ==
  ASSUME Types, NEW o \in Operations, Drain(o)
  PROVE  DrainStep(o)
<1> DEFINE op == ops[o]  t == ops'[o]  s == Stepped(op)
<1>1. At(o, "drain") BY DEF Drain
<1>2. /\ op \in Operation /\ OperationOK(op) /\ op.alive /\ lock = o
      /\ Head(op.todo) = "drain" /\ Works(op)
      /\ \A u : Become(o, u) => ops' = [ops EXCEPT ![o] = t] /\ t = u
  BY <1>1, AtWork
<1>3. "wait_for_supervisor_exit" \in ToSet(op.todo) BY <1>2, DrainThenWait
<1>4. /\ OperationOK(s) /\ SameJob(op, s) /\ Advances(op, s) /\ s \in Operation
      /\ s.migrated = op.migrated /\ s.applied = op.applied /\ s.restored = op.restored
      /\ s.handling = op.handling
  BY <1>2, SteppedOK, SteppedFields
<1>5. Works(s) /\ ToSet(s.todo) = ToSet(op.todo) \ { "drain" }
  BY <1>2, <1>3, <1>4 DEF Advances
<1>6. /\ t = IF UnitActive THEN s ELSE Stepped(s)
      /\ ops' = [ops EXCEPT ![o] = t]
      /\ IF UnitActive THEN ControlledBy("draining") ELSE UNCHANGED ctl
      /\ sup' = [sup EXCEPT !.asked = IF sup.pc # "exit" THEN o ELSE 0]
      /\ UNCHANGED << unit, mods, served, want, lock, live, web, write >>
  BY <1>2 DEF Drain
<1> HIDE DEF s
<1>7. CASE UnitActive
  <2>1. t = s /\ ctl' = [ctl EXCEPT !.state = "draining"]
    BY <1>6, <1>7 DEF ControlledBy
  <2> HIDE DEF t
  <2> QED BY <1>2, <1>3, <1>4, <1>5, <1>6, <1>7, <2>1 DEF DrainStep, t
<1>8. CASE ~UnitActive
  <2>1. t = Stepped(s) /\ UNCHANGED ctl BY <1>6, <1>8
  <2>2. /\ OperationOK(t) /\ SameJob(s, t) /\ Advances(s, t)
        /\ t.migrated = s.migrated /\ t.applied = s.applied /\ t.restored = s.restored
    BY <1>4, <1>5, <2>1, SteppedOK, SteppedFields
  <2>3. Head(s.todo) = "wait_for_supervisor_exit"
    <3>1. /\ Head(s.todo) \in ToSet(s.todo) /\ ToSet(s.todo) \subseteq Steps
          /\ \A x \in ToSet(s.todo) \ { Head(s.todo) } : Rank[Head(s.todo)] < Rank[x]
      BY <1>4, <1>5, WorkSteps
    <3>2. \A x \in ToSet(op.todo) \ { "drain" } : Rank["drain"] < Rank[x]
      BY <1>2, WorkSteps
    <3>3. Rank["drain"] < Rank[Head(s.todo)] BY <1>5, <3>1, <3>2
    <3>4. Rank[Head(s.todo)] \in Nat BY <3>1, RankIsNat
    <3>5. "wait_for_supervisor_exit" \in ToSet(s.todo) BY <1>3, <1>5
    <3>6. CASE Head(s.todo) # "wait_for_supervisor_exit"
      <4>1. Rank[Head(s.todo)] < 6 BY <3>1, <3>5, <3>6, Ranks
      <4>2. 5 < Rank[Head(s.todo)] BY <3>3, Ranks
      <4> QED BY <3>4, <4>1, <4>2
    <3> QED BY <3>6
  <2>4. SameJob(op, t) /\ t.handling = op.handling
    BY <1>4, <2>2 DEF SameJob, Advances
  <2>5. \/ Works(t) /\ ToSet(t.todo) = ToSet(op.todo) \ Stopping
        \/ /\ Ends(t) /\ t.todo = EndSteps /\ ToSet(op.todo) = Stopping
           /\ t.outcome = IF op.handling THEN "failed" ELSE "succeeded"
    <3>1. "drain" \in ToSet(op.todo) BY <1>2, WorkSteps
    <3>2. CASE Works(t) /\ ToSet(t.todo) = ToSet(s.todo) \ { Head(s.todo) }
      BY <1>5, <2>3, <3>2 DEF Stopping
    <3>3. CASE /\ Ends(t) /\ t.todo = EndSteps /\ ToSet(s.todo) = { Head(s.todo) }
               /\ t.outcome = IF s.handling THEN "failed" ELSE "succeeded"
      BY <1>4, <1>5, <2>3, <3>1, <3>3 DEF Stopping
    <3> QED BY <2>2, <3>2, <3>3 DEF Advances
  <2> HIDE DEF t
  <2> QED BY <1>2, <1>3, <1>4, <1>6, <1>8, <2>1, <2>2, <2>4, <2>5 DEF DrainStep, t
<1> QED BY <1>7, <1>8

\* The end of an operation, and what is left of it.
FinallyStep(o) ==
  LET op == ops[o]
      t == ops'[o]
  IN  /\ op.alive /\ lock = o /\ Ends(op) /\ op.todo = EndSteps /\ op \in Operation
      /\ ops' = [ops EXCEPT ![o] = t] /\ SameJob(op, t) /\ OperationOK(t)
      /\ Ends(t) /\ t.todo = << "record" >> /\ t.outcome = op.outcome
      /\ t.handling = op.handling
      /\ t.applied = op.applied /\ t.restored = op.restored /\ t.migrated = op.migrated
      /\ ctl' \in ControlRow
      /\ ctl'.state = IF PutsControlBack(op) THEN op.prev.control ELSE ctl.state
      /\ UNCHANGED << sup, unit, mods, served, want, lock, live, web, write >>

RecordStep(o) ==
  LET op == ops[o]
  IN  /\ op.alive /\ lock = o /\ Ends(op) /\ op.todo = << "record" >> /\ op \in Operation
      /\ ops' = [ops EXCEPT ![o] = Closed(op, op.outcome)]
      /\ ops'[o] = Closed(op, op.outcome)
      /\ op.outcome \in Terminal
      /\ lock' = Free /\ UNCHANGED << supVars, live, web, write >>

\* The last two steps of an operation, the ones that free the lock.
LEMMA LastOK ==
  ASSUME Types, NEW o \in Operations
  PROVE  /\ Finally(o) => FinallyStep(o)
         /\ Record(o) => RecordStep(o)
<1> DEFINE op == ops[o]  t == ops'[o]
<1>1. ASSUME NEW step \in { "finally", "record" }, At(o, step)
      PROVE  /\ op \in Operation /\ OperationOK(op) /\ op.alive /\ lock = o
             /\ Ends(op) /\ op.todo = IF step = "finally" THEN EndSteps
                                      ELSE << "record" >>
             /\ ops \in [Operations -> Operation] /\ ctl \in ControlRow
             /\ op.prev.control \in Control /\ ctl.state \in Control
  <2>1. /\ op \in Operation /\ OperationOK(op) /\ op.alive /\ lock = o
        /\ Head(op.todo) = step
        /\ Captures(op) => step = "capture_service_state"
        /\ Captures(op) \/ Works(op) \/ Ends(op)
        /\ Works(op) => step \in Whole(op)
    BY <1>1, AtStep DEF Types
  <2>2. Ends(op) BY <2>1, WholeSteps
  <2> QED BY <2>1, <2>2, LastSteps DEF Ends, EndSteps, Types, OperationTypes,
         SupervisorTypes, ControlRow, Operation, Control
<1>2. ASSUME Finally(o) PROVE FinallyStep(o)
  <2>1. At(o, "finally") BY <1>2 DEF Finally
  <2>2. /\ op \in Operation /\ OperationOK(op) /\ op.alive /\ lock = o
        /\ Ends(op) /\ op.todo = EndSteps
        /\ ops \in [Operations -> Operation] /\ ctl \in ControlRow
        /\ op.prev.control \in Control
    BY <1>1, <2>1
  <2>3. t = [op EXCEPT !.todo = << "record" >>] /\ ops' = [ops EXCEPT ![o] = t]
    BY <1>2, <2>2 DEF Finally
  <2>4. /\ t \in Operation /\ SameJob(op, t) /\ t.handling = op.handling
        /\ t.applied = op.applied /\ t.restored = op.restored
        /\ t.migrated = op.migrated /\ t.outcome = op.outcome /\ t.todo = << "record" >>
    BY <2>2, <2>3, LastSteps DEF Operation, SameJob
  <2>5. Ends(t) BY <2>2, <2>4 DEF Ends, SameJob
  <2>6. OperationOK(t) BY <2>2, <2>4, <2>5 DEF OperationOK, SameJob
  <2>7. /\ ctl' \in ControlRow
        /\ ctl'.state = IF PutsControlBack(op) THEN op.prev.control ELSE ctl.state
    BY <1>2, <2>2, RowWrites DEF Finally, ControlledBy
  <2>8. UNCHANGED << sup, unit, mods, served, want, lock, live, web, write >>
    BY <1>2 DEF Finally
  <2> HIDE DEF t
  <2> QED BY <2>2, <2>3, <2>4, <2>5, <2>6, <2>7, <2>8 DEF FinallyStep, t
<1>3. ASSUME Record(o) PROVE RecordStep(o)
  <2>1. At(o, "record") BY <1>3 DEF Record
  <2>2. /\ op \in Operation /\ op.alive /\ lock = o
        /\ Ends(op) /\ op.todo = << "record" >>
        /\ ops \in [Operations -> Operation]
    BY <1>1, <2>1
  <2>3. op.outcome \in Terminal BY <2>2 DEF Ends, Operation, Terminal
  <2> QED BY <1>3, <2>2, <2>3 DEF RecordStep, Record, Become
<1> QED BY <1>2, <1>3

(***************************************************************************)
(* The types.                                                              *)
(***************************************************************************)
\* One operation changes, and the lock with it.
LEMMA OneOperation ==
  ASSUME OperationTypes, NEW o \in Operations, NEW t, OperationOK(t),
         ops' = [ops EXCEPT ![o] = t], UNCHANGED write,
         live' \in Operations \cup { Original, Edited }, web' \in BOOLEAN,
         t.status \in { "pending", "running" }
           => Unfinished(o) \/ (write = "none" /\ \A p \in Operations : ~Unfinished(p)),
         \/ lock' = lock /\ (lock = o => t.alive /\ t.status = "running")
         \/ lock' = Free /\ lock # WebService
         \/ lock' = o /\ lock = Free /\ t.alive /\ t.status = "running"
  PROVE  /\ OperationTypes' /\ ops'[o] = t
         /\ \A p \in Operations : p # o => ops'[p] = ops[p]
<1>1. /\ ops \in [Operations -> Operation] /\ t \in Operation /\ LockInv
      /\ \A p \in Operations : OperationOK(ops[p])
  BY DEF OperationTypes, OperationOK
<1>2. /\ ops' \in [Operations -> Operation] /\ ops'[o] = t
      /\ \A p \in Operations : p # o => ops'[p] = ops[p]
  BY <1>1
<1>3. \A p \in Operations : OperationOK(ops'[p]) BY <1>1, <1>2
<1>4. /\ \A p \in Operations : p # o => (Unfinished(p)' <=> Unfinished(p))
      /\ Unfinished(o)' <=> t.status \in { "pending", "running" }
  BY <1>2 DEF Unfinished
<1>5. LockInv'
  <2>1. lock' \in Operations \cup { Free, WebService } BY <1>1 DEF LockInv
  <2>2. \A p \in Operations : lock' = p => ops'[p].alive /\ ops'[p].status = "running"
    BY <1>1, <1>2, Numbers DEF LockInv
  <2>3. \A p, q \in Operations : Unfinished(p)' /\ Unfinished(q)' => p = q
    BY <1>1, <1>4 DEF LockInv
  <2>4. lock' = WebService <=> write' # "none" BY <1>1, Numbers DEF LockInv
  <2>5. write' # "none" => \A p \in Operations : ~Unfinished(p)'
    BY <1>1, <1>4 DEF LockInv
  <2> QED BY <1>1, <2>1, <2>2, <2>3, <2>4, <2>5 DEF LockInv, Unfinished
<1> QED BY <1>1, <1>2, <1>3, <1>5 DEF OperationTypes

\* Everything the executor and the web interface know stays typed.
OperationsGoal == OperationTypes' /\ SupervisorTypes' /\ want' \in Control /\ TriggerInv'

\* Nothing of the Supervisor changes but the control row and who asked.
LEMMA SupervisorKept ==
  ASSUME Types, TriggerInv, ctl' \in ControlRow, UNCHANGED << unit, mods, served >>,
         \/ UNCHANGED sup
         \/ \E n \in Nat : sup' = [sup EXCEPT !.asked = n]
  PROVE  SupervisorTypes' /\ TriggerInv'
<1>1. /\ sup' \in ProcessState /\ sup'.todo = sup.todo /\ sup'.pc = sup.pc
      /\ sup'.module = sup.module /\ sup'.manual = sup.manual
  BY DEF Types, SupervisorTypes, ProcessState
<1>2. SupervisorTypes' BY <1>1 DEF Types, SupervisorTypes, Alive
<1>3. TriggerInv' BY <1>1, TriggerKept DEF RequestKept, ClaimKept
<1> QED BY <1>2, <1>3

\* A process that is launched.
LEMMA Launched ==
  ASSUME Types, TriggerInv, Launch(live), ctl' \in ControlRow, UNCHANGED served
  PROVE  SupervisorTypes' /\ TriggerInv'
<1>1. live \in Nat BY Numbers DEF Types, OperationTypes
<1>2. /\ sup' = NewProcess(live) /\ unit' = "active"
      /\ mods' = [m \in Module |-> [FormerOwner(mods[m]) EXCEPT !.towner = Aged(@)]]
  BY DEF Launch
<1>3. ProcessOK(sup') /\ sup'.pc = "tick"
  BY <1>1, <1>2, NewProcessOK DEF NewProcess
<1>4. mods' \in [Module -> ModuleRow]
  <2>1. ASSUME NEW m \in Module
        PROVE  [FormerOwner(mods[m]) EXCEPT !.towner = Aged(@)] \in ModuleRow
    <3>1. mods[m] \in ModuleRow BY DEF Types, SupervisorTypes
    <3> DEFINE row == FormerOwner(mods[m])
    <3>2. row \in ModuleRow BY <3>1 DEF FormerOwner, Aged, ModuleRow, Owner
    <3> HIDE DEF row
    <3>3. [row EXCEPT !.towner = Aged(row.towner)] \in ModuleRow
      BY <3>2 DEF Aged, ModuleRow, Owner
    <3> QED BY <3>3 DEF row
  <2> QED BY <1>2, <2>1
<1>5. SupervisorTypes' BY <1>2, <1>3, <1>4 DEF SupervisorTypes, ProcessOK, Alive
<1>6. TriggerInv' BY <1>1, LaunchTrigger DEF Types
<1> QED BY <1>5, <1>6

\* The steps of an executor.
LEMMA ExecutorTypes ==
  ASSUME Types, TriggerInv, NEW o \in Operations, ExecutorSteps(o)
  PROVE  OperationsGoal
<1>1. /\ OperationTypes /\ SupervisorTypes /\ want \in Control /\ ctl \in ControlRow
      /\ live \in Operations \cup { Original, Edited } /\ web \in BOOLEAN
      /\ ops \in [Operations -> Operation] /\ LockInv /\ OperationOK(ops[o])
      /\ o \in Nat
  BY Numbers DEF Types, OperationTypes, SupervisorTypes
<1>2. ASSUME NEW how, MiddleStep(o, how) PROVE OperationsGoal
  <2> DEFINE op == ops[o]  t == ops'[o]  step == Head(op.todo)
  <2>1. /\ op.alive /\ lock = o /\ Works(op) /\ SameJob(op, t) /\ OperationOK(t)
        /\ ops' = [ops EXCEPT ![o] = t] /\ web' \in BOOLEAN /\ ctl' \in ControlRow
        /\ UNCHANGED << want, lock, write, served >>
    BY <1>2 DEF MiddleStep
  <2>2. live' \in Operations \cup { Original, Edited }
    <3>1. op.orig \in Operations \cup { Original, Edited } BY <1>1 DEF Operation
    <3> QED BY <1>1, <1>2, <3>1 DEF MiddleStep
  <2>3. \/ UNCHANGED << sup, unit, mods >>
        \/ Launch(live)
    BY <1>2 DEF MiddleStep
  <2>4. t.alive /\ t.status = "running" /\ Unfinished(o)
    BY <2>1 DEF SameJob, Works, Unfinished
  <2> HIDE DEF t, op
  <2>5. OperationTypes' BY <1>1, <2>1, <2>2, <2>4, OneOperation
  <2>6. SupervisorTypes' /\ TriggerInv'
    BY <2>1, <2>3, SupervisorKept, Launched
  <2> QED BY <1>1, <2>1, <2>5, <2>6 DEF OperationsGoal
<1>3. ASSUME ctl' \in ControlRow,
             UNCHANGED << sup, unit, mods, served, want, live, web, write >>
      PROVE  SupervisorTypes' /\ TriggerInv' /\ want' \in Control /\ web' \in BOOLEAN
               /\ live' \in Operations \cup { Original, Edited }
  BY <1>1, <1>3, SupervisorKept
<1>4. CASE Run(o)
  <2> DEFINE op == ops[o]
             t == [op EXCEPT !.status = "running", !.todo = << "capture_service_state" >>]
  <2>1. /\ op.alive /\ lock = Free /\ op.todo = << "acquire_lock" >> /\ lock' = o
        /\ ops' = [ops EXCEPT ![o] = t] /\ UNCHANGED << supVars, live, web, write >>
    BY <1>4 DEF Run, Become
  <2>2. Waits(op)
    <3>1. Head(<< "acquire_lock" >>) = "acquire_lock"
            /\ << "acquire_lock" >> # << "capture_service_state" >>
            /\ << "acquire_lock" >> # << "record" >>
            /\ << "acquire_lock" >> # << "finally", "record" >>
      OBVIOUS
    <3>2. ~Works(op)
      <4>1. ASSUME Works(op) PROVE FALSE
        <5>1. op \in Operation BY <1>1
        <5>2. "acquire_lock" \in Whole(op) BY <2>1, <3>1, <4>1, <5>1, WorkSteps
        <5> QED BY <4>1, <5>1, <5>2, WholeSteps
      <4> QED BY <4>1
    <3> QED BY <1>1, <2>1, <3>1, <3>2 DEF OperationOK, Over, Captures, Ends
  <2>3. << "capture_service_state" >> \in Seq(Steps)
    <3>1. "capture_service_state" \in Steps BY DEF Rank, Steps
    <3> QED BY <3>1
  <2>4. /\ t \in Operation /\ t.status = "running" /\ t.alive /\ t.kind = op.kind
        /\ t.todo = << "capture_service_state" >> /\ t.outcome = op.outcome
        /\ t.units = op.units /\ t.prev = op.prev /\ t.handling = op.handling
        /\ t.applied = op.applied /\ t.restored = op.restored
        /\ t.changed = op.changed /\ t.migrated = op.migrated
    BY <1>1, <2>1, <2>3 DEF Operation
  <2> HIDE DEF t
  <2>5. OperationOK(t)
    <3>1. Captures(t) BY <2>2, <2>4 DEF Captures, Waits, Untouched
    <3> QED BY <1>1, <2>4, <3>1 DEF OperationOK
  <2>6. Unfinished(o) BY <2>2 DEF Waits, Unfinished
  <2>7. OperationTypes'
    <3>1. UNCHANGED write /\ web' \in BOOLEAN
            /\ live' \in Operations \cup { Original, Edited }
      BY <1>1, <2>1
    <3> QED BY <1>1, <2>1, <2>4, <2>5, <2>6, <3>1, OneOperation
  <2> QED BY <1>1, <1>3, <2>1, <2>7 DEF OperationsGoal, supVars
<1>5. ASSUME NEW t, OperationOK(t), ops' = [ops EXCEPT ![o] = t],
             t.alive /\ t.status = "running", Unfinished(o), lock = o,
             ctl' \in ControlRow, UNCHANGED << want, lock, live, web, write >>,
             UNCHANGED << unit, mods, served >>,
             UNCHANGED sup \/ \E n \in Nat : sup' = [sup EXCEPT !.asked = n]
      PROVE  OperationsGoal
  <2>1. OperationTypes' BY <1>1, <1>5, OneOperation
  <2>2. SupervisorTypes' /\ TriggerInv' BY <1>5, SupervisorKept
  <2> QED BY <1>1, <1>5, <2>1, <2>2 DEF OperationsGoal
<1>6. CASE Capture(o)
  <2> DEFINE t == ops'[o]
  <2>1. CaptureStep(o) BY <1>6, CaptureOK
  <2>2. /\ lock = o /\ OperationOK(t) /\ ops' = [ops EXCEPT ![o] = t] /\ t.alive
        /\ t.status = "running" /\ Unfinished(o)
        /\ UNCHANGED << supVars, lock, live, web, write >>
    BY <2>1 DEF CaptureStep, Captures, Unfinished
  <2> HIDE DEF t
  <2> QED BY <1>1, <1>5, <2>2 DEF supVars
<1>7. CASE Drain(o)
  <2> DEFINE t == ops'[o]
  <2>1. DrainStep(o) BY <1>7, DrainOK
  <2>2. /\ lock = o /\ OperationOK(t) /\ ops' = [ops EXCEPT ![o] = t] /\ t.alive
        /\ t.status = "running" /\ Unfinished(o)
        /\ sup' = [sup EXCEPT !.asked = IF sup.pc # "exit" THEN o ELSE 0]
        /\ UNCHANGED << unit, mods, served, want, lock, live, web, write >>
    BY <2>1 DEF DrainStep, Works, SameJob, Unfinished
  <2>3. ctl' \in ControlRow
    BY <1>1, <2>1, RowWrites DEF DrainStep, Control
  <2>4. \E n \in Nat : sup' = [sup EXCEPT !.asked = n] BY <1>1, <2>2
  <2> HIDE DEF t
  <2> QED BY <1>5, <2>2, <2>3, <2>4
<1>8. CASE RejectCancel(o)
  <2> DEFINE op == ops[o]  t == [op EXCEPT !.cancel = "rejected"]
  <2>1. At(o, "wait_for_supervisor_exit") /\ ops' = [ops EXCEPT ![o] = t]
          /\ UNCHANGED << supVars, lock, live, web, write >>
    BY <1>1, <1>8 DEF RejectCancel
  <2>2. op \in Operation /\ OperationOK(op) /\ op.alive /\ lock = o /\ Works(op)
    BY <2>1, AtWork
  <2>3. /\ t \in Operation /\ SameJob(op, t) /\ t.todo = op.todo
        /\ t.outcome = op.outcome /\ t.handling = op.handling
        /\ t.migrated = op.migrated /\ t.changed = op.changed
    BY <2>2 DEF Operation, SameJob
  <2> HIDE DEF t
  <2>4. Works(t)
    <3>1. Whole(t) = Whole(op) BY <2>3, SamePrograms DEF Whole, SameJob
    <3> QED BY <2>2, <2>3, <3>1 DEF Works, SameJob
  <2>5. OperationOK(t) /\ t.alive /\ t.status = "running" /\ Unfinished(o)
    BY <2>2, <2>3, <2>4 DEF OperationOK, SameJob, Works, Unfinished
  <2> QED BY <1>1, <1>5, <2>1, <2>2, <2>5 DEF supVars
<1>9. CASE Finally(o)
  <2> DEFINE t == ops'[o]
  <2>1. FinallyStep(o) BY <1>9, LastOK
  <2>2. /\ lock = o /\ OperationOK(t) /\ ops' = [ops EXCEPT ![o] = t] /\ t.alive
        /\ t.status = "running" /\ Unfinished(o) /\ ctl' \in ControlRow
        /\ UNCHANGED << sup, unit, mods, served, want, lock, live, web, write >>
    BY <2>1 DEF FinallyStep, Ends, SameJob, Unfinished
  <2> HIDE DEF t
  <2> QED BY <1>5, <2>2
<1>10. CASE Record(o)
  <2> DEFINE t == Closed(ops[o], ops[o].outcome)
  <2>1. RecordStep(o) BY <1>10, LastOK
  <2>2. /\ ops[o].outcome \in Terminal /\ lock = o /\ lock' = Free
        /\ ops' = [ops EXCEPT ![o] = t] /\ UNCHANGED << supVars, live, web, write >>
    BY <2>1 DEF RecordStep
  <2>3. OperationOK(t) /\ t.status \in Terminal BY <1>1, <2>2, ClosedOK
  <2> HIDE DEF t
  <2>4. t.status \notin { "pending", "running" } /\ lock # WebService
    BY <2>2, <2>3, Numbers DEF Terminal
  <2>5. OperationTypes' BY <1>1, <2>2, <2>3, <2>4, OneOperation
  <2> QED BY <1>1, <1>3, <2>2, <2>5 DEF OperationsGoal, supVars
<1> QED BY <1>2, <1>4, <1>6, <1>7, <1>8, <1>9, <1>10, MiddleSteps DEF ExecutorSteps

\* The operator and the web interface.
LEMMA OperatorTypes ==
  ASSUME Types, TriggerInv, NEW o \in Operations,
         \/ (Submit(o) \/ EnsureIdle(o) \/ RequestCancel(o)) /\ UNCHANGED supVars
         \/ ExecutorCrashes(o)
  PROVE  OperationsGoal
<1>1. /\ OperationTypes /\ SupervisorTypes /\ want \in Control /\ ctl \in ControlRow
      /\ live \in Operations \cup { Original, Edited } /\ web \in BOOLEAN
      /\ ops \in [Operations -> Operation] /\ LockInv /\ OperationOK(ops[o])
      /\ ops[o] \in Operation
  BY DEF Types, OperationTypes, SupervisorTypes
<1>2. UNCHANGED << sup, unit, ctl, mods, served, want, web, write >>
  BY DEF Submit, EnsureIdle, RequestCancel, ExecutorCrashes, supVars
<1>3. SupervisorTypes' /\ TriggerInv' /\ want' \in Control
  BY <1>1, <1>2, SupervisorKept
<1>4. CASE Submit(o)
  <2>1. PICK request \in Requests[o] :
          ops' = [ops EXCEPT ![o] =
                   [NoOperation EXCEPT !.kind = request.kind,
                      !.units = request.units, !.status = "pending",
                      !.alive = TRUE, !.orig = live, !.todo = << "acquire_lock" >>]]
    BY <1>4 DEF Submit, Become
  <2> DEFINE t == [NoOperation EXCEPT !.kind = request.kind,
                      !.units = request.units, !.status = "pending",
                      !.alive = TRUE, !.orig = live, !.todo = << "acquire_lock" >>]
  <2>2. request.kind \in Kinds /\ request.units \in SUBSET Services
    <3>1. request \in [ kind : Kinds, units : SUBSET Services ] BY <2>1, Numbers
    <3> QED BY <3>1
  <2>3. << "acquire_lock" >> \in Seq(Steps)
    <3>1. "acquire_lock" \in Steps BY DEF Rank, Steps
    <3> QED BY <3>1
  <2>4. NoOperation \in Operation BY <1>1, ClosedOK DEF Terminal
  <2>5. /\ ~NoOperation.handling /\ ~NoOperation.applied /\ ~NoOperation.restored
        /\ ~NoOperation.changed /\ ~NoOperation.migrated
        /\ ~NoOperation.prev.supervisor /\ NoOperation.outcome = "none"
    BY DEF NoOperation
  <2>6. /\ t \in Operation /\ t.status = "pending" /\ t.kind \in Kinds
        /\ t.todo = << "acquire_lock" >> /\ t.outcome = "none" /\ Untouched(t)
        /\ ~t.prev.supervisor
    BY <1>1, <2>2, <2>3, <2>4, <2>5 DEF Operation, Untouched
  <2> HIDE DEF t
  <2>7. OperationOK(t) BY <2>6 DEF OperationOK, Waits
  <2>8. /\ lock = Free /\ UNCHANGED << lock, live >>
        /\ \A p \in Operations : ~Unfinished(p)
        /\ write = "none"
    BY <1>1, <1>4, Numbers DEF Submit, Idle, LockInv
  <2>9. lock # o BY <2>8, Numbers
  <2>10. OperationTypes'
    BY <1>1, <1>2, <2>1, <2>6, <2>7, <2>8, <2>9, OneOperation DEF t
  <2> QED BY <1>3, <2>10 DEF OperationsGoal
<1>5. CASE EnsureIdle(o)
  <2> DEFINE t == Closed(ops[o], "interrupted")
  <2>1. /\ lock = Free /\ UNCHANGED lock /\ ops' = [ops EXCEPT ![o] = t]
        /\ live' = IF NothingToRestore(ops[o]) THEN live ELSE ops[o].orig
    BY <1>5 DEF EnsureIdle, Interrupt, Become
  <2>2. OperationOK(t) /\ t.status = "interrupted" BY <1>1, ClosedOK DEF Terminal
  <2> HIDE DEF t
  <2>3. live' \in Operations \cup { Original, Edited }
    BY <1>1, <2>1 DEF Operation
  <2>4. lock # o BY <2>1, Numbers
  <2>5. OperationTypes' BY <1>1, <1>2, <2>1, <2>2, <2>3, <2>4, OneOperation
  <2> QED BY <1>3, <2>5 DEF OperationsGoal
<1>6. ASSUME NEW t, t \in Operation, SameJob([ops[o] EXCEPT !.alive = t.alive], t),
             t.alive = ops[o].alive \/ ~t.alive,
             t.todo = ops[o].todo, t.outcome = ops[o].outcome,
             t.handling = ops[o].handling, t.applied = ops[o].applied,
             t.restored = ops[o].restored,
             t.changed = ops[o].changed, t.migrated = ops[o].migrated
      PROVE  OperationOK(t) /\ t.status = ops[o].status
  <2>1. /\ t.kind = ops[o].kind /\ t.units = ops[o].units /\ t.status = ops[o].status
        /\ t.prev = ops[o].prev
    BY <1>1, <1>6 DEF SameJob, Operation
  <2>2. Whole(t) = Whole(ops[o]) BY <1>6, <2>1, SamePrograms DEF Whole
  <2>3. /\ Over(ops[o]) => Over(t)
        /\ Waits(ops[o]) => Waits(t)
        /\ Captures(ops[o]) => Captures(t)
        /\ Ends(ops[o]) => Ends(t)
    BY <1>6, <2>1 DEF Over, Waits, Captures, Ends, Untouched
  <2>4. Works(ops[o]) => Works(t) BY <1>6, <2>1, <2>2 DEF Works
  <2> QED BY <1>1, <1>6, <2>1, <2>3, <2>4 DEF OperationOK
<1>7. CASE RequestCancel(o)
  <2> DEFINE t == [ops[o] EXCEPT !.cancel = "requested"]
  <2>1. ops' = [ops EXCEPT ![o] = t] /\ UNCHANGED << lock, live >> /\ ops[o].alive
          /\ ops[o].status = "running"
    BY <1>1, <1>7 DEF RequestCancel
  <2>2. /\ t \in Operation /\ SameJob(ops[o], t) /\ t.alive = ops[o].alive
        /\ t.todo = ops[o].todo
        /\ t.outcome = ops[o].outcome /\ t.handling = ops[o].handling
        /\ t.applied = ops[o].applied /\ t.restored = ops[o].restored
        /\ t.changed = ops[o].changed /\ t.migrated = ops[o].migrated
    BY <1>1 DEF Operation, SameJob
  <2>3. [ops[o] EXCEPT !.alive = t.alive] = ops[o] BY <1>1, <2>2 DEF Operation
  <2> HIDE DEF t
  <2>4. OperationOK(t) /\ t.status = "running" /\ t.alive /\ Unfinished(o)
    BY <1>6, <2>1, <2>2, <2>3 DEF Unfinished
  <2>5. OperationTypes' BY <1>1, <1>2, <2>1, <2>4, OneOperation
  <2> QED BY <1>3, <2>5 DEF OperationsGoal
<1>8. CASE ExecutorCrashes(o)
  <2> DEFINE t == [ops[o] EXCEPT !.alive = FALSE]
  <2>1. /\ ops' = [ops EXCEPT ![o] = t] /\ UNCHANGED live /\ ops[o].alive
        /\ lock' = IF lock = o THEN Free ELSE lock
    BY <1>1, <1>8 DEF ExecutorCrashes
  <2>2. /\ t \in Operation /\ ~t.alive
        /\ SameJob(t, t) /\ t.alive = FALSE
        /\ t.todo = ops[o].todo
        /\ t.outcome = ops[o].outcome /\ t.handling = ops[o].handling
        /\ t.applied = ops[o].applied /\ t.restored = ops[o].restored
        /\ t.changed = ops[o].changed /\ t.migrated = ops[o].migrated
    BY <1>1 DEF Operation, SameJob
  <2>3. [ops[o] EXCEPT !.alive = t.alive] = t BY <1>1, <2>2
  <2> HIDE DEF t
  <2>4. OperationOK(t) /\ t.status = ops[o].status BY <1>6, <2>2, <2>3
  <2>5. Unfinished(o) BY <1>1, <2>1 DEF OperationOK, Over, Waits, Captures, Works, Ends,
                                         Unfinished
  <2>6. \/ lock' = lock /\ lock # o
        \/ lock' = Free /\ lock # WebService
    BY <2>1, Numbers
  <2>7. OperationTypes' BY <1>1, <1>2, <2>1, <2>4, <2>5, <2>6, OneOperation
  <2> QED BY <1>3, <2>7 DEF OperationsGoal
<1> QED BY <1>4, <1>5, <1>7, <1>8

\* The web interface sets the control state; somebody edits the files.
LEMMA WebTypes ==
  ASSUME Types, TriggerInv,
         \/ \E state \in Control : CheckControl(state)
         \/ WriteControl \/ EditConfiguration
  PROVE  OperationsGoal
<1>1. /\ OperationTypes /\ SupervisorTypes /\ want \in Control /\ ctl \in ControlRow
      /\ live \in Operations \cup { Original, Edited } /\ web \in BOOLEAN
      /\ ops \in [Operations -> Operation] /\ LockInv
      /\ write \in Control \cup { "none" }
  BY DEF Types, OperationTypes, SupervisorTypes, LockInv
<1>2. CASE \E state \in Control : CheckControl(state)
  <2>1. PICK state \in Control : CheckControl(state) BY <1>2
  <2>2. /\ write' = state /\ lock' = WebService /\ \A o \in Operations : ~Unfinished(o)
        /\ UNCHANGED << sup, unit, ctl, mods, served, want, ops, live, web >>
    BY <2>1 DEF CheckControl, Idle
  <2>3. LockInv'
    BY <1>1, <2>2, Numbers DEF LockInv, Unfinished, Control
  <2>4. OperationTypes' BY <1>1, <2>2, <2>3 DEF OperationTypes
  <2> QED BY <1>1, <2>2, <2>4, SupervisorKept DEF OperationsGoal
<1>3. CASE WriteControl
  <2>1. /\ write # "none" /\ write' = "none" /\ lock' = Free
        /\ ctl' = [ctl EXCEPT !.state = write] /\ want' = write
        /\ sup' = [sup EXCEPT !.asked = 0]
        /\ UNCHANGED << unit, mods, served, ops, live, web >>
    BY <1>3 DEF WriteControl
  <2>2. write \in Control BY <1>1, <2>1
  <2>3. LockInv' BY <1>1, <2>1, Numbers DEF LockInv, Unfinished
  <2>4. OperationTypes' BY <1>1, <2>1, <2>3 DEF OperationTypes
  <2>5. ctl' \in ControlRow BY <1>1, <2>1, <2>2, RowWrites
  <2>6. \E n \in Nat : sup' = [sup EXCEPT !.asked = n] BY <2>1
  <2>7. SupervisorTypes' /\ TriggerInv' BY <2>1, <2>5, <2>6, SupervisorKept
  <2> QED BY <2>1, <2>2, <2>4, <2>7 DEF OperationsGoal
<1>4. CASE EditConfiguration
  <2>1. live' = Edited
          /\ UNCHANGED << sup, unit, ctl, mods, served, want, ops, lock, web, write >>
    BY <1>4 DEF EditConfiguration
  <2>2. LockInv' BY <1>1, <2>1 DEF LockInv, Unfinished
  <2>3. OperationTypes' BY <1>1, <2>1, <2>2 DEF OperationTypes
  <2> QED BY <1>1, <2>1, <2>3, SupervisorKept DEF OperationsGoal
<1> QED BY <1>2, <1>3, <1>4

\* What the steps of Next are.
LEMMA NextCases ==
  ASSUME Next
  PROVE  \/ (Loop \/ Surroundings \/ PageRequests) /\ UNCHANGED mgmtVars
         \/ Restart
         \/ \E o \in Operations :
              \/ (Submit(o) \/ EnsureIdle(o) \/ RequestCancel(o)) /\ UNCHANGED supVars
              \/ ExecutorCrashes(o)
         \/ \E o \in Operations : ExecutorSteps(o)
         \/ \E state \in Control : CheckControl(state)
         \/ WriteControl \/ EditConfiguration
BY DEF Next, SupervisorLoop, Operator, LockHolder, Control

\* The types, and that a manual run is served once.
TypesInv == Types /\ TriggerInv

\* The first state is well typed.
LEMMA TypesInit == Init => TypesInv
<1> SUFFICES ASSUME Init PROVE TypesInv
  OBVIOUS
<1>1. /\ ctl = [ state |-> "running", owner |-> "nobody", live |-> FALSE, beat |-> FALSE ]
      /\ mods = [m \in Module |->
                   [ state |-> "running", trig |-> "none", towner |-> "nobody",
                     owner |-> "nobody", running |-> FALSE, blocked |-> FALSE,
                     cool |-> 0, release |-> FALSE ]]
      /\ sup = NewProcess(Original) /\ unit = "active"
      /\ served = [m \in Module |-> 0] /\ want = "running"
      /\ ops = [o \in Operations |-> NoOperation]
      /\ lock = Free /\ live = Original /\ web = TRUE /\ write = "none"
  BY DEF Init, SupervisorInit
<1>2. ProcessOK(sup) /\ sup.pc = "tick" /\ sup.asked = 0
  BY <1>1, NewProcessOK DEF Original, NewProcess
<1>3. SupervisorTypes
  BY <1>1, <1>2 DEF SupervisorTypes, ProcessOK, ControlRow, ModuleRow, Owner, Control,
                    Alive
<1>4. TriggerInv
  BY <1>1, <1>2, IntervalModulesAreModules DEF TriggerInv, ClaimHeld, TriggerServedOnce
<1>5. OperationTypes
  <2>1. NoOperation \in Operation /\ OperationOK(NoOperation)
          /\ NoOperation.status = "none"
    <3>1. << >> \in Seq(Steps) OBVIOUS
    <3>2. NoOperation \in Operation /\ ~NoOperation.prev.supervisor
      BY <3>1 DEF NoOperation, Operation
    <3> QED BY <3>2 DEF OperationOK, Over, NoOperation
  <2>2. \A o \in Operations : ops[o] = NoOperation BY <1>1
  <2>3. LockInv BY <1>1, <2>1, <2>2, Numbers DEF LockInv, Unfinished
  <2> QED BY <1>1, <2>1, <2>2, <2>3 DEF OperationTypes
<1> QED BY <1>1, <1>3, <1>4, <1>5 DEF TypesInv, Types, Control

\* Every step keeps the types, and serves no request twice.
LEMMA TypesNext == TypesInv /\ [Next]_vars => TypesInv'
<1> SUFFICES ASSUME TypesInv, [Next]_vars PROVE TypesInv'
  OBVIOUS
<1>1. Types /\ TriggerInv /\ ClaimHeld BY DEF TypesInv, TriggerInv
<1>2. CASE UNCHANGED vars
  <2>1. UNCHANGED << sup, unit, ctl, mods, served, want, ops, lock, live, web, write >>
    BY <1>2 DEF vars, supVars, mgmtVars
  <2> QED BY <1>1, <2>1 DEF TypesInv, Types, SupervisorTypes, OperationTypes, LockInv,
                            TriggerInv, ClaimHeld, TriggerServedOnce, Alive, Unfinished
<1>3. ASSUME OperationsGoal PROVE TypesInv'
  BY <1>3 DEF OperationsGoal, TypesInv, Types
<1>4. CASE (Loop \/ Surroundings \/ PageRequests) /\ UNCHANGED mgmtVars
  <2>1. SupervisorTypes' /\ want' \in Control
    BY <1>1, <1>4, ProcessStep DEF Types, ProcessGoal
  <2>2. TriggerInv' BY <1>1, <1>4, ProcessTrigger DEF Types
  <2>3. OperationTypes'
    BY <1>1, <1>4 DEF Types, OperationTypes, LockInv, Unfinished, mgmtVars
  <2> QED BY <2>1, <2>2, <2>3 DEF TypesInv, Types
<1>5. CASE Restart
  <2>1. Launch(live) /\ ctl' = FormerOwner(ctl) /\ UNCHANGED << served, want, mgmtVars >>
    BY <1>5 DEF Restart
  <2>2. ctl' \in ControlRow BY <1>1, <2>1, RowWrites DEF Types, SupervisorTypes
  <2>3. SupervisorTypes' /\ TriggerInv' BY <1>1, <2>1, <2>2, Launched
  <2>4. OperationTypes'
    BY <1>1, <2>1 DEF Types, OperationTypes, LockInv, Unfinished, mgmtVars
  <2> QED BY <1>1, <2>1, <2>3, <2>4 DEF TypesInv, Types
<1>6. ASSUME NEW o \in Operations,
             \/ (Submit(o) \/ EnsureIdle(o) \/ RequestCancel(o)) /\ UNCHANGED supVars
             \/ ExecutorCrashes(o)
      PROVE  TypesInv'
  BY <1>1, <1>3, <1>6, OperatorTypes
<1>7. ASSUME NEW o \in Operations, ExecutorSteps(o) PROVE TypesInv'
  BY <1>1, <1>3, <1>7, ExecutorTypes
<1>8. CASE \/ \E state \in Control : CheckControl(state)
           \/ WriteControl \/ EditConfiguration
  BY <1>1, <1>3, <1>8, WebTypes
<1> QED BY <1>2, <1>4, <1>5, <1>6, <1>7, <1>8, NextCases

\* The types hold in every state of every behaviour.
LEMMA TypesHold == Spec => []TypesInv
BY TypesInit, TypesNext, PTL DEF Spec

\* Type correctness of the whole: the rows, the process and the operations are
\* what the code writes, the lock is held by one living executor or by the web
\* interface, and the process looks at the modules in their order.
THEOREM TypeCorrect == Spec => []TypeOK
<1>1. TypesInv => TypeOK
  <2> SUFFICES ASSUME TypesInv PROVE TypeOK
    OBVIOUS
  <2>1. SupervisorTypeOK
    <3>1. \A m \in Module : mods[m] \in ModuleRow
      BY DEF TypesInv, Types, SupervisorTypes
    <3> QED BY <3>1 DEF TypesInv, Types, SupervisorTypes, SupervisorTypeOK, ProcessState,
                        ControlRow, Control, ModuleRow
  <2>2. ASSUME NEW o \in Operations
        PROVE  /\ ops[o].kind \in Kinds \cup { "none" }
               /\ ops[o].status \in Terminal \cup { "none", "pending", "running" }
               /\ ops[o].cancel \in { "no", "requested", "rejected" }
               /\ ops[o].alive => Unfinished(o)
               /\ lock = o => ops[o].alive
    <3>1. ops[o] \in Operation /\ OperationOK(ops[o]) /\ LockInv
      BY DEF TypesInv, Types, OperationTypes
    <3>2. ops[o].alive => Unfinished(o)
      BY <3>1 DEF OperationOK, Over, Waits, Captures, Works, Ends, Unfinished
    <3> QED BY <3>1, <3>2 DEF Operation, LockInv
  <2>3. (lock = WebService) = (write # "none")
    BY DEF TypesInv, Types, OperationTypes, LockInv
  <2> QED BY <2>1, <2>2, <2>3
          DEF TypesInv, Types, OperationTypes, LockInv, TypeOK
<1> QED BY <1>1, TypesHold, PTL

\* A manual run starts its module at most once, and the row tells what became
\* of the request, wherever the process is killed between the claim, the start
\* and the verdict.
THEOREM TriggersServedOnce == Spec => []TriggerServedOnce
<1>1. TypesInv => TriggerServedOnce BY DEF TypesInv, TriggerInv
<1> QED BY <1>1, TypesHold, PTL


(***************************************************************************)
(* What a step of the whole may be.                                        *)
(***************************************************************************)
OneChanges(o) == ops \in [Operations -> Operation] /\ ops' = [ops EXCEPT ![o] = ops'[o]]

\* A record in which at most the request to cancel or the executor has changed.
SameWork(op, t) ==
  /\ t.kind = op.kind /\ t.units = op.units /\ t.status = op.status
  /\ t.prev = op.prev /\ t.orig = op.orig /\ t.todo = op.todo
  /\ t.outcome = op.outcome /\ t.handling = op.handling
  /\ t.applied = op.applied /\ t.restored = op.restored
  /\ t.changed = op.changed /\ t.migrated = op.migrated

\* The process moves, or systemd starts it again.
ProcessMoves == ProcessFrame /\ UNCHANGED mgmtVars
UnitRestarts ==
  /\ unit = "restarting" /\ sup' = NewProcess(live) /\ ctl'.state = ctl.state
  /\ UNCHANGED << want, mgmtVars >>

\* The web interface and the operator.
Submitted(o) ==
  /\ ops[o].status = "none" /\ \A p \in Operations : ~Unfinished(p)
  /\ Waits(ops'[o]) /\ ops'[o].orig = live
  /\ UNCHANGED << sup, unit, ctl, want, live >>
Kept(o) ==
  /\ Unfinished(o) /\ SameWork(ops[o], ops'[o]) /\ (ops'[o].alive => ops[o].alive)
  /\ UNCHANGED << sup, unit, ctl, want, live >>
IsInterrupted(o) ==
  /\ Unfinished(o) /\ ops'[o] = Closed(ops[o], "interrupted")
  /\ live' = IF NothingToRestore(ops[o]) THEN live ELSE ops[o].orig
  /\ UNCHANGED << sup, unit, ctl, want >>
Checked == UNCHANGED << sup, unit, ctl, want, ops, live >>
Written ==
  /\ \A o \in Operations : ~Unfinished(o)
  /\ ctl'.state = want' /\ sup' = [sup EXCEPT !.asked = 0]
  /\ UNCHANGED << unit, ops, live >>
Edits == live' = Edited /\ UNCHANGED << sup, unit, ctl, want, ops >>

\* The executor takes the lock.
Begun(o) ==
  /\ Waits(ops[o]) /\ Captures(ops'[o]) /\ ops'[o] \in Operation
  /\ UNCHANGED << sup, unit, ctl, want, live >>
  /\ ops'[o].orig = ops[o].orig

ExecutorStep(o) ==
  \/ Begun(o) \/ CaptureStep(o) \/ DrainStep(o)
  \/ \E how : MiddleStep(o, how)
  \/ FinallyStep(o) \/ RecordStep(o)

OperationStep(o) ==
  /\ OneChanges(o)
  /\ Submitted(o) \/ Kept(o) \/ IsInterrupted(o) \/ ExecutorStep(o)

\* Such a record is at the same point of the same program.
LEMMA SamePoint ==
  ASSUME NEW op, NEW t, SameWork(op, t)
  PROVE  /\ Works(t) <=> Works(op)
         /\ Captures(t) <=> Captures(op)
         /\ Ends(t) <=> Ends(op)
         /\ Waits(t) <=> Waits(op)
         /\ PutsControlBack(t) <=> PutsControlBack(op)
<1>1. Program(t) = Program(op) /\ Rollback(t) = Rollback(op)
  BY SamePrograms DEF SameWork
<1>2. Whole(t) = Whole(op) BY <1>1 DEF Whole, SameWork
<1>3. Works(t) <=> Works(op) BY <1>2 DEF Works, SameWork
<1>4. Captures(t) <=> Captures(op) BY DEF Captures, Untouched, SameWork
<1>5. Waits(t) <=> Waits(op) BY DEF Waits, Untouched, SameWork
<1>6. Ends(t) <=> Ends(op) BY DEF Ends, SameWork
<1>7. PutsControlBack(t) <=> PutsControlBack(op) BY DEF PutsControlBack, SameWork
<1> QED BY <1>3, <1>4, <1>5, <1>6, <1>7

\* An executor's step is one of these.
LEMMA ExecutorCases ==
  ASSUME TypesInv, NEW o \in Operations, ExecutorSteps(o)
  PROVE  OperationStep(o)
<1> DEFINE op == ops[o]  t == ops'[o]
<1>1. /\ Types /\ ops \in [Operations -> Operation] /\ op \in Operation /\ OperationOK(op)
      /\ LockInv
  BY DEF TypesInv, Types, OperationTypes
<1>2. CASE Run(o)
  <2>1. /\ op.alive /\ op.todo = << "acquire_lock" >> /\ Become(o, [op EXCEPT
             !.status = "running", !.todo = << "capture_service_state" >>])
        /\ UNCHANGED << supVars, live >>
    BY <1>2 DEF Run
  <2>2. /\ t = [op EXCEPT !.status = "running", !.todo = << "capture_service_state" >>]
        /\ ops' = [ops EXCEPT ![o] = t]
    BY <1>1, <2>1 DEF Become
  <2>3. Waits(op)
    <3>1. /\ Head(<< "acquire_lock" >>) = "acquire_lock"
          /\ << "acquire_lock" >> # << "capture_service_state" >>
          /\ << "acquire_lock" >> # << "record" >>
          /\ << "acquire_lock" >> # << "finally", "record" >>
      OBVIOUS
    <3>2. ASSUME Works(op) PROVE FALSE
      <4>1. "acquire_lock" \in Whole(op) BY <1>1, <2>1, <3>1, <3>2, WorkSteps
      <4> QED BY <1>1, <3>2, <4>1, WholeSteps
    <3> QED BY <1>1, <2>1, <3>1, <3>2 DEF OperationOK, Over, Captures, Ends
  <2>4. /\ t.status = "running" /\ t.todo = << "capture_service_state" >>
        /\ t.kind = op.kind /\ t.outcome = op.outcome /\ t.prev = op.prev
        /\ t.handling = op.handling /\ t.applied = op.applied
        /\ t.restored = op.restored /\ t.changed = op.changed
        /\ t.migrated = op.migrated /\ t.orig = op.orig
    BY <1>1, <2>2 DEF Operation
  <2>7. t \in Operation
    <3>1. << "capture_service_state" >> \in Seq(Steps)
      <4>1. "capture_service_state" \in Steps BY DEF Rank, Steps
      <4> QED BY <4>1
    <3> QED BY <1>1, <2>2, <3>1 DEF Operation
  <2> HIDE DEF t
  <2>5. Captures(t) BY <2>3, <2>4 DEF Captures, Waits, Untouched
  <2>6. Begun(o) BY <2>1, <2>3, <2>4, <2>5, <2>7 DEF Begun, supVars, t
  <2> QED BY <1>1, <2>2, <2>6 DEF OperationStep, OneChanges, ExecutorStep, t
<1>3. CASE Capture(o)
  <2>1. CaptureStep(o) BY <1>1, <1>3, CaptureOK
  <2> QED BY <1>1, <2>1 DEF OperationStep, OneChanges, ExecutorStep, CaptureStep
<1>4. CASE Drain(o)
  <2>1. DrainStep(o) BY <1>1, <1>4, DrainOK
  <2> QED BY <1>1, <2>1 DEF OperationStep, OneChanges, ExecutorStep, DrainStep
<1>5. CASE RejectCancel(o)
  <2>1. /\ t = [op EXCEPT !.cancel = "rejected"] /\ ops' = [ops EXCEPT ![o] = t]
        /\ UNCHANGED << supVars, live >> /\ At(o, "wait_for_supervisor_exit")
    BY <1>1, <1>5 DEF RejectCancel
  <2>2. op.status = "running" BY <1>1, <2>1, AtWork
  <2>3. SameWork(op, t) /\ (t.alive => op.alive)
    BY <1>1, <2>1 DEF Operation, SameWork
  <2> HIDE DEF t
  <2>4. UNCHANGED << sup, unit, ctl, want, live >> BY <2>1 DEF supVars
  <2>5. Unfinished(o) BY <2>2 DEF Unfinished
  <2>6. Kept(o) BY <2>3, <2>4, <2>5 DEF Kept, t
  <2> QED BY <1>1, <2>1, <2>6 DEF OperationStep, OneChanges, t
<1>6. CASE Finally(o) \/ Record(o)
  <2>1. FinallyStep(o) \/ RecordStep(o) BY <1>1, <1>6, LastOK
  <2>2. ops' = [ops EXCEPT ![o] = t] BY <2>1 DEF FinallyStep, RecordStep
  <2> QED BY <1>1, <2>1, <2>2 DEF OperationStep, OneChanges, ExecutorStep
<1>7. CASE \/ AcceptCancel(o) \/ SupervisorExited(o) \/ DrainFails(o)
           \/ StopWeb(o) \/ StartWeb(o) \/ StartUnit(o)
           \/ Heartbeat(o) \/ NoHeartbeat(o) \/ RestoreControl(o)
           \/ RecordIntent(o) \/ PublishConfiguration(o)
           \/ RestoreConfiguration(o) \/ RecordRestored(o)
           \/ Checkout(o) \/ PlainStep(o) \/ StepFails(o)
  <2>1. PICK how : MiddleStep(o, how) BY <1>1, <1>7, MiddleSteps
  <2>2. ops' = [ops EXCEPT ![o] = t] BY <2>1 DEF MiddleStep
  <2> QED BY <1>1, <2>1, <2>2 DEF OperationStep, OneChanges, ExecutorStep
<1> QED BY <1>2, <1>3, <1>4, <1>5, <1>6, <1>7 DEF ExecutorSteps

\* What the operator, the web interface and a crash do to an operation.
LEMMA OperatorCases ==
  ASSUME TypesInv, NEW o \in Operations,
         \/ (Submit(o) \/ EnsureIdle(o) \/ RequestCancel(o)) /\ UNCHANGED supVars
         \/ ExecutorCrashes(o)
  PROVE  OperationStep(o)
<1> DEFINE op == ops[o]  t == ops'[o]
<1>1. /\ ops \in [Operations -> Operation] /\ op \in Operation /\ OperationOK(op)
  BY DEF TypesInv, Types, OperationTypes
<1>2. UNCHANGED << sup, unit, ctl, want >>
  BY DEF ExecutorCrashes, supVars
<1>3. CASE Submit(o)
  <2>1. PICK request \in Requests[o] :
          t = [NoOperation EXCEPT !.kind = request.kind, !.units = request.units,
                 !.status = "pending", !.alive = TRUE, !.orig = live,
                 !.todo = << "acquire_lock" >>]
          /\ ops' = [ops EXCEPT ![o] = t]
    BY <1>1, <1>3 DEF Submit, Become
  <2>2. request.kind \in Kinds
    <3>1. request \in [ kind : Kinds, units : SUBSET Services ] BY <2>1, Numbers
    <3> QED BY <3>1
  <2>3. Waits(t) /\ t.orig = live
    BY <2>1, <2>2 DEF NoOperation, Waits, Untouched
  <2>4. /\ UNCHANGED live /\ ops[o].status = "none"
        /\ \A p \in Operations : ~Unfinished(p)
    BY <1>3 DEF Submit, Idle
  <2> HIDE DEF t
  <2>5. Submitted(o) BY <1>2, <2>3, <2>4 DEF Submitted, t
  <2> QED BY <1>1, <2>1, <2>5 DEF OperationStep, OneChanges, t
<1>4. CASE EnsureIdle(o)
  <2>1. /\ t = Closed(op, "interrupted") /\ ops' = [ops EXCEPT ![o] = t]
        /\ live' = IF NothingToRestore(op) THEN live ELSE op.orig
        /\ Unfinished(o)
    BY <1>1, <1>4 DEF EnsureIdle, Interrupt, Become, Lost
  <2> HIDE DEF t
  <2>2. IsInterrupted(o) BY <1>2, <2>1 DEF IsInterrupted, t
  <2> QED BY <1>1, <2>1, <2>2 DEF OperationStep, OneChanges, t
<1>5. CASE RequestCancel(o)
  <2>1. /\ t = [op EXCEPT !.cancel = "requested"] /\ ops' = [ops EXCEPT ![o] = t]
        /\ UNCHANGED live /\ op.status = "running"
    BY <1>1, <1>5 DEF RequestCancel
  <2>2. SameWork(op, t) /\ t.alive = op.alive BY <1>1, <2>1 DEF Operation, SameWork
  <2> HIDE DEF t
  <2>3. Kept(o) BY <1>2, <2>1, <2>2 DEF Kept, Unfinished, t
  <2> QED BY <1>1, <2>1, <2>3 DEF OperationStep, OneChanges, t
<1>6. CASE ExecutorCrashes(o)
  <2>1. /\ t = [op EXCEPT !.alive = FALSE] /\ ops' = [ops EXCEPT ![o] = t]
        /\ UNCHANGED live /\ op.alive
    BY <1>1, <1>6 DEF ExecutorCrashes
  <2>2. SameWork(op, t) /\ ~t.alive BY <1>1, <2>1 DEF Operation, SameWork
  <2>3. Unfinished(o)
    BY <1>1, <2>1 DEF OperationOK, Over, Waits, Captures, Works, Ends, Unfinished
  <2> HIDE DEF t
  <2>4. Kept(o) BY <1>2, <2>1, <2>2, <2>3 DEF Kept, t
  <2> QED BY <1>1, <2>1, <2>4 DEF OperationStep, OneChanges, t
<1> QED BY <1>3, <1>4, <1>5, <1>6

\* Every step.
LEMMA StepCases ==
  ASSUME TypesInv, [Next]_vars
  PROVE  \/ ProcessMoves \/ UnitRestarts \/ Checked \/ Written \/ Edits
         \/ \E o \in Operations : OperationStep(o)
<1>1. Types /\ ClaimHeld /\ LockInv
  BY DEF TypesInv, TriggerInv, Types, OperationTypes
<1>2. CASE UNCHANGED vars BY <1>2 DEF vars, supVars, mgmtVars, Checked
<1>3. CASE (Loop \/ Surroundings \/ PageRequests) /\ UNCHANGED mgmtVars
  BY <1>1, <1>3, ProcessStep DEF Types, ProcessGoal, ProcessMoves
<1>4. CASE Restart
  <2>1. /\ unit = "restarting" /\ sup' = NewProcess(live) /\ ctl' = FormerOwner(ctl)
        /\ UNCHANGED << want, mgmtVars >>
    BY <1>4 DEF Restart, Launch
  <2>2. ctl'.state = ctl.state BY <1>1, <2>1, RowWrites DEF Types, SupervisorTypes
  <2> QED BY <2>1, <2>2 DEF UnitRestarts
<1>5. ASSUME NEW o \in Operations,
             \/ (Submit(o) \/ EnsureIdle(o) \/ RequestCancel(o)) /\ UNCHANGED supVars
             \/ ExecutorCrashes(o)
      PROVE  OperationStep(o)
  BY <1>5, OperatorCases
<1>6. ASSUME NEW o \in Operations, ExecutorSteps(o) PROVE OperationStep(o)
  BY <1>6, ExecutorCases
<1>7. CASE \E state \in Control : CheckControl(state)
  BY <1>7 DEF CheckControl, Checked
<1>8. CASE WriteControl
  <2>1. /\ write # "none" /\ ctl' = [ctl EXCEPT !.state = write] /\ want' = write
        /\ sup' = [sup EXCEPT !.asked = 0] /\ UNCHANGED << unit, ops, live >>
    BY <1>8 DEF WriteControl
  <2>2. /\ write \in Control /\ ctl \in ControlRow
        /\ \A o \in Operations : ~Unfinished(o)
    BY <1>1, <2>1 DEF LockInv, Types, SupervisorTypes
  <2>3. ctl'.state = want' BY <2>1, <2>2, RowWrites
  <2> QED BY <2>1, <2>2, <2>3 DEF Written
<1>9. CASE EditConfiguration BY <1>9 DEF EditConfiguration, Edits
<1> QED BY <1>2, <1>3, <1>4, <1>5, <1>6, <1>7, <1>8, <1>9, NextCases

\* The other operations, and those an operation's step may belong to.
LEMMA OthersKeep ==
  ASSUME TypesInv, NEW o \in Operations, OperationStep(o)
  PROVE  /\ \A p \in Operations : p # o => ops'[p] = ops[p]
         /\ ops[o].status \in { "none", "pending", "running" }
         /\ ExecutorStep(o) => Unfinished(o)
         /\ Unfinished(o) => \A p \in Operations : p # o => ~Unfinished(p)
<1>1. LockInv BY DEF TypesInv, Types, OperationTypes
<1>2. \A p \in Operations : p # o => ops'[p] = ops[p] BY DEF OperationStep, OneChanges
<1>3. ExecutorStep(o) => Unfinished(o)
  BY DEF ExecutorStep, Begun, CaptureStep, DrainStep, MiddleStep, FinallyStep, RecordStep,
         Waits, Captures, Works, Ends, Unfinished
<1>4. ops[o].status \in { "none", "pending", "running" }
  BY <1>3 DEF OperationStep, Submitted, Kept, IsInterrupted, Unfinished
<1> QED BY <1>1, <1>2, <1>3, <1>4 DEF LockInv

(***************************************************************************)
(* A cancelled drain.                                                      *)
(***************************************************************************)
IsCancelled(o) == "cancelled" \in { ops[o].outcome, ops[o].status }

\* What no step but a drain and the acceptance of a request to cancel does.
LEMMA DrainKept ==
  ASSUME DrainInv, UNCHANGED sup \/ sup'.asked = 0,
         ctl'.state = "draining" => ctl.state = "draining",
         \A o \in Operations : IsCancelled(o)' => IsCancelled(o)
  PROVE  DrainInv'
BY Numbers DEF DrainInv, CancelledDrainSpares, IsCancelled

\* Steps of an operation.
LEMMA DrainOperation ==
  ASSUME TypesInv, DrainInv, NEW o \in Operations, OperationStep(o)
  PROVE  DrainInv'
<1> DEFINE op == ops[o]  t == ops'[o]
<1>1. \A p \in Operations : p # o => ops'[p] = ops[p] BY OthersKeep
<1>2. /\ op \in Operation /\ op.prev.control # "draining" /\ sup \in ProcessState
      /\ ctl \in ControlRow
  BY DEF TypesInv, Types, OperationTypes, SupervisorTypes, Operation
<1>3. ASSUME UNCHANGED sup \/ sup'.asked = 0,
             ctl'.state = "draining" => ctl.state = "draining",
             IsCancelled(o)' => IsCancelled(o)
      PROVE  DrainInv'
  BY <1>1, <1>3, DrainKept DEF IsCancelled
<1>4. CASE Submitted(o)
  BY <1>3, <1>4 DEF Submitted, Waits, IsCancelled
<1>5. CASE Kept(o)
  BY <1>3, <1>5 DEF Kept, SameWork, IsCancelled
<1>6. CASE IsInterrupted(o)
  <2>1. t.outcome = "none" /\ t.status = "interrupted"
    BY <1>6 DEF IsInterrupted, Closed, NoOperation
  <2> QED BY <1>3, <1>6, <2>1 DEF IsInterrupted, IsCancelled
<1>7. CASE Begun(o)
  BY <1>3, <1>7 DEF Begun, Captures, IsCancelled
<1>8. CASE CaptureStep(o)
  <2>1. t.status = "running" /\ t.outcome \in { "none", "failed", "succeeded" }
    BY <1>8 DEF CaptureStep, Captures, Works
  <2>2. UNCHANGED << sup, ctl >> BY <1>8 DEF CaptureStep, supVars
  <2> QED BY <1>3, <2>1, <2>2 DEF IsCancelled
<1>9. CASE DrainStep(o)
  <2>1. sup' = [sup EXCEPT !.asked = IF sup.pc # "exit" THEN o ELSE 0]
    BY <1>9 DEF DrainStep
  <2>2. /\ sup'.asked = (IF sup.pc # "exit" THEN o ELSE 0)
        /\ sup'.pc = sup.pc /\ sup'.drain = sup.drain
    BY <1>2, <2>1 DEF ProcessState
  <2>3. ~IsCancelled(o)'
    BY <1>9 DEF DrainStep, Works, Ends, SameJob, IsCancelled
  <2> QED BY <2>2, <2>3, Numbers DEF DrainInv, CancelledDrainSpares, IsCancelled
<1>10. ASSUME NEW how, MiddleStep(o, how) PROVE DrainInv'
  <2>1. CASE how = "cancel"
    <3>1. /\ ctl.state = "draining" /\ ctl'.state # "draining"
      BY <1>2, <1>10, <2>1 DEF MiddleStep
    <3>2. UNCHANGED sup
      <4>1. Head(op.todo) = "wait_for_supervisor_exit" BY <1>10, <2>1 DEF MiddleStep
      <4> QED BY <1>10, <4>1 DEF MiddleStep
    <3>3. sup.asked # 0 /\ sup.pc = "exit" => sup.drain BY <3>1 DEF DrainInv
    <3> QED BY <3>1, <3>2, <3>3, Numbers DEF DrainInv, CancelledDrainSpares
  <2>2. CASE how # "cancel"
    <3>1. t.status = "running" /\ t.outcome # "cancelled"
      <4>1. /\ SameJob(op, t) /\ Works(op) /\ (Advances(op, t) \/ FailsTo(op, t))
        BY <1>10, <2>2 DEF MiddleStep
      <4> QED BY <4>1 DEF SameJob, Advances, FailsTo, Works
    <3>2. UNCHANGED sup \/ sup'.asked = 0
      BY <1>10 DEF MiddleStep, Launch, NewProcess
    <3>3. ctl'.state = "draining" => ctl.state = "draining"
      BY <1>2, <1>10 DEF MiddleStep
    <3> QED BY <1>3, <3>1, <3>2, <3>3 DEF IsCancelled
  <2> QED BY <2>1, <2>2
<1>11. CASE FinallyStep(o)
  <2>1. t.status = op.status /\ t.outcome = op.outcome
    BY <1>11 DEF FinallyStep, SameJob
  <2>2. UNCHANGED sup /\ (ctl'.state = "draining" => ctl.state = "draining")
    BY <1>2, <1>11 DEF FinallyStep
  <2> QED BY <1>3, <2>1, <2>2 DEF IsCancelled
<1>12. CASE RecordStep(o)
  <2>1. t.status = op.outcome /\ t.outcome = "none"
    <3>1. t = Closed(op, op.outcome) BY <1>12 DEF RecordStep
    <3> HIDE DEF t
    <3> QED BY <3>1 DEF Closed, NoOperation
  <2>2. UNCHANGED << sup, ctl >> BY <1>12 DEF RecordStep, supVars
  <2> QED BY <1>3, <2>1, <2>2 DEF IsCancelled
<1> QED BY <1>4, <1>5, <1>6, <1>7, <1>8, <1>9, <1>10, <1>11, <1>12
        DEF OperationStep, ExecutorStep

\* Every step.
LEMMA DrainNext == TypesInv /\ DrainInv /\ [Next]_vars => DrainInv'
<1> SUFFICES ASSUME TypesInv, DrainInv, [Next]_vars PROVE DrainInv'
  OBVIOUS
<1>1. sup \in ProcessState BY DEF TypesInv, Types, SupervisorTypes
<1>2. CASE ProcessMoves
  <2>1. UNCHANGED ops BY <1>2 DEF ProcessMoves, mgmtVars
  <2>2. /\ ctl'.state = "draining" => ctl.state = "draining"
        /\ sup'.asked \in { 0, sup.asked }
        /\ sup'.pc = "exit" => sup'.asked = sup.asked
        /\ sup'.pc = "exit" /\ ~sup'.drain =>
             \/ sup.pc = "exit" /\ ~sup.drain /\ ctl'.state = ctl.state
             \/ ctl.state = "draining" /\ ctl'.state = "paused"
    BY <1>2 DEF ProcessMoves, ProcessFrame, Alive
  <2> QED BY <2>1, <2>2, Numbers DEF DrainInv, CancelledDrainSpares
<1>3. CASE UnitRestarts
  <2>1. UNCHANGED ops /\ sup'.asked = 0 /\ ctl'.state = ctl.state
    BY <1>3 DEF UnitRestarts, mgmtVars, NewProcess
  <2> QED BY <2>1, DrainKept DEF IsCancelled
<1>4. CASE Checked \/ Edits
  BY <1>4, DrainKept DEF Checked, Edits, IsCancelled
<1>5. CASE Written
  <2>1. UNCHANGED ops /\ sup'.asked = 0 BY <1>1, <1>5 DEF Written, ProcessState
  <2> QED BY <2>1, Numbers DEF DrainInv, CancelledDrainSpares
<1>6. ASSUME NEW o \in Operations, OperationStep(o) PROVE DrainInv'
  BY <1>6, DrainOperation
<1> QED BY <1>2, <1>3, <1>4, <1>5, <1>6, StepCases

\* A drain whose cancellation was accepted does not take the Supervisor down:
\* the row had still said "draining", and the process consumes the request
\* under the row's lock, or finds it gone.
THEOREM CancelledDrainIsHarmless == Spec => []CancelledDrainSpares
<1>1. Init => DrainInv
  BY Numbers DEF Init, SupervisorInit, NewProcess, NoOperation, DrainInv,
                 CancelledDrainSpares
<1>2. DrainInv => CancelledDrainSpares BY DEF DrainInv
<1> QED BY <1>1, <1>2, DrainNext, TypesHold, PTL DEF Spec

(***************************************************************************)
(* The control state.                                                      *)
(***************************************************************************)
\* Only an operation on the Supervisor has steps that concern it.
LEMMA SupervisorUnits ==
  ASSUME NEW op, OperationOK(op), Works(op), NEW x \in SupervisorSteps, x \in Whole(op)
  PROVE  "supervisor" \in op.units
<1>1. /\ op \in Operation /\ (op.prev.supervisor => "supervisor" \in op.units)
      /\ op.kind \in { "stop", "start", "restart", "apply_config", "git_update" }
      /\ Whole(op) = IF op.handling THEN RollbackSet(op) ELSE ProgramSet(op)
  BY WorkSteps DEF OperationOK, Works, Kinds
<1>2. /\ x \in StopsSet(op) => "supervisor" \in op.units
      /\ x \in RestoreSet(op) => "supervisor" \in op.units
  BY <1>1 DEF StopsSet, RestoreSet, Only, SupervisorSteps, Stopping, Starting
<1>3. CASE op.handling
  BY <1>1, <1>2, <1>3 DEF RollbackSet, Only, SupervisorSteps, Stopping, Starting
<1>4. CASE ~op.handling
  BY <1>1, <1>2, <1>4 DEF ProgramSet, Only, SupervisorSteps, Stopping, Starting
<1> QED BY <1>3, <1>4

\* An update that still stops or starts the Supervisor will put its control
\* state back.
LEMMA UpdatePutsBack ==
  ASSUME NEW op, op \in Operation, Works(op), op.kind = "git_update", ~op.handling,
         Head(op.todo) \in { "drain", "wait_for_supervisor_exit", "start_supervisor" }
  PROVE  Has(op, "restore_previous_control_state")
<1>1. /\ Head(op.todo) \in Whole(op) /\ Head(op.todo) \in ToSet(op.todo)
      /\ Whole(op) = ProgramSet(op)
  BY WorkSteps
<1>2. op.prev.supervisor
  BY <1>1, WholeSteps DEF SupervisorSteps, Stopping, Starting
<1>3. "restore_previous_control_state" \in Whole(op)
  BY <1>1, <1>2 DEF ProgramSet, RestoreSet, Only, Starting
<1> QED BY <1>1, <1>3, Ranks DEF Works, RestOf, Has

\* The control state an operation has captured is no drain.
LEMMA PreviousControl ==
  ASSUME TypesInv, NEW o \in Operations
  PROVE  /\ ops[o] \in Operation /\ OperationOK(ops[o])
         /\ ops[o].prev.control \in { "running", "paused" }
BY DEF TypesInv, Types, OperationTypes, OperationOK, Operation

\* The operation stands still: the process may take a drain for a pause.
LEMMA ControlSame ==
  ASSUME TypesInv, NEW o \in Operations, SameWork(ops[o], ops'[o]), ControlOf(o),
         \/ ctl'.state = ctl.state /\ want' = want
         \/ /\ ctl.state = "draining" /\ ctl'.state = "paused"
            /\ want' = IF want = "draining" THEN "paused" ELSE want
  PROVE  ControlOf(o)'
<1> DEFINE op == ops[o]  t == ops'[o]
<1>1. /\ Works(t) <=> Works(op)
      /\ Captures(t) <=> Captures(op)
      /\ PutsControlBack(t) <=> PutsControlBack(op)
  BY SamePoint
<1>2. /\ t.units = op.units /\ t.prev = op.prev /\ t.todo = op.todo /\ t.kind = op.kind
      /\ t.outcome = op.outcome /\ t.handling = op.handling /\ t.migrated = op.migrated
  BY DEF SameWork
<1>3. op.prev.control \in { "running", "paused" } BY PreviousControl
<1>4. \A step : Has(t, step) <=> Has(op, step) BY <1>2 DEF Has
<1>5. ctl.state = want => ctl'.state = want' OBVIOUS
<1>6. Returned(o) => Returned(o)' BY <1>2, <1>5 DEF Returned
<1>7. want = op.prev.control => want' = want BY <1>3
<1> HIDE DEF op, t
<1>8. ControlUntouched(o)' BY <1>1, <1>2, <1>5 DEF ControlOf, ControlUntouched, op, t
<1>9. ControlCaptured(o)'
  BY <1>1, <1>2, <1>4, <1>7 DEF ControlOf, ControlCaptured, op, t
<1>10. ControlBack(o)' BY <1>1, <1>4, <1>6 DEF ControlOf, ControlBack, op, t
<1>11. ControlOfUpdate(o)'
  BY <1>1, <1>2, <1>4, <1>5 DEF ControlOf, ControlOfUpdate, op, t
<1> QED BY <1>8, <1>9, <1>10, <1>11 DEF ControlOf

\* What was captured is what is put back.
LEMMA ControlAtCapture ==
  ASSUME TypesInv, NEW o \in Operations, CaptureStep(o), ctl.state = want
  PROVE  ControlOf(o)'
<1> DEFINE op == ops[o]  t == ops'[o]
<1>1. /\ UNCHANGED << ctl, want >> /\ ~t.handling /\ ~t.migrated /\ t.units = op.units
      /\ Works(t) \/ Ends(t)
  BY DEF CaptureStep, supVars
<1>2. "supervisor" \in t.units /\ (Works(t) \/ t.todo = EndSteps) => want = t.prev.control
  <2>1. CASE Ends(t) /\ t.todo = << "record" >>
    BY <2>1, LastSteps DEF Works, Ends
  <2>2. CASE t.prev.control = IF "supervisor" \in op.units THEN ctl.state ELSE "running"
    BY <1>1, <2>2
  <2> QED BY <2>1, <2>2 DEF CaptureStep
<1>3. ~Captures(t)
  <2>1. t \in Operation BY DEF CaptureStep, OperationOK
  <2>2. CASE Works(t)
    <3>1. Head(t.todo) \in Whole(t) BY <2>1, <2>2, WorkSteps
    <3>2. Captures(t) => Head(t.todo) = "capture_service_state" BY DEF Captures
    <3> QED BY <2>1, <2>2, <3>1, <3>2, WholeSteps
  <2>3. CASE Ends(t) BY <2>3 DEF Ends, Captures
  <2> QED BY <1>1, <2>2, <2>3
<1>4. Has(t, "finally") => Works(t) \/ t.todo = EndSteps
  BY <1>1, LastSteps DEF Ends, EndSteps, Has
<1> HIDE DEF t
<1>5. ControlUntouched(o)' /\ Returned(o)' /\ ControlOfUpdate(o)'
  BY <1>1 DEF ControlUntouched, ControlOfUpdate, Returned, t
<1>6. ControlCaptured(o)' BY <1>1, <1>2, <1>4 DEF ControlCaptured, t
<1>7. ControlBack(o)' BY <1>5 DEF ControlBack
<1> QED BY <1>5, <1>6, <1>7 DEF ControlOf

\* A drain.
LEMMA ControlAtDrain ==
  ASSUME TypesInv, NEW o \in Operations, DrainStep(o), ControlOf(o)
  PROVE  ControlOf(o)'
<1> DEFINE op == ops[o]  t == ops'[o]
<1>1. /\ op \in Operation /\ OperationOK(op) /\ Works(op) /\ Head(op.todo) = "drain"
      /\ t \in Operation /\ SameJob(op, t) /\ want' = want
      /\ t.handling = op.handling /\ t.migrated = op.migrated
  BY DEF DrainStep, OperationOK, TypesInv, Types, OperationTypes
<1>2. "drain" \in Whole(op) /\ Has(op, "drain") BY <1>1, WorkSteps DEF Has
<1>3. "supervisor" \in op.units
  BY <1>1, <1>2, SupervisorUnits DEF SupervisorSteps, Stopping
<1>4. want = op.prev.control BY <1>1, <1>3 DEF ControlOf, ControlCaptured
<1>5. ~op.migrated
  <2>1. ASSUME op.migrated PROVE FALSE
    <3>1. op.kind = "git_update" /\ ~op.handling BY <2>1 DEF ControlOf, ControlOfUpdate
    <3>2. Rank["drain"] > Rank["upgrade_database"]
      BY <1>1, <1>2, <2>1, <3>1 DEF ControlOf, ControlOfUpdate, Has
    <3> QED BY <3>2, Ranks
  <2> QED BY <2>1
<1>6. \/ Works(t) /\ ToSet(op.todo) \ Stopping \subseteq ToSet(t.todo)
      \/ Ends(t) /\ t.todo = EndSteps
  <2>1. "drain" \in Stopping BY DEF Stopping
  <2> QED BY <2>1 DEF DrainStep
<1>7. /\ t.units = op.units /\ t.prev = op.prev /\ t.kind = op.kind
      /\ PutsControlBack(t) /\ ~Captures(t)
  <2>1. ~Captures(t)
    <3>1. CASE Works(t)
      <4>1. Head(t.todo) \in Whole(t) BY <1>1, <3>1, WorkSteps
      <4>2. Captures(t) => Head(t.todo) = "capture_service_state" BY DEF Captures
      <4> QED BY <1>1, <3>1, <4>1, <4>2, WholeSteps
    <3>2. CASE Ends(t) BY <3>2 DEF Ends, Captures
    <3> QED BY <1>6, <3>1, <3>2
  <2> QED BY <1>1, <1>3, <1>5, <2>1 DEF SameJob, PutsControlBack
<1>8. Works(t) => ~Has(t, "record")
  <2>1. Works(t) => ToSet(t.todo) \subseteq Whole(t) BY <1>1, WorkSteps
  <2> QED BY <1>1, <2>1, WholeSteps DEF Has
<1>9. op.kind = "git_update" /\ ~op.handling /\ Works(t) =>
        Has(t, "restore_previous_control_state")
  <2>1. op.kind = "git_update" /\ ~op.handling =>
          Has(op, "restore_previous_control_state")
    BY <1>1, UpdatePutsBack
  <2>2. Ends(t) => ~Works(t) BY DEF Ends, Works
  <2> QED BY <1>6, <2>1, <2>2 DEF Has, Stopping
<1>10. t.todo = EndSteps => Has(t, "finally") BY LastSteps DEF Has
<1> HIDE DEF t
<1>11. ControlUntouched(o)' BY <1>3, <1>7 DEF ControlUntouched, t
<1>12. ControlCaptured(o)' BY <1>1, <1>4, <1>7 DEF ControlCaptured, t
<1>13. ControlBack(o)' BY <1>6, <1>7, <1>8, <1>10 DEF ControlBack, t
<1>14. ControlOfUpdate(o)' BY <1>1, <1>5, <1>7, <1>9 DEF ControlOfUpdate, t
<1> QED BY <1>11, <1>12, <1>13, <1>14 DEF ControlOf

\* A step of a program.
LEMMA ControlAtMiddle ==
  ASSUME TypesInv, NEW o \in Operations, NEW how, MiddleStep(o, how), ControlOf(o)
  PROVE  ControlOf(o)'
<1> DEFINE op == ops[o]  t == ops'[o]  step == Head(op.todo)
<1>1. /\ op \in Operation /\ OperationOK(op) /\ Works(op) /\ want' = want
      /\ t \in Operation /\ OperationOK(t) /\ SameJob(op, t)
      /\ how \in { "advance", "fail", "cancel" }
      /\ how = "advance" => Advances(op, t)
      /\ how = "fail" => FailsTo(op, t)
      /\ how = "cancel" => step = "wait_for_supervisor_exit" /\ Cancels(op, t)
      /\ op.migrated => t.migrated
      /\ t.migrated => op.migrated \/ step = "upgrade_database"
  <2>1. /\ op \in Operation /\ OperationOK(op)
    BY DEF TypesInv, Types, OperationTypes, MiddleStep
  <2>2. t \in Operation BY DEF MiddleStep, OperationOK
  <2> QED BY <2>1, <2>2 DEF MiddleStep
<1>2. /\ step \in Whole(op) /\ Has(op, step)
      /\ \A x \in ToSet(op.todo) \ { step } : Rank[step] < Rank[x]
  BY <1>1, WorkSteps DEF Has
<1>3. /\ t.units = op.units /\ t.prev = op.prev /\ t.kind = op.kind
  BY <1>1 DEF SameJob
<1>4. step \in SupervisorSteps => "supervisor" \in op.units
  BY <1>1, <1>2, SupervisorUnits
<1>5. "supervisor" \in op.units => want = op.prev.control
  BY <1>1 DEF ControlOf, ControlCaptured
<1>6. /\ step \notin { "start_supervisor", "restore_previous_control_state",
                       "wait_for_supervisor_exit" } => ctl'.state = ctl.state
      /\ step = "restore_previous_control_state" => ctl'.state = op.prev.control
  BY DEF MiddleStep
<1>7. "supervisor" \notin op.units => ctl'.state = want'
  BY <1>1, <1>4, <1>6
     DEF ControlOf, ControlUntouched, SupervisorSteps, Stopping, Starting
\* What t is.
<1>8. \/ Works(t) /\ ~Has(t, "finally") /\ ~Has(t, "record")
      \/ Ends(t) /\ ~Works(t) /\ t.todo = EndSteps /\ Has(t, "finally")
  <2>1. Works(t) \/ (Ends(t) /\ t.todo = EndSteps)
    BY <1>1 DEF Advances, FailsTo, Cancels
  <2>2. Works(t) => ToSet(t.todo) \subseteq Whole(t) BY <1>1, WorkSteps
  <2>3. Works(t) => ~Has(t, "finally") /\ ~Has(t, "record")
    BY <1>1, <2>2, WholeSteps DEF Has
  <2>4. Ends(t) => ~Works(t) BY DEF Ends, Works
  <2> QED BY <2>1, <2>3, <2>4, LastSteps DEF Has
<1>9. ~Captures(t) /\ (Ends(t) => ~Works(t))
  <2>1. CASE Works(t)
    <3>1. Head(t.todo) \in Whole(t) BY <1>1, <2>1, WorkSteps
    <3>2. Captures(t) => Head(t.todo) = "capture_service_state" BY DEF Captures
    <3> QED BY <1>1, <2>1, <3>1, <3>2, WholeSteps DEF Ends, Works
  <2>2. CASE Ends(t) BY <2>2 DEF Ends, Captures, Works
  <2> QED BY <1>8, <2>1, <2>2
\* A migration.
<1>10. t.migrated => op.kind = "git_update" /\ ~op.handling
  <2>1. step = "upgrade_database" => op.kind = "git_update" /\ ~op.handling
    BY <1>1, <1>2, WholeSteps
  <2> QED BY <1>1, <2>1 DEF ControlOf, ControlOfUpdate
<1>11. t.migrated => /\ Rank[step] \in { Rank["upgrade_database"] } \/
                          Rank[step] > Rank["upgrade_database"]
                     /\ \A x \in ToSet(op.todo) \ { step } :
                          Rank[x] > Rank["upgrade_database"]
  <2>1. op.migrated => \A x \in ToSet(op.todo) : Rank[x] > Rank["upgrade_database"]
    BY <1>1, <1>10 DEF ControlOf, ControlOfUpdate
  <2> QED BY <1>1, <1>2, <2>1 DEF Has
<1>12. t.migrated => step \notin { "drain", "wait_for_supervisor_exit" }
  BY <1>11, Ranks
\* The main part of an update.
<1>13. op.kind = "git_update" /\ ~op.handling =>
         \/ step = "restore_previous_control_state" /\ ctl'.state = want'
         \/ /\ step # "restore_previous_control_state"
            /\ Has(op, "restore_previous_control_state")
         \/ ctl'.state = want'
  <2>1. ASSUME op.kind = "git_update", ~op.handling,
               step \in { "start_supervisor", "wait_for_supervisor_exit" }
        PROVE  Has(op, "restore_previous_control_state")
    BY <1>1, <2>1, UpdatePutsBack
  <2>2. step = "restore_previous_control_state" => ctl'.state = want'
    BY <1>1, <1>4, <1>5, <1>6 DEF SupervisorSteps, Starting
  <2>3. op.kind = "git_update" /\ ~op.handling =>
          ctl.state = want \/ Has(op, "restore_previous_control_state")
    BY <1>1 DEF ControlOf, ControlOfUpdate
  <2> QED BY <1>1, <1>6, <2>1, <2>2, <2>3
<1>14. Works(t) /\ ~t.handling => how = "advance" /\ ~op.handling
           /\ ToSet(t.todo) = ToSet(op.todo) \ { step }
  BY <1>1, <1>9 DEF Advances, FailsTo, Cancels
<1>15. t.migrated => ~t.handling
  <2>1. ASSUME t.migrated, t.handling PROVE FALSE
    <3>1. op.kind = "git_update" /\ ~op.handling BY <1>10, <2>1
    <3>2. t.todo = Rollback(t) /\ Rollback(t) # << >>
      BY <1>1, <2>1, <3>1 DEF Advances, FailsTo, Cancels
    <3>3. t.kind = "git_update" BY <1>3, <3>1
    <3>4. Rollback(t) = << >> BY <2>1, <3>3 DEF Rollback
    <3> QED BY <3>2, <3>4
  <2> QED BY <2>1
<1>16. Ends(t) => PutsControlBack(t) \/ Returned(o)'
  <2> SUFFICES ASSUME Ends(t), ~PutsControlBack(t) PROVE Returned(o)'
    OBVIOUS
  <2>1. CASE "supervisor" \notin op.units BY <1>7, <2>1 DEF Returned
  <2>2. CASE "supervisor" \in op.units
    <3>1. t.kind = "git_update" /\ t.migrated
      BY <1>3, <2>2 DEF PutsControlBack
    <3>2. op.kind = "git_update" /\ ~op.handling BY <1>10, <3>1
    <3>3. CASE t.outcome = "failed" BY <3>1, <3>3 DEF Returned
    <3>4. CASE t.outcome # "failed"
      <4>1. how = "advance" /\ ToSet(op.todo) = { step }
        <5>1. how # "cancel" BY <1>1, <1>12, <3>1
        <5>2. how # "fail" BY <1>1, <1>9, <3>4 DEF FailsTo
        <5>3. how = "advance" BY <1>1, <5>1, <5>2
        <5> QED BY <1>1, <1>9, <5>3 DEF Advances
      <4>2. ctl'.state = want' BY <1>13, <3>2, <4>1 DEF Has
      <4> QED BY <4>2 DEF Returned
    <3> QED BY <3>3, <3>4
  <2> QED BY <2>1, <2>2
<1>17. Works(t) /\ ~t.handling /\ op.kind = "git_update" =>
         /\ ctl'.state = want' \/ Has(t, "restore_previous_control_state")
         /\ t.migrated => \A x \in ToSet(t.todo) : Rank[x] > Rank["upgrade_database"]
  BY <1>11, <1>13, <1>14 DEF Has
<1> HIDE DEF t, step
<1>18. ControlUntouched(o)' BY <1>3, <1>7, <1>9 DEF ControlUntouched, t
<1>19. ControlCaptured(o)' BY <1>1, <1>3, <1>5 DEF ControlCaptured, t
<1>20. ControlBack(o)' BY <1>8, <1>16 DEF ControlBack, t
<1>21. ControlOfUpdate(o)'
  BY <1>3, <1>10, <1>15, <1>17 DEF ControlOfUpdate, t
<1> QED BY <1>18, <1>19, <1>20, <1>21 DEF ControlOf

\* The last step but one.
LEMMA ControlAtFinally ==
  ASSUME TypesInv, NEW o \in Operations, FinallyStep(o), ControlOf(o)
  PROVE  ControlOf(o)'
<1> DEFINE op == ops[o]  t == ops'[o]
<1>1. /\ Ends(op) /\ op.todo = EndSteps /\ SameJob(op, t) /\ want' = want
      /\ Ends(t) /\ t.todo = << "record" >> /\ t.outcome = op.outcome
      /\ t.handling = op.handling /\ t.migrated = op.migrated
      /\ ctl'.state = IF PutsControlBack(op) THEN op.prev.control ELSE ctl.state
  BY DEF FinallyStep
<1>2. /\ Has(op, "finally") /\ ~Has(t, "finally") /\ ~Works(t) /\ ~Captures(t)
      /\ t.units = op.units /\ t.kind = op.kind
  BY <1>1, LastSteps DEF Has, Ends, Works, Captures, SameJob
<1>3. PutsControlBack(op) => ctl'.state = want'
  BY <1>1, <1>2 DEF PutsControlBack, ControlOf, ControlCaptured
<1>4. Returned(o)' /\ ("supervisor" \notin op.units => ctl'.state = want')
  <2>1. CASE PutsControlBack(op) BY <1>3, <2>1 DEF Returned, PutsControlBack
  <2>2. CASE ~PutsControlBack(op)
    <3>1. Returned(o) /\ ctl'.state = ctl.state
      BY <1>1, <1>2, <2>2 DEF ControlOf, ControlBack
    <3>2. "supervisor" \notin op.units => ctl.state = want
      BY DEF ControlOf, ControlUntouched
    <3> QED BY <1>1, <3>1, <3>2 DEF Returned
  <2> QED BY <2>1, <2>2
<1>5. op.migrated => op.kind = "git_update" /\ ~op.handling
  BY DEF ControlOf, ControlOfUpdate
<1> HIDE DEF t, op
<1>6. ControlUntouched(o)' BY <1>2, <1>4 DEF ControlUntouched, t
<1>7. ControlCaptured(o)' BY <1>2 DEF ControlCaptured, t
<1>8. ControlBack(o)' BY <1>2, <1>4 DEF ControlBack, t
<1>9. ControlOfUpdate(o)' BY <1>1, <1>2, <1>5 DEF ControlOfUpdate, t
<1> QED BY <1>6, <1>7, <1>8, <1>9 DEF ControlOf

\* Steps of an operation.
LEMMA ControlOperation ==
  ASSUME TypesInv, ControlInv, NEW o \in Operations, OperationStep(o)
  PROVE  ControlInv'
<1> DEFINE op == ops[o]  t == ops'[o]
<1>1. /\ \A p \in Operations : p # o => ops'[p] = ops[p]
      /\ op.status \in { "none", "pending", "running" }
      /\ Unfinished(o) => \A p \in Operations : p # o => ~Unfinished(p)
      /\ ExecutorStep(o) => Unfinished(o)
  BY OthersKeep
<1>2. CASE Excused
  <2>1. PICK p \in Operations : \/ ops[p].status = "interrupted"
                                \/ ops[p].status = "failed" /\ ops[p].migrated
    BY <1>2 DEF Excused
  <2>2. ops'[p] = ops[p] BY <1>1, <2>1
  <2> QED BY <2>1, <2>2 DEF ControlInv, Excused
<1> SUFFICES ASSUME ~Excused PROVE ControlInv'
  BY <1>2
<1>3. /\ (\A p \in Operations : ops[p].status # "running") => ctl.state = want
      /\ \A p \in Operations : ops[p].status = "running" /\ ops[p].alive => ControlOf(p)
  BY DEF ControlInv
<1>4. ASSUME Unfinished(o), t.status = "running", t.alive => ControlOf(o)'
      PROVE  ControlInv'
  <2>1. \A p \in Operations : p # o => ops'[p].status # "running"
    BY <1>1, <1>4 DEF Unfinished
  <2> QED BY <1>4, <2>1 DEF ControlInv
<1>5. ASSUME \A p \in Operations : ops'[p].status # "running", ctl'.state = want'
      PROVE  ControlInv'
  BY <1>5 DEF ControlInv
<1>6. CASE Submitted(o)
  <2>1. /\ \A p \in Operations : ops[p].status # "running"
        /\ t.status = "pending" /\ UNCHANGED << ctl, want >>
    BY <1>6 DEF Submitted, Unfinished, Waits
  <2> QED BY <1>1, <1>3, <1>5, <2>1
<1>7. CASE Kept(o)
  <2>1. SameWork(op, t) /\ UNCHANGED << ctl, want >> /\ (t.alive => op.alive)
          /\ t.status = op.status /\ Unfinished(o)
    BY <1>7 DEF Kept, SameWork
  <2>2. CASE op.status = "running"
    <3>1. t.alive => ControlOf(o)' BY <1>3, <2>1, <2>2, ControlSame
    <3> QED BY <1>4, <2>1, <2>2, <3>1
  <2>3. CASE op.status # "running"
    <3>1. \A p \in Operations : ops'[p].status # "running" /\ ops[p].status # "running"
      BY <1>1, <2>1, <2>3 DEF Unfinished
    <3> QED BY <1>3, <1>5, <2>1, <3>1
  <2> QED BY <2>2, <2>3
<1>8. CASE IsInterrupted(o)
  <2>1. t = Closed(op, "interrupted") BY <1>8 DEF IsInterrupted
  <2> HIDE DEF t
  <2>2. t.status = "interrupted" BY <2>1 DEF Closed, NoOperation
  <2> QED BY <2>2 DEF ControlInv, Excused, t
<1>9. CASE Begun(o)
  <2>1. /\ op.status = "pending" /\ Captures(t) /\ t.status = "running"
        /\ UNCHANGED << ctl, want >>
    BY <1>9 DEF Begun, Waits, Captures
  <2>2. ctl.state = want
    BY <1>1, <1>3, <2>1 DEF Unfinished
  <2>3. /\ t.todo = << "capture_service_state" >> /\ ~t.migrated /\ ~t.handling
    BY <2>1 DEF Captures, Untouched
  <2>4. ToSet(t.todo) = { "capture_service_state" }
    <3>1. "capture_service_state" \in Steps BY DEF Rank, Steps
    <3>2. ToSet(<< "capture_service_state" >>) = { "capture_service_state" }
      BY <3>1, Parts DEF Ordered
    <3> QED BY <2>3, <3>2
  <2>5. t \in Operation BY <1>9 DEF Begun
  <2>6. ~Works(t)
    <3>1. Works(t) => ToSet(t.todo) \subseteq Whole(t) BY <2>5, WorkSteps
    <3> QED BY <2>4, <2>5, <3>1, WholeSteps
  <2> HIDE DEF t
  <2>7. ControlOf(o)'
    BY <2>1, <2>2, <2>3, <2>4, <2>6
       DEF ControlOf, ControlUntouched, ControlCaptured, ControlBack, ControlOfUpdate,
           Has, t
  <2> QED BY <1>4, <2>1, <2>7 DEF Unfinished, t
<1>10. ASSUME CaptureStep(o) \/ DrainStep(o) \/ FinallyStep(o)
                \/ \E how : MiddleStep(o, how)
       PROVE  ControlInv'
  <2>1. op.status = "running" /\ op.alive /\ Unfinished(o)
    BY <1>10 DEF CaptureStep, DrainStep, FinallyStep, MiddleStep, Captures, Works, Ends,
                 Unfinished
  <2>2. t.status = "running"
    BY <1>10, <2>1 DEF CaptureStep, DrainStep, FinallyStep, MiddleStep, SameJob
  <2>3. ControlOf(o) BY <1>3, <2>1
  <2>4. ControlOf(o)'
    <3>1. CASE CaptureStep(o)
      <4>1. ctl.state = want BY <2>3, <3>1 DEF CaptureStep, ControlOf, ControlUntouched
      <4> QED BY <3>1, <4>1, ControlAtCapture
    <3>2. CASE DrainStep(o) BY <2>3, <3>2, ControlAtDrain
    <3>3. CASE FinallyStep(o) BY <2>3, <3>3, ControlAtFinally
    <3>4. CASE \E how : MiddleStep(o, how) BY <2>3, <3>4, ControlAtMiddle
    <3> QED BY <1>10, <3>1, <3>2, <3>3, <3>4
  <2> QED BY <1>4, <2>1, <2>2, <2>4
<1>11. CASE RecordStep(o)
  <2>1. /\ op.alive /\ Ends(op) /\ op.todo = << "record" >> /\ t = Closed(op, op.outcome)
        /\ op.outcome \in Terminal /\ UNCHANGED << ctl, want >>
        /\ op.status = "running"
    BY <1>11 DEF RecordStep, supVars, Ends
  <2>2. Returned(o)
    BY <1>3, <2>1, LastSteps DEF ControlOf, ControlBack, Has
  <2> HIDE DEF t
  <2>3. t.status = op.outcome /\ t.migrated = op.migrated
    BY <2>1 DEF Closed, NoOperation
  <2>4. CASE ctl.state = want
    <3>1. \A p \in Operations : p # o => ops'[p].status # "running"
      BY <1>1, <2>1 DEF Unfinished
    <3>2. t.status # "running" BY <2>1, <2>3 DEF Terminal
    <3> QED BY <1>5, <2>1, <2>4, <3>1, <3>2 DEF t
  <2>5. CASE op.outcome = "failed" /\ op.migrated
    BY <2>3, <2>5 DEF ControlInv, Excused, t
  <2> QED BY <2>2, <2>4, <2>5 DEF Returned
<1> QED BY <1>6, <1>7, <1>8, <1>9, <1>10, <1>11 DEF OperationStep, ExecutorStep

\* Every step.
LEMMA ControlNext == TypesInv /\ ControlInv /\ [Next]_vars => ControlInv'
<1> SUFFICES ASSUME TypesInv, ControlInv, [Next]_vars PROVE ControlInv'
  OBVIOUS
<1>1. ASSUME UNCHANGED ops,
             \/ ctl'.state = ctl.state /\ want' = want
             \/ /\ ctl.state = "draining" /\ ctl'.state = "paused"
                /\ want' = IF want = "draining" THEN "paused" ELSE want
      PROVE  ControlInv'
  <2>1. Excused => Excused' BY <1>1 DEF Excused
  <2>2. ASSUME NEW o \in Operations, ControlOf(o) PROVE ControlOf(o)'
    <3>1. SameWork(ops[o], ops'[o]) BY <1>1 DEF SameWork
    <3> QED BY <1>1, <2>2, <3>1, ControlSame
  <2>3. ctl.state = want => ctl'.state = want' BY <1>1
  <2> QED BY <1>1, <2>1, <2>2, <2>3 DEF ControlInv
<1>2. CASE ProcessMoves
  BY <1>1, <1>2 DEF ProcessMoves, ProcessFrame, mgmtVars
<1>3. CASE UnitRestarts \/ Checked \/ Edits
  <2>1. UNCHANGED << ops, want >> /\ ctl'.state = ctl.state
    BY <1>3 DEF UnitRestarts, Checked, Edits, mgmtVars
  <2> QED BY <1>1, <2>1
<1>4. CASE Written
  BY <1>4 DEF Written, ControlInv, Excused, Unfinished
<1>5. ASSUME NEW o \in Operations, OperationStep(o) PROVE ControlInv'
  BY <1>5, ControlOperation
<1> QED BY <1>2, <1>3, <1>4, <1>5, StepCases

\* However it ends, an operation returns the control state the operator has
\* asked for: what is captured is what the operator asked for, it is put back at
\* the end, and nothing but a drain touches it in between.
THEOREM ControlStateReturned == Spec => []ControlReturned
<1>1. Init => ControlInv
  BY DEF Init, SupervisorInit, NoOperation, ControlInv
<1>2. ControlInv => ControlReturned BY DEF ControlInv, ControlReturned, Excused
<1> QED BY <1>1, <1>2, ControlNext, TypesHold, PTL DEF Spec

(***************************************************************************)
(* The configuration.                                                      *)
(***************************************************************************)
\* The programs of a change of configuration.
LEMMA ChangeSteps ==
  ASSUME NEW op, op \in Operation, Works(op), op.kind = "apply_config"
  PROVE  /\ ~op.handling /\ op.prev.supervisor => "start_supervisor" \in Whole(op)
         /\ ~op.handling /\ "start_supervisor" \in Whole(op) => op.prev.supervisor
         /\ ~op.handling /\ op.prev.supervisor /\ "supervisor" \in op.units
              => "wait_for_supervisor_exit" \in Whole(op)
         /\ ~op.handling => "record_intent" \in Whole(op)
         /\ op.handling => /\ "restore_configuration" \in Whole(op)
                           /\ \A x \in Whole(op) : x # "restore_configuration"
                                => Rank[x] > Rank["restore_configuration"]
<1>1. Whole(op) = IF op.handling THEN RollbackSet(op) ELSE ProgramSet(op)
  BY WorkSteps
<1>2. ~op.handling => Whole(op) = StopsSet(op)
           \cup { "record_intent", "publish_configuration" }
           \cup RestoreSet(op) \cup { "publish_management_configuration" }
  BY <1>1 DEF ProgramSet
<1>3. op.handling => Whole(op) = { "restore_configuration", "record_restored" }
                                   \cup StopsSet(op) \cup RestoreSet(op)
  BY <1>1 DEF RollbackSet
<1>4. /\ \A x \in StopsSet(op) : Rank[x] \in 5..7
      /\ \A x \in RestoreSet(op) : Rank[x] \in 15..19
  BY Ranks DEF StopsSet, RestoreSet, Only, Stopping, Starting
<1>5. op.handling => \A x \in Whole(op) : x # "restore_configuration"
                           => Rank[x] > Rank["restore_configuration"]
  BY <1>3, <1>4, Ranks
<1>6. /\ op.prev.supervisor => "start_supervisor" \in RestoreSet(op)
      /\ "start_supervisor" \in RestoreSet(op) => op.prev.supervisor
      /\ op.prev.supervisor /\ "supervisor" \in op.units
           => "wait_for_supervisor_exit" \in StopsSet(op)
      /\ "start_supervisor" \notin StopsSet(op)
  BY DEF StopsSet, RestoreSet, Only, Stopping, Starting
<1> QED BY <1>2, <1>3, <1>5, <1>6

\* Undoing a change begins with its configuration.
LEMMA RollbackRestores ==
  ASSUME NEW op, op \in Operation, op.kind = "apply_config"
  PROVE  Rollback(op) # << >> /\ "restore_configuration" \in ToSet(Rollback(op))
<1>1. "restore_configuration" \in ToSet(Rollback(op))
  BY RollbackOrdered DEF Ordered, RollbackSet
<1>2. ToSet(<< >>) = { } BY OrderedIf, Parts DEF ToSet
<1> QED BY <1>1, <1>2

\* An operation whose configuration is live, and that works, is beyond its
\* publication; undoing it has not begun, or restoring is its next step.
LEMMA BeyondPublication ==
  ASSUME TypesInv, LiveInv, live \in Operations, Works(ops[live])
  PROVE  /\ ops[live].kind = "apply_config" /\ ops[live].applied /\ ~ops[live].restored
         /\ ops[live].handling => Head(ops[live].todo) = "restore_configuration"
         /\ ~ops[live].handling =>
              /\ \A x \in ToSet(ops[live].todo) : Rank[x] > 9
              /\ Rank[Head(ops[live].todo)] > 9
<1> DEFINE op == ops[live]
<1>1. op \in Operation /\ op.status = "running"
  BY DEF TypesInv, Types, OperationTypes, Works
<1>2. /\ op.kind = "apply_config" /\ op.applied /\ ~op.restored
      /\ IF op.handling THEN Has(op, "restore_configuration")
         ELSE \A x \in ToSet(op.todo) : Rank[x] > Rank["publish_configuration"]
  BY <1>1 DEF LiveInv
<1>3. /\ Head(op.todo) \in ToSet(op.todo) /\ Head(op.todo) \in Whole(op)
      /\ ToSet(op.todo) \subseteq Steps
      /\ \A x \in ToSet(op.todo) \ { Head(op.todo) } : Rank[Head(op.todo)] < Rank[x]
  BY <1>1, WorkSteps
<1>4. ASSUME op.handling PROVE Head(op.todo) = "restore_configuration"
  <2>1. ASSUME Head(op.todo) # "restore_configuration" PROVE FALSE
    <3>1. Rank[Head(op.todo)] < Rank["restore_configuration"]
      BY <1>2, <1>3, <1>4, <2>1 DEF Has
    <3>2. Rank[Head(op.todo)] > Rank["restore_configuration"]
      BY <1>1, <1>2, <1>3, <1>4, <2>1, ChangeSteps
    <3>3. Rank[Head(op.todo)] \in Nat BY <1>3, RankIsNat
    <3> QED BY <3>1, <3>2, <3>3, Ranks
  <2> QED BY <2>1
<1> QED BY <1>2, <1>3, <1>4, Ranks

\* Who is unfinished is no operation one may go back to.
LEMMA OriginalIsOver ==
  ASSUME TypesInv, OrigInv, NEW o \in Operations, Unfinished(o)
  PROVE  /\ ops[o].orig \in Operations =>
              /\ ops[o].orig # o /\ ops[ops[o].orig].status = "succeeded"
              /\ ops[ops[o].orig].kind = "apply_config"
BY DEF OrigInv, Unfinished

\* The live configuration: an operation's step.
LEMMA LiveOperation ==
  ASSUME TypesInv, LiveInv, OrigInv, NEW o \in Operations, OperationStep(o)
  PROVE  LiveInv'
<1> DEFINE op == ops[o]  t == ops'[o]
           fits(q) == /\ q.kind = "apply_config" /\ q.status \in { "running", "succeeded" }
                      /\ q.status = "running" =>
                         /\ q.applied /\ ~q.restored /\ q.outcome \in { "none", "succeeded" }
                         /\ Works(q) =>
                              IF q.handling THEN Has(q, "restore_configuration")
                              ELSE \A x \in ToSet(q.todo) :
                                     Rank[x] > Rank["publish_configuration"]
<1>1. /\ \A p \in Operations : p # o => ops'[p] = ops[p]
      /\ op \in Operation /\ OperationOK(op) /\ LockInv
  BY OthersKeep DEF TypesInv, Types, OperationTypes
<1>2. live = o => fits(op) BY DEF LiveInv
<1>3. ASSUME \/ live' \notin Operations
             \/ live' = live
             \/ live' = o
             \/ live' = op.orig /\ Unfinished(o),
             live' = o => fits(t)
      PROVE  LiveInv'
  <2>1. ASSUME NEW p \in Operations, p # o, live' = p PROVE fits(ops'[p])
    <3>1. CASE live' = live BY <1>1, <2>1, <3>1 DEF LiveInv
    <3>2. CASE live' = op.orig /\ Unfinished(o)
      BY <1>1, <2>1, <3>2, OriginalIsOver
    <3> QED BY <1>3, <2>1, <3>1, <3>2
  <2> QED BY <1>3, <2>1 DEF LiveInv
<1>4. CASE Submitted(o)
  <2>1. live' = live /\ op.status = "none" BY <1>4 DEF Submitted
  <2>2. live # o BY <1>2, <2>1
  <2> QED BY <1>3, <2>1, <2>2
<1>5. CASE Kept(o)
  <2>1. SameWork(op, t) /\ live' = live BY <1>5 DEF Kept
  <2>2. fits(op) => fits(t) BY <2>1, SamePoint DEF SameWork, Has
  <2> QED BY <1>2, <1>3, <2>1, <2>2
<1>6. CASE IsInterrupted(o)
  <2>1. /\ Unfinished(o) /\ live' = IF NothingToRestore(op) THEN live ELSE op.orig
    BY <1>6 DEF IsInterrupted
  <2>2. live = o => ~NothingToRestore(op)
    BY <1>2, <2>1 DEF NothingToRestore, Unfinished
  <2>3. op.orig # o BY <2>1, OriginalIsOver
  <2> QED BY <1>3, <2>1, <2>2, <2>3
<1>7. CASE Begun(o)
  <2>1. live' = live /\ op.status = "pending" BY <1>7 DEF Begun, Waits
  <2> QED BY <1>2, <1>3, <2>1
<1>8. CASE CaptureStep(o)
  <2>1. live' = live /\ op.status = "running" /\ ~op.applied
    BY <1>8 DEF CaptureStep, Captures, Untouched
  <2> QED BY <1>2, <1>3, <2>1
<1>9. CASE DrainStep(o)
  <2>1. live' = live /\ Works(op) /\ Head(op.todo) = "drain" BY <1>9 DEF DrainStep
  <2>2. live # o BY <2>1, BeyondPublication, Ranks
  <2> QED BY <1>3, <2>1, <2>2
<1>10. CASE FinallyStep(o)
  <2>1. /\ live' = live /\ Ends(t) /\ SameJob(op, t) /\ t.applied = op.applied
        /\ t.restored = op.restored /\ t.outcome = op.outcome
    BY <1>10 DEF FinallyStep
  <2>2. ~Works(t) BY <2>1 DEF Ends, Works
  <2>3. fits(op) => fits(t) BY <2>1, <2>2 DEF SameJob
  <2> QED BY <1>2, <1>3, <2>1, <2>3
<1>11. CASE RecordStep(o)
  <2>1. live' = live /\ Ends(op) /\ t = Closed(op, op.outcome)
    BY <1>11 DEF RecordStep
  <2> HIDE DEF t
  <2>2. t.kind = op.kind /\ t.status = op.outcome BY <2>1 DEF Closed, NoOperation
  <2>3. live = o => t.kind = "apply_config" /\ t.status = "succeeded"
    BY <1>2, <2>1, <2>2 DEF Ends
  <2> QED BY <1>3, <2>1, <2>3 DEF t
<1>12. ASSUME NEW how, MiddleStep(o, how) PROVE LiveInv'
  <2> DEFINE step == Head(op.todo)
  <2>1. /\ Works(op) /\ SameJob(op, t) /\ OperationOK(t) /\ t \in Operation
        /\ op.status = "running" /\ t.status = "running" /\ Unfinished(o)
        /\ how \in { "advance", "fail", "cancel" }
        /\ how = "advance" => Advances(op, t)
        /\ how = "fail" => FailsTo(op, t)
        /\ how = "cancel" => step = "wait_for_supervisor_exit"
        /\ t.applied = op.applied \/ (step = "record_intent" /\ t.applied)
        /\ t.restored = op.restored \/ step = "record_restored"
        /\ t.kind = op.kind
    BY <1>12 DEF MiddleStep, OperationOK, Works, SameJob, Unfinished
  <2>2. /\ step \in Whole(op) /\ step \in ToSet(op.todo)
        /\ \A x \in ToSet(op.todo) \ { step } : Rank[step] < Rank[x]
    BY <1>1, <2>1, WorkSteps
  <2>3. CASE step = "publish_configuration"
    <3>1. live' = o /\ how = "advance" BY <1>12, <2>3 DEF MiddleStep
    <3>2. op.kind = "apply_config" /\ ~op.handling
      BY <1>1, <2>1, <2>2, <2>3, WholeSteps
    <3>3. op.applied
      <4>1. ~Has(op, "record_intent") BY <2>2, <2>3, Ranks DEF Has
      <4> QED BY <2>1, <2>2, <2>3, <4>1 DEF OrigInv, Has
    <3>4. t.applied /\ ~t.restored
      BY <2>1, <2>3, <3>2, <3>3 DEF OrigInv
    <3>5. /\ Advances(op, t) /\ ~t.handling /\ t.outcome \in { "none", "succeeded" }
      BY <2>1, <3>1, <3>2 DEF Advances, Works
    <3>6. Works(t) => \A x \in ToSet(t.todo) : Rank[x] > Rank["publish_configuration"]
      <4>1. Ends(t) => ~Works(t) BY DEF Ends, Works
      <4>2. Works(t) => ToSet(t.todo) = ToSet(op.todo) \ { step }
        BY <3>5, <4>1 DEF Advances
      <4> QED BY <2>2, <2>3, <4>2
    <3> HIDE DEF t
    <3>7. fits(t) BY <2>1, <3>2, <3>4, <3>5, <3>6
    <3> QED BY <1>3, <3>1, <3>7
  <2>4. CASE step = "restore_configuration"
    <3>1. \/ RestoreRefused(o) /\ live' = live
          \/ ~RestoreRefused(o) /\ live' = IF NothingToRestore(op) THEN live ELSE op.orig
      BY <1>12, <2>4 DEF MiddleStep
    <3>2. live = o => ~NothingToRestore(op)
      BY <2>1, BeyondPublication DEF NothingToRestore
    <3>3. op.orig # o BY <2>1, OriginalIsOver
    <3>4. live' # o BY <3>1, <3>2, <3>3 DEF RestoreRefused
    <3> QED BY <1>3, <2>1, <3>1, <3>4
  <2>5. CASE step \notin { "publish_configuration", "restore_configuration" }
    <3>1. live' = live BY <1>12, <2>5 DEF MiddleStep
    <3>2. ASSUME live = o PROVE fits(t)
      <4>1. /\ ~op.handling /\ op.kind = "apply_config" /\ op.applied /\ ~op.restored
            /\ \A x \in ToSet(op.todo) : Rank[x] > 9
        BY <2>1, <2>5, <3>2, BeyondPublication
      <4>2. how # "cancel" BY <2>1, <2>2, <4>1, Ranks
      <4>3. t.applied /\ ~t.restored
        <5>1. step # "record_restored" BY <2>2, <4>1, Ranks
        <5> QED BY <2>1, <4>1, <5>1
      <4>4. Ends(t) => ~Works(t) BY DEF Ends, Works
      <4>5. CASE how = "advance"
        <5>1. ~t.handling /\ t.outcome \in { "none", "succeeded" }
          BY <2>1, <4>1, <4>5 DEF Advances, Works
        <5>2. Works(t) => \A x \in ToSet(t.todo) : Rank[x] > Rank["publish_configuration"]
          BY <2>1, <4>1, <4>4, <4>5, Ranks DEF Advances
        <5> HIDE DEF t
        <5> QED BY <2>1, <4>1, <4>3, <5>1, <5>2
      <4>6. CASE how = "fail"
        <5>1. t.kind = "apply_config" BY <2>1, <4>1
        <5>2. Rollback(t) # << >> /\ "restore_configuration" \in ToSet(Rollback(t))
          BY <2>1, <5>1, RollbackRestores
        <5>3. t.handling /\ Works(t) /\ t.todo = Rollback(t)
          BY <2>1, <4>1, <4>6, <5>2 DEF FailsTo
        <5>4. t.outcome = "none" BY <5>3 DEF Works
        <5> HIDE DEF t
        <5> QED BY <2>1, <4>3, <5>1, <5>2, <5>3, <5>4 DEF Has
      <4> QED BY <2>1, <4>2, <4>5, <4>6
    <3> QED BY <1>3, <3>1, <3>2
  <2> QED BY <2>3, <2>4, <2>5
<1> QED BY <1>4, <1>5, <1>6, <1>7, <1>8, <1>9, <1>10, <1>11, <1>12
        DEF OperationStep, ExecutorStep

\* The configuration an operation goes back to.
LEMMA OriginalOperation ==
  ASSUME TypesInv, LiveInv, OrigInv, NEW o \in Operations, OperationStep(o)
  PROVE  OrigInv'
<1> DEFINE op == ops[o]  t == ops'[o]
           own(q) == /\ q.restored => q.handling
                     /\ q.outcome = "succeeded" => ~q.handling
                     /\ Works(q) /\ Has(q, "publish_configuration")
                          => Has(q, "record_intent") \/ q.applied
           ended(p) == ops[p].status = "succeeded" /\ ops[p].kind = "apply_config"
<1>1. /\ \A p \in Operations : p # o => ops'[p] = ops[p]
      /\ op \in Operation /\ OperationOK(op) /\ op.status # "succeeded"
  BY OthersKeep DEF TypesInv, Types, OperationTypes
<1>2. own(op) BY DEF OrigInv
<1>3. ASSUME own(t),
             t.status \in { "pending", "running" } /\ t.orig \in Operations
               => ended(t.orig)
      PROVE  OrigInv'
  <2>1. \A p \in Operations : ended(p) => ops'[p] = ops[p] BY <1>1
  <2>2. ASSUME NEW p \in Operations, Unfinished(p)', ops'[p].orig \in Operations
        PROVE  ended(ops'[p].orig)
    <3>1. CASE p = o BY <1>3, <2>2, <3>1 DEF Unfinished
    <3>2. CASE p # o BY <1>1, <2>2, <3>2 DEF Unfinished, OrigInv
    <3> QED BY <3>1, <3>2
  <2>3. ASSUME NEW p \in Operations PROVE own(ops'[p])
    <3>1. CASE p = o BY <1>3, <3>1
    <3>2. CASE p # o BY <1>1, <3>2 DEF OrigInv
    <3> QED BY <3>1, <3>2
  <2> QED BY <2>1, <2>2, <2>3 DEF OrigInv
<1>4. ASSUME own(t), Unfinished(o), t.orig = op.orig PROVE OrigInv'
  BY <1>3, <1>4 DEF OrigInv, Unfinished
<1>5. CASE Submitted(o)
  <2>1. Waits(t) /\ t.orig = live /\ \A p \in Operations : ~Unfinished(p)
    BY <1>5 DEF Submitted
  <2>2. own(t) BY <2>1 DEF Waits, Untouched, Works
  <2>3. live \in Operations => ended(live) BY <2>1 DEF LiveInv, Unfinished
  <2> QED BY <1>3, <2>1, <2>2, <2>3
<1>6. CASE Kept(o)
  <2>1. Unfinished(o) /\ SameWork(op, t) BY <1>6 DEF Kept
  <2>2. own(t) BY <1>2, <2>1, SamePoint DEF SameWork, Has
  <2> QED BY <1>4, <2>1, <2>2 DEF SameWork
<1>7. CASE IsInterrupted(o) \/ RecordStep(o)
  <2>1. PICK status \in Terminal : t = Closed(op, status)
    BY <1>7 DEF IsInterrupted, RecordStep, Terminal
  <2> HIDE DEF t
  <2>2. ~t.restored /\ t.outcome = "none" /\ t.status = status
    BY <2>1 DEF Closed, NoOperation
  <2>3. own(t)
    BY <2>2, <2>1 DEF Works, Terminal
  <2> QED BY <1>3, <2>2, <2>3 DEF t, Terminal
<1>8. CASE Begun(o)
  <2>1. Captures(t) /\ t.orig = op.orig /\ Unfinished(o)
    BY <1>8 DEF Begun, Waits, Unfinished
  <2>2. own(t)
    <3>1. t \in Operation /\ t.todo = << "capture_service_state" >> /\ t.outcome = "none"
            /\ ~t.restored
      BY <1>8, <2>1 DEF Captures, Untouched, Begun
    <3>2. ~Works(t)
      <4>1. Head(t.todo) = "capture_service_state" BY <3>1
      <4> QED BY <3>1, <4>1, WorkSteps, WholeSteps
    <3> QED BY <3>1, <3>2
  <2> QED BY <1>4, <2>1, <2>2
<1>9. CASE CaptureStep(o)
  <2>1. /\ OperationOK(t) /\ t \in Operation /\ ~t.handling /\ ~t.restored
        /\ t.orig = op.orig /\ Unfinished(o)
        /\ Ends(t) \/ (Works(t) /\ t.todo = Program(t))
    BY <1>9 DEF CaptureStep, OperationOK, Captures, Unfinished
  <2>2. Works(t) /\ Has(t, "publish_configuration") => Has(t, "record_intent")
    <3>1. Ends(t) => ~Works(t) BY DEF Ends, Works
    <3>2. SUFFICES ASSUME Works(t), Has(t, "publish_configuration")
                   PROVE  Has(t, "record_intent")
      OBVIOUS
    <3>3. ToSet(t.todo) = Whole(t) BY <2>1, <3>1, <3>2 DEF Whole
    <3>4. t.kind = "apply_config"
      BY <2>1, <3>2, <3>3, WholeSteps DEF Has
    <3> QED BY <2>1, <3>2, <3>3, <3>4, ChangeSteps DEF Has
  <2>3. own(t) BY <2>1, <2>2
  <2> QED BY <1>4, <2>1, <2>3
<1>10. CASE DrainStep(o)
  <2>1. /\ SameJob(op, t) /\ t.handling = op.handling /\ t.applied = op.applied
        /\ t.restored = op.restored /\ Works(op) /\ Unfinished(o)
        /\ ToSet(t.todo) \cup Stopping = ToSet(op.todo) \cup Stopping \/ Ends(t)
        /\ t.outcome = "succeeded" => ~op.handling
        /\ Works(t) => ToSet(op.todo) \ Stopping \subseteq ToSet(t.todo)
        /\ Works(t) => ToSet(t.todo) \subseteq ToSet(op.todo)
    BY <1>10 DEF DrainStep, Works, Ends, Unfinished, Stopping
  <2>2. Works(t) /\ Has(t, "publish_configuration") => Has(t, "record_intent") \/ t.applied
    BY <1>2, <2>1 DEF Has, Stopping
  <2>3. own(t) BY <1>2, <2>1, <2>2
  <2> QED BY <1>4, <2>1, <2>3 DEF SameJob
<1>11. CASE FinallyStep(o)
  <2>1. /\ SameJob(op, t) /\ Ends(t) /\ t.outcome = op.outcome /\ Ends(op)
        /\ t.handling = op.handling /\ t.restored = op.restored
    BY <1>11 DEF FinallyStep
  <2>2. ~Works(t) /\ Unfinished(o) BY <2>1 DEF Ends, Works, Unfinished
  <2> QED BY <1>2, <1>4, <2>1, <2>2 DEF SameJob
<1>12. ASSUME NEW how, MiddleStep(o, how) PROVE OrigInv'
  <2> DEFINE step == Head(op.todo)
  <2>1. /\ Works(op) /\ SameJob(op, t) /\ OperationOK(t) /\ t \in Operation
        /\ Unfinished(o) /\ t.orig = op.orig
        /\ how \in { "advance", "fail", "cancel" }
        /\ how = "advance" => Advances(op, t)
        /\ how = "fail" => FailsTo(op, t)
        /\ how = "cancel" => Cancels(op, t)
        /\ t.applied = op.applied \/ (step = "record_intent" /\ t.applied)
        /\ step = "record_intent" /\ how = "advance" => t.applied
        /\ t.restored = op.restored \/ step = "record_restored"
    BY <1>12 DEF MiddleStep, OperationOK, Works, SameJob, Unfinished
  <2>2. step \in Whole(op) /\ step \in ToSet(op.todo) BY <1>1, <2>1, WorkSteps
  <2>3. t.restored => t.handling
    <3>1. step = "record_restored" => op.handling BY <1>1, <2>1, <2>2, WholeSteps
    <3>2. op.handling => t.handling BY <2>1 DEF Advances, FailsTo, Cancels
    <3> QED BY <1>2, <2>1, <3>1, <3>2
  <2>4. Ends(t) => ~Works(t) BY DEF Ends, Works
  <2>5. t.outcome = "succeeded" => ~t.handling
    <3>1. Works(t) => t.outcome # "succeeded" BY DEF Works
    <3> QED BY <2>1, <3>1 DEF Advances, FailsTo, Cancels
  <2>6. ASSUME Works(t), Has(t, "publish_configuration")
        PROVE  Has(t, "record_intent") \/ t.applied
    <3>1. ToSet(t.todo) \subseteq Whole(t) BY <2>1, <2>6, WorkSteps
    <3>2. ~t.handling BY <2>1, <2>6, <3>1, WholeSteps DEF Has
    <3>3. how = "advance" /\ ToSet(t.todo) = ToSet(op.todo) \ { step }
      BY <2>1, <2>4, <2>6, <3>2 DEF Advances, FailsTo, Cancels
    <3> QED BY <1>2, <2>1, <2>6, <3>3 DEF Has
  <2>7. own(t) BY <2>3, <2>5, <2>6
  <2> QED BY <1>4, <2>1, <2>7
<1> QED BY <1>5, <1>6, <1>7, <1>8, <1>9, <1>10, <1>11, <1>12
        DEF OperationStep, ExecutorStep

\* The process: what ProcessInv says of one operation.
LocalProcess(o) ==
  ops[o].kind = "apply_config" /\ ops[o].status = "running" /\ ~ops[o].handling
    /\ "supervisor" \in ops[o].units =>
    /\ Works(ops[o]) /\ ~Has(ops[o], "wait_for_supervisor_exit")
         /\ (Has(ops[o], "start_supervisor") \/ ~ops[o].prev.supervisor)
         => unit = "inactive"
    /\ live = o /\ ~Has(ops[o], "start_supervisor") => (Alive => sup.conf = o)

\* A step of the main part of a change of configuration.
LEMMA ProcessAtMiddle ==
  ASSUME TypesInv, LiveInv, OrigInv, NEW o \in Operations, LocalProcess(o),
         NEW how, MiddleStep(o, how)
  PROVE  LocalProcess(o)'
<1> DEFINE op == ops[o]  t == ops'[o]  step == Head(op.todo)
<1> SUFFICES ASSUME t.kind = "apply_config", ~t.handling, "supervisor" \in t.units
             PROVE  /\ Works(t) /\ ~Has(t, "wait_for_supervisor_exit")
                         /\ (Has(t, "start_supervisor") \/ ~t.prev.supervisor)
                         => unit' = "inactive"
                    /\ live' = o /\ ~Has(t, "start_supervisor")
                         => (Alive' => sup'.conf = o)
  BY DEF LocalProcess
<1>1. /\ Works(op) /\ SameJob(op, t) /\ OperationOK(t) /\ t \in Operation
      /\ op \in Operation /\ op.status = "running" /\ Unfinished(o)
      /\ op.kind = "apply_config" /\ "supervisor" \in op.units
      /\ t.prev = op.prev
      /\ how \in { "advance", "fail", "cancel" }
      /\ how = "advance" => Advances(op, t)
      /\ how = "fail" => FailsTo(op, t)
      /\ how = "cancel" => Cancels(op, t) /\ step = "wait_for_supervisor_exit"
  BY DEF MiddleStep, OperationOK, Works, SameJob, Unfinished
<1>2. /\ step \in Whole(op) /\ step \in ToSet(op.todo)
      /\ \A x \in ToSet(op.todo) \ { step } : Rank[step] < Rank[x]
  BY <1>1, WorkSteps
<1>3. Rollback(t) # << >> BY <1>1, RollbackRestores
<1>4. ~op.handling /\ how # "fail"
  BY <1>1, <1>3 DEF Advances, FailsTo, Cancels
<1>5. /\ Works(op) /\ ~Has(op, "wait_for_supervisor_exit")
           /\ (Has(op, "start_supervisor") \/ ~op.prev.supervisor)
           => unit = "inactive"
      /\ live = o /\ ~Has(op, "start_supervisor") => (Alive => sup.conf = o)
  BY <1>1, <1>4 DEF LocalProcess
<1>6. /\ "start_supervisor" \in Whole(op) <=> op.prev.supervisor
      /\ op.prev.supervisor => "wait_for_supervisor_exit" \in Whole(op)
  BY <1>1, <1>4, ChangeSteps
<1>7. Ends(t) => ~Works(t) BY DEF Ends, Works
<1>8. Works(t) => how = "advance" /\ ToSet(t.todo) = ToSet(op.todo) \ { step }
  BY <1>1, <1>4, <1>7 DEF Advances, Cancels
<1>9. how = "advance" => ToSet(op.todo) \ { step } \subseteq ToSet(t.todo)
  BY <1>1 DEF Advances
<1>10. unit = "inactive" => ~Alive
  BY DEF TypesInv, Types, SupervisorTypes
<1>11. CASE /\ step = "start_supervisor" /\ how = "advance" /\ Launch(live)
  <2>1. /\ sup' = NewProcess(live) /\ live' = live
    BY <1>11 DEF MiddleStep, Launch
  <2>2. sup'.conf = live BY <2>1 DEF NewProcess
  <2>3. ~Has(t, "start_supervisor") \/ ~Works(t) BY <1>8, <1>11 DEF Has
  <2>4. op.prev.supervisor BY <1>2, <1>6, <1>11
  <2> QED BY <1>1, <2>1, <2>2, <2>3, <2>4
<1>12. CASE /\ UNCHANGED << sup, unit >>
            /\ step = "start_supervisor" => Alive \/ how = "fail"
  <2>1. ASSUME Works(t), ~Has(t, "wait_for_supervisor_exit"),
               Has(t, "start_supervisor") \/ ~t.prev.supervisor
        PROVE  unit' = "inactive"
    <3>1. how = "advance" /\ ToSet(t.todo) = ToSet(op.todo) \ { step } BY <1>8, <2>1
    <3>2. Has(op, "start_supervisor") \/ ~op.prev.supervisor
      BY <1>1, <2>1, <3>1 DEF Has
    <3>3. CASE ~Has(op, "wait_for_supervisor_exit")
      BY <1>1, <1>5, <1>12, <3>2, <3>3
    <3>4. CASE Has(op, "wait_for_supervisor_exit")
      <4>1. step = "wait_for_supervisor_exit" BY <2>1, <3>1, <3>4 DEF Has
      <4>2. unit = "inactive" BY <3>1, <4>1 DEF MiddleStep
      <4> QED BY <1>12, <4>2
    <3> QED BY <3>3, <3>4
  <2>2. ASSUME live' = o, ~Has(t, "start_supervisor"), Alive'
        PROVE  sup'.conf = o
    <3>1. Alive BY <1>12, <2>2 DEF Alive
    <3>2. unit # "inactive" BY <1>10, <3>1
    <3>3. CASE step = "publish_configuration"
      <4>1. how = "advance" BY <3>3 DEF MiddleStep
      <4>2. ~Has(op, "wait_for_supervisor_exit") BY <1>2, <3>3, Ranks DEF Has
      <4>3. ~Has(op, "start_supervisor") /\ op.prev.supervisor
        <5>1. ~Has(op, "start_supervisor") BY <1>9, <2>2, <3>3, <4>1 DEF Has
        <5> QED BY <1>1, <1>5, <3>2, <4>2, <5>1
      <4>4. Has(op, "start_supervisor")
        BY <1>1, <1>2, <1>6, <3>3, <4>3, Ranks DEF Works, RestOf, Has
      <4> QED BY <4>3, <4>4
    <3>4. CASE step # "publish_configuration"
      <4>1. step # "restore_configuration" BY <1>1, <1>2, <1>4, WholeSteps
      <4>2. live = o BY <2>2, <3>4, <4>1 DEF MiddleStep
      <4>3. \A x \in ToSet(op.todo) : Rank[x] > 9
        BY <1>1, <1>4, <4>2, BeyondPublication
      <4>4. ~Has(op, "wait_for_supervisor_exit") BY <4>3, Ranks DEF Has
      <4>5. ~Has(op, "start_supervisor") BY <1>1, <1>5, <3>2, <4>4
      <4> QED BY <1>5, <1>12, <3>1, <4>2, <4>5
    <3> QED BY <3>3, <3>4
  <2> QED BY <2>1, <2>2
<1> QED BY <1>11, <1>12 DEF MiddleStep

\* An operation's step.
LEMMA ProcessOperation ==
  ASSUME TypesInv, LiveInv, OrigInv, ProcessInv, NEW o \in Operations, OperationStep(o)
  PROVE  ProcessInv'
<1> DEFINE op == ops[o]  t == ops'[o]
<1>1. /\ \A p \in Operations : p # o => ops'[p] = ops[p]
      /\ op \in Operation /\ OperationOK(op)
      /\ op.status \in { "none", "pending", "running" }
      /\ Unfinished(o) => \A p \in Operations : p # o => ~Unfinished(p)
      /\ ExecutorStep(o) => Unfinished(o)
  BY OthersKeep DEF TypesInv, Types, OperationTypes
<1>2. /\ \A p \in Operations : LocalProcess(p)
      /\ (\A p \in Operations : LocalProcess(p)') => ProcessInv'
  BY DEF ProcessInv, LocalProcess
<1>3. Unfinished(o) \/ Submitted(o)
  BY <1>1 DEF OperationStep, Kept, IsInterrupted
<1>4. \A p \in Operations : p # o => ops'[p].status # "running"
  BY <1>1, <1>3 DEF Unfinished, Submitted
<1>5. LocalProcess(o)' => ProcessInv'
  BY <1>2, <1>4 DEF LocalProcess
<1>6. CASE Submitted(o)
  BY <1>5, <1>6 DEF Submitted, Waits, LocalProcess
<1>7. CASE Kept(o)
  <2>1. SameWork(op, t) /\ UNCHANGED << sup, unit, live >> BY <1>7 DEF Kept
  <2>2. Works(t) <=> Works(op) BY <2>1, SamePoint
  <2>3. Alive' <=> Alive BY <2>1 DEF Alive
  <2>4. /\ t.kind = op.kind /\ t.status = op.status /\ t.handling = op.handling
        /\ t.units = op.units /\ t.prev = op.prev
        /\ \A step : Has(t, step) <=> Has(op, step)
    BY <2>1 DEF SameWork, Has
  <2>5. LocalProcess(o) BY <1>2
  <2> HIDE DEF t, op
  <2>6. LocalProcess(o)' BY <2>1, <2>2, <2>3, <2>4, <2>5 DEF LocalProcess, t, op
  <2> QED BY <1>5, <2>6
<1>8. CASE IsInterrupted(o) \/ RecordStep(o)
  <2>1. PICK status \in Terminal : t = Closed(op, status)
    BY <1>8 DEF IsInterrupted, RecordStep, Terminal
  <2> HIDE DEF t
  <2>2. t.status # "running" BY <2>1 DEF Closed, NoOperation, Terminal
  <2> QED BY <1>5, <2>2 DEF LocalProcess, t
<1>9. CASE Begun(o)
  <2>1. op.status = "pending" /\ live' = live BY <1>9 DEF Begun, Waits
  <2>2. live' # o BY <2>1 DEF LiveInv
  <2>3. ~Works(t)
    <3>1. t \in Operation /\ Captures(t) BY <1>9 DEF Begun
    <3>2. Head(t.todo) = "capture_service_state" BY <3>1 DEF Captures
    <3> QED BY <3>1, <3>2, WorkSteps, WholeSteps
  <2> QED BY <1>5, <2>2, <2>3 DEF LocalProcess
<1>10. CASE CaptureStep(o)
  <2>1. /\ OperationOK(t) /\ t \in Operation /\ ~t.handling /\ t.units = op.units
        /\ UNCHANGED << sup, unit, live >> /\ ~op.applied /\ op.status = "running"
    BY <1>10 DEF CaptureStep, OperationOK, Captures, Untouched, supVars
  <2>2. live' # o BY <2>1 DEF LiveInv
  <2>3. ASSUME Works(t), t.kind = "apply_config", "supervisor" \in t.units,
               ~Has(t, "wait_for_supervisor_exit")
        PROVE  unit' = "inactive"
    <3>1. Ends(t) => ~Works(t) BY DEF Ends, Works
    <3>2. /\ t.prev.supervisor = ("supervisor" \in op.units /\ UnitActive)
          /\ t.todo = Program(t)
      BY <1>10, <2>3, <3>1 DEF CaptureStep
    <3>3. ToSet(t.todo) = Whole(t) BY <2>1, <3>2 DEF Whole
    <3>4. ~t.prev.supervisor BY <2>1, <2>3, <3>3, ChangeSteps DEF Has
    <3> QED BY <2>1, <2>3, <3>2, <3>4 DEF UnitActive
  <2> QED BY <1>5, <2>2, <2>3 DEF LocalProcess
<1>11. CASE DrainStep(o)
  <2>1. /\ Works(op) /\ Head(op.todo) = "drain" /\ UNCHANGED << unit, live >>
        /\ Has(op, "wait_for_supervisor_exit")
    BY <1>11 DEF DrainStep, Has
  <2>2. live' # o BY <2>1, BeyondPublication, Ranks
  <2>3. ASSUME Works(t), ~Has(t, "wait_for_supervisor_exit") PROVE unit' = "inactive"
    <3>1. CASE UnitActive
      <4>1. ToSet(t.todo) = ToSet(op.todo) \ { "drain" } BY <1>11, <3>1 DEF DrainStep
      <4> QED BY <2>1, <2>3, <4>1 DEF Has
    <3>2. CASE ~UnitActive BY <2>1, <3>2 DEF UnitActive
    <3> QED BY <3>1, <3>2
  <2> QED BY <1>5, <2>2, <2>3 DEF LocalProcess
<1>12. CASE FinallyStep(o)
  <2>1. /\ SameJob(op, t) /\ Ends(t) /\ op.todo = EndSteps /\ t.handling = op.handling
        /\ UNCHANGED << sup, unit, live >>
    BY <1>12 DEF FinallyStep
  <2>2. ~Works(t) /\ ~Has(op, "start_supervisor")
    BY <2>1, LastSteps DEF Ends, Works, Has
  <2>3. t.kind = op.kind /\ t.status = op.status /\ t.units = op.units
    BY <2>1 DEF SameJob
  <2>4. Alive' <=> Alive BY <2>1 DEF Alive
  <2>5. LocalProcess(o) BY <1>2
  <2> HIDE DEF t, op
  <2>6. LocalProcess(o)' BY <2>1, <2>2, <2>3, <2>4, <2>5 DEF LocalProcess, t, op
  <2> QED BY <1>5, <2>6
<1>13. ASSUME NEW how, MiddleStep(o, how) PROVE ProcessInv'
  BY <1>2, <1>5, <1>13, ProcessAtMiddle
<1> QED BY <1>6, <1>7, <1>8, <1>9, <1>10, <1>11, <1>12, <1>13
        DEF OperationStep, ExecutorStep

\* Every step.
LEMMA ConfigurationNext ==
  TypesInv /\ ConfigurationInv /\ [Next]_vars => ConfigurationInv'
<1> SUFFICES ASSUME TypesInv, ConfigurationInv, [Next]_vars PROVE ConfigurationInv'
  OBVIOUS
<1>1. LiveInv /\ OrigInv /\ ProcessInv BY DEF ConfigurationInv
<1>2. UNCHANGED ops => OrigInv'
  BY <1>1 DEF OrigInv, Unfinished
<1>3. UNCHANGED << ops, live >> => LiveInv'
  BY <1>1 DEF LiveInv
<1>4. \A o \in Operations : LocalProcess(o) BY <1>1 DEF ProcessInv, LocalProcess
<1>5. (\A o \in Operations : LocalProcess(o)') => ProcessInv'
  BY DEF ProcessInv, LocalProcess
<1>6. CASE ProcessMoves
  <2>1. UNCHANGED << ops, live >> BY <1>6 DEF ProcessMoves, mgmtVars
  <2>2. /\ Alive' => Alive /\ sup'.conf = sup.conf
        /\ unit = "inactive" => unit' = "inactive"
    BY <1>6 DEF ProcessMoves, ProcessFrame
  <2>3. \A o \in Operations : LocalProcess(o)'
    BY <1>4, <2>1, <2>2 DEF LocalProcess
  <2> QED BY <1>2, <1>3, <1>5, <2>1, <2>3 DEF ConfigurationInv
<1>7. CASE UnitRestarts
  <2>1. UNCHANGED << ops, live >> /\ sup'.conf = live /\ unit # "inactive"
    BY <1>7 DEF UnitRestarts, mgmtVars, NewProcess
  <2>2. \A o \in Operations : LocalProcess(o)' BY <1>4, <2>1 DEF LocalProcess
  <2> QED BY <1>2, <1>3, <1>5, <2>1, <2>2 DEF ConfigurationInv
<1>8. CASE Checked \/ Written
  <2>1. /\ UNCHANGED << ops, live, unit >> /\ sup'.conf = sup.conf
        /\ Alive' <=> Alive
    <3>1. sup \in ProcessState BY DEF TypesInv, Types, SupervisorTypes
    <3> QED BY <1>8, <3>1 DEF Checked, Written, Alive, ProcessState
  <2>2. \A o \in Operations : LocalProcess(o)' BY <1>4, <2>1 DEF LocalProcess
  <2> QED BY <1>2, <1>3, <1>5, <2>1, <2>2 DEF ConfigurationInv
<1>9. CASE Edits
  <2>1. UNCHANGED << ops, sup, unit >> /\ live' = Edited BY <1>9 DEF Edits
  <2>2. live' \notin Operations BY <2>1, Numbers
  <2>3. \A o \in Operations : LocalProcess(o)'
    BY <1>4, <2>1, <2>2 DEF LocalProcess, Alive
  <2>4. LiveInv' BY <2>2 DEF LiveInv
  <2> QED BY <1>2, <1>5, <2>1, <2>3, <2>4 DEF ConfigurationInv
<1>10. ASSUME NEW o \in Operations, OperationStep(o) PROVE ConfigurationInv'
  BY <1>1, <1>10, LiveOperation, OriginalOperation, ProcessOperation DEF ConfigurationInv
<1> QED BY <1>6, <1>7, <1>8, <1>9, <1>10, StepCases

\* An operation that has failed, was cancelled or interrupted has not left its
\* configuration behind, wherever it stopped; one that has succeeded has left
\* the Supervisor running with it: between the publication and the start there
\* is no process that could have read the old one.
THEOREM ConfigurationIsSettled == Spec => []ConfigurationSettled
<1>1. Init => ConfigurationInv
  <2> SUFFICES ASSUME Init PROVE ConfigurationInv
    OBVIOUS
  <2>1. live \notin Operations /\ \A o \in Operations : ops[o] = NoOperation
    BY Numbers DEF Init, Original
  <2> QED BY <2>1 DEF ConfigurationInv, LiveInv, OrigInv, ProcessInv, NoOperation,
                      Unfinished, Works
<1>2. TypesInv /\ ConfigurationInv => ConfigurationSettled
  <2> SUFFICES ASSUME TypesInv, ConfigurationInv, NEW o \in Operations,
                      ops[o].kind = "apply_config", live = o
               PROVE  /\ ops[o].status \notin { "failed", "cancelled", "interrupted" }
                      /\ ops[o].outcome = "succeeded" /\ "supervisor" \in ops[o].units
                           => (Alive => sup.conf = o)
    BY DEF ConfigurationSettled
  <2>1. ops[o].status \in { "running", "succeeded" }
    BY DEF ConfigurationInv, LiveInv
  <2>2. ASSUME ops[o].outcome = "succeeded", "supervisor" \in ops[o].units, Alive
        PROVE  sup.conf = o
    <3>1. OperationOK(ops[o]) BY DEF TypesInv, Types, OperationTypes
    <3>2. ops[o].status = "running" /\ Ends(ops[o])
      BY <2>2, <3>1 DEF OperationOK, Over, Waits, Captures, Works, Ends
    <3>3. ~Has(ops[o], "start_supervisor")
      BY <3>2, LastSteps DEF Ends, EndSteps, Has
    <3>4. ~ops[o].handling BY <2>2 DEF ConfigurationInv, OrigInv
    <3> QED BY <2>2, <3>2, <3>3, <3>4 DEF ConfigurationInv, ProcessInv
  <2> QED BY <2>1, <2>2
<1> QED BY <1>1, <1>2, ConfigurationNext, TypesHold, PTL DEF Spec
=============================================================================
