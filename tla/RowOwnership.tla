---------------------------- MODULE RowOwnership ----------------------------
(***************************************************************************)
(* What the attempts and leases of the task queue promise, with no         *)
(* process, clock or transaction in sight: a row is held by one attempt at *)
(* a time, an attempt holds a row once in its life, and it is settled in   *)
(* the very step that frees its row.                                       *)
(***************************************************************************)
CONSTANTS Manga, AttemptId, None   \* None is no attempt

VARIABLES
  holder,   \* holder[m]: the attempt that holds row m, or None
  fate      \* fate[a]: what has become of attempt a

Settled == { "succeeded", "failed", "abandoned" }

Init ==
  /\ holder = [m \in Manga |-> None]
  /\ fate = [a \in AttemptId |-> "unused"]

Acquire(m, a) ==
  /\ holder[m] = None
  /\ fate[a] = "unused"
  /\ holder' = [holder EXCEPT ![m] = a]
  /\ fate' = [fate EXCEPT ![a] = "running"]

Settle(m, outcome) ==
  /\ holder[m] # None
  /\ fate[holder[m]] = "running"
  /\ fate' = [fate EXCEPT ![holder[m]] = outcome]
  /\ holder' = [holder EXCEPT ![m] = None]

Next ==
  \E m \in Manga : \/ \E a \in AttemptId : Acquire(m, a)
                   \/ \E outcome \in Settled : Settle(m, outcome)

Spec == Init /\ [][Next]_<< holder, fate >>
=============================================================================
