---------------------------- MODULE FullCollect -----------------------------
(***************************************************************************)
(* The full collection: a round works through the pages of an id range in  *)
(* batches, one job after the other, for days.  It can be paused, it cools *)
(* down after failures, and when a worker or the Supervisor goes away the  *)
(* next Supervisor abandons the job that was cut short, if it can be sure  *)
(* of that, and queues the next.                                           *)
(***************************************************************************)
EXTENDS SpecialJobs

Batch == "collect_batch"

Round(w) == db.wf[w].kind = "full_collect" /\ Active(db, w)

\* Only one round collects: the others are paused and have no job.
OthersPaused(w) ==
  \A v \in Workflow \ {w} : Round(v) => Idle(db, v) /\ db.wf[v].data.intent # "run"

StartRound(w) ==
  /\ IsNew(w, "full_collect")
  /\ OthersPaused(w)
  /\ db' = Queue([ db EXCEPT !.wf[w] = NewWorkflow("full_collect") ], w, Batch)
  /\ UNCHANGED << sup, proc, qbit >>

PauseRound(w) ==
  /\ Round(w)
  /\ db' = [ CancelQueued(db, w) EXCEPT
               !.wf[w].data.intent = "pause",
               !.wf[w].phase = IF Running(db, w) # {} THEN "pausing" ELSE "paused" ]
  /\ UNCHANGED << sup, proc, qbit >>

ResumeRound(w) ==
  LET d == [ db EXCEPT !.wf[w].data.intent = "run", !.wf[w].data.failures = 0,
                       !.wf[w].phase = "queued" ]
  IN /\ Round(w) /\ Idle(db, w) /\ OthersPaused(w)
     /\ MayQueue(d, w, Batch)
     /\ db' = Queue(d, w, Batch)
     /\ UNCHANGED << sup, proc, qbit >>

TerminateRound(w) ==
  /\ Round(w) /\ db.wf[w].data.intent = "pause" /\ Idle(db, w)
  /\ db' = Over(ReleaseAll(EndWorkflow(db, w, "cancelled", "cancelled"), w), w)
  /\ UNCHANGED << sup, proc, qbit >>

RoundCommand(w) ==
  StartRound(w) \/ PauseRound(w) \/ ResumeRound(w) \/ TerminateRound(w)

----------------------------------------------------------------------------
\* The executor.

AtBatch(p, at) ==
  /\ proc[p].at = at
  /\ db.wf[proc[p].w].kind = "full_collect"
  /\ Valid(db, proc[p])

RoundData(p) == db.wf[proc[p].w].data
StopAsked(p) ==
  \/ db.wf[proc[p].w].job[Batch].stop
  \/ sup.state = "draining"

\* The end of a batch looks at the round once more, whatever it ended for, and
\* queues the next batch unless the round is to wait.
EndBatch(p, wanted) ==
  LET c == proc[p]
      phase == CASE RoundData(p).end -> "completed"
                 [] RoundData(p).intent # "run" -> "paused"
                 [] OTHER -> wanted
      d == Succeed(db, c, phase, IF phase = "completed" THEN "completed" ELSE "active")
      next == phase \in { "queued", "cooling" }
  IN /\ next => db.wf[c.w].job[Batch].no < MaxAttempt[Batch]
     /\ db' = IF next THEN Queue(d, c.w, Batch) ELSE d
     /\ Exits(p) /\ UNCHANGED qbit

\* The head of the loop: go on, or end the batch.
NextPage(p) ==
  /\ AtBatch(p, "begin")
  /\ CASE RoundData(p).end -> EndBatch(p, "completed")
       [] RoundData(p).intent # "run" -> EndBatch(p, "paused")
       [] StopAsked(p) -> EndBatch(p, "interrupted")
       [] proc[p].page = BatchPages -> EndBatch(p, "queued")
       [] OTHER -> /\ proc' = [ proc EXCEPT ![p].page = @ + 1, ![p].at = "request" ]
                   /\ UNCHANGED << db, sup, qbit >>

\* The request is on record before it is made, and its end before the answer is
\* looked at.
BeginRequest(p) ==
  /\ AtBatch(p, "request")
  /\ IF RoundData(p).intent = "run"
     THEN /\ db' = Update(db, proc[p], db.wf[proc[p].w].phase)
          /\ Goto(p, "received") /\ UNCHANGED << sup, qbit >>
     ELSE EndBatch(p, "paused")

\* The site does not answer as it should.  A passing failure is tried again,
\* until the proxies are used up and the round cools down; any other waits for
\* a repair.
RequestFails(p) ==
  LET w == proc[p].w
      failures == RoundData(p).failures + 1 IN
  /\ AtBatch(p, "received")
  /\ \/ /\ db' = Update(db, proc[p], db.wf[w].phase)
        /\ Goto(p, "begin") /\ UNCHANGED << sup, qbit >>
     \/ /\ failures <= MaxFailures
        /\ db' = Update([ db EXCEPT !.wf[w].data.failures = failures ], proc[p],
                        db.wf[w].phase)
        /\ Goto(p, IF failures = MaxFailures THEN "repair" ELSE "cool")
        /\ UNCHANGED << sup, qbit >>
     \/ /\ db' = Update(db, proc[p], db.wf[w].phase)
        /\ Goto(p, "repair") /\ UNCHANGED << sup, qbit >>

EndFailedBatch(p) ==
  \/ AtBatch(p, "cool") /\ EndBatch(p, "cooling")
  \/ AtBatch(p, "repair") /\ EndBatch(p, "waiting_repair")

\* Mutant: the page is committed whether or not the round still runs.
CommitsPausedPage(p) ==
  LET w == proc[p].w
      d == [ db EXCEPT !.wf[w].data.cursor = @ + 1, !.wf[w].data.failures = 0,
                       !.wf[w].data.end = RoundData(p).cursor + 1 = LastPage ] IN
  /\ AtBatch(p, "received") /\ ~StopAsked(p)
  /\ db' = Update(d, proc[p], "collecting")
  /\ Goto(p, "begin") /\ UNCHANGED << sup, qbit >>

\* The rows of the page and the cursor are one transaction.
CommitPage(p) ==
  LET w == proc[p].w
      d == [ db EXCEPT !.wf[w].data.cursor = @ + 1, !.wf[w].data.failures = 0,
                       !.wf[w].data.end = RoundData(p).cursor + 1 = LastPage ] IN
  /\ AtBatch(p, "received")
  /\ IF StopAsked(p) THEN EndBatch(p, "interrupted")
     ELSE IF RoundData(p).intent # "run" THEN EndBatch(p, "paused")
     ELSE /\ db' = Update(d, proc[p], "collecting")
          /\ Goto(p, "begin") /\ UNCHANGED << sup, qbit >>

BatchStep(p) ==
  NextPage(p) \/ BeginRequest(p) \/ RequestFails(p) \/ EndFailedBatch(p) \/ CommitPage(p)

----------------------------------------------------------------------------
(***************************************************************************)
(* The recovery, before every claim.  What must be looked into: the        *)
(* Supervisor is another one than the round last met, the last job has     *)
(* ended without a next, or a running job has lost its process or lease.   *)
(* What is certain: a job is abandoned only when its process is known to   *)
(* have exited, or is fenced off for good.                                 *)
(***************************************************************************)
Job_(w) == db.wf[w].job[Batch]
Restarted(w) == db.wf[w].data.owner # sup.owner
Ended(w) == Idle(db, w) /\ db.wf[w].data.settled # << Job_(w).no, Job_(w).status >>
Lost(w) == Job_(w).owner # sup.owner \/ Job_(w).lease # "live"
Orphaned(w) == Job_(w).status = "running" /\ (<< w, Job_(w).no >> \in sup.exited \/ Lost(w))

\* Mutant: a job is abandoned only after its own process was seen to exit.
SafeWhenSeen(w) ==
  Job_(w).status = "running" => << w, Job_(w).no >> \in sup.exited

Safe(w) ==
  Job_(w).status = "running" =>
    \/ << w, Job_(w).no >> \in sup.exited
    \/ Fenced("full_collect", Batch) /\ ~Job_(w).effect /\ Lost(w)

\* What the round last saw of its jobs, so that an end is dealt with once.
Settled(d, w) ==
  [ d EXCEPT !.wf[w].data.owner = sup.owner,
             !.wf[w].data.settled = << d.wf[w].job[Batch].no, d.wf[w].job[Batch].status >> ]

\* How the round goes on: the phase, and whether a batch is queued.  A round
\* that waits for a repair, or has its next batch already, is left alone.
Verdict(x) ==
  CASE x.data.end -> "completed"
    [] x.data.intent # "run" -> "paused"
    [] x.phase \in { "waiting_repair", "failed" } -> "leave"
    [] ~ResumeAfterRestart -> "interrupted"
    [] x.job[Batch].status = "queued" -> "leave"
    [] OTHER -> "queued"

Recovered(w) ==
  LET verdict == Verdict(db.wf[w])
      running == Job_(w).status = "running"
      d1 == IF running THEN EndJob(Release(db, w, Batch), w, Batch, "abandoned") ELSE db
      d2 == CancelQueued(d1, w)
      d3 == EndWorkflow(d2, w, IF verdict = "completed" THEN "completed" ELSE "active",
                        verdict)
      d4 == IF verdict = "completed" THEN Over(ReleaseAll(d3, w), w)
            ELSE IF verdict = "interrupted"
                 THEN [ d3 EXCEPT !.wf[w].data.intent = "pause" ]
            ELSE IF verdict = "queued" THEN Queue(d3, w, Batch) ELSE d3
  IN IF verdict = "leave" THEN IF running THEN db ELSE Settled(db, w)
     ELSE Settled(d4, w)

\* One round of the scan: left as it is, taken note of, or recovered.
Inspected(w) ==
  CASE ~Round(w) -> db.wf[w]
    [] Round(w) /\ ~db.wf[w].data.started -> Settled(db, w).wf[w]
    [] OTHER ->
         IF (Restarted(w) \/ Ended(w) \/ Orphaned(w)) /\ Safe(w)
         THEN Recovered(w).wf[w] ELSE db.wf[w]

RecoverRounds ==
  /\ sup.lease = "live" /\ sup.state = "running"
  /\ \A w \in Workflow : Round(w) /\ Verdict(db.wf[w]) = "queued"
                           => Job_(w).no < MaxAttempt[Batch]
  /\ db' = [ db EXCEPT !.wf = [w \in Workflow |-> Inspected(w)] ]
  /\ sup' = [ sup EXCEPT !.scanned = TRUE, !.exited = {} ]
  /\ << db', sup' >> # << db, sup >>
  /\ UNCHANGED << proc, qbit >>
=============================================================================
