------------------------- MODULE Replacement_proofs -------------------------
(***************************************************************************)
(* What is proved of Replacement for every set of galleries and processes. *)
(***************************************************************************)
EXTENDS Replacement, TLAPS

Gallery == Manga \cup { None }

\* A process is idle or works on a gallery.
AtWork == \A w \in Worker : IF worker[w].pc = "idle" THEN worker[w] = Idle
                            ELSE worker[w].on \in Manga

TypeInv == TypeOK /\ AtWork

\* What processes and the Supervisor have in memory when they do nothing.
LEMMA IdleTyped == Idle \in Process /\ Absent \in Row
BY DEF Idle, Process, Error, Absent, Row, RowStatus

(***************************************************************************)
(* replacement_target() returns a gallery without a replacement, and never *)
(* the one it looks for a replacement of.                                  *)
(***************************************************************************)
LEMMA NewestIsLast ==
  ASSUME NEW links \in [Manga -> Gallery], NEW source, NEW target,
         Newest(links, source, target) # None
  PROVE  /\ Newest(links, source, target) \in Manga
         /\ links[Newest(links, source, target)] = None
         /\ Newest(links, source, target) # source
<1> DEFINE ends == { n \in Reached(links, target) : links[n] = None }
<1>1. ends # {} /\ source \notin Reached(links, target)
  BY DEF Newest
<1>2. Newest(links, source, target) = CHOOSE n \in ends : TRUE
  BY <1>1 DEF Newest
<1>3. Newest(links, source, target) \in ends
  BY <1>1, <1>2
<1>4. Reached(links, target) \subseteq Manga
  BY DEF Reached
<1> QED BY <1>1, <1>3, <1>4

\* In every case it returns a gallery or nothing.
LEMMA NewestTyped ==
  ASSUME NEW links \in [Manga -> Gallery], NEW source, NEW target
  PROVE  Newest(links, source, target) \in Gallery
BY NewestIsLast DEF Gallery

LEMMA LinksTyped == TypeOK => Links \in [Manga -> Gallery]
BY DEF TypeOK, Row, Links, Gallery

\* The end of an attempt leaves a typed row.
LEMMA EndedTyped ==
  ASSUME TypeOK, NEW m \in Manga, NEW to \in RowStatus, NEW error \in Error
  PROVE  Ended(m, to, error) \in [Manga -> Row]
BY DEF TypeOK, Ended, Row

Lease == { "none", "details", "delete", "upload", "cleanup" }

\* So do a claim, a link set by hand and a status set by hand.
LEMMA WriteTyped ==
  ASSUME TypeOK, NEW m \in Manga
  PROVE  /\ \A to \in RowStatus : [row EXCEPT ![m].status = to] \in [Manga -> Row]
         /\ \A lease \in Lease : [row EXCEPT ![m].lease = lease] \in [Manga -> Row]
         /\ \A to \in RowStatus, lease \in Lease :
              [row EXCEPT ![m].status = to, ![m].lease = lease] \in [Manga -> Row]
         /\ \A to \in RowStatus, sup \in Manga :
              [row EXCEPT ![m].status = to, ![m].sup = sup] \in [Manga -> Row]
<1>1. ASSUME NEW to \in RowStatus
      PROVE  [row EXCEPT ![m].status = to] \in [Manga -> Row]
  BY DEF TypeOK, Row
<1>2. ASSUME NEW lease \in Lease
      PROVE  [row EXCEPT ![m].lease = lease] \in [Manga -> Row]
  BY DEF TypeOK, Row, Lease
<1>3. ASSUME NEW to \in RowStatus, NEW lease \in Lease
      PROVE  [row EXCEPT ![m].status = to, ![m].lease = lease] \in [Manga -> Row]
  BY DEF TypeOK, Row, Lease
<1>4. ASSUME NEW to \in RowStatus, NEW sup \in Manga
      PROVE  [row EXCEPT ![m].status = to, ![m].sup = sup] \in [Manga -> Row]
  BY DEF TypeOK, Row
<1> QED BY <1>1, <1>2, <1>3, <1>4

PC == { "idle", "reading", "staged", "claimed", "deleting", "erased" }

\* A process that takes up a gallery, or goes on with it, stays typed.
LEMMA WorkTyped ==
  ASSUME TypeOK, NEW w \in Worker
  PROVE  /\ \A pc \in PC : [worker EXCEPT ![w].pc = pc] \in [Worker -> Process]
         /\ \A pc \in PC, m \in Manga :
              [worker EXCEPT ![w].pc = pc, ![w].on = m] \in [Worker -> Process]
<1>0. worker[w] \in Process
  BY DEF TypeOK
<1>1. ASSUME NEW pc \in PC
      PROVE  [worker EXCEPT ![w].pc = pc] \in [Worker -> Process]
  <2>1. [worker[w] EXCEPT !.pc = pc] \in Process
    BY <1>0 DEF Process, PC
  <2> QED BY <2>1 DEF TypeOK
<1>2. ASSUME NEW pc \in PC, NEW m \in Manga
      PROVE  [worker EXCEPT ![w].pc = pc, ![w].on = m] \in [Worker -> Process]
  <2>1. [worker[w] EXCEPT !.pc = pc, !.on = m] \in Process
    BY <1>0 DEF Process, PC
  <2> QED BY <2>1 DEF TypeOK
<1> QED BY <1>1, <1>2

LEMMA StatusNames ==
  { "absent", "details_pending", "download_pending", "upload_pending", "uploading",
    "uploaded", "completed", "outdated", "force_delete_pending", "manual_review",
    "deleted" } \subseteq RowStatus
BY DEF RowStatus

(***************************************************************************)
(* Marking the parent changes how a transaction ends in one of three ways, *)
(* none of which touches the row it is about or its link.                  *)
(***************************************************************************)
LEMMA MarkingShape ==
  ASSUME TypeOK, NEW m \in Manga, NEW p \in Gallery, NEW end \in Process,
         end.parent = None
  PROVE  LET e == Marking(m, p, end) IN
         /\ e \in Process
         /\ e.pc = end.pc /\ e.on = end.on /\ e.sup = end.sup
         /\ e.to \in { end.to, "manual_review" }
         /\ e.parent # None =>
              /\ e.parent = p /\ Superseded(p, m) /\ Free(p)
              /\ e.newest \in Manga /\ e.newest # p
<1> DEFINE links == [Links EXCEPT ![m] = end.sup]
           newest == Newest(links, p, m)
<1>1. links \in [Manga -> Gallery]
  BY LinksTyped DEF Process, Gallery
<1>2. newest # None => newest \in Manga /\ newest # p
  BY <1>1, NewestIsLast
<1>3. newest \in Gallery
  BY <1>1, NewestTyped
<1>4. CASE ~Superseded(p, m)
  BY <1>4 DEF Marking
<1>5. CASE Superseded(p, m) /\ ~Free(p)
  <2>1. Marking(m, p, end) = [end EXCEPT !.missed = p]
    BY <1>5 DEF Marking
  <2> QED BY <2>1 DEF Process, Gallery
<1>6. CASE Superseded(p, m) /\ Free(p) /\ newest = None
  <2>1. Marking(m, p, end) = [end EXCEPT !.to = "manual_review", !.error = "invalid"]
    BY <1>6 DEF Marking
  <2> QED BY <2>1 DEF Process, Error
<1>7. CASE Superseded(p, m) /\ Free(p) /\ newest # None
  <2>1. Marking(m, p, end) = [end EXCEPT !.parent = p, !.newest = newest]
    BY <1>7 DEF Marking
  <2> QED BY <1>2, <1>3, <1>7, <2>1 DEF Process, Gallery
<1> QED BY <1>4, <1>5, <1>6, <1>7

(***************************************************************************)
(* What a details transaction holds once it has staged its end: a link of  *)
(* its row to another row, and at most one parent, free and unlinked.      *)
(***************************************************************************)
LEMMA StageShape ==
  ASSUME TypeInv, NEW w \in Worker, Stage(w)
  PROVE  \E end \in Process :
           /\ worker' = [worker EXCEPT ![w] = end]
           /\ end.pc = "staged" /\ end.on = worker[w].on
           /\ end.sup \in { row[worker[w].on].sup } \cup (Manga \ { worker[w].on })
           /\ end.parent # None =>
                /\ Superseded(end.parent, worker[w].on) /\ Free(end.parent)
                /\ end.newest \in Manga /\ end.newest # end.parent
<1> DEFINE m == worker[w].on
           old == row[m].sup
           base == [ Idle EXCEPT !.pc = "staged", !.on = m, !.sup = old ]
           StageEnd(end) == worker' = [worker EXCEPT ![w] = end]
<1>1. m \in Manga
  BY DEF TypeInv, AtWork, Stage
<1>2. old \in Gallery
  BY <1>1 DEF TypeInv, TypeOK, Row, Gallery
<1> DEFINE goal(latest) == IF latest # None THEN latest ELSE old
           target(latest) == Newest(Links, m, goal(latest))
           agrees(latest) ==
             target(latest) # None /\ (old # None => Newest(Links, m, old) = target(latest))
<1>3. PICK latest \in Manga \cup { None } : \E p \in (Manga \ { latest }) \cup { None } :
        \/ /\ goal(latest) = None
           /\ StageEnd(Marking(m, p, [base EXCEPT !.to = "download_pending"]))
        \/ /\ goal(latest) # None /\ Busy
           /\ StageEnd([base EXCEPT !.to = "details_pending"])
        \/ /\ goal(latest) # None /\ ~Busy /\ ~agrees(latest)
           /\ StageEnd([base EXCEPT
                !.to = "manual_review", !.locks = TRUE,
                !.error = IF target(latest) = None \/ Newest(Links, m, old) = None
                          THEN "invalid" ELSE "other"])
        \/ /\ goal(latest) # None /\ ~Busy /\ agrees(latest)
           /\ StageEnd(Marking(m, p, [base EXCEPT !.to = "outdated", !.locks = TRUE,
                                                  !.sup = target(latest)]))
  BY Zenon DEF Stage
<1>4. PICK p \in Gallery :
        \/ /\ goal(latest) = None
           /\ StageEnd(Marking(m, p, [base EXCEPT !.to = "download_pending"]))
        \/ StageEnd([base EXCEPT !.to = "details_pending"])
        \/ StageEnd([base EXCEPT
             !.to = "manual_review", !.locks = TRUE,
             !.error = IF target(latest) = None \/ Newest(Links, m, old) = None
                       THEN "invalid" ELSE "other"])
        \/ /\ target(latest) # None
           /\ StageEnd(Marking(m, p, [base EXCEPT !.to = "outdated", !.locks = TRUE,
                                                  !.sup = target(latest)]))
  BY <1>3 DEF Gallery
<1> DEFINE Good(end) ==
             /\ end \in Process
             /\ end.pc = "staged" /\ end.on = m
             /\ end.sup \in { old } \cup (Manga \ { m })
             /\ end.parent # None =>
                  /\ Superseded(end.parent, m) /\ Free(end.parent)
                  /\ end.newest \in Manga /\ end.newest # end.parent
<1>5. /\ base \in Process
      /\ base.parent = None /\ base.pc = "staged" /\ base.on = m /\ base.sup = old
  BY <1>1, <1>2, IdleTyped DEF Idle, Process, Gallery, Error
<1>6. SUFFICES \E end : StageEnd(end) /\ Good(end)
  BY DEF TypeInv
<1>7. ASSUME NEW end \in Process, end.parent = None, end.pc = "staged", end.on = m,
             end.sup \in { old } \cup (Manga \ { m })
      PROVE  Good(end) /\ Good(Marking(m, p, end))
  BY <1>1, <1>7, MarkingShape DEF TypeInv
<1> HIDE DEF base, Good
<1>8. CASE StageEnd(Marking(m, p, [base EXCEPT !.to = "download_pending"]))
  <2> DEFINE x == [base EXCEPT !.to = "download_pending"]
  <2>2. x \in Process /\ x.parent = None /\ x.pc = "staged" /\ x.on = m /\ x.sup = old
    BY <1>5 DEF Process, Gallery, Error
  <2> HIDE DEF x
  <2> QED BY <1>2, <1>7, <1>8, <2>2 DEF x, Gallery
<1>9. CASE StageEnd([base EXCEPT !.to = "details_pending"])
  <2> DEFINE x == [base EXCEPT !.to = "details_pending"]
  <2>2. x \in Process /\ x.parent = None /\ x.pc = "staged" /\ x.on = m /\ x.sup = old
    BY <1>5 DEF Process, Gallery, Error
  <2> HIDE DEF x
  <2> QED BY <1>2, <1>7, <1>9, <2>2 DEF x, Gallery
<1>10. ASSUME NEW error \in Error,
              StageEnd([base EXCEPT !.to = "manual_review", !.locks = TRUE, !.error = error])
       PROVE  \E end : StageEnd(end) /\ Good(end)
  <2> DEFINE x == [base EXCEPT !.to = "manual_review", !.locks = TRUE, !.error = error]
  <2>2. x \in Process /\ x.parent = None /\ x.pc = "staged" /\ x.on = m /\ x.sup = old
    BY <1>5 DEF Process, Gallery, Error
  <2> HIDE DEF x
  <2> QED BY <1>2, <1>7, <1>10, <2>2 DEF x, Gallery
<1>11. CASE /\ target(latest) # None
            /\ StageEnd(Marking(m, p, [base EXCEPT !.to = "outdated", !.locks = TRUE,
                                                   !.sup = target(latest)]))
  <2> DEFINE x == [base EXCEPT !.to = "outdated", !.locks = TRUE, !.sup = target(latest)]
  <2>1. target(latest) \in Manga \ { m }
    BY <1>11, NewestIsLast, LinksTyped DEF TypeInv
  <2>2. x \in Process /\ x.parent = None /\ x.pc = "staged" /\ x.on = m /\ x.sup = target(latest)
    BY <1>5, <2>1 DEF Process, Gallery, Error
  <2> HIDE DEF x
  <2> QED BY <1>2, <1>7, <1>11, <2>2, <2>1 DEF x, Gallery
<1>12. ("invalid" \in Error) /\ ("other" \in Error)
  BY DEF Error
<1> QED BY <1>4, <1>8, <1>9, <1>10, <1>11, <1>12

----------------------------------------------------------------------------
\* Every step of a details process keeps the types.
LEMMA DetailsTyped ==
  ASSUME TypeInv, NEW w \in Worker, Details(w)
  PROVE  TypeInv'
<1>1. ASSUME NEW m \in Manga, ClaimDetails(w, m)
      PROVE  TypeInv'
  <2>1. row' \in [Manga -> Row]
    BY <1>1, WriteTyped, StatusNames DEF TypeInv, ClaimDetails, Lease
  <2>2. worker' \in [Worker -> Process]
    BY <1>1, WorkTyped DEF TypeInv, ClaimDetails, PC
  <2>3. AtWork'
    BY <1>1 DEF TypeInv, TypeOK, AtWork, ClaimDetails, Process
  <2> QED BY <1>1, <2>1, <2>2, <2>3 DEF TypeInv, TypeOK, ClaimDetails
<1>2. CASE DetailsFail(w)
  <2>1. worker[w].on \in Manga
    BY <1>2 DEF TypeInv, AtWork, DetailsFail
  <2>2. row' \in [Manga -> Row]
    BY <1>2, <2>1, EndedTyped DEF TypeInv, DetailsFail, RowStatus, Error
  <2>3. worker' \in [Worker -> Process] /\ AtWork'
    BY <1>2, IdleTyped DEF TypeInv, TypeOK, AtWork, DetailsFail, Idle
  <2> QED BY <1>2, <2>2, <2>3 DEF TypeInv, TypeOK, DetailsFail
<1>3. CASE Stage(w)
  <2>1. worker[w].on \in Manga
    BY <1>3 DEF TypeInv, AtWork, Stage
  <2>2. worker' \in [Worker -> Process] /\ AtWork'
    BY <1>3, <2>1, StageShape DEF TypeInv, TypeOK, AtWork
  <2> QED BY <1>3, <2>2 DEF TypeInv, TypeOK, Stage
<1>4. CASE Commit(w)
  <2> DEFINE end == worker[w]
  <2>1. end \in Process
    BY DEF TypeInv, TypeOK
  <2>2. end.newest \in Gallery /\ end.sup \in Gallery /\ end.missed \in Gallery
        /\ end.to \in RowStatus /\ end.error \in Error
    BY <2>1 DEF Process, RowStatus, Gallery
  <2>3. row' \in [Manga -> Row]
    <3>1. [ status |-> end.to, sup |-> end.sup, error |-> end.error, lease |-> "none" ] \in Row
      BY <2>2 DEF Row, Gallery
    <3>2. \A m \in Manga :
            row[m] \in Row /\ [row[m] EXCEPT !.status = "outdated", !.sup = end.newest] \in Row
      BY <2>2, StatusNames DEF TypeInv, TypeOK, Row, Gallery
    <3>3. \A m \in Manga : row'[m] \in Row
      BY <1>4, <3>1, <3>2 DEF Commit
    <3> QED BY <1>4, <3>3 DEF Commit
  <2>4. worker' \in [Worker -> Process] /\ AtWork'
    BY <1>4, IdleTyped DEF TypeInv, TypeOK, AtWork, Commit, Idle
  <2>5. missed' \in SUBSET Manga
    BY <1>4, <2>2 DEF TypeInv, TypeOK, Commit, Gallery
  <2> QED BY <1>4, <2>3, <2>4, <2>5 DEF TypeInv, TypeOK, Commit
<1> QED BY <1>1, <1>2, <1>3, <1>4 DEF Details

LEMMA DeleteTyped ==
  ASSUME TypeInv, NEW w \in Worker, Delete(w) \/ Crash(w)
  PROVE  TypeInv'
<1>1. ASSUME NEW m \in Manga, ClaimDelete(w, m)
      PROVE  TypeInv'
  <2>1. row' \in [Manga -> Row]
    BY <1>1, WriteTyped DEF TypeInv, ClaimDelete, Lease
  <2>2. worker' \in [Worker -> Process]
    BY <1>1, WorkTyped DEF TypeInv, ClaimDelete, PC
  <2>3. AtWork'
    BY <1>1 DEF TypeInv, TypeOK, AtWork, ClaimDelete, Process
  <2> QED BY <1>1, <2>1, <2>2, <2>3 DEF TypeInv, TypeOK, ClaimDelete
<1>2. CASE CheckDelete(w)
  <2>1. worker[w].on \in Manga /\ row[worker[w].on].status \in RowStatus
    BY <1>2 DEF TypeInv, TypeOK, AtWork, CheckDelete, Row
  <2>2. row' \in [Manga -> Row]
    BY <1>2, <2>1, EndedTyped DEF TypeInv, TypeOK, CheckDelete, Error
  <2>3. worker' \in [Worker -> Process]
    <3>1. [worker EXCEPT ![w].pc = "deleting"] \in [Worker -> Process]
      BY WorkTyped DEF TypeInv, PC
    <3>2. [worker EXCEPT ![w] = Idle] \in [Worker -> Process]
      BY IdleTyped DEF TypeInv, TypeOK
    <3> QED BY <1>2, <3>1, <3>2 DEF CheckDelete
  <2>4. AtWork'
    <3>1. CASE worker' = [worker EXCEPT ![w] = Idle]
      BY <3>1 DEF TypeInv, TypeOK, AtWork, Idle
    <3>2. CASE worker' = [worker EXCEPT ![w].pc = "deleting"]
      BY <2>1, <3>2 DEF TypeInv, TypeOK, AtWork, Process
    <3> QED BY <1>2, <3>1, <3>2 DEF CheckDelete
  <2> QED BY <1>2, <2>2, <2>3, <2>4 DEF TypeInv, TypeOK, CheckDelete
<1>3. CASE Erase(w)
  <2>1. worker[w].on \in Manga
    BY <1>3 DEF TypeInv, AtWork, Erase
  <2>2. worker' \in [Worker -> Process] /\ AtWork'
    BY <1>3 DEF TypeInv, TypeOK, AtWork, Erase, Process
  <2> QED BY <1>3, <2>1, <2>2 DEF TypeInv, TypeOK, Erase
<1>4. CASE FinishDelete(w)
  <2>1. worker[w].on \in Manga /\ row[worker[w].on].status \in RowStatus
    BY <1>4 DEF TypeInv, TypeOK, AtWork, FinishDelete, Row
  <2>2. row' \in [Manga -> Row]
    BY <1>4, <2>1, EndedTyped DEF TypeInv, FinishDelete, RowStatus, Error
  <2>3. worker' \in [Worker -> Process] /\ AtWork'
    BY <1>4, IdleTyped DEF TypeInv, TypeOK, AtWork, FinishDelete, Idle
  <2> QED BY <1>4, <2>2, <2>3 DEF TypeInv, TypeOK, FinishDelete
<1>5. CASE Crash(w)
  BY <1>5, IdleTyped DEF TypeInv, TypeOK, AtWork, Crash, Idle
<1> QED BY <1>1, <1>2, <1>3, <1>4, <1>5 DEF Delete

LEMMA SupervisorTyped ==
  ASSUME TypeInv, Supervisor
  PROVE  TypeInv'
<1>1. CASE ReadBatch
  <2>1. Links \in [Manga -> Manga \cup { None }]
    BY LinksTyped DEF TypeInv, Gallery
  <2> QED BY <1>1, <2>1 DEF TypeInv, TypeOK, AtWork, ReadBatch
<1>2. CASE WriteBatch
  <2> DEFINE target(m) == Newest(batch.links, m, batch.links[m])
  <2>1. \A m \in Manga : target(m) \in Gallery
    BY NewestTyped DEF TypeInv, TypeOK, Gallery
  <2>2. row' = [m \in Manga |->
          IF m \notin batch.rows THEN row[m]
          ELSE IF target(m) # None THEN [row[m] EXCEPT !.sup = target(m)]
          ELSE [row[m] EXCEPT !.status = "manual_review", !.error = "invalid"]]
    BY <1>2 DEF WriteBatch
  <2> HIDE DEF target
  <2>3. row' \in [Manga -> Row]
    <3>1. \A m \in Manga :
            /\ row[m] \in Row
            /\ [row[m] EXCEPT !.sup = target(m)] \in Row
            /\ [row[m] EXCEPT !.status = "manual_review", !.error = "invalid"] \in Row
      BY <2>1, StatusNames DEF TypeInv, TypeOK, Row, Gallery, Error
    <3> QED BY <2>2, <3>1
  <2>4. NoBatch \in [ rows : SUBSET Manga, links : [Manga -> Manga \cup { None }] ]
    BY DEF NoBatch
  <2> QED BY <1>2, <2>3, <2>4 DEF TypeInv, TypeOK, AtWork, WriteBatch
<1> QED BY <1>1, <1>2 DEF Supervisor

\* Every step that only rewrites rows keeps what processes have in memory.
LEMMA RowsTyped ==
  ASSUME TypeInv, NEW m \in Manga, Collect(m) \/ Archive(m) \/ Administrator(m)
  PROVE  TypeInv'
<1>1. row' \in [Manga -> Row]
  <2>1. CASE Collect(m)
    BY <2>1 DEF TypeInv, TypeOK, Collect, Row, RowStatus
  <2>2. CASE Pipeline(m) \/ EndUpload(m) \/ EndCleanup(m) \/ Release(m)
    <3>1. row[m].error \in Error /\ "other" \in Error /\ "duplicate" \in Error
      BY DEF TypeInv, TypeOK, Row, Error
    <3> QED BY <2>2, <3>1, EndedTyped, StatusNames
            DEF TypeInv, Pipeline, EndUpload, EndCleanup, Release
  <2>3. CASE ClaimUpload(m) \/ ClaimCleanup(m)
    <3>1. "uploading" \in RowStatus /\ "upload" \in Lease /\ "cleanup" \in Lease
      BY DEF RowStatus, Lease
    <3>2. /\ [row EXCEPT ![m].status = "uploading", ![m].lease = "upload"] \in [Manga -> Row]
          /\ [row EXCEPT ![m].lease = "cleanup"] \in [Manga -> Row]
      BY <3>1, WriteTyped, Zenon DEF TypeInv
    <3> QED BY <2>3, <3>2 DEF ClaimUpload, ClaimCleanup
  <2>4. CASE Override(m) \/ Resume(m)
    <3>1. \/ \E to \in RowStatus : row' = [row EXCEPT ![m].status = to]
          \/ \E n \in Manga : row' = [row EXCEPT ![m].status = "outdated", ![m].sup = n]
      BY <2>4 DEF Override, Resume, RowStatus
    <3>2. "outdated" \in RowStatus
      BY DEF RowStatus
    <3>3. /\ \A to \in RowStatus : [row EXCEPT ![m].status = to] \in [Manga -> Row]
          /\ \A n \in Manga :
               [row EXCEPT ![m].status = "outdated", ![m].sup = n] \in [Manga -> Row]
      BY <3>2, WriteTyped, Zenon DEF TypeInv
    <3>4. CASE \E to \in RowStatus : row' = [row EXCEPT ![m].status = to]
      BY <3>3, <3>4, Zenon
    <3>5. CASE \E n \in Manga : row' = [row EXCEPT ![m].status = "outdated", ![m].sup = n]
      BY <3>3, <3>5, Zenon
    <3> QED BY <3>1, <3>4, <3>5
  <2>5. CASE ResolveConflict(m)
    <3>1. \A n \in Manga :
            /\ row[n] \in Row
            /\ [row[n] EXCEPT !.status = "upload_pending"] \in Row
            /\ [row[n] EXCEPT !.status = "outdated", !.sup = m] \in Row
      <4>1. "upload_pending" \in RowStatus /\ "outdated" \in RowStatus
        BY StatusNames
      <4>2. \A n \in Manga : row[n] \in Row
        BY DEF TypeInv, TypeOK
      <4> QED BY <4>1, <4>2 DEF Row
    <3>2. \A n \in Manga : row'[n] \in Row
      BY <2>5, <3>1 DEF ResolveConflict
    <3> QED BY <2>5, <3>2 DEF ResolveConflict
  <2> QED BY <2>1, <2>2, <2>3, <2>4, <2>5 DEF Archive, Administrator
<1>2. UNCHANGED << worker, batch, missed >>
  BY DEF Collect, Archive, Administrator, Pipeline, ClaimUpload, EndUpload, ClaimCleanup,
         EndCleanup, Release, Override, Resume, ResolveConflict
<1>3. byHand' \in BOOLEAN /\ erased' \subseteq erased
  BY DEF TypeInv, TypeOK, Collect, Archive, Administrator, Pipeline, ClaimUpload, EndUpload,
         ClaimCleanup, EndCleanup, Release, Override, Resume, ResolveConflict
<1> QED BY <1>1, <1>2, <1>3 DEF TypeInv, TypeOK, AtWork

LEMMA TypeStep == TypeInv /\ [Next]_vars => TypeInv'
<1> SUFFICES ASSUME TypeInv, [Next]_vars PROVE TypeInv'
  OBVIOUS
<1>1. CASE UNCHANGED vars
  BY <1>1 DEF vars, TypeInv, TypeOK, AtWork
<1> QED BY <1>1, DetailsTyped, DeleteTyped, SupervisorTyped, RowsTyped,
           AdministeredAssumption DEF Next

LEMMA TypeInit == Init => TypeInv
<1> SUFFICES ASSUME Init PROVE TypeInv
  OBVIOUS
<1>1. row \in [Manga -> Row] /\ worker \in [Worker -> Process]
  BY IdleTyped DEF Init
<1>2. batch \in [ rows : SUBSET Manga, links : [Manga -> Manga \cup { None }] ]
  BY DEF Init, NoBatch
<1>3. AtWork
  BY DEF Init, AtWork, Idle
<1> QED BY <1>1, <1>2, <1>3 DEF Init, TypeInv, TypeOK

(***************************************************************************)
(* Every row, process and batch stays in its type, for any galleries and   *)
(* processes and whatever pages say and administrators do.                 *)
(***************************************************************************)
THEOREM TypeCorrect == Spec => []TypeOK
<1>1. Spec => []TypeInv
  BY TypeInit, TypeStep, PTL DEF Spec
<1> QED BY <1>1, PTL DEF TypeInv

----------------------------------------------------------------------------
\* What a process holds of the rows while its transaction is open: the lease of
\* its gallery, and the parent it is to mark, free, uploaded and unlinked.
Holds(w) ==
  LET p == worker[w] IN
  /\ p.pc \in { "reading", "staged" } =>
       row[p.on].lease = "details" /\ row[p.on].status = "details_pending"
  /\ p.pc \in { "claimed", "deleting", "erased" } =>
       /\ row[p.on].lease = "delete"
       /\ row[p.on].status \in { "outdated", "force_delete_pending" }
  /\ p.pc = "staged" => p.sup \in { row[p.on].sup } \cup (Manga \ { p.on })
  /\ p.pc = "staged" /\ p.parent # None =>
       /\ row[p.parent].lease = "none"
       /\ row[p.parent].status \in { "uploaded", "completed" }
       /\ row[p.parent].sup = None
       /\ p.newest \in Manga \ { p.parent }

\* No two processes hold the same row.
Apart(w, v) ==
  /\ worker[w].pc # "idle" /\ worker[v].pc # "idle" => worker[w].on # worker[v].on
  /\ worker[w].pc = "staged" /\ worker[v].pc = "staged" /\ worker[w].parent # None =>
       worker[w].parent # worker[v].parent

\* The rows the Supervisor is advancing stay free, and wait for a delete or review.
BatchHeld ==
  \A m \in batch.rows :
    row[m].lease = "none" /\ row[m].status \in { "outdated", "manual_review" }

HeldInv ==
  /\ TypeInv /\ BatchHeld /\ NoSelfReplacement
  /\ \A w \in Worker : Holds(w)
  /\ \A w, v \in Worker : w # v => Apart(w, v)

\* w has no part in row m.
Clear(w, m) ==
  /\ worker[w].pc # "idle" => worker[w].on # m
  /\ worker[w].pc = "staged" => worker[w].parent # m

\* Nobody has part in row m.
Unheld(m) == m \notin batch.rows /\ \A w \in Worker : Clear(w, m)

\* What processes and the Supervisor's batch hold is in use, and known.
LEMMA InUse ==
  ASSUME HeldInv, NEW w \in Worker, NEW m \in Manga, ~Clear(w, m)
  PROVE  \/ /\ worker[w].on = m /\ worker[w].pc # "idle"
            /\ row[m].lease \in { "details", "delete" }
            /\ row[m].status \in { "details_pending", "outdated", "force_delete_pending" }
         \/ /\ worker[w].pc = "staged" /\ worker[w].parent = m
            /\ row[m].lease = "none" /\ row[m].status \in { "uploaded", "completed" }
<1>1. Holds(w)
  BY DEF HeldInv
<1>2. worker[w].pc \in { "idle", "reading", "staged", "claimed", "deleting", "erased" }
  BY DEF HeldInv, TypeInv, TypeOK, Process
<1> QED BY <1>1, <1>2, NoneAssumption DEF Holds, Clear

\* A row that is free, or leased to something else, or unknown, is held by nobody.
LEMMA FreeIsUnheld ==
  ASSUME HeldInv, NEW m \in Manga,
         \/ Free(m)
         \/ row[m].lease \in { "upload", "cleanup" }
         \/ row[m].lease # "none" /\ \A w \in Worker : worker[w].on # m
         \/ row[m].status = "absent"
  PROVE  Unheld(m)
<1>1. m \notin batch.rows
  BY DEF HeldInv, BatchHeld, Free, Locked
<1>2. \A w \in Worker : Clear(w, m)
  BY InUse DEF Free, Locked
<1> QED BY <1>1, <1>2 DEF Unheld

\* So is a row the Supervisor is advancing, by any process.
LEMMA BatchIsClear ==
  ASSUME HeldInv, NEW m \in batch.rows, NEW w \in Worker
  PROVE  Clear(w, m)
<1>1. m \in Manga
  BY DEF HeldInv, TypeInv, TypeOK
<1> QED BY <1>1, InUse DEF HeldInv, BatchHeld

(***************************************************************************)
(* A step that writes the rows T and moves the processes V keeps what the  *)
(* others hold, when they have no part in T.                               *)
(***************************************************************************)
LEMMA HeldStep ==
  ASSUME HeldInv, TypeInv', NEW T \in SUBSET Manga, NEW V \in SUBSET Worker,
         \A n \in Manga \ T : row'[n] = row[n],
         \A m \in T : row'[m].sup # m,
         (batch' = batch /\ T \cap batch.rows = {}) \/ BatchHeld',
         \A v \in Worker \ V : worker'[v] = worker[v] /\ \A m \in T : Clear(v, m),
         \A w \in V : Holds(w)' /\ \A v \in Worker \ { w } : Apart(w, v)'
  PROVE  HeldInv'
<1>1. NoSelfReplacement'
  BY DEF HeldInv, NoSelfReplacement
<1>2. BatchHeld'
  BY DEF HeldInv, BatchHeld, TypeInv, TypeOK
<1>3. ASSUME NEW w \in Worker \ V
      PROVE  Holds(w)'
  <2>1. Holds(w) /\ worker'[w] = worker[w] /\ worker[w] \in Process
    BY <1>3 DEF HeldInv, TypeInv, TypeOK
  <2>2. worker[w].pc # "idle" => row'[worker[w].on] = row[worker[w].on]
    <3>1. worker[w].pc # "idle" => worker[w].on \in Manga
      BY <1>3 DEF HeldInv, TypeInv, AtWork
    <3> QED BY <1>3, <3>1 DEF Clear
  <2>3. worker[w].pc = "staged" /\ worker[w].parent # None =>
          row'[worker[w].parent] = row[worker[w].parent]
    <3>1. worker[w].parent \in Manga \cup { None }
      BY <2>1 DEF Process
    <3> QED BY <1>3, <3>1 DEF Clear
  <2> QED BY <2>1, <2>2, <2>3 DEF Holds
<1>4. ASSUME NEW w \in Worker, NEW v \in Worker, w # v
      PROVE  Apart(w, v)'
  <2>1. CASE w \in V
    BY <1>4, <2>1
  <2>2. CASE v \in V
    BY <1>4, <2>2 DEF Apart
  <2>3. CASE w \notin V /\ v \notin V
    BY <1>4, <2>3 DEF Apart, HeldInv
  <2> QED BY <2>1, <2>2, <2>3
<1> QED BY <1>1, <1>2, <1>3, <1>4 DEF HeldInv

\* A step that writes one row nobody has part in keeps what everybody holds.
LEMMA OneRowHeld ==
  ASSUME HeldInv, TypeInv', NEW m \in Manga, Unheld(m), UNCHANGED << worker, batch >>,
         \A n \in Manga \ { m } : row'[n] = row[n], row'[m].sup # m
  PROVE  HeldInv'
<1>1. { m } \cap batch.rows = {} /\ \A w \in Worker : \A n \in { m } : Clear(w, n)
  BY DEF Unheld
<1>2. { m } \in SUBSET Manga /\ {} \in SUBSET Worker
  OBVIOUS
<1> QED BY <1>1, <1>2, HeldStep

\* Collection, the pipeline, uploads and administrators write rows nobody holds.
LEMMA RowsHeld ==
  ASSUME HeldInv, TypeInv', NEW m \in Manga, Collect(m) \/ Archive(m) \/ Administrator(m)
  PROVE  HeldInv'
<1>1. UNCHANGED << worker, batch >>
  BY DEF Collect, Archive, Administrator, Pipeline, ClaimUpload, EndUpload, ClaimCleanup,
         EndCleanup, Release, Override, Resume, ResolveConflict
<1>2. row \in [Manga -> Row] /\ row[m] \in Row /\ row[m].sup # m
  BY DEF HeldInv, TypeInv, TypeOK, NoSelfReplacement
<1>3. ASSUME NEW to, NEW error, row' = Ended(m, to, error), Unheld(m)
      PROVE  HeldInv'
  <2>1. row'[m].sup = row[m].sup /\ \A n \in Manga \ { m } : row'[n] = row[n]
    BY <1>2, <1>3 DEF Ended, Row
  <2> QED BY <1>1, <1>2, <1>3, <2>1, OneRowHeld
<1>4. CASE Collect(m)
  <2>1. Unheld(m)
    BY <1>4, FreeIsUnheld DEF Collect, Known
  <2>2. row'[m].sup = row[m].sup /\ \A n \in Manga \ { m } : row'[n] = row[n]
    BY <1>2, <1>4 DEF Collect, Row
  <2> QED BY <1>1, <1>2, <2>1, <2>2, OneRowHeld
<1>5. CASE Pipeline(m)
  BY <1>3, <1>5, FreeIsUnheld DEF Pipeline
<1>6. CASE EndUpload(m) \/ EndCleanup(m) \/ Release(m)
  BY <1>3, <1>6, FreeIsUnheld DEF EndUpload, EndCleanup, Release
<1>7. CASE ClaimUpload(m) \/ ClaimCleanup(m)
  <2>1. Unheld(m)
    BY <1>7, FreeIsUnheld DEF ClaimUpload, ClaimCleanup
  <2>2. row'[m].sup = row[m].sup /\ \A n \in Manga \ { m } : row'[n] = row[n]
    BY <1>2, <1>7 DEF ClaimUpload, ClaimCleanup, Row
  <2> QED BY <1>1, <1>2, <2>1, <2>2, OneRowHeld
<1>8. CASE Override(m) \/ Resume(m)
  <2>1. Unheld(m)
    BY <1>8, FreeIsUnheld DEF Override, Resume
  <2>2. row'[m].sup # m /\ \A n \in Manga \ { m } : row'[n] = row[n]
    BY <1>2, <1>8 DEF Override, Resume, Row
  <2> QED BY <1>1, <1>2, <2>1, <2>2, OneRowHeld
<1>9. CASE ResolveConflict(m)
  <2>1. PICK olds \in SUBSET (Manga \ { m }) :
          /\ \A old \in olds : Free(old)
          /\ row' = [n \in Manga |->
               CASE n = m -> [row[n] EXCEPT !.status = "upload_pending"]
                 [] n \in olds -> [row[n] EXCEPT !.status = "outdated", !.sup = m]
                 [] OTHER -> row[n]]
    BY <1>9 DEF ResolveConflict
  <2> DEFINE T == olds \cup { m }
  <2>2. T \in SUBSET Manga /\ \A n \in T : Unheld(n)
    BY <1>9, <2>1, FreeIsUnheld DEF ResolveConflict
  <2>3. \A n \in Manga \ T : row'[n] = row[n]
    BY <2>1
  <2>4. \A n \in T : row'[n].sup # n
    BY <1>2, <2>1 DEF HeldInv, TypeInv, TypeOK, Row
  <2>5. T \cap batch.rows = {} /\ \A w \in Worker : \A n \in T : Clear(w, n)
    BY <2>2 DEF Unheld
  <2> HIDE DEF T
  <2> QED BY <1>1, <2>2, <2>3, <2>4, <2>5, HeldStep
<1> QED BY <1>4, <1>5, <1>6, <1>7, <1>8, <1>9 DEF Archive, Administrator

\* The Supervisor reads and writes rows no process has part in.
LEMMA SupervisorHeld ==
  ASSUME HeldInv, TypeInv', Supervisor
  PROVE  HeldInv'
<1>1. CASE ReadBatch
  <2>1. BatchHeld'
    BY <1>1 DEF ReadBatch, BatchHeld, Advanceable, Free
  <2>2. UNCHANGED << row, worker >>
    BY <1>1 DEF ReadBatch
  <2> QED BY <2>1, <2>2 DEF HeldInv, NoSelfReplacement, Holds, Apart
<1>2. CASE WriteBatch
  <2> DEFINE target(m) == Newest(batch.links, m, batch.links[m])
  <2>1. batch.rows \in SUBSET Manga /\ batch.links \in [Manga -> Gallery]
    BY DEF HeldInv, TypeInv, TypeOK, Gallery
  <2>2. row' = [m \in Manga |->
          IF m \notin batch.rows THEN row[m]
          ELSE IF target(m) # None THEN [row[m] EXCEPT !.sup = target(m)]
          ELSE [row[m] EXCEPT !.status = "manual_review", !.error = "invalid"]]
    BY <1>2 DEF WriteBatch
  <2>3. \A m \in Manga : target(m) # None => target(m) # m
    BY <2>1, NewestIsLast
  <2> HIDE DEF target
  <2>4. ASSUME NEW m \in batch.rows
        PROVE  row'[m].sup # m
    <3>1. m \in Manga /\ row[m] \in Row /\ row[m].sup # m
      BY <2>1 DEF HeldInv, NoSelfReplacement, TypeInv, TypeOK
    <3>2. CASE target(m) # None
      <4>1. row'[m] = [row[m] EXCEPT !.sup = target(m)]
        BY <2>2, <3>1, <3>2
      <4>2. row'[m].sup = target(m)
        BY <3>1, <4>1 DEF Row
      <4> QED BY <2>3, <3>1, <3>2, <4>2
    <3>3. CASE target(m) = None
      <4>1. row'[m] = [row[m] EXCEPT !.status = "manual_review", !.error = "invalid"]
        BY <2>2, <3>1, <3>3
      <4> QED BY <3>1, <4>1 DEF Row
    <3> QED BY <3>2, <3>3
  <2>5. BatchHeld'
    BY <1>2 DEF WriteBatch, BatchHeld, NoBatch
  <2>6. worker' = worker /\ \A m \in Manga \ batch.rows : row'[m] = row[m]
    BY <1>2, <2>2 DEF WriteBatch
  <2>7. \A w \in Worker : \A m \in batch.rows : Clear(w, m)
    BY BatchIsClear
  <2>8. {} \in SUBSET Worker /\ \A v \in Worker : worker'[v] = worker[v]
    BY <2>6
  <2> HIDE DEF target
  <2>9. batch.rows \in SUBSET Manga
    BY <2>1
  <2> QED BY <2>4, <2>5, <2>6, <2>7, <2>8, <2>9, HeldStep
<1> QED BY <1>1, <1>2 DEF Supervisor

----------------------------------------------------------------------------
\* The gallery a process works on is held by that process only.
LEMMA OwnRow ==
  ASSUME HeldInv, NEW w \in Worker, worker[w].pc # "idle"
  PROVE  /\ worker[w].on \in Manga \ batch.rows
         /\ row[worker[w].on].lease \in { "details", "delete" }
         /\ \A v \in Worker \ { w } : Clear(v, worker[w].on)
<1> DEFINE m == worker[w].on
<1>1. m \in Manga /\ Holds(w) /\ worker[w] \in Process
  BY DEF HeldInv, TypeInv, TypeOK, AtWork
<1>2. row[m].lease \in { "details", "delete" }
  BY <1>1 DEF Holds, Process
<1>3. m \notin batch.rows
  BY <1>2 DEF HeldInv, BatchHeld
<1>4. ASSUME NEW v \in Worker \ { w }
      PROVE  Clear(v, m)
  <2>1. Apart(w, v)
    BY <1>4 DEF HeldInv
  <2> QED BY <1>1, <1>2, <2>1, InUse DEF Apart
<1> QED BY <1>1, <1>2, <1>3, <1>4

\* So is the parent it is to mark.
LEMMA OwnParent ==
  ASSUME HeldInv, NEW w \in Worker, worker[w].pc = "staged", worker[w].parent # None
  PROVE  /\ worker[w].parent \in Manga \ batch.rows
         /\ worker[w].parent # worker[w].on
         /\ worker[w].newest # worker[w].parent
         /\ \A v \in Worker \ { w } : Clear(v, worker[w].parent)
<1> DEFINE p == worker[w].parent
<1>1. p \in Manga /\ Holds(w)
  BY DEF HeldInv, TypeInv, TypeOK, Process
<1>2. /\ row[p].lease = "none" /\ row[p].status \in { "uploaded", "completed" }
      /\ worker[w].newest # p
  BY <1>1 DEF Holds
<1>3. p # worker[w].on
  BY <1>2, OwnRow
<1>4. p \notin batch.rows
  BY <1>2 DEF HeldInv, BatchHeld
<1>5. ASSUME NEW v \in Worker \ { w }
      PROVE  Clear(v, p)
  <2>1. Apart(w, v)
    BY <1>5 DEF HeldInv
  <2> QED BY <1>1, <1>2, <2>1, InUse DEF Apart
<1> QED BY <1>1, <1>2, <1>3, <1>4, <1>5

\* A step of w that writes only rows nobody else has part in keeps what others hold.
LEMMA WorkerHeld ==
  ASSUME HeldInv, TypeInv', NEW w \in Worker, UNCHANGED batch,
         NEW T \in SUBSET (Manga \ batch.rows),
         \A n \in Manga \ T : row'[n] = row[n],
         \A m \in T : row'[m].sup # m,
         \A v \in Worker \ { w } : worker'[v] = worker[v] /\ \A m \in T : Clear(v, m),
         Holds(w)', \A v \in Worker \ { w } : Apart(w, v)'
  PROVE  HeldInv'
<1> DEFINE V == { w }
<1>1. V \in SUBSET Worker /\ T \in SUBSET Manga /\ T \cap batch.rows = {}
  OBVIOUS
<1>2. \A v \in Worker \ V : worker'[v] = worker[v] /\ \A m \in T : Clear(v, m)
  OBVIOUS
<1>3. \A x \in V : Holds(x)' /\ \A v \in Worker \ { x } : Apart(x, v)'
  OBVIOUS
<1> HIDE DEF V
<1> QED BY <1>1, <1>2, <1>3, HeldStep

\* A process that ends, having written rows only it had part in, leaves others alone.
LEMMA IdledHeld ==
  ASSUME HeldInv, TypeInv', NEW w \in Worker, worker' = [worker EXCEPT ![w] = Idle],
         UNCHANGED batch, NEW T \in SUBSET (Manga \ batch.rows),
         \A n \in Manga \ T : row'[n] = row[n],
         \A m \in T : row'[m].sup # m /\ \A v \in Worker \ { w } : Clear(v, m)
  PROVE  HeldInv'
<1>1. \A v \in Worker \ { w } : worker'[v] = worker[v] /\ \A m \in T : Clear(v, m)
  BY DEF HeldInv, TypeInv, TypeOK
<1>2. worker'[w] = Idle
  BY DEF HeldInv, TypeInv, TypeOK
<1>3. Holds(w)' /\ \A v \in Worker \ { w } : Apart(w, v)'
  BY <1>2 DEF Holds, Apart, Idle
<1> QED BY <1>1, <1>3, WorkerHeld

\* It may have written the row it worked on, and nothing else.
LEMMA OwnRowHeld ==
  ASSUME HeldInv, TypeInv', NEW w \in Worker, worker[w].pc # "idle",
         worker' = [worker EXCEPT ![w] = Idle], UNCHANGED batch,
         row' = row \/ \E to, error : row' = Ended(worker[w].on, to, error)
  PROVE  HeldInv'
<1> DEFINE m == worker[w].on
<1>1. m \in Manga \ batch.rows /\ \A v \in Worker \ { w } : Clear(v, m)
  BY OwnRow
<1>2. row \in [Manga -> Row] /\ row[m] \in Row /\ row[m].sup # m
  BY <1>1 DEF HeldInv, TypeInv, TypeOK, NoSelfReplacement
<1>3. row'[m].sup = row[m].sup /\ \A n \in Manga \ { m } : row'[n] = row[n]
  <2>1. ASSUME NEW to, NEW error, row' = Ended(m, to, error)
        PROVE  row'[m].sup = row[m].sup /\ \A n \in Manga \ { m } : row'[n] = row[n]
    BY <1>1, <1>2, <2>1 DEF Ended, Row
  <2> QED BY <2>1
<1> DEFINE T == { m }
<1>4. T \in SUBSET (Manga \ batch.rows) /\ \A n \in Manga \ T : row'[n] = row[n]
  BY <1>1, <1>3
<1>5. \A n \in T : row'[n].sup # n /\ \A v \in Worker \ { w } : Clear(v, n)
  BY <1>1, <1>2, <1>3
<1> HIDE DEF T
<1> QED BY <1>4, <1>5, IdledHeld

\* A process that goes on without writing rows keeps its gallery.
LEMMA GoesOnHeld ==
  ASSUME HeldInv, TypeInv', NEW w \in Worker, UNCHANGED << row, batch >>,
         \A v \in Worker \ { w } : worker'[v] = worker[v],
         worker[w].pc # "idle", worker'[w].on = worker[w].on, Holds(w)',
         worker'[w].pc = "staged" /\ worker'[w].parent # None => Free(worker'[w].parent)
  PROVE  HeldInv'
<1>1. \A v \in Worker \ { w } : Apart(w, v)
  BY DEF HeldInv
<1>2. \A v \in Worker \ { w } : Apart(w, v)'
  BY <1>1 DEF Apart, Free, Locked
<1> DEFINE T == {}
<1>3. T \in SUBSET (Manga \ batch.rows) /\ \A n \in Manga \ T : row'[n] = row[n]
  OBVIOUS
<1>4. \A m \in T : row'[m].sup # m /\ \A v \in Worker \ { w } : Clear(v, m)
  OBVIOUS
<1> HIDE DEF T
<1> QED BY <1>2, <1>3, <1>4, WorkerHeld

\* A process that claims a row nobody has part in holds it.
LEMMA ClaimHeld ==
  ASSUME HeldInv, TypeInv', NEW w \in Worker, NEW m \in Manga, Free(m), UNCHANGED batch,
         \A v \in Worker \ { w } : worker'[v] = worker[v],
         \A n \in Manga \ { m } : row'[n] = row[n], row'[m].sup = row[m].sup,
         worker'[w].on = m, worker'[w].pc # "staged", Holds(w)'
  PROVE  HeldInv'
<1>1. Unheld(m)
  BY FreeIsUnheld
<1>2. m \notin batch.rows /\ \A v \in Worker : Clear(v, m)
  BY <1>1 DEF Unheld
<1>3. \A v \in Worker \ { w } : Apart(w, v)'
  BY <1>2 DEF Apart, Clear
<1>4. row'[m].sup # m
  BY DEF HeldInv, NoSelfReplacement
<1> DEFINE T == { m }
<1>5. T \in SUBSET (Manga \ batch.rows) /\ \A n \in Manga \ T : row'[n] = row[n]
  BY <1>2
<1>6. /\ \A n \in T : row'[n].sup # n
      /\ \A v \in Worker \ { w } : \A n \in T : Clear(v, n)
  BY <1>2, <1>4
<1> HIDE DEF T
<1> QED BY <1>3, <1>5, <1>6, WorkerHeld

\* Details processes.
LEMMA DetailsHeld ==
  ASSUME HeldInv, TypeInv', NEW w \in Worker, Details(w)
  PROVE  HeldInv'
<1>0. worker \in [Worker -> Process] /\ worker[w] \in Process /\ row \in [Manga -> Row]
  BY DEF HeldInv, TypeInv, TypeOK
<1>1. ASSUME NEW m \in Manga, ClaimDetails(w, m)
      PROVE  HeldInv'
  <2>1. /\ \A n \in Manga \ { m } : row'[n] = row[n]
        /\ row'[m].sup = row[m].sup
        /\ row'[m].lease = "details" /\ row'[m].status = "details_pending"
    BY <1>0, <1>1 DEF ClaimDetails, Row
  <2>2. /\ worker'[w].on = m /\ worker'[w].pc = "reading"
        /\ \A v \in Worker \ { w } : worker'[v] = worker[v]
    BY <1>0, <1>1 DEF ClaimDetails, Process
  <2>3. Holds(w)'
    BY <2>1, <2>2 DEF Holds
  <2> QED BY <1>1, <2>1, <2>2, <2>3, ClaimHeld DEF ClaimDetails
<1>2. CASE DetailsFail(w)
  BY <1>2, OwnRowHeld DEF DetailsFail
<1>3. CASE Stage(w)
  <2>1. PICK end \in Process :
          /\ worker' = [worker EXCEPT ![w] = end]
          /\ end.pc = "staged" /\ end.on = worker[w].on
          /\ end.sup \in { row[worker[w].on].sup } \cup (Manga \ { worker[w].on })
          /\ end.parent # None =>
               /\ Superseded(end.parent, worker[w].on) /\ Free(end.parent)
               /\ end.newest \in Manga /\ end.newest # end.parent
    BY <1>3, StageShape DEF HeldInv
  <2>2. worker[w].pc = "reading" /\ UNCHANGED << row, batch >>
    BY <1>3 DEF Stage
  <2>3. worker'[w] = end /\ \A v \in Worker \ { w } : worker'[v] = worker[v]
    BY <1>0, <2>1
  <2>4. Holds(w)
    BY DEF HeldInv
  <2>5. Holds(w)'
    BY <2>1, <2>2, <2>3, <2>4 DEF Holds, Superseded, Free
  <2>6. end.parent # None => Free(end.parent)
    BY <2>1
  <2> QED BY <2>1, <2>2, <2>3, <2>5, <2>6, GoesOnHeld
<1>4. CASE Commit(w)
  <2> DEFINE end == worker[w]
             T == { end.on } \cup ({ end.parent } \ { None })
  <2>1. /\ end.pc = "staged"
        /\ worker' = [worker EXCEPT ![w] = Idle] /\ UNCHANGED batch
        /\ row' = [m \in Manga |->
             CASE m = end.on -> [ status |-> end.to, sup |-> end.sup,
                                  error |-> end.error, lease |-> "none" ]
               [] m # end.on /\ m = end.parent ->
                    [row[m] EXCEPT !.status = "outdated", !.sup = end.newest]
               [] OTHER -> row[m]]
    BY <1>4 DEF Commit
  <2>2. end.on \in Manga \ batch.rows /\ \A v \in Worker \ { w } : Clear(v, end.on)
    BY <2>1, OwnRow
  <2>3. end.parent # None =>
          /\ end.parent \in Manga \ batch.rows /\ end.parent # end.on
          /\ end.newest # end.parent
          /\ \A v \in Worker \ { w } : Clear(v, end.parent)
    BY <2>1, OwnParent
  <2>4. row'[end.on].sup # end.on
    <3>1. row'[end.on].sup = end.sup
      BY <2>1, <2>2
    <3>2. end.sup # end.on
      BY <2>1, <2>2 DEF HeldInv, Holds, NoSelfReplacement
    <3> QED BY <3>1, <3>2
  <2>5. end.parent # None => row'[end.parent].sup = end.newest
    <3> SUFFICES ASSUME end.parent # None PROVE row'[end.parent].sup = end.newest
      OBVIOUS
    <3>1. row'[end.parent] = [row[end.parent] EXCEPT !.status = "outdated", !.sup = end.newest]
      BY <2>1, <2>3
    <3>2. row[end.parent] \in Row
      BY <1>0, <2>3
    <3> QED BY <3>1, <3>2 DEF Row
  <2>6. \A n \in Manga \ T : row'[n] = row[n]
    BY <2>1, NoneAssumption
  <2>7. T \in SUBSET (Manga \ batch.rows)
    BY <2>2, <2>3
  <2>8. \A n \in T : row'[n].sup # n /\ \A v \in Worker \ { w } : Clear(v, n)
    BY <2>2, <2>3, <2>4, <2>5
  <2> HIDE DEF T
  <2> QED BY <2>1, <2>6, <2>7, <2>8, IdledHeld
<1> QED BY <1>1, <1>2, <1>3, <1>4 DEF Details

\* Delete processes, and crashes of both.
LEMMA DeleteHeld ==
  ASSUME HeldInv, TypeInv', NEW w \in Worker, Delete(w) \/ Crash(w)
  PROVE  HeldInv'
<1>0. worker \in [Worker -> Process] /\ worker[w] \in Process /\ row \in [Manga -> Row]
  BY DEF HeldInv, TypeInv, TypeOK
<1>1. ASSUME NEW m \in Manga, ClaimDelete(w, m)
      PROVE  HeldInv'
  <2>1. /\ \A n \in Manga \ { m } : row'[n] = row[n]
        /\ row'[m].sup = row[m].sup
        /\ row'[m].lease = "delete" /\ row'[m].status \in { "outdated", "force_delete_pending" }
    BY <1>0, <1>1 DEF ClaimDelete, DeleteReady, Row
  <2>2. /\ worker'[w].on = m /\ worker'[w].pc = "claimed"
        /\ \A v \in Worker \ { w } : worker'[v] = worker[v]
    BY <1>0, <1>1 DEF ClaimDelete, Process
  <2>3. Holds(w)'
    BY <2>1, <2>2 DEF Holds
  <2> QED BY <1>1, <2>1, <2>2, <2>3, ClaimHeld DEF ClaimDelete
<1>2. ASSUME NEW pc \in { "deleting", "erased" }, worker' = [worker EXCEPT ![w].pc = pc],
             worker[w].pc \in { "claimed", "deleting" }, UNCHANGED << row, batch >>
      PROVE  HeldInv'
  <2>1. /\ worker'[w].on = worker[w].on /\ worker'[w].pc = pc
        /\ \A v \in Worker \ { w } : worker'[v] = worker[v]
    BY <1>0, <1>2 DEF Process
  <2>2. Holds(w)
    BY DEF HeldInv
  <2>3. Holds(w)'
    BY <1>2, <2>1, <2>2 DEF Holds
  <2> QED BY <1>2, <2>1, <2>3, GoesOnHeld
<1>3. CASE CheckDelete(w)
  <2>1. CASE worker' = [worker EXCEPT ![w].pc = "deleting"] /\ UNCHANGED row
    BY <1>2, <1>3, <2>1 DEF CheckDelete
  <2>2. CASE worker' = [worker EXCEPT ![w] = Idle]
    BY <1>3, <2>2, OwnRowHeld DEF CheckDelete
  <2> QED BY <1>3, <2>1, <2>2, OwnRowHeld DEF CheckDelete
<1>4. CASE Erase(w)
  BY <1>2, <1>4 DEF Erase
<1>5. CASE FinishDelete(w)
  BY <1>5, OwnRowHeld DEF FinishDelete
<1>6. CASE Crash(w)
  BY <1>6, OwnRowHeld DEF Crash
<1> QED BY <1>1, <1>3, <1>4, <1>5, <1>6 DEF Delete

LEMMA HeldInit == Init => HeldInv
<1> SUFFICES ASSUME Init PROVE HeldInv
  OBVIOUS
<1>1. TypeInv
  BY TypeInit
<1>2. BatchHeld /\ NoSelfReplacement
  BY NoneAssumption DEF Init, BatchHeld, NoBatch, NoSelfReplacement, Absent
<1>3. \A w \in Worker : Holds(w) /\ \A v \in Worker : Apart(w, v)
  BY DEF Init, Holds, Apart, Idle
<1> QED BY <1>1, <1>2, <1>3 DEF HeldInv

LEMMA HeldNext == HeldInv /\ [Next]_vars => HeldInv'
<1> SUFFICES ASSUME HeldInv, [Next]_vars PROVE HeldInv'
  OBVIOUS
<1>1. TypeInv'
  BY TypeStep DEF HeldInv
<1>2. CASE UNCHANGED vars
  BY <1>1, <1>2 DEF vars, HeldInv, BatchHeld, NoSelfReplacement, Holds, Apart
<1> QED BY <1>1, <1>2, DetailsHeld, DeleteHeld, SupervisorHeld, RowsHeld,
           AdministeredAssumption DEF Next

LEMMA HeldAlways == Spec => []HeldInv
BY HeldInit, HeldNext, PTL DEF Spec

(***************************************************************************)
(* No row ever replaces itself, for any galleries and processes: links are *)
(* staged before they are written, and what a chain is staged on may have  *)
(* changed by then, but never who the link is from.                        *)
(***************************************************************************)
THEOREM NeverItsOwnReplacement == Spec => []NoSelfReplacement
BY HeldAlways, PTL DEF HeldInv

----------------------------------------------------------------------------
\* Ends of attempts and claims write no link.
LEMMA LinksKept ==
  ASSUME TypeOK, NEW n \in Manga, NEW m \in Manga
  PROVE  /\ \A to, error : Ended(n, to, error)[m].sup = row[m].sup
         /\ \A to : [row EXCEPT ![n].status = to][m].sup = row[m].sup
         /\ \A lease : [row EXCEPT ![n].lease = lease][m].sup = row[m].sup
         /\ \A to, lease :
              [row EXCEPT ![n].status = to, ![n].lease = lease][m].sup = row[m].sup
<1>1. row \in [Manga -> Row] /\ row[n] \in Row
  BY DEF TypeOK
<1>2. ASSUME NEW to, NEW error
      PROVE  Ended(n, to, error)[m].sup = row[m].sup
  BY <1>1 DEF Ended, Row
<1>3. ASSUME NEW to
      PROVE  [row EXCEPT ![n].status = to][m].sup = row[m].sup
  BY <1>1 DEF Row
<1>4. ASSUME NEW lease
      PROVE  [row EXCEPT ![n].lease = lease][m].sup = row[m].sup
  BY <1>1 DEF Row
<1>5. ASSUME NEW to, NEW lease
      PROVE  [row EXCEPT ![n].status = to, ![n].lease = lease][m].sup = row[m].sup
  BY <1>1 DEF Row
<1> QED BY <1>2, <1>3, <1>4, <1>5

(***************************************************************************)
(* A link is only ever written by the details transaction of its row, by   *)
(* one that marks the row as a parent, and to a row that is free or in the *)
(* Supervisor's batch.                                                     *)
(***************************************************************************)
LEMMA LinkWriters ==
  ASSUME HeldInv, [Next]_vars, NEW m \in Manga, row'[m].sup # row[m].sup
  PROVE  \/ \E w \in Worker : worker[w].pc = "staged" /\ worker[w].on = m
         \/ \E w \in Worker : worker[w].pc = "staged" /\ worker[w].parent = m
         \/ m \in batch.rows
         \/ Free(m)
<1>0. TypeOK /\ row \in [Manga -> Row]
  BY DEF HeldInv, TypeInv, TypeOK
<1>1. CASE UNCHANGED vars
  BY <1>1 DEF vars
<1>2. ASSUME NEW w \in Worker, Details(w) \/ Delete(w) \/ Crash(w)
      PROVE  \E v \in Worker : worker[v].pc = "staged" /\ m \in { worker[v].on, worker[v].parent }
  <2>1. CASE worker[w].pc = "idle"
    <3>1. PICK n \in Manga : ClaimDetails(w, n) \/ ClaimDelete(w, n)
      BY <1>2, <2>1 DEF Details, Delete, DetailsFail, Stage, Commit, CheckDelete, Erase,
                        FinishDelete, Crash
    <3>2. \/ row' = [row EXCEPT ![n].status = "details_pending", ![n].lease = "details"]
          \/ row' = [row EXCEPT ![n].lease = "delete"]
      BY <3>1 DEF ClaimDetails, ClaimDelete
    <3>3. /\ \A to, lease :
               [row EXCEPT ![n].status = to, ![n].lease = lease][m].sup = row[m].sup
          /\ \A lease : [row EXCEPT ![n].lease = lease][m].sup = row[m].sup
      BY <1>0, LinksKept, Zenon
    <3>4. CASE row' = [row EXCEPT ![n].status = "details_pending", ![n].lease = "details"]
      BY <3>3, <3>4, Zenon
    <3>5. CASE row' = [row EXCEPT ![n].lease = "delete"]
      BY <3>3, <3>5, Zenon
    <3> QED BY <3>2, <3>4, <3>5, Zenon
  <2>2. CASE worker[w].pc # "idle"
    <3>1. worker[w].on \in Manga
      BY <2>2, OwnRow
    <3>2. \A to, error : Ended(worker[w].on, to, error)[m].sup = row[m].sup
      BY <1>0, <3>1, LinksKept
    <3>3. ~DetailsFail(w) /\ ~FinishDelete(w) /\ ~CheckDelete(w)
      BY <3>2 DEF DetailsFail, FinishDelete, CheckDelete
    <3>4. ~Stage(w) /\ ~Erase(w) /\ ~Crash(w)
      BY DEF Stage, Erase, Crash
    <3>5. \A n \in Manga : ~ClaimDetails(w, n) /\ ~ClaimDelete(w, n)
      BY <2>2 DEF ClaimDetails, ClaimDelete
    <3>6. Commit(w)
      BY <1>2, <3>3, <3>4, <3>5 DEF Details, Delete
    <3> QED BY <3>6 DEF Commit
  <2> QED BY <2>1, <2>2
<1>3. CASE Supervisor
  BY <1>3 DEF Supervisor, ReadBatch, WriteBatch
<1>4. ASSUME NEW n \in Manga, Collect(n) \/ Archive(n) \/ Administrator(n)
      PROVE  Free(m)
  <2>1. CASE Collect(n)
    BY <1>0, <2>1, LinksKept DEF Collect
  <2>2. CASE Archive(n)
    BY <1>0, <2>2, LinksKept
       DEF Archive, Pipeline, ClaimUpload, EndUpload, ClaimCleanup, EndCleanup
  <2>3. CASE Release(n) \/ Resume(n)
    BY <1>0, <2>3, LinksKept DEF Release, Resume
  <2>4. CASE Override(n)
    BY <1>0, <2>4, LinksKept DEF Override
  <2>5. CASE ResolveConflict(n)
    <3>1. PICK olds \in SUBSET Manga :
            /\ \A old \in olds : Free(old)
            /\ row' = [x \in Manga |->
                 CASE x = n -> [row[x] EXCEPT !.status = "upload_pending"]
                   [] x \in olds -> [row[x] EXCEPT !.status = "outdated", !.sup = n]
                   [] OTHER -> row[x]]
      BY <2>5 DEF ResolveConflict
    <3>2. CASE m = n
      BY <2>5, <3>2 DEF ResolveConflict
    <3>3. CASE m # n
      BY <3>1, <3>3
    <3> QED BY <3>2, <3>3
  <2> QED BY <1>4, <2>1, <2>2, <2>3, <2>4, <2>5 DEF Administrator
<1> QED BY <1>1, <1>2, <1>3, <1>4, AdministeredAssumption DEF Next

(***************************************************************************)
(* The link of a leased row does not change under the process that works   *)
(* on it, for any number of galleries and processes.                       *)
(***************************************************************************)
THEOREM LeasedLinkStable == Spec => LeasedLinkIsStable
<1>1. ASSUME HeldInv, [Next]_vars
      PROVE  \A m \in Manga :
               row[m].lease # "none" /\ row'[m].sup # row[m].sup =>
                 \E w \in Worker : worker[w].pc = "staged" /\ worker[w].on = m
  <2> SUFFICES ASSUME NEW m \in Manga, row[m].lease # "none", row'[m].sup # row[m].sup
               PROVE  \E w \in Worker : worker[w].pc = "staged" /\ worker[w].on = m
    OBVIOUS
  <2>1. m \notin batch.rows /\ ~Free(m)
    BY <1>1 DEF HeldInv, BatchHeld, Free
  <2>2. \A w \in Worker : worker[w].pc = "staged" => worker[w].parent # m
    BY <1>1, NoneAssumption DEF HeldInv, Holds
  <2> QED BY <1>1, <2>1, <2>2, LinkWriters
<1> QED BY <1>1, HeldAlways, PTL DEF Spec, LeasedLinkIsStable

----------------------------------------------------------------------------
\* Rows erased because they were replaced, and those a process is about to erase.
Doomed ==
  erased \cup { m \in Manga :
    \E w \in Worker : worker[w].pc = "deleting" /\ worker[w].on = m /\ row[m].status = "outdated" }

\* The links once the Supervisor has written its batch.
Planned ==
  [m \in Manga |->
     LET target == Newest(batch.links, m, batch.links[m]) IN
     IF m \in batch.rows /\ target # None THEN target ELSE row[m].sup]

\* Following the links from a member of S never leads out of S.
ClosedUnder(links, S) == S # {} /\ \A m \in S : links[m] \in S

\* A doomed row has a replacement, and nobody has taken it up again.
DoomedRows ==
  \A m \in Doomed : row[m].status \in { "outdated", "manual_review", "deleted" }
                    /\ row[m].sup \in Manga

\* Now, and once the batch is written, the links lead out of the doomed rows.
Escapes ==
  \A S \in SUBSET Doomed : ~ClosedUnder(Links, S) /\ ~ClosedUnder(Planned, S)

EscapeInv == HeldInv /\ DoomedRows /\ Escapes

\* A step that dooms no row and leaves the links of the doomed ones keeps them escaping.
LEMMA SameEscapes ==
  ASSUME EscapeInv, HeldInv', UNCHANGED batch, Doomed' \subseteq Doomed,
         \A m \in Doomed' : /\ row'[m].sup = row[m].sup
                            /\ row'[m].status \in { "outdated", "manual_review", "deleted" }
  PROVE  EscapeInv'
<1>1. Doomed \subseteq Manga /\ Doomed' \subseteq Manga
  BY DEF EscapeInv, HeldInv, TypeInv, TypeOK, Doomed
<1>2. DoomedRows'
  BY DEF EscapeInv, DoomedRows
<1>3. \A m \in Doomed' : m \in Doomed /\ Links'[m] = Links[m] /\ Planned'[m] = Planned[m]
  BY <1>1 DEF Links, Planned
<1>4. ASSUME NEW S \in SUBSET Doomed', ClosedUnder(Links', S) \/ ClosedUnder(Planned', S)
      PROVE  FALSE
  <2>1. S \in SUBSET Doomed /\ (ClosedUnder(Links, S) \/ ClosedUnder(Planned, S))
    BY <1>3, <1>4 DEF ClosedUnder
  <2> QED BY <2>1 DEF EscapeInv, Escapes
<1>5. Escapes'
  BY <1>4 DEF Escapes, ClosedUnder
<1> QED BY <1>2, <1>5 DEF EscapeInv

(***************************************************************************)
(* A step that writes the rows T, erases none and sets no process to       *)
(* erasing keeps doomed rows escaping, when nobody is erasing a row of T   *)
(* and T's erased rows keep their link and stay out of use.                *)
(***************************************************************************)
LEMMA QuietStep ==
  ASSUME EscapeInv, HeldInv', UNCHANGED batch, NEW T \in SUBSET Manga,
         \A n \in Manga \ T : row'[n] = row[n],
         erased' \subseteq erased,
         \A w \in Worker : worker'[w].pc = "deleting" =>
           worker'[w] = worker[w] /\ \A m \in T : Clear(w, m),
         \A m \in T : m \in erased' =>
           row'[m].sup = row[m].sup /\ row'[m].status \in { "outdated", "manual_review", "deleted" }
  PROVE  EscapeInv'
<1>1. ASSUME NEW m \in Doomed'
      PROVE  /\ m \in Doomed /\ row'[m].sup = row[m].sup
             /\ row'[m].status \in { "outdated", "manual_review", "deleted" }
  <2>0. m \in Manga
    BY <1>1 DEF Doomed, EscapeInv, HeldInv, TypeInv, TypeOK
  <2>1. CASE m \in erased'
    <3>1. m \in Doomed
      BY <2>1 DEF Doomed
    <3> QED BY <2>0, <2>1, <3>1 DEF EscapeInv, DoomedRows
  <2>2. CASE m \notin erased'
    <3>1. PICK w \in Worker :
            worker'[w].pc = "deleting" /\ worker'[w].on = m /\ row'[m].status = "outdated"
      BY <1>1, <2>2 DEF Doomed
    <3>2. m \notin T /\ worker'[w] = worker[w]
      BY <3>1 DEF Clear
    <3>3. row'[m] = row[m]
      BY <2>0, <3>2
    <3> QED BY <2>0, <3>1, <3>2, <3>3 DEF Doomed
  <2> QED BY <2>1, <2>2
<1> QED BY <1>1, SameEscapes

\* The end of an attempt, and what it keeps.
LEMMA EndedFields ==
  ASSUME TypeOK, NEW m \in Manga, NEW to, NEW error
  PROVE  /\ \A n \in Manga \ { m } : Ended(m, to, error)[n] = row[n]
         /\ Ended(m, to, error)[m].sup = row[m].sup
         /\ Ended(m, to, error)[m].status = to
BY DEF TypeOK, Ended, Row

\* Processes that read pages doom nothing.
LEMMA DetailsEscape ==
  ASSUME EscapeInv, HeldInv', NEW w \in Worker, Details(w)
  PROVE  EscapeInv'
<1>0. /\ worker \in [Worker -> Process] /\ worker[w] \in Process
      /\ row \in [Manga -> Row] /\ TypeOK /\ HeldInv /\ Holds(w)
      /\ \A m \in erased : row[m].status \in { "outdated", "manual_review", "deleted" }
  BY DEF EscapeInv, HeldInv, TypeInv, TypeOK, DoomedRows, Doomed
<1>1. UNCHANGED << batch, erased >>
  BY DEF Details, ClaimDetails, DetailsFail, Stage, Commit
<1>2. /\ \A v \in Worker \ { w } : worker'[v] = worker[v]
      /\ worker'[w].pc # "deleting"
  <2>1. CASE Stage(w)
    <3>1. PICK end : worker' = [worker EXCEPT ![w] = end] /\ end.pc = "staged"
      BY <2>1, StageShape DEF EscapeInv, HeldInv
    <3> QED BY <1>0, <3>1
  <2>2. ASSUME NEW m \in Manga, ClaimDetails(w, m)
        PROVE  /\ \A v \in Worker \ { w } : worker'[v] = worker[v]
               /\ worker'[w].pc # "deleting"
    BY <1>0, <2>2 DEF ClaimDetails, Process
  <2>3. CASE DetailsFail(w) \/ Commit(w)
    <3>1. worker' = [worker EXCEPT ![w] = Idle]
      BY <2>3 DEF DetailsFail, Commit
    <3> QED BY <1>0, <3>1 DEF Idle
  <2> QED BY <2>1, <2>2, <2>3 DEF Details
<1>3. ASSUME NEW T \in SUBSET Manga, \A n \in Manga \ T : row'[n] = row[n],
             \A m \in T : m \notin erased /\ \A v \in Worker \ { w } : Clear(v, m)
      PROVE  EscapeInv'
  BY <1>1, <1>2, <1>3, QuietStep
<1>4. ASSUME NEW m \in Manga, ClaimDetails(w, m)
      PROVE  EscapeInv'
  <2> DEFINE T == { m }
  <2>1. \A n \in Manga \ T : row'[n] = row[n]
    BY <1>0, <1>4 DEF ClaimDetails
  <2>2. m \notin erased /\ Unheld(m)
    BY <1>0, <1>4, FreeIsUnheld DEF ClaimDetails
  <2>3. \A n \in T : n \notin erased /\ \A v \in Worker \ { w } : Clear(v, n)
    BY <2>2 DEF Unheld
  <2>4. T \in SUBSET Manga
    OBVIOUS
  <2> HIDE DEF T
  <2> QED BY <1>3, <2>1, <2>3, <2>4
<1>5. CASE DetailsFail(w)
  <2> DEFINE m == worker[w].on
             T == { m }
  <2>1. m \in Manga /\ row[m].status = "details_pending"
        /\ \A v \in Worker \ { w } : Clear(v, m)
    BY <1>0, <1>5, OwnRow DEF DetailsFail, Holds
  <2>2. \A n \in Manga \ T : row'[n] = row[n]
    BY <1>0, <1>5, <2>1, EndedFields DEF DetailsFail
  <2>3. \A n \in T : n \notin erased /\ \A v \in Worker \ { w } : Clear(v, n)
    BY <1>0, <2>1
  <2>4. T \in SUBSET Manga
    BY <2>1
  <2> HIDE DEF T
  <2> QED BY <1>3, <2>2, <2>3, <2>4
<1>6. CASE Stage(w)
  <2> DEFINE T == {}
  <2>1. \A n \in Manga \ T : row'[n] = row[n]
    BY <1>6 DEF Stage
  <2>2. T \in SUBSET Manga /\ \A n \in T : n \notin erased /\ \A v \in Worker \ { w } : Clear(v, n)
    OBVIOUS
  <2> HIDE DEF T
  <2> QED BY <1>3, <2>1, <2>2
<1>7. CASE Commit(w)
  <2> DEFINE end == worker[w]
             T == { end.on } \cup ({ end.parent } \ { None })
  <2>1. end.pc = "staged"
    BY <1>7 DEF Commit
  <2>2. /\ end.on \in Manga /\ end.on \notin erased
        /\ \A v \in Worker \ { w } : Clear(v, end.on)
    BY <1>0, <2>1, OwnRow DEF Holds
  <2>3. end.parent # None =>
          /\ end.parent \in Manga /\ end.parent \notin erased
          /\ \A v \in Worker \ { w } : Clear(v, end.parent)
    BY <1>0, <2>1, OwnParent DEF Holds
  <2>4. \A n \in Manga \ T : row'[n] = row[n]
    BY <1>7, NoneAssumption DEF Commit
  <2>5. T \in SUBSET Manga
    BY <2>2, <2>3
  <2>6. \A n \in T : n \notin erased /\ \A v \in Worker \ { w } : Clear(v, n)
    BY <2>2, <2>3
  <2> HIDE DEF T
  <2> QED BY <1>3, <2>4, <2>5, <2>6
<1> QED BY <1>4, <1>5, <1>6, <1>7 DEF Details

(***************************************************************************)
(* The check before a delete is what dooms a row: its replacement is under *)
(* way then, so it is not doomed itself, and the row's link leads out.     *)
(***************************************************************************)
LEMMA CheckEscape ==
  ASSUME EscapeInv, HeldInv', NEW w \in Worker, CheckDelete(w),
         worker' = [worker EXCEPT ![w].pc = "deleting"], UNCHANGED row,
         DeleteReady(worker[w].on)
  PROVE  EscapeInv'
<1> DEFINE m == worker[w].on
<1>0. /\ worker \in [Worker -> Process] /\ worker[w] \in Process
      /\ row \in [Manga -> Row] /\ TypeOK /\ HeldInv /\ erased \in SUBSET Manga
  BY DEF EscapeInv, HeldInv, TypeInv, TypeOK
<1>1. UNCHANGED << batch, erased >> /\ worker[w].pc = "claimed"
  BY DEF CheckDelete
<1>2. m \in Manga /\ m \notin batch.rows
  BY <1>0, <1>1, OwnRow
<1>3. Doomed' \subseteq Doomed \cup { m }
  BY <1>0, <1>1 DEF Doomed, Process
<1>4. CASE row[m].status # "outdated"
  <2>1. Doomed' \subseteq Doomed
    BY <1>0, <1>1, <1>4 DEF Doomed, Process
  <2> QED BY <1>1, <2>1, SameEscapes DEF EscapeInv, DoomedRows
<1>5. CASE row[m].status = "outdated"
  <2>1. row[m].sup \in Manga /\ row[row[m].sup].status \in ReplacementDeleteReady
    <3>1. Replaced(m)
      BY <1>5 DEF DeleteReady
    <3>2. row[m].sup \in Manga \cup { None }
      BY <1>0, <1>2 DEF Row
    <3> QED BY <3>1, <3>2 DEF Replaced
  <2>2. row[m].sup \notin Doomed /\ row[m].sup # m
    <3>1. row[m].sup \notin Doomed
      BY <2>1 DEF EscapeInv, DoomedRows, ReplacementDeleteReady
    <3>2. row[m].sup # m
      BY <1>2 DEF EscapeInv, HeldInv, NoSelfReplacement
    <3> QED BY <3>1, <3>2
  <2>3. DoomedRows'
    BY <1>3, <1>5, <2>1 DEF EscapeInv, DoomedRows
  <2>4. Links' = Links /\ Planned' = Planned
    BY <1>1 DEF Links, Planned
  <2>5. Links[m] = row[m].sup /\ Planned[m] = row[m].sup
    BY <1>2 DEF Links, Planned
  <2>6. ASSUME NEW f, f[m] = row[m].sup, NEW S \in SUBSET Doomed', ClosedUnder(f, S)
        PROVE  S \in SUBSET Doomed
    BY <1>3, <2>2, <2>6 DEF ClosedUnder
  <2>7. ASSUME NEW S \in SUBSET Doomed', ClosedUnder(Links, S) \/ ClosedUnder(Planned, S)
        PROVE  FALSE
    <3>1. S \in SUBSET Doomed
      BY <2>5, <2>6, <2>7
    <3> QED BY <2>7, <3>1 DEF EscapeInv, Escapes
  <2>8. Escapes'
    BY <2>4, <2>7 DEF Escapes, ClosedUnder
  <2> QED BY <2>3, <2>8 DEF EscapeInv
<1> QED BY <1>4, <1>5

\* Processes that delete, and crashes.
LEMMA DeleteEscape ==
  ASSUME EscapeInv, HeldInv', NEW w \in Worker, Delete(w) \/ Crash(w)
  PROVE  EscapeInv'
<1>0. /\ worker \in [Worker -> Process] /\ worker[w] \in Process
      /\ row \in [Manga -> Row] /\ TypeOK /\ HeldInv /\ Holds(w)
      /\ \A m \in erased : row[m].status \in { "outdated", "manual_review", "deleted" }
  BY DEF EscapeInv, HeldInv, TypeInv, TypeOK, DoomedRows, Doomed
<1>1. UNCHANGED batch
  BY DEF Delete, ClaimDelete, CheckDelete, Erase, FinishDelete, Crash
<1>2. ASSUME UNCHANGED << row, erased >>, worker'[w].pc # "deleting",
             \A v \in Worker \ { w } : worker'[v] = worker[v]
      PROVE  EscapeInv'
  <2> DEFINE T == {}
  <2>1. T \in SUBSET Manga /\ \A n \in Manga \ T : row'[n] = row[n]
    BY <1>2
  <2>2. \A v \in Worker : worker'[v].pc = "deleting" =>
          worker'[v] = worker[v] /\ \A n \in T : Clear(v, n)
    BY <1>2
  <2>3. \A n \in T : n \in erased' =>
          row'[n].sup = row[n].sup /\ row'[n].status \in { "outdated", "manual_review", "deleted" }
    OBVIOUS
  <2> HIDE DEF T
  <2> QED BY <1>1, <1>2, <2>1, <2>2, <2>3, QuietStep
<1>3. ASSUME NEW m \in Manga, ClaimDelete(w, m)
      PROVE  EscapeInv'
  <2> DEFINE T == { m }
  <2>1. T \in SUBSET Manga /\ \A n \in Manga \ T : row'[n] = row[n]
    BY <1>0, <1>3 DEF ClaimDelete
  <2>2. worker'[w].pc = "claimed" /\ \A v \in Worker \ { w } : worker'[v] = worker[v]
    BY <1>0, <1>3 DEF ClaimDelete, Process
  <2>3. \A v \in Worker : Clear(v, m)
    BY <1>0, <1>3, FreeIsUnheld DEF ClaimDelete, Unheld
  <2>4. \A v \in Worker : worker'[v].pc = "deleting" =>
          worker'[v] = worker[v] /\ \A n \in T : Clear(v, n)
    BY <2>2, <2>3
  <2>5. row'[m].sup = row[m].sup /\ row'[m].status = row[m].status /\ erased' = erased
    BY <1>0, <1>3 DEF ClaimDelete, Row
  <2>6. \A n \in T : n \in erased' =>
          row'[n].sup = row[n].sup /\ row'[n].status \in { "outdated", "manual_review", "deleted" }
    BY <1>0, <2>5
  <2> HIDE DEF T
  <2> QED BY <1>1, <2>1, <2>4, <2>5, <2>6, QuietStep
<1>4. ASSUME NEW to \in { row[worker[w].on].status, "manual_review", "deleted" }, NEW error,
             worker[w].pc \in { "claimed", "deleting", "erased" },
             row' = Ended(worker[w].on, to, error), erased' = erased,
             worker' = [worker EXCEPT ![w] = Idle]
      PROVE  EscapeInv'
  <2> DEFINE m == worker[w].on
             T == { m }
  <2>1. m \in Manga /\ \A v \in Worker \ { w } : Clear(v, m)
    BY <1>4, OwnRow, <1>0
  <2>2. T \in SUBSET Manga /\ \A n \in Manga \ T : row'[n] = row[n]
    BY <1>0, <1>4, <2>1, EndedFields
  <2>3. row'[m].sup = row[m].sup /\ row'[m].status = to
    BY <1>0, <1>4, <2>1, EndedFields
  <2>4. \A v \in Worker : worker'[v].pc = "deleting" =>
          worker'[v] = worker[v] /\ \A n \in T : Clear(v, n)
    BY <1>0, <1>4, <2>1 DEF Idle
  <2>5. \A n \in T : n \in erased' =>
          row'[n].sup = row[n].sup /\ row'[n].status \in { "outdated", "manual_review", "deleted" }
    BY <1>0, <1>4, <2>3
  <2> HIDE DEF T
  <2> QED BY <1>1, <1>4, <2>2, <2>4, <2>5, QuietStep
<1>5. CASE CheckDelete(w)
  <2>1. CASE worker' = [worker EXCEPT ![w].pc = "deleting"] /\ UNCHANGED row
             /\ DeleteReady(worker[w].on)
    BY <1>5, <2>1, CheckEscape
  <2>2. CASE worker' = [worker EXCEPT ![w] = Idle]
             /\ row' = Ended(worker[w].on, row[worker[w].on].status, "other")
    BY <1>4, <1>5, <2>2 DEF CheckDelete
  <2> QED BY <1>5, <2>1, <2>2 DEF CheckDelete
<1>6. CASE Erase(w)
  <2> DEFINE m == worker[w].on
  <2>1. /\ worker[w].pc = "deleting" /\ worker'[w].pc = "erased" /\ row' = row
        /\ \A v \in Worker \ { w } : worker'[v] = worker[v]
        /\ erased' = IF row[m].status = "outdated" THEN erased \cup { m } ELSE erased
    BY <1>0, <1>6 DEF Erase, Process
  <2>2. m \in Manga
    BY <1>0, <2>1, OwnRow
  <2>3. Doomed' \subseteq Doomed
    BY <2>1, <2>2 DEF Doomed
  <2> QED BY <1>1, <2>1, <2>3, SameEscapes DEF EscapeInv, DoomedRows
<1>7. CASE FinishDelete(w)
  BY <1>4, <1>7 DEF FinishDelete
<1>8. CASE Crash(w)
  <2>1. /\ UNCHANGED << row, erased >> /\ worker'[w].pc # "deleting"
        /\ \A v \in Worker \ { w } : worker'[v] = worker[v]
    BY <1>0, <1>8 DEF Crash, Idle
  <2> QED BY <1>2, <2>1
<1> QED BY <1>3, <1>5, <1>6, <1>7, <1>8 DEF Delete

(***************************************************************************)
(* The Supervisor plans to link its batch to rows without a replacement,   *)
(* which are not doomed; what it writes is what it planned, because nobody *)
(* links or dooms a row of the batch meanwhile.                            *)
(***************************************************************************)
LEMMA SupervisorEscape ==
  ASSUME EscapeInv, HeldInv', Supervisor
  PROVE  EscapeInv'
<1>0. /\ TypeOK /\ HeldInv /\ row \in [Manga -> Row] /\ batch.rows \subseteq Manga
      /\ batch.links \in [Manga -> Gallery] /\ Doomed \subseteq Manga
      /\ Links \in [Manga -> Gallery]
  BY LinksTyped DEF EscapeInv, HeldInv, TypeInv, TypeOK, Gallery, Doomed
<1>1. CASE ReadBatch
  <2>1. /\ UNCHANGED << row, worker, erased >> /\ batch'.links = Links
        /\ batch'.rows \subseteq Manga
    BY <1>1 DEF ReadBatch
  <2>2. Doomed' = Doomed /\ DoomedRows' /\ Links' = Links
    BY <2>1 DEF EscapeInv, Doomed, DoomedRows, Links
  <2>3. ASSUME NEW m \in Doomed
        PROVE  Planned'[m] = Links[m] \/ Planned'[m] \notin Doomed
    <3> DEFINE target == Newest(Links, m, Links[m])
    <3>1. m \in Manga /\ Links[m] = row[m].sup
      BY <1>0, <2>3 DEF Links
    <3>2. Planned'[m] = IF m \in batch'.rows /\ target # None THEN target ELSE row[m].sup
      BY <2>1, <3>1 DEF Planned
    <3>3. target # None => target \in Manga /\ Links[target] = None
      BY <1>0, NewestIsLast
    <3>4. target # None => target \notin Doomed
      BY <3>3, NoneAssumption DEF EscapeInv, DoomedRows, Links
    <3> QED BY <3>1, <3>2, <3>4
  <2>4. ASSUME NEW S \in SUBSET Doomed, ClosedUnder(Links, S) \/ ClosedUnder(Planned', S)
        PROVE  FALSE
    <3>1. ClosedUnder(Links, S)
      BY <2>3, <2>4 DEF ClosedUnder
    <3> QED BY <3>1 DEF EscapeInv, Escapes
  <2>5. Escapes'
    BY <2>2, <2>4 DEF Escapes, ClosedUnder
  <2> QED BY <2>2, <2>5 DEF EscapeInv
<1>2. CASE WriteBatch
  <2> DEFINE target(m) == Newest(batch.links, m, batch.links[m])
  <2>1. /\ UNCHANGED << worker, erased >> /\ batch'.rows = {}
        /\ row' = [m \in Manga |->
             IF m \notin batch.rows THEN row[m]
             ELSE IF target(m) # None THEN [row[m] EXCEPT !.sup = target(m)]
             ELSE [row[m] EXCEPT !.status = "manual_review", !.error = "invalid"]]
    BY <1>2 DEF WriteBatch, NoBatch
  <2>2. ASSUME NEW m \in Manga
        PROVE  /\ row'[m].sup = Planned[m]
               /\ row'[m].status = row[m].status \/ (m \in batch.rows /\ row'[m].status = "manual_review")
    <3>0. Planned[m] = IF m \in batch.rows /\ target(m) # None THEN target(m) ELSE row[m].sup
      BY DEF Planned
    <3> HIDE DEF target
    <3>1. row[m] \in Row
      BY <1>0
    <3>2. CASE m \notin batch.rows
      BY <2>1, <3>0, <3>2
    <3>3. CASE m \in batch.rows /\ target(m) # None
      <4>1. row'[m] = [row[m] EXCEPT !.sup = target(m)]
        BY <2>1, <3>3
      <4> QED BY <3>0, <3>1, <3>3, <4>1 DEF Row
    <3>4. CASE m \in batch.rows /\ target(m) = None
      <4>1. row'[m] = [row[m] EXCEPT !.status = "manual_review", !.error = "invalid"]
        BY <2>1, <3>4
      <4> QED BY <3>0, <3>1, <3>4, <4>1 DEF Row
    <3> QED BY <3>2, <3>3, <3>4
  <2> HIDE DEF target
  <2>3. Doomed' \subseteq Doomed
    BY <2>1, <2>2 DEF Doomed
  <2>4. \A m \in Manga : Planned[m] \in Manga \/ (Planned[m] = row[m].sup /\ row[m].sup = None)
    <3> SUFFICES ASSUME NEW m \in Manga, Planned[m] # row[m].sup \/ row[m].sup # None
                 PROVE  Planned[m] \in Manga
      OBVIOUS
    <3>1. row[m].sup \in Manga \cup { None }
      BY <1>0 DEF Row
    <3>2. target(m) # None => target(m) \in Manga
      BY <1>0, NewestIsLast DEF target
    <3> QED BY <3>1, <3>2 DEF Planned, target
  <2>5. DoomedRows'
    <3> SUFFICES ASSUME NEW m \in Doomed'
                 PROVE  row'[m].status \in { "outdated", "manual_review", "deleted" }
                        /\ row'[m].sup \in Manga
      BY DEF DoomedRows
    <3>1. m \in Manga /\ m \in Doomed
      BY <1>0, <2>3
    <3>2. row[m].sup \in Manga /\ row[m].status \in { "outdated", "manual_review", "deleted" }
      BY <3>1 DEF EscapeInv, DoomedRows
    <3> QED BY <2>2, <2>4, <3>1, <3>2, NoneAssumption
  <2>6. \A m \in Doomed' : Links'[m] = Planned[m] /\ Planned'[m] = Planned[m]
    BY <1>0, <2>1, <2>2, <2>3 DEF Links, Planned
  <2>7. ASSUME NEW S \in SUBSET Doomed', ClosedUnder(Links', S) \/ ClosedUnder(Planned', S)
        PROVE  FALSE
    <3>1. S \in SUBSET Doomed /\ ClosedUnder(Planned, S)
      BY <2>3, <2>6, <2>7 DEF ClosedUnder
    <3> QED BY <3>1 DEF EscapeInv, Escapes
  <2>8. Escapes'
    BY <2>7 DEF Escapes, ClosedUnder
  <2> QED BY <2>5, <2>8 DEF EscapeInv
<1> QED BY <1>1, <1>2 DEF Supervisor

\* The pipeline, uploads and administrators doom no row; they take rows up again.
LEMMA RowsEscape ==
  ASSUME EscapeInv, HeldInv', NEW m \in Manga, Collect(m) \/ Archive(m) \/ Administrator(m)
  PROVE  EscapeInv'
<1>0. /\ TypeOK /\ HeldInv /\ row \in [Manga -> Row] /\ row[m] \in Row /\ erased \in SUBSET Manga
      /\ \A n \in erased : /\ row[n].status \in { "outdated", "manual_review", "deleted" }
                           /\ row[n].sup \in Manga
  BY DEF EscapeInv, HeldInv, TypeInv, TypeOK, DoomedRows, Doomed
<1>1. UNCHANGED << worker, batch >> /\ erased' \subseteq erased
  BY DEF Collect, Archive, Administrator, Pipeline, ClaimUpload, EndUpload, ClaimCleanup,
         EndCleanup, Release, Override, Resume, ResolveConflict
<1>2. ASSUME NEW T \in SUBSET Manga, \A n \in T : Unheld(n),
             \A n \in Manga \ T : row'[n] = row[n],
             \A n \in T : n \in erased' => row'[n].sup = row[n].sup
               /\ row'[n].status \in { "outdated", "manual_review", "deleted" }
      PROVE  EscapeInv'
  BY <1>1, <1>2, QuietStep DEF Unheld
<1>3. ASSUME Unheld(m), \A n \in Manga \ { m } : row'[n] = row[n],
             m \in erased' =>
               row'[m].sup = row[m].sup /\ row'[m].status \in { "outdated", "manual_review", "deleted" }
      PROVE  EscapeInv'
  <2> DEFINE T == { m }
  <2>1. /\ T \in SUBSET Manga /\ \A n \in T : Unheld(n)
        /\ \A n \in Manga \ T : row'[n] = row[n]
        /\ \A n \in T : n \in erased' => row'[n].sup = row[n].sup
             /\ row'[n].status \in { "outdated", "manual_review", "deleted" }
    BY <1>3
  <2> HIDE DEF T
  <2> QED BY <1>2, <2>1
<1>4. ASSUME NEW to, NEW error, row' = Ended(m, to, error), Unheld(m),
             m \in erased' => to \in { "outdated", "manual_review", "deleted" }
      PROVE  EscapeInv'
  BY <1>0, <1>3, <1>4, EndedFields
<1>5. CASE Collect(m) \/ ClaimUpload(m) \/ ClaimCleanup(m)
  <2>1. row[m].status \in { "absent", "upload_pending", "uploaded" }
    BY <1>5 DEF Collect, Known, ClaimUpload, ClaimCleanup
  <2>2. m \notin erased'
    BY <1>0, <1>1, <2>1
  <2>3. Unheld(m)
    BY <1>0, <1>5, FreeIsUnheld DEF Collect, Known, ClaimUpload, ClaimCleanup
  <2>4. \A n \in Manga \ { m } : row'[n] = row[n]
    BY <1>0, <1>5 DEF Collect, ClaimUpload, ClaimCleanup
  <2> QED BY <1>3, <2>2, <2>3, <2>4
<1>6. CASE Pipeline(m)
  <2>1. Unheld(m) /\ m \notin erased'
    BY <1>0, <1>1, <1>6, FreeIsUnheld DEF Pipeline
  <2> QED BY <1>4, <1>6, <2>1 DEF Pipeline
<1>7. CASE EndUpload(m)
  <2>1. Unheld(m) /\ m \notin erased'
    BY <1>0, <1>1, <1>7, FreeIsUnheld DEF EndUpload
  <2> QED BY <1>4, <1>7, <2>1 DEF EndUpload
<1>8. CASE EndCleanup(m)
  <2>1. Unheld(m)
    BY <1>0, <1>8, FreeIsUnheld DEF EndCleanup
  <2>2. PICK to \in { "completed", "uploaded", "manual_review" } : row' = Ended(m, to, "other")
    BY <1>8 DEF EndCleanup
  <2>3. m \notin erased' \/ to = "manual_review"
    <3>1. m \notin erased
      BY <1>0, <1>8 DEF EndCleanup
    <3> QED BY <1>1, <3>1
  <2> QED BY <1>4, <2>1, <2>2, <2>3
<1>9. CASE Release(m)
  <2>1. Unheld(m)
    BY <1>0, <1>9, FreeIsUnheld DEF Release
  <2> QED BY <1>4, <1>9, <2>1 DEF Release
<1>10. CASE Override(m) \/ Resume(m)
  <2>1. Unheld(m) /\ m \notin erased'
    BY <1>0, <1>10, FreeIsUnheld DEF Override, Resume
  <2>2. \A n \in Manga \ { m } : row'[n] = row[n]
    BY <1>0, <1>10 DEF Override, Resume
  <2> QED BY <1>3, <2>1, <2>2
<1>11. CASE ResolveConflict(m)
  <2>1. PICK olds \in SUBSET (Manga \ { m }) :
          /\ \A old \in olds : Free(old) /\ row[old].sup \in { None, m }
          /\ row' = [n \in Manga |->
               CASE n = m -> [row[n] EXCEPT !.status = "upload_pending"]
                 [] n \in olds -> [row[n] EXCEPT !.status = "outdated", !.sup = m]
                 [] OTHER -> row[n]]
    BY <1>11 DEF ResolveConflict
  <2> DEFINE T == olds \cup { m }
  <2>2. T \in SUBSET Manga /\ \A n \in T : Unheld(n)
    BY <1>0, <1>11, <2>1, FreeIsUnheld DEF ResolveConflict
  <2>3. \A n \in Manga \ T : row'[n] = row[n]
    BY <2>1
  <2>4. m \notin erased'
    BY <1>0, <1>1, <1>11, NoneAssumption DEF ResolveConflict
  <2>5. ASSUME NEW n \in olds, n \in erased'
        PROVE  row'[n].sup = row[n].sup /\ row'[n].status = "outdated"
    <3>1. n \in Manga /\ row[n] \in Row /\ row[n].sup = m
      BY <1>0, <1>1, <2>1, <2>5, NoneAssumption
    <3>2. row'[n] = [row[n] EXCEPT !.status = "outdated", !.sup = m]
      BY <2>1, <2>5, <3>1
    <3> QED BY <3>1, <3>2 DEF Row
  <2>6. \A n \in T : n \in erased' => row'[n].sup = row[n].sup
          /\ row'[n].status \in { "outdated", "manual_review", "deleted" }
    BY <2>4, <2>5
  <2> HIDE DEF T
  <2> QED BY <1>2, <2>2, <2>3, <2>6
<1> QED BY <1>5, <1>6, <1>7, <1>8, <1>9, <1>10, <1>11 DEF Archive, Administrator

LEMMA EscapeInit == Init => EscapeInv
<1> SUFFICES ASSUME Init PROVE EscapeInv
  OBVIOUS
<1>1. HeldInv
  BY HeldInit
<1>2. Doomed = {}
  BY DEF Init, Doomed, Idle
<1> QED BY <1>1, <1>2 DEF EscapeInv, DoomedRows, Escapes, ClosedUnder

LEMMA EscapeNext == EscapeInv /\ [Next]_vars => EscapeInv'
<1> SUFFICES ASSUME EscapeInv, [Next]_vars PROVE EscapeInv'
  OBVIOUS
<1>1. HeldInv'
  BY HeldNext DEF EscapeInv
<1>2. CASE UNCHANGED vars
  <2>1. Doomed' = Doomed
    BY <1>2 DEF vars, Doomed
  <2> QED BY <1>1, <1>2, <2>1, SameEscapes DEF vars, EscapeInv, DoomedRows
<1> QED BY <1>1, <1>2, DetailsEscape, DeleteEscape, SupervisorEscape, RowsEscape,
           AdministeredAssumption DEF Next

(***************************************************************************)
(* Replacement never erases every version of an archive, for any number of *)
(* versions and of delete processes, and however administrators link rows. *)
(***************************************************************************)
THEOREM AVersionRemains == Spec => []SomeVersionRemains
<1>1. EscapeInv => SomeVersionRemains
  <2> SUFFICES ASSUME EscapeInv, NEW S \in SUBSET erased, Closed(S) PROVE FALSE
    BY DEF SomeVersionRemains
  <2>1. S \in SUBSET Doomed /\ S \in SUBSET Manga
    BY DEF Doomed, EscapeInv, HeldInv, TypeInv, TypeOK
  <2>2. ClosedUnder(Links, S)
    BY <2>1 DEF Closed, ClosedUnder, Links
  <2> QED BY <2>1, <2>2 DEF EscapeInv, Escapes
<1> QED BY <1>1, EscapeInit, EscapeNext, PTL DEF Spec

----------------------------------------------------------------------------
(***************************************************************************)
(* What a chain says at its end: a gallery without a link is the end of    *)
(* its own chain and of the chain of a gallery linked to it, and the end   *)
(* of a longer chain is the end of the rest of it.                         *)
(***************************************************************************)
LEMMA EndOfOne ==
  ASSUME NEW links \in [Manga -> Gallery], NEW n \in Manga, links[n] = None, NEW source
  PROVE  Newest(links, source, n) \in { None, n }
<1>1. ASSUME NEW x \in Reached(links, n)
      PROVE  x = n
  <2>1. { n } \in SUBSET Manga /\ n \in { n } /\ \A y \in { n } : links[y] \in { n } \cup { None }
    OBVIOUS
  <2> QED BY <1>1, <2>1 DEF Reached
<1> DEFINE ends == { x \in Reached(links, n) : links[x] = None }
<1>2. ends # {} => (CHOOSE x \in ends : TRUE) = n
  BY <1>1
<1> QED BY <1>2 DEF Newest

LEMMA EndOfTwo ==
  ASSUME NEW links \in [Manga -> Gallery], NEW m \in Manga, NEW n \in Manga,
         links[m] = n, links[n] = None, NEW source
  PROVE  Newest(links, source, m) \in { None, n }
<1>1. ASSUME NEW x \in Reached(links, m)
      PROVE  x \in { m, n }
  <2>1. /\ { m, n } \in SUBSET Manga /\ m \in { m, n }
        /\ \A y \in { m, n } : links[y] \in { m, n } \cup { None }
    OBVIOUS
  <2> QED BY <1>1, <2>1 DEF Reached
<1> DEFINE ends == { x \in Reached(links, m) : links[x] = None }
<1>2. \A x \in ends : x = n
  BY <1>1, NoneAssumption
<1>3. ends # {} => (CHOOSE x \in ends : TRUE) = n
  BY <1>2
<1> QED BY <1>3 DEF Newest

LEMMA RestOfChain ==
  ASSUME NEW links \in [Manga -> Gallery], NEW m \in Manga, NEW n \in Reached(links, m),
         n # m
  PROVE  links[m] \in Manga /\ n \in Reached(links, links[m])
<1>1. n \in Manga /\ \A S \in SUBSET Manga :
                       (m \in S /\ \A x \in S : links[x] \in S \cup { None }) => n \in S
  BY DEF Reached
<1>2. links[m] \in Manga
  <2>1. SUFFICES ASSUME links[m] = None PROVE FALSE
    BY DEF Gallery
  <2>2. { m } \in SUBSET Manga /\ m \in { m } /\ \A x \in { m } : links[x] \in { m } \cup { None }
    BY <2>1
  <2> QED BY <1>1, <2>2
<1>3. ASSUME NEW S \in SUBSET Manga, links[m] \in S, \A x \in S : links[x] \in S \cup { None }
      PROVE  n \in S
  <2> DEFINE T == S \cup { m }
  <2>1. T \in SUBSET Manga /\ m \in T /\ \A x \in T : links[x] \in T \cup { None }
    BY <1>3
  <2>2. n \in T
    BY <1>1, <2>1
  <2> QED BY <2>2
<1> QED BY <1>1, <1>2, <1>3 DEF Reached

\* The end of a chain is reached from its start.
LEMMA NewestReached ==
  ASSUME NEW links \in [Manga -> Gallery], NEW source, NEW target,
         Newest(links, source, target) # None
  PROVE  Newest(links, source, target) \in Reached(links, target)
<1> DEFINE ends == { n \in Reached(links, target) : links[n] = None }
<1>1. ends # {} /\ Newest(links, source, target) = CHOOSE n \in ends : TRUE
  BY DEF Newest
<1> QED BY <1>1

(***************************************************************************)
(* x may come to be linked to y: it is, or the Supervisor has read that it *)
(* was, or a transaction has staged it.  The chains that are advanced, and *)
(* those a new link is checked against, may be any mixture of these.       *)
(***************************************************************************)
Leads(x, y) ==
  \/ row[x].sup = y
  \/ batch.links[x] = y
  \/ \E w \in Worker :
       /\ worker[w].pc = "staged"
       /\ \/ worker[w].on = x /\ worker[w].sup = y
          \/ worker[w].parent = x /\ worker[w].newest = y

\* No set of galleries in which each leads to another: no ring of such links.
NoRing == \A S \in SUBSET Manga : (\A x \in S : \E y \in S : Leads(x, y)) => S = {}

\* The Supervisor advances linked rows, and what was linked when it read the chains
\* is linked still.
BatchIsLinked ==
  /\ \A m \in batch.rows : batch.links[m] # None
  /\ \A m \in Manga : batch.links[m] # None => row[m].sup # None

\* Without the advisory lock a transaction writes no link to its own row, and
\* links a parent only to that row, which is the end of its chain.
PlainStage ==
  \A w \in Worker :
    worker[w].pc = "staged" /\ ~worker[w].locks =>
      /\ worker[w].sup = row[worker[w].on].sup
      /\ worker[w].parent # None => worker[w].newest = worker[w].on /\ worker[w].sup = None

LinkInv == HeldInv /\ BatchIsLinked /\ PlainStage /\ (~byHand => NoRing)

\* A step after which no gallery leads anywhere new closes no ring.
LEMMA FewerLinks ==
  ASSUME NoRing, \A x, y \in Manga : Leads(x, y)' => Leads(x, y)
  PROVE  NoRing'
BY DEF NoRing

(***************************************************************************)
(* Nor does one after which galleries lead to n that did not, when nothing *)
(* leads further from whatever n leads to.                                 *)
(***************************************************************************)
LEMMA AddedLinks ==
  ASSUME NoRing, NEW n,
         \A x, y \in Manga : Leads(x, y)' => Leads(x, y) \/ y = n,
         \A y, z \in Manga : Leads(n, y)' => ~Leads(y, z)'
  PROVE  NoRing'
<1> SUFFICES ASSUME NEW S \in SUBSET Manga, \A x \in S : \E y \in S : Leads(x, y)'
             PROVE  S = {}
  BY DEF NoRing
<1>1. n \notin S
  <2> SUFFICES ASSUME n \in S PROVE FALSE
    OBVIOUS
  <2>1. PICK y \in S : Leads(n, y)'
    OBVIOUS
  <2>2. PICK z \in S : Leads(y, z)'
    OBVIOUS
  <2> QED BY <2>1, <2>2
<1>2. \A x \in S : \E y \in S : Leads(x, y)
  BY <1>1
<1> QED BY <1>2 DEF NoRing

\* Marking the parent leaves the row's own link and the lock alone, and links the
\* parent to the end of the chain the row begins.
LEMMA MarkingLinks ==
  ASSUME TypeOK, NEW m \in Manga, NEW p \in Gallery, NEW end \in Process,
         end.parent = None,
         \/ end.sup = None
         \/ end.sup \in Manga \ { m } /\ row[end.sup].sup = None
  PROVE  LET e == Marking(m, p, end) IN
         /\ e.sup = end.sup /\ e.locks = end.locks
         /\ e.parent # None =>
              e.newest = IF end.sup = None THEN m ELSE end.sup
<1> DEFINE links == [Links EXCEPT ![m] = end.sup]
           newest == Newest(links, p, m)
<1>1. Links \in [Manga -> Gallery] /\ links \in [Manga -> Gallery] /\ links[m] = end.sup
  BY LinksTyped DEF Process, Gallery
<1>2. newest \in { None, IF end.sup = None THEN m ELSE end.sup }
  <2>1. CASE end.sup = None
    BY <1>1, <2>1, EndOfOne
  <2>2. CASE end.sup \in Manga \ { m } /\ row[end.sup].sup = None
    <3>1. links[end.sup] = None /\ end.sup # None
      BY <1>1, <2>2, NoneAssumption DEF Links
    <3> HIDE DEF links
    <3> QED BY <1>1, <2>2, <3>1, EndOfTwo
  <2> QED BY <2>1, <2>2
<1> HIDE DEF newest
<1>3. \/ Marking(m, p, end) = end
      \/ Marking(m, p, end) = [end EXCEPT !.missed = p]
      \/ Marking(m, p, end) = [end EXCEPT !.to = "manual_review", !.error = "invalid"]
      \/ newest # None /\ Marking(m, p, end) = [end EXCEPT !.parent = p, !.newest = newest]
  BY DEF Marking, newest
<1> QED BY <1>2, <1>3 DEF Process

(***************************************************************************)
(* What links a details transaction stages: none that its row does not     *)
(* have; the parent's to its row, which has none; or, under the lock, its  *)
(* row's and the parent's to the end of a chain.                           *)
(***************************************************************************)
LEMMA StageLinks ==
  ASSUME TypeInv, NEW w \in Worker, Stage(w)
  PROVE  LET m == worker[w].on
             end == worker'[w]
         IN
         \/ end.sup = row[m].sup /\ end.parent = None
         \/ /\ ~end.locks /\ row[m].sup = None /\ end.sup = None
            /\ end.parent # None => end.newest = m
         \/ /\ ~Busy /\ end.locks
            /\ end.sup \in Manga \ { m } /\ row[end.sup].sup = None
            /\ end.parent # None => end.newest = end.sup
<1> DEFINE m == worker[w].on
           old == row[m].sup
           base == [ Idle EXCEPT !.pc = "staged", !.on = m, !.sup = old ]
           StageEnd(end) == worker' = [worker EXCEPT ![w] = end]
           goal(latest) == IF latest # None THEN latest ELSE old
           target(latest) == Newest(Links, m, goal(latest))
           agrees(latest) ==
             target(latest) # None /\ (old # None => Newest(Links, m, old) = target(latest))
<1>1. m \in Manga /\ old \in Gallery
  BY DEF TypeInv, TypeOK, AtWork, Stage, Row, Gallery
<1>2. PICK latest \in Manga \cup { None } : \E p \in (Manga \ { latest }) \cup { None } :
        \/ /\ goal(latest) = None
           /\ StageEnd(Marking(m, p, [base EXCEPT !.to = "download_pending"]))
        \/ /\ goal(latest) # None /\ Busy
           /\ StageEnd([base EXCEPT !.to = "details_pending"])
        \/ /\ goal(latest) # None /\ ~Busy /\ ~agrees(latest)
           /\ StageEnd([base EXCEPT
                !.to = "manual_review", !.locks = TRUE,
                !.error = IF target(latest) = None \/ Newest(Links, m, old) = None
                          THEN "invalid" ELSE "other"])
        \/ /\ goal(latest) # None /\ ~Busy /\ agrees(latest)
           /\ StageEnd(Marking(m, p, [base EXCEPT !.to = "outdated", !.locks = TRUE,
                                                  !.sup = target(latest)]))
  BY Zenon DEF Stage
<1>3. PICK p \in Gallery :
        \/ /\ goal(latest) = None
           /\ StageEnd(Marking(m, p, [base EXCEPT !.to = "download_pending"]))
        \/ StageEnd([base EXCEPT !.to = "details_pending"])
        \/ StageEnd([base EXCEPT
             !.to = "manual_review", !.locks = TRUE,
             !.error = IF target(latest) = None \/ Newest(Links, m, old) = None
                       THEN "invalid" ELSE "other"])
        \/ /\ ~Busy /\ target(latest) # None
           /\ StageEnd(Marking(m, p, [base EXCEPT !.to = "outdated", !.locks = TRUE,
                                                  !.sup = target(latest)]))
  BY <1>2 DEF Gallery
<1>4. goal(latest) = None => old = None
  OBVIOUS
<1>5. /\ base \in Process
      /\ base.parent = None /\ base.locks = FALSE /\ base.sup = old
  BY <1>1, IdleTyped DEF Idle, Process, Gallery, Error
<1>6. \A end : StageEnd(end) => worker'[w] = end
  BY DEF TypeInv, TypeOK
<1>7. Links \in [Manga -> Gallery]
  BY LinksTyped DEF TypeInv
<1>8. target(latest) # None => target(latest) \in Manga \ { m } /\ row[target(latest)].sup = None
  BY <1>7, NewestIsLast DEF Links
<1> HIDE DEF base, goal, target
<1>9. CASE goal(latest) = None
           /\ StageEnd(Marking(m, p, [base EXCEPT !.to = "download_pending"]))
  <2> DEFINE x == [base EXCEPT !.to = "download_pending"]
  <2>1. x \in Process /\ x.parent = None /\ x.locks = FALSE /\ x.sup = None
    BY <1>4, <1>5, <1>9 DEF Process
  <2>2. worker'[w] = Marking(m, p, x)
    BY <1>6, <1>9
  <2> HIDE DEF x
  <2>3. /\ Marking(m, p, x).sup = None /\ Marking(m, p, x).locks = FALSE
        /\ Marking(m, p, x).parent # None => Marking(m, p, x).newest = m
    BY <1>1, <2>1, MarkingLinks DEF TypeInv
  <2> QED BY <1>4, <1>9, <2>2, <2>3
<1>10. CASE StageEnd([base EXCEPT !.to = "details_pending"])
  <2>1. worker'[w] = [base EXCEPT !.to = "details_pending"]
    BY <1>6, <1>10
  <2> QED BY <1>5, <2>1 DEF Process
<1>11. ASSUME NEW error,
              StageEnd([base EXCEPT !.to = "manual_review", !.locks = TRUE, !.error = error])
       PROVE  worker'[w].sup = old /\ worker'[w].parent = None
  <2>1. worker'[w] = [base EXCEPT !.to = "manual_review", !.locks = TRUE, !.error = error]
    BY <1>6, <1>11
  <2> QED BY <1>5, <2>1 DEF Process
<1>12. CASE ~Busy /\ target(latest) # None
            /\ StageEnd(Marking(m, p, [base EXCEPT !.to = "outdated", !.locks = TRUE,
                                                   !.sup = target(latest)]))
  <2> DEFINE x == [base EXCEPT !.to = "outdated", !.locks = TRUE, !.sup = target(latest)]
  <2>1. x \in Process /\ x.parent = None /\ x.locks = TRUE /\ x.sup = target(latest)
    BY <1>5, <1>8, <1>12 DEF Process
  <2>2. worker'[w] = Marking(m, p, x)
    BY <1>6, <1>12
  <2> HIDE DEF x
  <2>3. /\ Marking(m, p, x).sup = x.sup /\ Marking(m, p, x).locks = TRUE
        /\ Marking(m, p, x).parent # None => Marking(m, p, x).newest = x.sup
    BY <1>1, <1>8, <1>12, <2>1, MarkingLinks, NoneAssumption DEF TypeInv
  <2> QED BY <1>8, <1>12, <2>1, <2>2, <2>3
<1>13. CASE StageEnd([base EXCEPT
              !.to = "manual_review", !.locks = TRUE,
              !.error = IF target(latest) = None \/ Newest(Links, m, old) = None
                        THEN "invalid" ELSE "other"])
  BY <1>11, <1>13, Zenon
<1> QED BY <1>3, <1>9, <1>10, <1>12, <1>13, Zenon

\* A step that writes no link and stages none keeps all of it.
LEMMA LinksStay ==
  ASSUME LinkInv, HeldInv', UNCHANGED << batch, byHand >>,
         \A m \in Manga : row'[m].sup = row[m].sup,
         \A w \in Worker : worker'[w] = worker[w] \/ worker'[w].pc # "staged"
  PROVE  LinkInv'
<1>1. BatchIsLinked'
  BY DEF LinkInv, BatchIsLinked
<1>2. PlainStage'
  <2> SUFFICES ASSUME NEW w \in Worker, worker'[w].pc = "staged", ~worker'[w].locks
               PROVE  /\ worker'[w].sup = row'[worker'[w].on].sup
                      /\ worker'[w].parent # None =>
                           worker'[w].newest = worker'[w].on /\ worker'[w].sup = None
    BY DEF PlainStage
  <2>1. worker'[w] = worker[w] /\ worker[w].on \in Manga
    BY DEF LinkInv, HeldInv, TypeInv, AtWork
  <2> QED BY <2>1 DEF LinkInv, PlainStage
<1>3. \A x, y \in Manga : Leads(x, y)' => Leads(x, y)
  BY DEF Leads
<1> QED BY <1>1, <1>2, <1>3, FewerLinks DEF LinkInv

\* Nothing stands between a row without a link and the end of its chain but what
\* transactions have staged.
LEMMA LeadsOut ==
  ASSUME BatchIsLinked, NEW x \in Manga, row[x].sup = None, NEW y \in Manga, Leads(x, y)
  PROVE  \E w \in Worker :
           /\ worker[w].pc = "staged"
           /\ \/ worker[w].on = x /\ worker[w].sup = y
              \/ worker[w].parent = x /\ worker[w].newest = y
BY NoneAssumption DEF BatchIsLinked, Leads

(***************************************************************************)
(* Staging links: a parent is linked to a row nothing leads from; under    *)
(* the lock, both are linked to a row from which at most the unlocked      *)
(* marking of a parent leads on, to such a row.                            *)
(***************************************************************************)
LEMMA StageNoRing ==
  ASSUME LinkInv, HeldInv', NEW w \in Worker, Stage(w), NoRing
  PROVE  NoRing'
<1>0. HeldInv /\ BatchIsLinked /\ PlainStage
  BY DEF LinkInv
<1>00. PICK m, end : m = worker[w].on /\ end = worker'[w]
  OBVIOUS
<1>1. /\ UNCHANGED << row, batch >> /\ worker[w].pc = "reading"
      /\ m \in Manga /\ row[m].lease = "details"
      /\ \A v \in Worker \ { w } : Clear(v, m)
  <2>1. UNCHANGED << row, batch >> /\ worker[w].pc = "reading"
    BY DEF Stage
  <2>2. Holds(w)
    BY <1>0 DEF HeldInv
  <2> QED BY <1>0, <1>00, <2>1, <2>2, OwnRow DEF Holds
<1>2. /\ end.on = m /\ \A v \in Worker \ { w } : worker'[v] = worker[v]
      /\ end.parent # None => Free(end.parent) /\ end.newest # end.parent
  BY <1>0, <1>00, StageShape DEF HeldInv, TypeInv, TypeOK
<1>3. ASSUME NEW x \in Manga, NEW y \in Manga, Leads(x, y)'
      PROVE  \/ Leads(x, y)
             \/ x = m /\ y = end.sup
             \/ x = end.parent /\ y = end.newest
  BY <1>00, <1>1, <1>2, <1>3 DEF Leads
<1>4. CASE end.sup = row[m].sup /\ end.parent = None
  <2>1. \A x, y \in Manga : Leads(x, y)' => Leads(x, y)
    BY <1>3, <1>4, NoneAssumption DEF Leads
  <2> QED BY <2>1, FewerLinks
<1>5. CASE /\ ~end.locks /\ row[m].sup = None /\ end.sup = None
           /\ end.parent # None => end.newest = m
  <2>1. \A x, y \in Manga : Leads(x, y)' => Leads(x, y) \/ y = m
    BY <1>3, <1>5, NoneAssumption
  <2>2. ASSUME NEW y \in Manga, Leads(m, y)'
        PROVE  FALSE
    <3>1. Leads(m, y) \/ m = end.parent
      <4>1. \/ Leads(m, y)
            \/ m = m /\ y = end.sup
            \/ m = end.parent /\ y = end.newest
        BY <1>1, <1>3, <2>2, Zenon
      <4> QED BY <1>5, <4>1, NoneAssumption
    <3>2. m # end.parent
      BY <1>1, <1>2, NoneAssumption DEF Free
    <3>3. PICK v \in Worker : worker[v].pc = "staged" /\ m \in { worker[v].on, worker[v].parent }
      BY <1>0, <1>1, <1>5, <3>1, <3>2, LeadsOut
    <3> QED BY <1>1, <3>3 DEF Clear
  <2>3. \A y, z \in Manga : Leads(m, y)' => ~Leads(y, z)'
    BY <2>2
  <2> QED BY <2>1, <2>3, AddedLinks
<1>6. CASE /\ ~Busy /\ end.sup \in Manga \ { m } /\ row[end.sup].sup = None
           /\ end.parent # None => end.newest = end.sup
  <2> DEFINE n == end.sup
  <2>1. \A x, y \in Manga : Leads(x, y)' => Leads(x, y) \/ y = n
    BY <1>3, <1>6, NoneAssumption
  <2>2. ASSUME NEW y \in Manga, NEW z \in Manga, Leads(n, y)', Leads(y, z)'
        PROVE  FALSE
    <3>1. n # m /\ n # end.parent /\ n \in Manga /\ row[n].sup = None
      BY <1>2, <1>6, NoneAssumption
    <3>2. Leads(n, y)
      BY <1>3, <2>2, <3>1
    <3>3. PICK v \in Worker :
            /\ worker[v].pc = "staged"
            /\ \/ worker[v].on = n /\ worker[v].sup = y
               \/ worker[v].parent = n /\ worker[v].newest = y
      BY <1>0, <3>1, <3>2, LeadsOut
    <3>4. ~worker[v].locks
      BY <1>6, <3>3 DEF Busy
    <3>5. /\ worker[v].parent = n /\ worker[v].on = y /\ worker[v].sup = None
          /\ row[y].sup = None
      <4>1. worker[v].sup = row[worker[v].on].sup
        BY <1>0, <3>3, <3>4 DEF PlainStage
      <4>2. worker[v].parent = n /\ worker[v].newest = y
        BY <3>1, <3>3, <4>1, NoneAssumption
      <4>3. worker[v].newest = worker[v].on /\ worker[v].sup = None
        BY <1>0, <3>1, <3>3, <3>4, <4>2, NoneAssumption DEF PlainStage
      <4> QED BY <4>1, <4>2, <4>3
    <3>6. /\ row[y].lease \in { "details", "delete" }
          /\ \A u \in Worker \ { v } : Clear(u, y)
      BY <1>0, <3>3, <3>5, OwnRow
    <3>7. y # worker[v].parent
      BY <1>0, <3>1, <3>3, <3>5, OwnParent, NoneAssumption
    <3>8. y # m /\ y # end.parent
      <4>1. v # w
        BY <1>1, <3>3
      <4>2. y # m
        BY <1>1, <3>3, <3>5, <4>1 DEF Clear
      <4>3. y # end.parent
        BY <1>2, <3>6, NoneAssumption DEF Free
      <4> QED BY <4>2, <4>3
    <3>9. Leads(y, z)
      BY <1>3, <2>2, <3>8
    <3>10. PICK u \in Worker :
             /\ worker[u].pc = "staged"
             /\ \/ worker[u].on = y /\ worker[u].sup = z
                \/ worker[u].parent = y /\ worker[u].newest = z
      BY <1>0, <3>5, <3>9, LeadsOut
    <3>11. u = v
      BY <3>6, <3>10 DEF Clear
    <3> QED BY <3>5, <3>7, <3>10, <3>11, NoneAssumption
  <2>3. \A y, z \in Manga : Leads(n, y)' => ~Leads(y, z)'
    BY <2>2
  <2> QED BY <2>1, <2>3, AddedLinks
<1>7. TypeInv
  BY <1>0 DEF HeldInv
<1>8. \/ end.sup = row[m].sup /\ end.parent = None
      \/ /\ ~end.locks /\ row[m].sup = None /\ end.sup = None
         /\ end.parent # None => end.newest = m
      \/ /\ ~Busy /\ end.locks
         /\ end.sup \in Manga \ { m } /\ row[end.sup].sup = None
         /\ end.parent # None => end.newest = end.sup
  BY <1>00, <1>7, StageLinks
<1> QED BY <1>4, <1>5, <1>6, <1>8

\* What a transaction has staged it writes when it commits, so nothing leads anywhere new.
LEMMA CommitLinks ==
  ASSUME LinkInv, HeldInv', NEW w \in Worker, Commit(w)
  PROVE  LinkInv'
<1> DEFINE end == worker[w]
<1>0. /\ HeldInv /\ BatchIsLinked /\ PlainStage /\ Holds(w)
      /\ row \in [Manga -> Row] /\ worker \in [Worker -> Process]
  BY DEF LinkInv, HeldInv, TypeInv, TypeOK
<1>1. /\ end.pc = "staged" /\ worker' = [worker EXCEPT ![w] = Idle]
      /\ UNCHANGED << batch, byHand >>
      /\ row' = [m \in Manga |->
           CASE m = end.on -> [ status |-> end.to, sup |-> end.sup,
                                error |-> end.error, lease |-> "none" ]
             [] m # end.on /\ m = end.parent ->
                  [row[m] EXCEPT !.status = "outdated", !.sup = end.newest]
             [] OTHER -> row[m]]
  BY DEF Commit
<1>2. ASSUME NEW m \in Manga
      PROVE  row'[m].sup = CASE m = end.on -> end.sup
                             [] m # end.on /\ m = end.parent -> end.newest
                             [] OTHER -> row[m].sup
  <2>1. CASE m = end.on
    BY <1>1, <2>1
  <2>2. CASE m # end.on /\ m = end.parent
    <3>1. row'[m] = [row[m] EXCEPT !.status = "outdated", !.sup = end.newest]
      BY <1>1, <2>2
    <3> QED BY <1>0, <2>2, <3>1 DEF Row
  <2>3. CASE m # end.on /\ m # end.parent
    BY <1>1, <2>3
  <2> QED BY <2>1, <2>2, <2>3
<1>3. worker'[w].pc = "idle" /\ \A v \in Worker \ { w } : worker'[v] = worker[v]
  BY <1>0, <1>1 DEF Idle
<1>4. BatchIsLinked'
  <2>1. end.on \in Manga /\ end.sup \in { row[end.on].sup } \cup (Manga \ { end.on })
        /\ (end.parent # None => end.newest \in Manga)
    BY <1>0, <1>1, OwnRow DEF Holds
  <2> SUFFICES ASSUME NEW m \in Manga, batch'.links[m] # None
               PROVE  row'[m].sup # None
    BY <1>0, <1>1 DEF BatchIsLinked
  <2>2. row[m].sup # None
    BY <1>0, <1>1 DEF BatchIsLinked
  <2> HIDE DEF end
  <2> QED BY <1>2, <2>1, <2>2, NoneAssumption
<1>5. PlainStage'
  <2> SUFFICES ASSUME NEW v \in Worker, worker'[v].pc = "staged", ~worker'[v].locks
               PROVE  /\ worker'[v].sup = row'[worker'[v].on].sup
                      /\ worker'[v].parent # None =>
                           worker'[v].newest = worker'[v].on /\ worker'[v].sup = None
    BY DEF PlainStage
  <2>1. v # w /\ worker'[v] = worker[v]
    BY <1>3
  <2>2. worker[v].on \in Manga /\ worker[v].on # end.on
    BY <1>0, <1>1, <2>1, OwnRow DEF Clear
  <2>3. worker[v].on # end.parent
    BY <1>0, <1>1, <2>1, <2>2, OwnParent, NoneAssumption DEF Clear
  <2>4. row'[worker[v].on].sup = row[worker[v].on].sup
    BY <1>2, <2>2, <2>3
  <2> QED BY <1>0, <2>1, <2>4 DEF PlainStage
<1>6. ASSUME NEW x \in Manga, NEW y \in Manga, Leads(x, y)'
      PROVE  Leads(x, y)
  <2>1. CASE row'[x].sup = y
    <3>1. \/ x = end.on /\ y = end.sup
          \/ x = end.parent /\ y = end.newest
          \/ y = row[x].sup
      BY <1>2, <2>1
    <3> QED BY <1>1, <3>1 DEF Leads
  <2>2. CASE row'[x].sup # y
    BY <1>1, <1>3, <1>6, <2>2 DEF Leads
  <2> QED BY <2>1, <2>2
<1>7. ~byHand' => NoRing'
  BY <1>1, <1>6, FewerLinks DEF LinkInv
<1> QED BY <1>4, <1>5, <1>7 DEF LinkInv

\* The links a details process stages, and what it does otherwise.
LEMMA DetailsLinks ==
  ASSUME LinkInv, HeldInv', NEW w \in Worker, Details(w)
  PROVE  LinkInv'
<1>0. TypeOK /\ TypeInv /\ HeldInv /\ worker \in [Worker -> Process] /\ worker[w] \in Process
  BY DEF LinkInv, HeldInv, TypeInv, TypeOK
<1>1. ASSUME NEW m \in Manga, ClaimDetails(w, m)
      PROVE  LinkInv'
  <2>1. row' = [row EXCEPT ![m].status = "details_pending", ![m].lease = "details"]
        /\ UNCHANGED << batch, byHand >>
    BY <1>1 DEF ClaimDetails
  <2>2. \A n \in Manga : row'[n].sup = row[n].sup
    <3>1. \A n \in Manga : \A to, lease :
            [row EXCEPT ![m].status = to, ![m].lease = lease][n].sup = row[n].sup
      BY <1>0, LinksKept, Zenon
    <3> QED BY <2>1, <3>1, Zenon
  <2>3. \A v \in Worker : worker'[v] = worker[v] \/ worker'[v].pc # "staged"
    BY <1>0, <1>1 DEF ClaimDetails, Process
  <2> QED BY <2>1, <2>2, <2>3, LinksStay
<1>2. CASE DetailsFail(w)
  <2>1. worker[w].on \in Manga
    BY <1>0, <1>2, OwnRow DEF DetailsFail
  <2>2. \A n \in Manga : row'[n].sup = row[n].sup
    BY <1>0, <1>2, <2>1, LinksKept DEF DetailsFail
  <2>3. \A v \in Worker : worker'[v] = worker[v] \/ worker'[v].pc # "staged"
    BY <1>0, <1>2 DEF DetailsFail, Idle
  <2> QED BY <1>2, <2>2, <2>3, LinksStay DEF DetailsFail
<1>3. CASE Stage(w)
  <2>1. UNCHANGED << row, batch, byHand >>
    BY <1>3 DEF Stage
  <2>2. worker'[w].on = worker[w].on /\ \A v \in Worker \ { w } : worker'[v] = worker[v]
    BY <1>0, <1>3, StageShape
  <2>3. ~worker'[w].locks =>
          /\ worker'[w].sup = row[worker[w].on].sup
          /\ worker'[w].parent # None =>
               worker'[w].newest = worker[w].on /\ worker'[w].sup = None
    BY <1>0, <1>3, StageLinks
  <2>4. PlainStage'
    BY <2>1, <2>2, <2>3 DEF PlainStage, LinkInv
  <2>5. BatchIsLinked'
    BY <2>1 DEF BatchIsLinked, LinkInv
  <2>6. ~byHand' => NoRing'
    BY <1>3, <2>1, StageNoRing DEF LinkInv
  <2> QED BY <2>4, <2>5, <2>6 DEF LinkInv
<1>4. CASE Commit(w)
  BY <1>4, CommitLinks
<1> QED BY <1>1, <1>2, <1>3, <1>4 DEF Details

\* A delete writes no link, nor does a crash.
LEMMA DeleteLinks ==
  ASSUME LinkInv, HeldInv', NEW w \in Worker, Delete(w) \/ Crash(w)
  PROVE  LinkInv'
<1>0. TypeOK /\ HeldInv /\ worker \in [Worker -> Process] /\ worker[w] \in Process
  BY DEF LinkInv, HeldInv, TypeInv, TypeOK
<1>1. UNCHANGED << batch, byHand >>
  BY DEF Delete, ClaimDelete, CheckDelete, Erase, FinishDelete, Crash
<1>2. \A v \in Worker : worker'[v] = worker[v] \/ worker'[v].pc # "staged"
  <2>1. \A v \in Worker \ { w } : worker'[v] = worker[v]
    BY <1>0 DEF Delete, ClaimDelete, CheckDelete, Erase, FinishDelete, Crash
  <2>2. worker'[w].pc # "staged"
    BY <1>0 DEF Delete, ClaimDelete, CheckDelete, Erase, FinishDelete, Crash, Idle, Process
  <2> QED BY <2>1, <2>2
<1>3. ASSUME NEW m \in Manga
      PROVE  row'[m].sup = row[m].sup
  <2>1. CASE worker[w].pc = "idle"
    <3>1. PICK n \in Manga : row' = [row EXCEPT ![n].lease = "delete"]
      BY <2>1 DEF Delete, ClaimDelete, CheckDelete, Erase, FinishDelete, Crash
    <3>2. \A lease : [row EXCEPT ![n].lease = lease][m].sup = row[m].sup
      BY <1>0, LinksKept, Zenon
    <3> QED BY <3>1, <3>2, Zenon
  <2>2. CASE worker[w].pc # "idle"
    <3>1. worker[w].on \in Manga
      BY <1>0, <2>2, OwnRow
    <3>2. row' = row \/ \E to, error : row' = Ended(worker[w].on, to, error)
      BY <2>2 DEF Delete, ClaimDelete, CheckDelete, Erase, FinishDelete, Crash
    <3> QED BY <1>0, <3>1, <3>2, LinksKept
  <2> QED BY <2>1, <2>2
<1> QED BY <1>1, <1>2, <1>3, LinksStay

(***************************************************************************)
(* The Supervisor shortens chains it has read: what a row is linked to was *)
(* reached from it by links that are known, so a ring through new links    *)
(* would go round through the galleries that were skipped.                 *)
(***************************************************************************)
LEMMA WriteNoRing ==
  ASSUME LinkInv, WriteBatch, NoRing
  PROVE  NoRing'
<1> DEFINE target(m) == Newest(batch.links, m, batch.links[m])
<1>0. HeldInv /\ row \in [Manga -> Row] /\ batch.links \in [Manga -> Gallery]
  BY DEF LinkInv, HeldInv, TypeInv, TypeOK, Gallery
<1>1. /\ worker' = worker /\ batch'.links = [m \in Manga |-> None]
      /\ row' = [m \in Manga |->
           IF m \notin batch.rows THEN row[m]
           ELSE IF target(m) # None THEN [row[m] EXCEPT !.sup = target(m)]
           ELSE [row[m] EXCEPT !.status = "manual_review", !.error = "invalid"]]
  BY DEF WriteBatch, NoBatch
<1>2. ASSUME NEW x \in Manga, NEW y \in Manga, Leads(x, y)'
      PROVE  Leads(x, y) \/ (x \in batch.rows /\ y = target(x) /\ target(x) # None)
  <2> HIDE DEF target
  <2>1. batch'.links[x] # y
    BY <1>1, NoneAssumption
  <2>2. \/ row'[x].sup = row[x].sup
        \/ x \in batch.rows /\ target(x) # None /\ row'[x].sup = target(x)
    <3>1. row[x] \in Row
      BY <1>0
    <3>2. CASE x \notin batch.rows
      BY <1>1, <3>2
    <3>3. CASE x \in batch.rows /\ target(x) # None
      <4>1. row'[x] = [row[x] EXCEPT !.sup = target(x)]
        BY <1>1, <3>3
      <4> QED BY <3>1, <3>3, <4>1 DEF Row
    <3>4. CASE x \in batch.rows /\ target(x) = None
      <4>1. row'[x] = [row[x] EXCEPT !.status = "manual_review", !.error = "invalid"]
        BY <1>1, <3>4
      <4> QED BY <3>1, <4>1 DEF Row
    <3> QED BY <3>2, <3>3, <3>4
  <2> QED BY <1>1, <1>2, <2>1, <2>2 DEF Leads
<1> SUFFICES ASSUME NEW S \in SUBSET Manga, \A x \in S : \E y \in S : Leads(x, y)'
             PROVE  S = {}
  BY DEF NoRing
<1> DEFINE T == S \cup { y \in Manga : \E n \in S : n \in Reached(batch.links, y) }
<1>3. ASSUME NEW x \in Manga, NEW n \in S, n \in Reached(batch.links, x), n # x
      PROVE  \E y \in T : Leads(x, y)
  <2>1. batch.links[x] \in Manga /\ n \in Reached(batch.links, batch.links[x])
    BY <1>0, <1>3, RestOfChain
  <2> QED BY <2>1 DEF Leads
<1>4. ASSUME NEW x \in S
      PROVE  \E y \in T : Leads(x, y)
  <2>1. PICK n \in S : Leads(x, n)'
    OBVIOUS
  <2>2. CASE Leads(x, n)
    BY <2>2
  <2>3. CASE x \in batch.rows /\ n = target(x) /\ target(x) # None
    <3>1. n \in Reached(batch.links, batch.links[x])
      BY <1>0, <2>3, NewestReached
    <3>2. batch.links[x] \in Manga
      BY <1>0, <2>3 DEF LinkInv, BatchIsLinked, Gallery
    <3>3. batch.links[x] \in T
      BY <3>1, <3>2
    <3> QED BY <3>3 DEF Leads
  <2> HIDE DEF target
  <2> QED BY <1>2, <2>1, <2>2, <2>3
<1>5. T \in SUBSET Manga /\ \A x \in T : \E y \in T : Leads(x, y)
  <2>1. T \in SUBSET Manga
    OBVIOUS
  <2>2. ASSUME NEW x \in T
        PROVE  \E y \in T : Leads(x, y)
    <3>1. CASE x \in S
      BY <1>4, <3>1
    <3>2. CASE x \notin S
      <4>1. PICK n \in S : n \in Reached(batch.links, x)
        BY <3>2
      <4> QED BY <1>3, <2>1, <3>2, <4>1
    <3> QED BY <3>1, <3>2
  <2> QED BY <2>1, <2>2
<1> HIDE DEF T
<1>6. T = {}
  BY <1>5 DEF NoRing
<1> QED BY <1>6 DEF T

\* What the Supervisor reads is linked, and what it writes closes no ring.
LEMMA SupervisorLinks ==
  ASSUME LinkInv, HeldInv', Supervisor
  PROVE  LinkInv'
<1>0. /\ HeldInv /\ BatchIsLinked /\ PlainStage
      /\ row \in [Manga -> Row] /\ batch.rows \subseteq Manga
      /\ batch.links \in [Manga -> Gallery]
  BY DEF LinkInv, HeldInv, TypeInv, TypeOK, Gallery
<1>1. CASE ReadBatch
  <2>1. /\ UNCHANGED << row, worker, byHand >>
        /\ batch' = [ rows |-> { m \in Manga : Advanceable(m) }, links |-> Links ]
    BY <1>1 DEF ReadBatch
  <2>2. BatchIsLinked'
    BY <2>1 DEF BatchIsLinked, Advanceable, Links
  <2>3. PlainStage'
    BY <1>0, <2>1 DEF PlainStage
  <2>4. \A x, y \in Manga : Leads(x, y)' => Leads(x, y)
    BY <2>1 DEF Leads, Links
  <2> QED BY <2>1, <2>2, <2>3, <2>4, FewerLinks DEF LinkInv
<1>2. CASE WriteBatch
  <2>1. UNCHANGED << worker, byHand >> /\ batch' = NoBatch
        /\ \A m \in Manga \ batch.rows : row'[m] = row[m]
    BY <1>2 DEF WriteBatch
  <2>2. BatchIsLinked'
    BY <2>1 DEF BatchIsLinked, NoBatch
  <2>3. PlainStage'
    <3> SUFFICES ASSUME NEW v \in Worker, worker[v].pc = "staged", ~worker[v].locks
                 PROVE  /\ worker[v].sup = row'[worker[v].on].sup
                        /\ worker[v].parent # None =>
                             worker[v].newest = worker[v].on /\ worker[v].sup = None
      BY <2>1 DEF PlainStage
    <3>1. row'[worker[v].on] = row[worker[v].on]
      BY <1>0, <2>1, OwnRow
    <3> QED BY <1>0, <3>1 DEF PlainStage
  <2>4. ~byHand' => NoRing'
    BY <1>2, <2>1, WriteNoRing DEF LinkInv
  <2> QED BY <2>2, <2>3, <2>4 DEF LinkInv
<1> QED BY <1>1, <1>2 DEF Supervisor

(***************************************************************************)
(* Rows that are not in use: collection and the pipeline write no link, an *)
(* administrator's link counts as made by hand, and a conflict is resolved *)
(* in favour of a row nothing leads from.                                  *)
(***************************************************************************)
LEMMA RowsLinks ==
  ASSUME LinkInv, HeldInv', NEW m \in Manga, Collect(m) \/ Archive(m) \/ Administrator(m)
  PROVE  LinkInv'
<1>0. /\ TypeOK /\ HeldInv /\ BatchIsLinked /\ PlainStage
      /\ row \in [Manga -> Row] /\ byHand \in BOOLEAN
  BY DEF LinkInv, HeldInv, TypeInv, TypeOK
<1>1. UNCHANGED << worker, batch >>
  BY DEF Collect, Archive, Administrator, Pipeline, ClaimUpload, EndUpload, ClaimCleanup,
         EndCleanup, Release, Override, Resume, ResolveConflict
<1>2. ASSUME UNCHANGED byHand, \A n \in Manga : row'[n].sup = row[n].sup
      PROVE  LinkInv'
  BY <1>1, <1>2, LinksStay
<1>3. ASSUME NEW n \in Manga
      PROVE  /\ \A to, error : Ended(m, to, error)[n].sup = row[n].sup
             /\ \A to : [row EXCEPT ![m].status = to][n].sup = row[n].sup
             /\ \A lease : [row EXCEPT ![m].lease = lease][n].sup = row[n].sup
             /\ \A to, lease :
                  [row EXCEPT ![m].status = to, ![m].lease = lease][n].sup = row[n].sup
  BY <1>0, LinksKept, Zenon
<1>4. ASSUME NEW T \in SUBSET Manga, \A n \in T : Unheld(n),
             \A n \in Manga \ T : row'[n] = row[n],
             \A n \in T : row[n].sup # None => row'[n].sup # None
      PROVE  BatchIsLinked' /\ PlainStage'
  <2>1. BatchIsLinked'
    BY <1>0, <1>1, <1>4 DEF BatchIsLinked
  <2>2. ASSUME NEW v \in Worker, worker[v].pc = "staged"
        PROVE  row'[worker[v].on] = row[worker[v].on]
    <3>1. worker[v].on \in Manga
      BY <1>0, <2>2, OwnRow
    <3> QED BY <1>4, <2>2, <3>1 DEF Unheld, Clear
  <2>3. PlainStage'
    BY <1>0, <1>1, <2>2 DEF PlainStage
  <2> QED BY <2>1, <2>3
<1>5. CASE Collect(m)
  <2>1. row' = [row EXCEPT ![m].status = "details_pending"] /\ UNCHANGED byHand
    BY <1>5 DEF Collect
  <2>2. \A n \in Manga : row'[n].sup = row[n].sup
    <3>1. \A n \in Manga : [row EXCEPT ![m].status = "details_pending"][n].sup = row[n].sup
      BY <1>3, Zenon
    <3> QED BY <2>1, <3>1, Zenon
  <2> QED BY <1>2, <2>1, <2>2
<1>6. CASE Pipeline(m) \/ EndUpload(m) \/ EndCleanup(m) \/ Release(m)
  <2>1. UNCHANGED byHand /\ \E to, error : row' = Ended(m, to, error)
    BY <1>6 DEF Pipeline, EndUpload, EndCleanup, Release
  <2>2. PICK to, error : row' = Ended(m, to, error)
    BY <2>1
  <2>3. \A n \in Manga : row'[n].sup = row[n].sup
    <3>1. \A n \in Manga : Ended(m, to, error)[n].sup = row[n].sup
      BY <1>3
    <3> QED BY <2>2, <3>1, Zenon
  <2> QED BY <1>2, <2>1, <2>3
<1>7. CASE ClaimUpload(m) \/ ClaimCleanup(m)
  <2>1. UNCHANGED byHand /\ row[m] \in Row
    BY <1>0, <1>7 DEF ClaimUpload, ClaimCleanup
  <2>2. row'[m].sup = row[m].sup /\ \A n \in Manga \ { m } : row'[n] = row[n]
    BY <1>0, <1>7, <2>1 DEF ClaimUpload, ClaimCleanup, Row
  <2> QED BY <1>2, <2>1, <2>2
<1>8. ASSUME NEW to, row' = [row EXCEPT ![m].status = to], UNCHANGED byHand
      PROVE  LinkInv'
  <2>1. \A n \in Manga : row'[n].sup = row[n].sup
    BY <1>3, <1>8, Zenon
  <2> QED BY <1>2, <1>8, <2>1
<1>9. CASE Resume(m)
  BY <1>8, <1>9 DEF Resume
<1>10. CASE Override(m)
  <2>1. CASE \E to : row' = [row EXCEPT ![m].status = to] /\ UNCHANGED byHand
    BY <1>8, <2>1
  <2>2. CASE byHand' = TRUE
             /\ \E n \in Manga : row' = [row EXCEPT ![m].status = "outdated", ![m].sup = n]
    <3> DEFINE T == { m }
    <3>1. T \in SUBSET Manga /\ \A n \in T : Unheld(n)
      BY <1>0, <1>10, FreeIsUnheld DEF Override
    <3>2. /\ \A n \in Manga \ T : row'[n] = row[n]
          /\ \A n \in T : row'[n].sup # None
      BY <1>0, <2>2, NoneAssumption DEF Row
    <3> HIDE DEF T
    <3>3. BatchIsLinked' /\ PlainStage'
      BY <1>4, <3>1, <3>2
    <3> QED BY <2>2, <3>3 DEF LinkInv
  <2> QED BY <1>10, <2>1, <2>2 DEF Override
<1>11. CASE ResolveConflict(m)
  <2>1. PICK olds \in SUBSET (Manga \ { m }) :
          /\ \A old \in olds : Free(old) /\ row[old].sup \in { None, m }
          /\ row' = [n \in Manga |->
               CASE n = m -> [row[n] EXCEPT !.status = "upload_pending"]
                 [] n \in olds -> [row[n] EXCEPT !.status = "outdated", !.sup = m]
                 [] OTHER -> row[n]]
    BY <1>11 DEF ResolveConflict
  <2>2. row[m].sup = None /\ Free(m) /\ UNCHANGED byHand
    BY <1>11 DEF ResolveConflict
  <2> DEFINE T == olds \cup { m }
  <2>3. T \in SUBSET Manga /\ \A n \in T : Unheld(n)
    BY <1>0, <2>1, <2>2, FreeIsUnheld
  <2>4. \A n \in Manga \ T : row'[n] = row[n]
    BY <2>1
  <2>5. ASSUME NEW n \in Manga
        PROVE  row'[n].sup = IF n \in olds THEN m ELSE row[n].sup
    <3>1. row[n] \in Row
      BY <1>0
    <3>2. CASE n = m
      <4>1. row'[n] = [row[n] EXCEPT !.status = "upload_pending"]
        BY <2>1, <3>2
      <4> QED BY <2>1, <3>1, <3>2, <4>1 DEF Row
    <3>3. CASE n \in olds
      <4>1. row'[n] = [row[n] EXCEPT !.status = "outdated", !.sup = m]
        BY <2>1, <3>3
      <4> QED BY <3>1, <3>3, <4>1 DEF Row
    <3>4. CASE n # m /\ n \notin olds
      BY <2>1, <3>4
    <3> QED BY <3>2, <3>3, <3>4
  <2>6. \A n \in T : row[n].sup # None => row'[n].sup # None
    BY <2>2, <2>3, <2>5, NoneAssumption
  <2>7. BatchIsLinked' /\ PlainStage'
    BY <1>4, <2>3, <2>4, <2>6
  <2>8. Unheld(m) /\ m \notin olds
    BY <2>1, <2>3
  <2>9. ASSUME NEW x \in Manga, NEW y \in Manga, Leads(x, y)'
        PROVE  Leads(x, y) \/ (x \in olds /\ y = m)
    BY <1>1, <2>5, <2>9 DEF Leads
  <2>10. ASSUME NEW y \in Manga, Leads(m, y)'
         PROVE  FALSE
    <3>1. Leads(m, y)
      BY <2>8, <2>9, <2>10
    <3>2. PICK v \in Worker : worker[v].pc = "staged" /\ m \in { worker[v].on, worker[v].parent }
      BY <1>0, <2>2, <3>1, LeadsOut
    <3> QED BY <2>8, <3>2 DEF Unheld, Clear
  <2>11. /\ \A x, y \in Manga : Leads(x, y)' => Leads(x, y) \/ y = m
         /\ \A y, z \in Manga : Leads(m, y)' => ~Leads(y, z)'
    BY <2>9, <2>10
  <2>12. ~byHand' => NoRing'
    BY <2>2, <2>11, AddedLinks DEF LinkInv
  <2> QED BY <2>7, <2>12 DEF LinkInv
<1> QED BY <1>5, <1>6, <1>7, <1>9, <1>10, <1>11 DEF Archive, Administrator

LEMMA LinkInit == Init => LinkInv
<1> SUFFICES ASSUME Init PROVE LinkInv
  OBVIOUS
<1>1. HeldInv
  BY HeldInit
<1>2. BatchIsLinked /\ PlainStage
  BY DEF Init, BatchIsLinked, NoBatch, PlainStage, Idle
<1>3. \A x, y \in Manga : ~Leads(x, y)
  BY NoneAssumption DEF Init, Leads, Absent, NoBatch, Idle
<1>4. NoRing
  BY <1>3 DEF NoRing
<1> QED BY <1>1, <1>2, <1>4 DEF LinkInv

LEMMA LinkNext == LinkInv /\ [Next]_vars => LinkInv'
<1> SUFFICES ASSUME LinkInv, [Next]_vars PROVE LinkInv'
  OBVIOUS
<1>1. HeldInv'
  BY HeldNext DEF LinkInv
<1>2. CASE UNCHANGED vars
  BY <1>1, <1>2, LinksStay DEF vars
<1> QED BY <1>1, <1>2, DetailsLinks, DeleteLinks, SupervisorLinks, RowsLinks,
           AdministeredAssumption DEF Next

(***************************************************************************)
(* Links that no administrator has set by hand form no ring, for any       *)
(* number of galleries, of details transactions that read chains while     *)
(* others change them, and of rows the Supervisor advances at once.        *)
(***************************************************************************)
THEOREM DiscoveredLinksAcyclic == Spec => []AcyclicUnlessByHand
<1>1. LinkInv => AcyclicUnlessByHand
  <2> SUFFICES ASSUME LinkInv, ~byHand, NEW S \in SUBSET Manga, Closed(S) PROVE FALSE
    BY DEF AcyclicUnlessByHand
  <2>1. \A x \in S : \E y \in S : Leads(x, y)
    BY DEF Closed, Leads
  <2> QED BY <2>1 DEF LinkInv, NoRing, Closed
<1> QED BY <1>1, LinkInit, LinkNext, PTL DEF Spec
=============================================================================
