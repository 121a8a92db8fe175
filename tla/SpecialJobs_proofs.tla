------------------------- MODULE SpecialJobs_proofs -------------------------
(***************************************************************************)
(* What the core of special processing does, whatever module it serves:    *)
(* the types of the records it writes, and for every operator that makes   *)
(* up a transaction what it makes of the workflow it is applied to and     *)
(* what it leaves alone.  A step of a workflow is summed up as one that    *)
(* only notes something (Remarks), goes on (CalmIn), begins (BeginIn),     *)
(* closes (CloseIn) or ends a job (FinishIn), and a step of the system as  *)
(* one of a few forms built from these.                                    *)
(***************************************************************************)
EXTENDS SpecialJobs, TLAPS

----------------------------------------------------------------------------
\* The records the actions write.

JobStatus ==
  { "none", "queued", "running", "succeeded", "failed", "abandoned", "cancelled" }

OpName == UNION { OperationsOf(k) : k \in Kind }

Entry == [ status : RowStatus \ { "special_processing" }, error : RowError ]

BindOf(k) ==
  IF k \in { "video_archive", "manual_torrent" }
  THEN UNION { [{m} -> Entry] : m \in Manga }
  ELSE IF k = "lanraragi_metadata" THEN UNION { [ms -> Entry] : ms \in SUBSET Manga }
  ELSE { << >> }

DataOf(k) ==
  CASE k = "video_archive" ->
         [ selected : BOOLEAN, torrents : SUBSET Role,
           cleanup : { "none", "pending", "queued", "running", "failed", "completed" },
           retry : OperationsOf("video_archive") \cup { "none" }, fresh : BOOLEAN ]
    [] k = "manual_torrent" ->
         [ choices : BOOLEAN, selected : BOOLEAN, submission : BOOLEAN ]
    [] k = "lanraragi_metadata" ->
         [ ready : SUBSET (Manga \X Archive), reserved : SUBSET Manga,
           done : SUBSET Manga, stale : SUBSET Manga ]
    [] k = "download_cleanup" -> [ found : BOOLEAN ]
    [] k = "full_collect" ->
         [ intent : { "run", "pause" }, end : BOOLEAN, cursor : Nat, failures : Nat,
           owner : 0 .. MaxOwner, started : BOOLEAN, settled : Nat \X JobStatus ]
    [] OTHER -> { << >> }

Claim == [ key : Key, op : OpName \cup { ByWorkflow }, no : Nat ]

WorkflowOf(k) ==
  [ kind : {k}, status : { "active", "completed", "cancelled" }, phase : Phase,
    cancel : BOOLEAN, claims : SUBSET Claim, bind : BindOf(k), data : DataOf(k),
    job : [OperationsOf(k) -> Job] ]

Record == { NoWorkflow } \cup UNION { WorkflowOf(k) : k \in Kind }

Database == [ wf : [Workflow -> Record], row : [Manga -> Row] ]

Place ==
  { "idle", "begin", "work", "added", "incomplete", "extract", "convert", "pack",
    "promote", "deleted", "intended", "submitted", "items", "write",
    "reading_lanraragi", "reading_database", "comparing", "publishing_report",
    "request", "received", "cool", "repair" }

Process ==
  [ w : Workflow \cup {0}, op : OpName \cup { "none" }, no : Nat, owner : 0 .. MaxOwner,
    at : Place, todo : SUBSET Manga, item : Manga \cup { "none" },
    page : 0 .. BatchPages ]

SupervisorRow ==
  [ owner : 0 .. MaxOwner, epoch : 0 .. MaxOwner, lease : { "none", "live", "expired" },
    state : { "running", "draining", "paused" }, exited : SUBSET (Workflow \X Nat),
    scanned : BOOLEAN ]

----------------------------------------------------------------------------
\* What the definitions of the operations say.

LEMMA Limits ==
  /\ MaxOwner \in Nat /\ BatchPages \in Nat /\ MaxFailures \in Nat /\ LastPage \in Nat
  /\ 0 \notin Workflow /\ None \in 0 .. MaxOwner
BY LimitsAssumption, WorkflowAssumption DEF None

LEMMA KindNames ==
  Kind = { "video_archive", "manual_torrent", "lanraragi_metadata",
           "lanraragi_compare", "download_cleanup", "full_collect" }
BY DEF Kind

LEMMA OperationNames ==
  /\ OperationsOf("video_archive") = { "load", "submit", "check", "cancel", "cleanup" }
  /\ OperationsOf("manual_torrent") = { "load", "submit", "verify" }
  /\ OperationsOf("lanraragi_metadata") = { "scan", "apply" }
  /\ OperationsOf("lanraragi_compare") = { "compare" }
  /\ OperationsOf("download_cleanup") = { "scan", "apply" }
  /\ OperationsOf("full_collect") = { "collect_batch" }
BY DEF OperationsOf, Definition

LEMMA DefinitionOf ==
  ASSUME NEW k \in Kind, NEW o \in OperationsOf(k)
  PROVE  IF k = "video_archive" /\ o = "cleanup"
         THEN /\ Definition[k][o].statuses = { "completed" }
              /\ Definition[k][o].affects = FALSE
              /\ Definition[k][o].cancellation = FALSE
              /\ Definition[k][o].failure = "ready"
         ELSE /\ Definition[k][o].statuses = { "active" }
              /\ Definition[k][o].affects = TRUE
              /\ Definition[k][o].cancellation = (k = "video_archive" /\ o = "cancel")
              /\ Definition[k][o].failure =
                   IF k = "full_collect" THEN "waiting_repair" ELSE "failed"
<1>1. CASE k = "video_archive"
  <2>1. CASE o = "load" BY <1>1, <2>1 DEF Definition, Operation
  <2>2. CASE o = "submit" BY <1>1, <2>2 DEF Definition, Operation
  <2>3. CASE o = "check" BY <1>1, <2>3 DEF Definition, Operation
  <2>4. CASE o = "cancel" BY <1>1, <2>4 DEF Definition, Operation
  <2>5. CASE o = "cleanup" BY <1>1, <2>5 DEF Definition, Operation
  <2> QED BY <1>1, <2>1, <2>2, <2>3, <2>4, <2>5, OperationNames
<1>2. CASE k = "manual_torrent"
  <2>1. CASE o = "load" BY <1>2, <2>1 DEF Definition, Operation
  <2>2. CASE o = "submit" BY <1>2, <2>2 DEF Definition, Operation
  <2>3. CASE o = "verify" BY <1>2, <2>3 DEF Definition, Operation
  <2> QED BY <1>2, <2>1, <2>2, <2>3, OperationNames
<1>3. CASE k = "lanraragi_metadata"
  <2>1. CASE o = "scan" BY <1>3, <2>1 DEF Definition, Operation
  <2>2. CASE o = "apply" BY <1>3, <2>2 DEF Definition, Operation
  <2> QED BY <1>3, <2>1, <2>2, OperationNames
<1>4. CASE k = "lanraragi_compare"
  <2>1. o = "compare" BY <1>4, OperationNames
  <2> QED BY <1>4, <2>1 DEF Definition, Operation
<1>5. CASE k = "download_cleanup"
  <2>1. CASE o = "scan" BY <1>5, <2>1 DEF Definition, Operation
  <2>2. CASE o = "apply" BY <1>5, <2>2 DEF Definition, Operation
  <2> QED BY <1>5, <2>1, <2>2, OperationNames
<1>6. CASE k = "full_collect"
  <2>1. o = "collect_batch" BY <1>6, OperationNames
  <2> QED BY <1>6, <2>1 DEF Definition, Operation
<1> QED BY <1>1, <1>2, <1>3, <1>4, <1>5, <1>6, KindNames

LEMMA PhasesOfOperations ==
  ASSUME NEW k \in Kind, NEW o \in OperationsOf(k)
  PROVE  /\ Definition[k][o].phases \subseteq Phase
         /\ Definition[k][o].running \in Phase /\ Definition[k][o].failure \in Phase
<1> DEFINE Of(kk, oo) == Definition[kk][oo].phases \cup
                           { Definition[kk][oo].running, Definition[kk][oo].failure }
<1>1. Of(k, o) \subseteq UNION { Of(k, oo) : oo \in OperationsOf(k) }
  OBVIOUS
<1>2. UNION { Of(k, oo) : oo \in OperationsOf(k) }
        \subseteq UNION { UNION { Of(kk, oo) : oo \in OperationsOf(kk) } : kk \in Kind }
  OBVIOUS
<1>3. UNION { UNION { Of(kk, oo) : oo \in OperationsOf(kk) } : kk \in Kind } \subseteq Phase
  BY DEF Phase
<1> QED BY <1>1, <1>2, <1>3

LEMMA PhaseNames ==
  /\ \A k \in Kind : InitialPhase[k] \in Phase
  /\ { "awaiting_selection", "completed", "completed_with_errors", "nothing_to_clean",
       "pausing", "paused", "interrupted", "waiting_repair", "reading_database",
       "comparing", "publishing_report", "cancelled", "queued", "cooling", "failed",
       "awaiting_load", "submit_queued", "verify_queued", "awaiting_confirmation",
       "awaiting_torrent_selection", "torrent_submit_queued", "downloading",
       "extracting", "converting", "packing", "ready", "reading_lanraragi",
       "collecting" } \subseteq Phase
<1>1. { "awaiting_selection", "completed", "completed_with_errors", "nothing_to_clean",
        "pausing", "paused", "interrupted", "waiting_repair", "reading_database",
        "comparing", "publishing_report", "cancelled" } \subseteq Phase
  BY DEF Phase
<1>2. \A k \in Kind : InitialPhase[k] \in Phase
  BY DEF Phase
<1>3. { "awaiting_load", "queued" } \subseteq Phase
  BY <1>2, KindNames DEF InitialPhase
<1>4. VideoPhase \ { "ready", "cancelled", "cancelling" } \subseteq Phase
  <2>1. Definition["video_archive"]["cancel"].phases
          = VideoPhase \ { "ready", "cancelled", "cancelling" }
    BY DEF Definition, Operation
  <2> QED BY <2>1, PhasesOfOperations, KindNames, OperationNames
<1>5. { "ready", "failed", "awaiting_confirmation" } \subseteq Phase
  <2>1. /\ Definition["video_archive"]["cleanup"].failure = "ready"
        /\ Definition["lanraragi_metadata"]["scan"].failure = "failed"
    BY DefinitionOf, KindNames, OperationNames
  <2>2. Definition["lanraragi_metadata"]["apply"].phases = { "awaiting_confirmation" }
    BY DEF Definition, Operation
  <2> QED BY <2>1, <2>2, PhasesOfOperations, KindNames, OperationNames
<1>6. { "submit_queued", "verify_queued", "cooling", "reading_lanraragi", "collecting" }
        \subseteq Phase
  <2>1. /\ Definition["manual_torrent"]["submit"].phases = { "submit_queued" }
        /\ Definition["manual_torrent"]["verify"].phases = { "verify_queued" }
        /\ Definition["full_collect"]["collect_batch"].phases
             = { "queued", "cooling", "interrupted" }
        /\ Definition["full_collect"]["collect_batch"].running = "collecting"
        /\ Definition["lanraragi_compare"]["compare"].running = "reading_lanraragi"
    BY DEF Definition, Operation
  <2> QED BY <2>1, PhasesOfOperations, KindNames, OperationNames
<1> QED BY <1>1, <1>2, <1>3, <1>4, <1>5, <1>6 DEF VideoPhase

----------------------------------------------------------------------------
\* A workflow is written.

LEMMA WorkflowFields ==
  ASSUME NEW k \in Kind, NEW x \in WorkflowOf(k)
  PROVE  /\ x.kind = k /\ x.status \in { "active", "completed", "cancelled" }
         /\ x.phase \in Phase /\ x.cancel \in BOOLEAN /\ x.claims \in SUBSET Claim
         /\ x.bind \in BindOf(k) /\ x.data \in DataOf(k)
         /\ x.job \in [OperationsOf(k) -> Job] /\ DOMAIN x.job = OperationsOf(k)
BY DEF WorkflowOf

LEMMA NoneIsNoKind == "none" \notin Kind
BY KindNames

LEMMA RecordKind ==
  ASSUME NEW x \in Record
  PROVE  /\ x.kind = "none" => x = NoWorkflow
         /\ x.kind # "none" => x.kind \in Kind /\ x \in WorkflowOf(x.kind)
BY NoneIsNoKind DEF Record, WorkflowOf, NoWorkflow

LEMMA NoFields ==
  /\ NoWorkflow \in Record /\ NoWorkflow.kind = "none" /\ NoWorkflow.status = "none"
  /\ NoWorkflow.phase = "none" /\ NoWorkflow.cancel = FALSE /\ NoWorkflow.claims = {}
  /\ NoWorkflow.bind = << >> /\ NoWorkflow.data = << >> /\ NoWorkflow.job = << >>
BY DEF NoWorkflow, Record

LEMMA WorkflowIsRecord ==
  ASSUME NEW k \in Kind PROVE WorkflowOf(k) \subseteq Record
BY DEF Record

Rewrites(d, e, w, y) ==
  /\ e \in Database /\ e.row = d.row /\ e.wf[w] = y
  /\ \A v \in Workflow \ {w} : e.wf[v] = d.wf[v]

LEMMA PutWorkflow ==
  ASSUME NEW d \in Database, NEW w \in Workflow, NEW y \in Record
  PROVE  Rewrites(d, [ d EXCEPT !.wf[w] = y ], w, y)
BY DEF Rewrites, Database

LEMMA PutRow ==
  ASSUME NEW d \in Database, NEW m \in Manga, NEW r \in Row
  PROVE  /\ [ d EXCEPT !.row[m] = r ] \in Database
         /\ [ d EXCEPT !.row[m] = r ].wf = d.wf
         /\ [ d EXCEPT !.row[m] = r ].row = [ d.row EXCEPT ![m] = r ]
BY DEF Database

LEMMA DatabaseFields ==
  ASSUME NEW d \in Database
  PROVE  /\ d.wf \in [Workflow -> Record] /\ d.row \in [Manga -> Row]
         /\ \A w \in Workflow : d.wf[w] \in Record
         /\ \A m \in Manga : d.row[m] \in Row
BY DEF Database

LEMMA PutPhase ==
  ASSUME NEW k \in Kind, NEW x \in WorkflowOf(k), NEW ph \in Phase
  PROVE  [ x EXCEPT !.phase = ph ] \in WorkflowOf(k)
BY DEF WorkflowOf

LEMMA PutStatus ==
  ASSUME NEW k \in Kind, NEW x \in WorkflowOf(k),
         NEW st \in { "active", "completed", "cancelled" }
  PROVE  [ x EXCEPT !.status = st ] \in WorkflowOf(k)
BY DEF WorkflowOf

LEMMA PutClaims ==
  ASSUME NEW k \in Kind, NEW x \in WorkflowOf(k), NEW cs \in SUBSET Claim
  PROVE  [ x EXCEPT !.claims = cs ] \in WorkflowOf(k)
BY DEF WorkflowOf

LEMMA PutCancel ==
  ASSUME NEW k \in Kind, NEW x \in WorkflowOf(k), NEW b \in BOOLEAN
  PROVE  [ x EXCEPT !.cancel = b ] \in WorkflowOf(k)
BY DEF WorkflowOf

LEMMA PutData ==
  ASSUME NEW k \in Kind, NEW x \in WorkflowOf(k), NEW z \in DataOf(k)
  PROVE  [ x EXCEPT !.data = z ] \in WorkflowOf(k)
BY DEF WorkflowOf

LEMMA PutJobs ==
  ASSUME NEW k \in Kind, NEW x \in WorkflowOf(k), NEW j \in [OperationsOf(k) -> Job]
  PROVE  [ x EXCEPT !.job = j ] \in WorkflowOf(k)
BY DEF WorkflowOf

LEMMA InitialDataIsTyped ==
  ASSUME NEW k \in Kind
  PROVE  InitialData[k] \in DataOf(k)
<1>1. CASE k = "video_archive" BY <1>1 DEF InitialData, DataOf
<1>2. CASE k = "manual_torrent" BY <1>2 DEF InitialData, DataOf
<1>3. CASE k = "lanraragi_metadata" BY <1>3 DEF InitialData, DataOf
<1>4. CASE k = "lanraragi_compare" BY <1>4 DEF InitialData, DataOf
<1>5. CASE k = "download_cleanup" BY <1>5 DEF InitialData, DataOf
<1>6. CASE k = "full_collect"
  BY <1>6, Limits DEF InitialData, DataOf, None, JobStatus
<1> QED BY <1>1, <1>2, <1>3, <1>4, <1>5, <1>6, KindNames

LEMMA NewIsTyped ==
  ASSUME NEW k \in Kind, NEW b \in BindOf(k)
  PROVE  LET y == [ NewWorkflow(k) EXCEPT !.bind = b ] IN
         /\ y \in WorkflowOf(k) /\ y.kind = k /\ y.status = "active"
         /\ y.cancel = FALSE /\ y.claims = {} /\ y.bind = b
         /\ y.data = InitialData[k] /\ y.job = [o \in OperationsOf(k) |-> NoJob]
<1>1. InitialPhase[k] \in Phase BY PhaseNames
<1>2. NoJob \in Job BY Limits DEF NoJob, Job
<1> QED BY <1>1, <1>2, InitialDataIsTyped DEF NewWorkflow, NoWorkflow, WorkflowOf

LEMMA NoBindings ==
  ASSUME NEW k \in { "lanraragi_compare", "download_cleanup", "full_collect" }
  PROVE  << >> \in BindOf(k)
BY DEF BindOf

LEMMA NewOfTheLibrary ==
  ASSUME NEW k \in { "lanraragi_compare", "download_cleanup", "full_collect" }
  PROVE  LET y == NewWorkflow(k) IN
         /\ y \in WorkflowOf(k) /\ y.kind = k /\ y.status = "active"
         /\ y.cancel = FALSE /\ y.claims = {} /\ y.bind = << >>
         /\ y.data = InitialData[k] /\ y.job = [o \in OperationsOf(k) |-> NoJob]
<1>1. InitialPhase[k] \in Phase BY PhaseNames, KindNames
<1>2. NoJob \in Job BY Limits DEF NoJob, Job
<1>3. InitialData[k] \in DataOf(k) BY InitialDataIsTyped, KindNames
<1>4. << >> \in BindOf(k) BY NoBindings
<1> QED BY <1>1, <1>2, <1>3, <1>4 DEF NewWorkflow, NoWorkflow, WorkflowOf

----------------------------------------------------------------------------
\* What the operations on the database do to the workflow they are about.

LEMMA QueuedJob ==
  ASSUME NEW no \in Nat
  PROVE  [ NoJob EXCEPT !.status = "queued", !.no = no ] \in Job
BY Limits DEF NoJob, Job

LEMMA JobFields ==
  ASSUME NEW j \in Job
  PROVE  /\ j.status \in JobStatus /\ j.no \in Nat /\ j.owner \in 0 .. MaxOwner
         /\ j.lease \in { "none", "live", "expired" }
         /\ j.effect \in BOOLEAN /\ j.stop \in BOOLEAN
BY DEF Job, JobStatus

LEMMA PutJob ==
  ASSUME NEW k \in Kind, NEW x \in WorkflowOf(k), NEW o \in OperationsOf(k), NEW j \in Job
  PROVE  [ x EXCEPT !.job[o] = j ] \in WorkflowOf(k)
BY DEF WorkflowOf

LEMMA QueueMoves ==
  ASSUME NEW d \in Database, NEW w \in Workflow, d.wf[w].kind # "none",
         NEW o \in OperationsOf(d.wf[w].kind)
  PROVE  LET x == d.wf[w]
             j == [ NoJob EXCEPT !.status = "queued", !.no = x.job[o].no + 1 ]
             y == [ x EXCEPT !.job[o] = j ]
         IN /\ j \in Job /\ y \in WorkflowOf(x.kind)
            /\ Rewrites(d, Queue(d, w, o), w,
                        IF x.job[o].status \in { "queued", "running" } THEN x ELSE y)
<1> DEFINE x == d.wf[w]
           j == [ NoJob EXCEPT !.status = "queued", !.no = x.job[o].no + 1 ]
           y == [ x EXCEPT !.job[o] = j ]
<1>1. x \in WorkflowOf(x.kind) /\ x.kind \in Kind
  BY DatabaseFields, RecordKind
<1>2. x.job[o] \in Job BY <1>1, WorkflowFields
<1>3. j \in Job
  <2>1. x.job[o].no + 1 \in Nat BY <1>2, JobFields
  <2> QED BY <2>1, QueuedJob
<1>4. y \in WorkflowOf(x.kind)
  <2> HIDE DEF j
  <2> QED BY <1>1, <1>3, PutJob
<1>5. Rewrites(d, [ d EXCEPT !.wf[w] = y ], w, y)
  BY <1>1, <1>4, PutWorkflow, WorkflowIsRecord
<1>6. x.job[o].status \notin { "queued", "running" } => Queue(d, w, o) = [ d EXCEPT !.wf[w] = y ]
  BY DEF Queue
<1>7. x.job[o].status \in { "queued", "running" } => Queue(d, w, o) = d
  BY DEF Queue
<1>8. Rewrites(d, d, w, x) BY DEF Rewrites
<1> QED BY <1>3, <1>4, <1>5, <1>6, <1>7, <1>8

LEMMA CancelQueuedMoves ==
  ASSUME NEW d \in Database, NEW w \in Workflow, d.wf[w].kind # "none"
  PROVE  LET x == d.wf[w]
             y == [ x EXCEPT !.job =
                      [o \in DOMAIN x.job |-> IF x.job[o].status = "queued"
                          THEN [ x.job[o] EXCEPT !.status = "cancelled" ] ELSE x.job[o]] ]
         IN /\ y \in WorkflowOf(x.kind) /\ Rewrites(d, CancelQueued(d, w), w, y)
<1> DEFINE x == d.wf[w]
           jobs == [o \in DOMAIN x.job |-> IF x.job[o].status = "queued"
                       THEN [ x.job[o] EXCEPT !.status = "cancelled" ] ELSE x.job[o]]
           y == [ x EXCEPT !.job = jobs ]
<1>1. x \in WorkflowOf(x.kind) /\ x.kind \in Kind
  BY DatabaseFields, RecordKind
<1>2. jobs \in [OperationsOf(x.kind) -> Job]
  <2>1. x.job \in [OperationsOf(x.kind) -> Job] BY <1>1, WorkflowFields
  <2>2. \A j \in Job : [ j EXCEPT !.status = "cancelled" ] \in Job BY DEF Job
  <2> QED BY <2>1, <2>2
<1>3. y \in WorkflowOf(x.kind)
  <2> HIDE DEF jobs
  <2> QED BY <1>1, <1>2, PutJobs
<1>4. CancelQueued(d, w) = [ d EXCEPT !.wf[w] = y ]
  BY DEF CancelQueued
<1> QED BY <1>1, <1>3, <1>4, PutWorkflow, WorkflowIsRecord

LEMMA EndJobMoves ==
  ASSUME NEW d \in Database, NEW w \in Workflow, d.wf[w].kind # "none",
         NEW o \in OperationsOf(d.wf[w].kind),
         NEW st \in { "succeeded", "failed", "abandoned", "cancelled" }
  PROVE  LET x == d.wf[w]
             j == [ NoJob EXCEPT !.status = st, !.no = x.job[o].no ]
             y == [ x EXCEPT !.job[o] = j ]
         IN /\ j \in Job /\ y \in WorkflowOf(x.kind)
            /\ Rewrites(d, EndJob(d, w, o, st), w, y)
<1> DEFINE x == d.wf[w]
           j == [ NoJob EXCEPT !.status = st, !.no = x.job[o].no ]
           y == [ x EXCEPT !.job[o] = j ]
<1>1. x \in WorkflowOf(x.kind) /\ x.kind \in Kind
  BY DatabaseFields, RecordKind
<1>2. x.job[o] \in Job BY <1>1, WorkflowFields
<1>3. j \in Job
  BY <1>2, Limits DEF NoJob, Job
<1>4. y \in WorkflowOf(x.kind)
  <2> HIDE DEF j
  <2> QED BY <1>1, <1>3, PutJob
<1>5. EndJob(d, w, o, st) = [ d EXCEPT !.wf[w] = y ]
  BY DEF EndJob
<1> QED BY <1>1, <1>3, <1>4, <1>5, PutWorkflow, WorkflowIsRecord

LEMMA EndWorkflowMoves ==
  ASSUME NEW d \in Database, NEW w \in Workflow, d.wf[w].kind # "none",
         NEW st \in { "active", "completed", "cancelled" }, NEW ph \in Phase
  PROVE  LET x == d.wf[w]
             y == [ x EXCEPT !.status = st, !.phase = ph ]
         IN y \in WorkflowOf(x.kind) /\ Rewrites(d, EndWorkflow(d, w, st, ph), w, y)
<1> DEFINE x == d.wf[w]
           y == [ x EXCEPT !.status = st, !.phase = ph ]
<1>1. x \in WorkflowOf(x.kind) /\ x.kind \in Kind
  BY DatabaseFields, RecordKind
<1>2. y \in WorkflowOf(x.kind) BY <1>1 DEF WorkflowOf
<1>3. EndWorkflow(d, w, st, ph) = [ d EXCEPT !.wf[w] = y ] BY DEF EndWorkflow
<1> QED BY <1>1, <1>2, <1>3, PutWorkflow, WorkflowIsRecord

LEMMA ReleaseMoves ==
  ASSUME NEW d \in Database, NEW w \in Workflow, d.wf[w].kind # "none",
         NEW o \in OperationsOf(d.wf[w].kind)
  PROVE  LET x == d.wf[w]
             y == [ x EXCEPT !.claims =
                      { c \in x.claims :
                          ~ \/ c.op = ByWorkflow /\ x.status \in { "completed", "cancelled" }
                            \/ c.op = o /\ c.no = x.job[o].no } ]
         IN y \in WorkflowOf(x.kind) /\ Rewrites(d, Release(d, w, o), w, y)
<1> DEFINE x == d.wf[w]
           left == { c \in x.claims :
                       ~ \/ c.op = ByWorkflow /\ x.status \in { "completed", "cancelled" }
                         \/ c.op = o /\ c.no = x.job[o].no }
           y == [ x EXCEPT !.claims = left ]
<1>1. x \in WorkflowOf(x.kind) /\ x.kind \in Kind
  BY DatabaseFields, RecordKind
<1>2. y \in WorkflowOf(x.kind)
  <2>1. left \in SUBSET Claim BY <1>1, WorkflowFields
  <2> HIDE DEF left
  <2> QED BY <1>1, <2>1, PutClaims
<1>3. Release(d, w, o) = [ d EXCEPT !.wf[w] = y ] BY DEF Release
<1> QED BY <1>1, <1>2, <1>3, PutWorkflow, WorkflowIsRecord

LEMMA ReleaseAllMoves ==
  ASSUME NEW d \in Database, NEW w \in Workflow, d.wf[w].kind # "none"
  PROVE  LET y == [ d.wf[w] EXCEPT !.claims = {} ]
         IN y \in WorkflowOf(d.wf[w].kind) /\ Rewrites(d, ReleaseAll(d, w), w, y)
<1> DEFINE x == d.wf[w]
           y == [ x EXCEPT !.claims = {} ]
<1>1. x \in WorkflowOf(x.kind) /\ x.kind \in Kind
  BY DatabaseFields, RecordKind
<1>2. y \in WorkflowOf(x.kind) BY <1>1, PutClaims
<1>3. ReleaseAll(d, w) = [ d EXCEPT !.wf[w] = y ] BY DEF ReleaseAll
<1> QED BY <1>1, <1>2, <1>3, PutWorkflow, WorkflowIsRecord

\* The keys a workflow has claimed for itself, and all it has claimed.
WorkKeys(x) == { c.key : c \in { e \in x.claims : e.op = ByWorkflow } }

AllKeys(x) == { c.key : c \in x.claims }

LEMMA AcquireMoves ==
  ASSUME NEW d \in Database, NEW w \in Workflow, d.wf[w].kind # "none",
         NEW keys \in SUBSET Key, NEW o \in OpName \cup { ByWorkflow }, NEW no \in Nat
  PROVE  LET x == d.wf[w]
             y == [ x EXCEPT !.claims =
                      { c \in x.claims : c.key \notin keys \/ c.key \in WorkKeys(x) }
                        \cup { [ key |-> key, op |-> o, no |-> no ]
                                 : key \in keys \ WorkKeys(x) } ]
         IN y \in WorkflowOf(x.kind) /\ Rewrites(d, Acquire(d, w, keys, o, no), w, y)
<1> DEFINE x == d.wf[w]
           made == { c \in x.claims : c.key \notin keys \/ c.key \in WorkKeys(x) }
                     \cup { [ key |-> key, op |-> o, no |-> no ]
                              : key \in keys \ WorkKeys(x) }
           y == [ x EXCEPT !.claims = made ]
<1>1. x \in WorkflowOf(x.kind) /\ x.kind \in Kind
  BY DatabaseFields, RecordKind
<1>2. y \in WorkflowOf(x.kind)
  <2>1. x.claims \in SUBSET Claim BY <1>1, WorkflowFields
  <2>2. \A key \in Key : [ key |-> key, op |-> o, no |-> no ] \in Claim BY DEF Claim
  <2>3. made \in SUBSET Claim BY <2>1, <2>2
  <2> HIDE DEF made
  <2> QED BY <1>1, <2>3, PutClaims
<1>3. Acquire(d, w, keys, o, no) = [ d EXCEPT !.wf[w] = y ] BY DEF Acquire, WorkKeys
<1> QED BY <1>1, <1>2, <1>3, PutWorkflow, WorkflowIsRecord

LEMMA DroppedFields ==
  ASSUME NEW k \in Kind, NEW x \in WorkflowOf(k)
  PROVE  LET y == Dropped(x) IN
         /\ y \in WorkflowOf(k) /\ y.kind = k /\ y.status = x.status /\ y.phase = x.phase
         /\ y.claims = x.claims /\ y.bind = x.bind
         /\ x.status = "active" => y = x
         /\ y.cancel => x.cancel
         /\ \A o \in OperationsOf(k) :
              \/ y.job[o] = x.job[o]
              \/ /\ x.status # "active" /\ y.job[o] = NoJob
                 /\ x.status \notin Definition[k][o].statuses
         /\ y.data = x.data \/ (x.status # "active" /\ y.data = InitialData[k])
<1> DEFINE left == { o \in DOMAIN x.job : x.status \in Definition[x.kind][o].statuses }
           jobs == [o \in DOMAIN x.job |-> IF o \in left THEN x.job[o] ELSE NoJob]
           data == IF left = {} THEN InitialData[x.kind] ELSE x.data
           y == [ x EXCEPT !.job = jobs, !.data = data, !.cancel = FALSE ]
<1>1. Dropped(x) = IF x.status = "active" THEN x ELSE y
  BY DEF Dropped
<1>2. x.kind = k /\ DOMAIN x.job = OperationsOf(k) /\ x.job \in [OperationsOf(k) -> Job]
      /\ x.data \in DataOf(k)
  BY WorkflowFields
<1>3. jobs \in [OperationsOf(k) -> Job]
  <2>1. NoJob \in Job BY Limits DEF NoJob, Job
  <2> QED BY <1>2, <2>1
<1>4. data \in DataOf(k) BY <1>2, InitialDataIsTyped
<1>5. /\ \A o \in OperationsOf(k) :
            jobs[o] = x.job[o] \/ (jobs[o] = NoJob /\ x.status \notin Definition[k][o].statuses)
      /\ data = x.data \/ data = InitialData[k]
  BY <1>2
<1>6. /\ y \in WorkflowOf(k) /\ y.kind = k /\ y.status = x.status /\ y.phase = x.phase
      /\ y.claims = x.claims /\ y.bind = x.bind /\ y.cancel = FALSE
      /\ y.job = jobs /\ y.data = data
  <2> HIDE DEF jobs, data
  <2> QED BY <1>3, <1>4 DEF WorkflowOf
<1>7. CASE x.status = "active" BY <1>1, <1>7, <1>2
<1>8. CASE x.status # "active"
  <2>1. Dropped(x) = y BY <1>1, <1>8
  <2> HIDE DEF y, jobs, data
  <2> QED BY <2>1, <1>5, <1>6, <1>8
<1> QED BY <1>7, <1>8

LEMMA OverMoves ==
  ASSUME NEW d \in Database, NEW w \in Workflow, d.wf[w].kind # "none"
  PROVE  Rewrites(d, Over(d, w), w, Dropped(d.wf[w]))
<1>1. d.wf[w] \in WorkflowOf(d.wf[w].kind) /\ d.wf[w].kind \in Kind
  BY DatabaseFields, RecordKind
<1>2. Dropped(d.wf[w]) \in Record BY <1>1, DroppedFields, WorkflowIsRecord
<1>3. Over(d, w) = [ d EXCEPT !.wf[w] = Dropped(d.wf[w]) ] BY DEF Over
<1> QED BY <1>2, <1>3, PutWorkflow

----------------------------------------------------------------------------
\* What leaves a workflow as it is but for its remarks: which version of a row it
\* knows, and what it has still reserved.

DataLike(x, y) ==
  /\ x.kind = "video_archive" =>
       y.data.selected = x.data.selected /\ y.data.torrents = x.data.torrents
  /\ x.kind = "lanraragi_metadata" =>
       /\ y.data.ready = x.data.ready /\ y.data.done = x.data.done
       /\ y.data.reserved \subseteq x.data.reserved
       /\ x.data.stale \subseteq y.data.stale
  /\ x.kind \notin { "video_archive", "lanraragi_metadata" } => y.data = x.data

Kept(x, y) ==
  /\ y.kind = x.kind /\ y.status = x.status /\ y.phase = x.phase /\ y.cancel = x.cancel
  /\ y.claims = x.claims /\ y.bind = x.bind /\ y.job = x.job /\ DataLike(x, y)

Remarks(d, e) == e \in Database /\ \A v \in Workflow : Kept(d.wf[v], e.wf[v])

LEMMA KeptReflexive == ASSUME NEW x PROVE Kept(x, x)
BY DEF Kept, DataLike

LEMMA KeptTransitive ==
  ASSUME NEW x, NEW y, NEW z, Kept(x, y), Kept(y, z) PROVE Kept(x, z)
BY DEF Kept, DataLike

LEMMA RemarksReflexive == ASSUME NEW d \in Database PROVE Remarks(d, d)
BY KeptReflexive DEF Remarks

LEMMA RemarksTransitive ==
  ASSUME NEW d, NEW e, NEW f, Remarks(d, e), Remarks(e, f) PROVE Remarks(d, f)
BY KeptTransitive DEF Remarks

LEMMA KeptData ==
  ASSUME NEW k \in Kind, NEW x \in WorkflowOf(k), NEW z \in DataOf(k),
         DataLike(x, [ x EXCEPT !.data = z ])
  PROVE  [ x EXCEPT !.data = z ] \in WorkflowOf(k) /\ Kept(x, [ x EXCEPT !.data = z ])
<1>1. [ x EXCEPT !.data = z ] \in WorkflowOf(k) BY PutData
<1> QED BY <1>1 DEF Kept, WorkflowOf

LEMMA VideoDataFields ==
  ASSUME NEW z \in DataOf("video_archive")
  PROVE  z \in [ selected : BOOLEAN, torrents : SUBSET Role,
                 cleanup : { "none", "pending", "queued", "running", "failed", "completed" },
                 retry : OperationsOf("video_archive") \cup { "none" }, fresh : BOOLEAN ]
BY DEF DataOf

LEMMA ManualDataFields ==
  ASSUME NEW z \in DataOf("manual_torrent")
  PROVE  z \in [ choices : BOOLEAN, selected : BOOLEAN, submission : BOOLEAN ]
BY DEF DataOf

LEMMA MetadataDataFields ==
  ASSUME NEW z \in DataOf("lanraragi_metadata")
  PROVE  z \in [ ready : SUBSET (Manga \X Archive), reserved : SUBSET Manga,
                 done : SUBSET Manga, stale : SUBSET Manga ]
BY DEF DataOf

LEMMA CleanupDataFields ==
  ASSUME NEW z \in DataOf("download_cleanup")
  PROVE  z \in [ found : BOOLEAN ]
BY DEF DataOf

LEMMA RoundDataFields ==
  ASSUME NEW z \in DataOf("full_collect")
  PROVE  z \in [ intent : { "run", "pause" }, end : BOOLEAN, cursor : Nat, failures : Nat,
                 owner : 0 .. MaxOwner, started : BOOLEAN, settled : Nat \X JobStatus ]
BY DEF DataOf

LEMMA BoundRows ==
  ASSUME NEW k \in Kind, NEW x \in WorkflowOf(k)
  PROVE  /\ Bound(x) \subseteq Manga /\ \A m \in Bound(x) : x.bind[m] \in Entry
         /\ k \in { "lanraragi_compare", "download_cleanup", "full_collect" }
              => Bound(x) = {}
         /\ k \in { "video_archive", "manual_torrent" } =>
              TheManga(x) \in Manga /\ Bound(x) = { TheManga(x) }
<1>1. x.bind \in BindOf(k) BY WorkflowFields
<1>2. CASE k \in { "video_archive", "manual_torrent" }
  <2>1. PICK m \in Manga : x.bind \in [{m} -> Entry] BY <1>1, <1>2 DEF BindOf
  <2>2. Bound(x) = {m} BY <2>1 DEF Bound
  <2>3. TheManga(x) = m BY <2>2 DEF TheManga
  <2> QED BY <2>1, <2>2, <2>3, <1>2
<1>3. CASE k = "lanraragi_metadata"
  <2>1. PICK ms \in SUBSET Manga : x.bind \in [ms -> Entry] BY <1>1, <1>3 DEF BindOf
  <2> QED BY <2>1, <1>3 DEF Bound
<1>4. CASE k \in { "lanraragi_compare", "download_cleanup", "full_collect" }
  <2>1. x.bind = << >> BY <1>1, <1>4 DEF BindOf
  <2> QED BY <2>1, <1>4 DEF Bound
<1> QED BY <1>2, <1>3, <1>4, KindNames

LEMMA OutdatedKeeps ==
  ASSUME NEW x \in Record, NEW ms
  PROVE  Outdated(x, ms) \in Record /\ Kept(x, Outdated(x, ms))
<1>1. CASE x.kind = "none"
  <2>1. Bound(x) = {} BY <1>1, RecordKind, NoFields DEF Bound
  <2>2. ms \cap Bound(x) = {} BY <2>1
  <2>3. Outdated(x, ms) = x BY <1>1, <2>2 DEF Outdated
  <2> QED BY <2>3, KeptReflexive
<1>2. CASE x.kind # "none"
  <2>1. x.kind \in Kind /\ x \in WorkflowOf(x.kind) BY <1>2, RecordKind
  <2>2. CASE x.kind = "video_archive"
    <3> DEFINE b == \A o \in DOMAIN x.job : x.job[o].status # "running"
               z == [ x.data EXCEPT !.fresh = b ]
    <3>1. Outdated(x, ms) = x \/ Outdated(x, ms) = [ x EXCEPT !.data = z ]
      BY <2>2 DEF Outdated
    <3>2. x.data \in DataOf("video_archive") BY <2>1, <2>2, WorkflowFields
    <3>3. b \in BOOLEAN OBVIOUS
    <3> HIDE DEF b
    <3>4. z \in DataOf("video_archive") /\ z.selected = x.data.selected
          /\ z.torrents = x.data.torrents
      BY <3>2, <3>3, VideoDataFields DEF DataOf
    <3> HIDE DEF z
    <3>5. DataLike(x, [ x EXCEPT !.data = z ])
      BY <2>1, <2>2, <3>4 DEF DataLike, WorkflowOf
    <3> QED BY <2>1, <2>2, <3>1, <3>4, <3>5, KeptData, KeptReflexive, WorkflowIsRecord
  <2>3. CASE x.kind = "lanraragi_metadata"
    <3> DEFINE more == x.data.stale \cup ((ms \cap Bound(x)) \ x.data.done)
               z == [ x.data EXCEPT !.stale = more ]
    <3>1. Outdated(x, ms) = x \/ Outdated(x, ms) = [ x EXCEPT !.data = z ]
      BY <2>3 DEF Outdated
    <3>2. x.data \in DataOf("lanraragi_metadata") BY <2>1, <2>3, WorkflowFields
    <3>3. more \subseteq Manga /\ x.data.stale \subseteq more
      BY <2>1, <3>2, BoundRows, MetadataDataFields
    <3> HIDE DEF more
    <3>4. /\ z \in DataOf("lanraragi_metadata") /\ z.ready = x.data.ready
          /\ z.done = x.data.done /\ z.reserved = x.data.reserved /\ z.stale = more
      BY <3>2, <3>3, MetadataDataFields DEF DataOf
    <3> HIDE DEF z
    <3>5. DataLike(x, [ x EXCEPT !.data = z ])
      BY <2>1, <2>3, <3>3, <3>4 DEF DataLike, WorkflowOf
    <3> QED BY <2>1, <2>3, <3>1, <3>4, <3>5, KeptData, KeptReflexive, WorkflowIsRecord
  <2>4. CASE x.kind \notin { "video_archive", "lanraragi_metadata" }
    <3>1. Outdated(x, ms) = x BY <2>4 DEF Outdated
    <3> QED BY <3>1, KeptReflexive
  <2> QED BY <2>2, <2>3, <2>4
<1> QED BY <1>1, <1>2

LEMMA TouchAllRemarks ==
  ASSUME NEW d \in Database, NEW ms
  PROVE  Remarks(d, TouchAll(d, ms)) /\ TouchAll(d, ms).row = d.row
<1>1. \A v \in Workflow : d.wf[v] \in Record BY DatabaseFields
<1>2. \A v \in Workflow : Outdated(d.wf[v], ms) \in Record
                          /\ Kept(d.wf[v], Outdated(d.wf[v], ms))
  BY <1>1, OutdatedKeeps
<1>3. /\ TouchAll(d, ms) \in Database /\ TouchAll(d, ms).row = d.row
      /\ \A v \in Workflow : TouchAll(d, ms).wf[v] = Outdated(d.wf[v], ms)
  BY <1>2 DEF TouchAll, Database
<1> QED BY <1>2, <1>3 DEF Remarks

LEMMA TouchRemarks ==
  ASSUME NEW d \in Database, NEW m
  PROVE  Remarks(d, Touch(d, m)) /\ Touch(d, m).row = d.row
BY TouchAllRemarks DEF Touch

LEMMA PutRemark ==
  ASSUME NEW d \in Database, NEW w \in Workflow, NEW y \in Record, Kept(d.wf[w], y)
  PROVE  Remarks(d, [ d EXCEPT !.wf[w] = y ]) /\ [ d EXCEPT !.wf[w] = y ].row = d.row
<1>1. Rewrites(d, [ d EXCEPT !.wf[w] = y ], w, y) BY PutWorkflow
<1> QED BY <1>1, KeptReflexive DEF Rewrites, Remarks

LEMMA PutRowRemarks ==
  ASSUME NEW d \in Database, NEW m \in Manga, NEW r \in Row
  PROVE  Remarks(d, [ d EXCEPT !.row[m] = r ])
<1>1. [ d EXCEPT !.row[m] = r ] \in Database /\ [ d EXCEPT !.row[m] = r ].wf = d.wf
  BY PutRow
<1> QED BY <1>1, KeptReflexive DEF Remarks

LEMMA SyncRemarks ==
  ASSUME NEW d \in Database, NEW w \in Workflow, d.wf[w].kind = "video_archive"
  PROVE  Remarks(d, SyncRemark(d, w)) /\ SyncRemark(d, w).row = d.row
<1> DEFINE x == d.wf[w]
           z == [ x.data EXCEPT !.fresh = TRUE ]
<1>1. x \in WorkflowOf("video_archive") /\ "video_archive" \in Kind
  BY DatabaseFields, RecordKind
<1>2. /\ z \in DataOf("video_archive") /\ z.selected = x.data.selected
      /\ z.torrents = x.data.torrents
  <2>1. x.data \in DataOf("video_archive") BY <1>1, WorkflowFields
  <2> QED BY <2>1, VideoDataFields DEF DataOf
<1>3. SyncRemark(d, w) = [ d EXCEPT !.wf[w] = [ x EXCEPT !.data = z ] ]
  BY DEF SyncRemark
<1> HIDE DEF z
<1>4. DataLike(x, [ x EXCEPT !.data = z ]) BY <1>1, <1>2 DEF DataLike, WorkflowOf
<1> QED BY <1>1, <1>2, <1>3, <1>4, KeptData, PutRemark, WorkflowIsRecord

LEMMA PutDataRemarks ==
  ASSUME NEW d \in Database, NEW w \in Workflow, d.wf[w].kind # "none",
         NEW z \in DataOf(d.wf[w].kind), DataLike(d.wf[w], [ d.wf[w] EXCEPT !.data = z ])
  PROVE  LET e == [ d EXCEPT !.wf[w] = [ d.wf[w] EXCEPT !.data = z ] ] IN
         /\ Remarks(d, e) /\ e \in Database /\ e.row = d.row
         /\ e.wf[w] = [ d.wf[w] EXCEPT !.data = z ]
         /\ e.wf[w].kind = d.wf[w].kind /\ e.wf[w].data = z
<1> DEFINE x == d.wf[w]
           y == [ x EXCEPT !.data = z ]
           e == [ d EXCEPT !.wf[w] = y ]
<1>1. x.kind \in Kind /\ x \in WorkflowOf(x.kind) BY DatabaseFields, RecordKind
<1>2. y \in WorkflowOf(x.kind) /\ Kept(x, y) BY <1>1, KeptData
<1>3. y.data = z /\ y.kind = x.kind BY <1>1 DEF WorkflowOf
<1>4. y \in Record BY <1>1, <1>2, WorkflowIsRecord
<1> HIDE DEF y
<1>5. Remarks(d, e) /\ e.row = d.row BY <1>2, <1>4, PutRemark
<1>6. Rewrites(d, e, w, y) BY <1>4, PutWorkflow
<1>7. e \in Database /\ e.wf[w] = y BY <1>6 DEF Rewrites
<1> HIDE DEF e
<1> QED BY <1>3, <1>5, <1>7 DEF e, y

LEMMA RowFields ==
  ASSUME NEW r \in Row
  PROVE  /\ \A st \in RowStatus : [ r EXCEPT !.status = st ] \in Row
         /\ \A er \in RowError : [ r EXCEPT !.error = er ] \in Row
         /\ \A st \in RowStatus, er \in RowError :
              [ r EXCEPT !.status = st, !.error = er ] \in Row
BY DEF Row

LEMMA EntryFields ==
  ASSUME NEW e \in Entry PROVE e.status \in RowStatus /\ e.error \in RowError
BY DEF Entry

\* The row of a video archive after an event.
VideoRow(x, r, op, event) ==
  CASE event = "failed" /\ op # "cleanup" -> [ r EXCEPT !.error = "special" ]
    [] event = "succeeded" -> [ r EXCEPT !.error = "none" ]
    [] event = "cancelled" -> [ r EXCEPT !.status = x.bind[TheManga(x)].status,
                                         !.error = x.bind[TheManga(x)].error ]
    [] OTHER -> r

LEMMA VideoChangedRemarks ==
  ASSUME NEW d \in Database, NEW w \in Workflow, d.wf[w].kind = "video_archive",
         NEW op \in OperationsOf("video_archive"), NEW event
  PROVE  LET m == TheManga(d.wf[w]) IN
         /\ m \in Manga /\ VideoRow(d.wf[w], d.row[m], op, event) \in Row
         /\ Remarks(d, VideoChanged(d, w, op, event))
         /\ VideoChanged(d, w, op, event).row
              = [ d.row EXCEPT ![m] = VideoRow(d.wf[w], d.row[m], op, event) ]
<1> DEFINE x == d.wf[w]
           m == TheManga(x)
           r == VideoRow(x, d.row[m], op, event)
           failed == event = "failed" /\ op # "cleanup"
           settle == CASE op # "cleanup" -> x.data.cleanup
                       [] event = "claimed" -> "running"
                       [] event = "failed" -> "failed"
                       [] OTHER -> x.data.cleanup
           d1 == Touch(d, m)
           d2 == [ d1 EXCEPT !.row[m] = r ]
           z3 == [ d2.wf[w].data EXCEPT !.cleanup = settle ]
           d3 == [ d2 EXCEPT !.wf[w] = [ d2.wf[w] EXCEPT !.data = z3 ] ]
           z4 == [ d3.wf[w].data EXCEPT !.retry = IF failed THEN op ELSE d3.wf[w].data.retry ]
           d4 == [ d3 EXCEPT !.wf[w] = [ d3.wf[w] EXCEPT !.data = z4 ] ]
<1>1. x \in WorkflowOf("video_archive") /\ "video_archive" \in Kind
  BY DatabaseFields, RecordKind
<1>2. m \in Manga /\ x.bind[m] \in Entry BY <1>1, BoundRows
<1>3. r \in Row
  <2>1. d.row[m] \in Row BY <1>2, DatabaseFields
  <2>2. { "special", "none" } \subseteq RowError BY DEF RowError
  <2> QED BY <1>2, <2>1, <2>2, RowFields, EntryFields DEF VideoRow
<1>4. Remarks(d, d1) /\ d1.row = d.row BY TouchRemarks
<1>5. d1 \in Database /\ Kept(x, d1.wf[w]) BY <1>4 DEF Remarks
<1>6. Remarks(d1, d2) /\ d2 \in Database /\ d2.wf = d1.wf
      /\ d2.row = [ d.row EXCEPT ![m] = r ]
  <2> HIDE DEF d1, r, m
  <2> QED BY <1>2, <1>3, <1>4, <1>5, PutRow, PutRowRemarks
<1>7. d2.wf[w] \in WorkflowOf("video_archive") /\ d2.wf[w].kind = "video_archive"
  <2>1. d2.wf[w].kind = "video_archive" BY <1>5, <1>6 DEF Kept
  <2> QED BY <1>6, <2>1, DatabaseFields, RecordKind
<1>8. settle \in { "none", "pending", "queued", "running", "failed", "completed" }
  <2>1. x.data \in DataOf("video_archive") BY <1>1, WorkflowFields
  <2> QED BY <2>1, VideoDataFields
<1>9. /\ Remarks(d2, d3) /\ d3 \in Database /\ d3.row = d2.row
      /\ d3.wf[w].kind = "video_archive" /\ d3.wf[w].data = z3
      /\ z3 \in DataOf("video_archive")
  <2>1. d2.wf[w].data \in DataOf("video_archive") BY <1>1, <1>7, WorkflowFields
  <2> HIDE DEF settle, failed, d2
  <2>2. /\ z3 \in DataOf("video_archive")
        /\ z3.selected = d2.wf[w].data.selected
        /\ z3.torrents = d2.wf[w].data.torrents
    BY <2>1, <1>8, VideoDataFields DEF DataOf
  <2> HIDE DEF z3
  <2>3. DataLike(d2.wf[w], [ d2.wf[w] EXCEPT !.data = z3 ])
    BY <1>7, <2>2 DEF DataLike, WorkflowOf
  <2> QED BY <1>6, <1>7, <2>2, <2>3, PutDataRemarks
<1>10. /\ Remarks(d3, d4) /\ d4 \in Database /\ d4.row = d3.row
       /\ d4.wf[w].kind = "video_archive"
  <2> HIDE DEF settle, failed, d3, z3
  <2>1. /\ z4 \in DataOf("video_archive")
        /\ z4.selected = d3.wf[w].data.selected
        /\ z4.torrents = d3.wf[w].data.torrents
    BY <1>9, VideoDataFields DEF DataOf
  <2>2. d3.wf[w] \in WorkflowOf("video_archive")
    BY <1>9, DatabaseFields, RecordKind
  <2> HIDE DEF z4
  <2>3. DataLike(d3.wf[w], [ d3.wf[w] EXCEPT !.data = z4 ])
    BY <1>9, <2>1, <2>2 DEF DataLike, WorkflowOf
  <2> QED BY <1>9, <2>1, <2>3, PutDataRemarks
<1>11. VideoChanged(d, w, op, event) = SyncRemark(d4, w)
  <2>1. VideoChanged(d, w, op, event)
          = SyncRemark([ d1 EXCEPT !.row[m] = r, !.wf[w].data.cleanup = settle,
                                   !.wf[w].data.retry = IF failed THEN op ELSE @ ], w)
    BY DEF VideoChanged, VideoRow
  <2> HIDE DEF settle, failed, r, m, d1
  <2>2. [ d1 EXCEPT !.row[m] = r, !.wf[w].data.cleanup = settle,
                    !.wf[w].data.retry = IF failed THEN op ELSE @ ]
          = [[ d2 EXCEPT !.wf[w].data.cleanup = settle ]
               EXCEPT !.wf[w].data.retry = IF failed THEN op ELSE @ ]
    OBVIOUS
  <2> HIDE DEF d2
  <2>3. [ d2 EXCEPT !.wf[w].data.cleanup = settle ] = d3
    OBVIOUS
  <2> HIDE DEF d3
  <2>4. [ d3 EXCEPT !.wf[w].data.retry = IF failed THEN op ELSE @ ] = d4
    OBVIOUS
  <2>5. [[ d2 EXCEPT !.wf[w].data.cleanup = settle ]
          EXCEPT !.wf[w].data.retry = IF failed THEN op ELSE @ ]
          = [ d3 EXCEPT !.wf[w].data.retry = IF failed THEN op ELSE @ ]
    BY <2>3
  <2> HIDE DEF d4
  <2>6. [ d1 EXCEPT !.row[m] = r, !.wf[w].data.cleanup = settle,
                    !.wf[w].data.retry = IF failed THEN op ELSE @ ] = d4
    BY <2>2, <2>4, <2>5
  <2> QED BY <2>1, <2>6
<1>12. Remarks(d4, SyncRemark(d4, w)) /\ SyncRemark(d4, w).row = d4.row
  <2> HIDE DEF d4
  <2> QED BY <1>10, SyncRemarks
<1> HIDE DEF d1, d2, d3, d4, r, m
<1> QED BY <1>2, <1>3, <1>4, <1>6, <1>9, <1>10, <1>11, <1>12, RemarksTransitive DEF r, m

LEMMA TorrentChangedRemarks ==
  ASSUME NEW d \in Database, NEW w \in Workflow, d.wf[w].kind = "manual_torrent", NEW event
  PROVE  LET m == TheManga(d.wf[w]) IN
         /\ m \in Manga /\ Remarks(d, TorrentChanged(d, w, event))
         /\ TorrentChanged(d, w, event).row =
              IF event = "succeeded" /\ d.wf[w].status = "completed"
              THEN [ d.row EXCEPT ![m] = [ d.row[m] EXCEPT !.status = "downloading",
                       !.error = "none", !.method = "torrent", !.external = TRUE ] ]
              ELSE d.row
<1> DEFINE x == d.wf[w]
           m == TheManga(x)
           r == [ d.row[m] EXCEPT !.status = "downloading", !.error = "none",
                                  !.method = "torrent", !.external = TRUE ]
           d1 == Touch(d, m)
           d2 == [ d1 EXCEPT !.row[m] = r ]
<1>1. x \in WorkflowOf("manual_torrent") /\ "manual_torrent" \in Kind
  BY DatabaseFields, RecordKind
<1>2. m \in Manga BY <1>1, BoundRows
<1>3. r \in Row
  <2>1. d.row[m] \in Row BY <1>2, DatabaseFields
  <2> QED BY <2>1 DEF Row, RowStatus, RowError
<1>4. Remarks(d, d1) /\ d1.row = d.row /\ d1 \in Database BY TouchRemarks DEF Remarks
<1>5. Remarks(d1, d2) /\ d2.row = [ d.row EXCEPT ![m] = r ]
  <2> HIDE DEF d1, r, m
  <2> QED BY <1>2, <1>3, <1>4, PutRow, PutRowRemarks
<1>6. TorrentChanged(d, w, event) =
        IF event = "succeeded" /\ x.status = "completed" THEN d2 ELSE d
  <2>1. TorrentChanged(d, w, event) =
          IF event = "succeeded" /\ x.status = "completed"
          THEN [ d1 EXCEPT !.row[m] = [ d1.row[m] EXCEPT !.status = "downloading",
                   !.error = "none", !.method = "torrent", !.external = TRUE ] ]
          ELSE d
    BY DEF TorrentChanged
  <2> HIDE DEF d1, m
  <2> QED BY <2>1, <1>4
<1> HIDE DEF d1, d2, r, m
<1> QED BY <1>2, <1>4, <1>5, <1>6, RemarksTransitive, RemarksReflexive DEF r, m

\* The rows an update gives back, and what they are then.
Given(d, w, ms) ==
  { m \in ms \cap d.wf[w].data.reserved :
      d.row[m].status = "special_processing" /\ ~d.row[m].busy }

RestoredRow(d, w, ms) ==
  [m \in Manga |-> IF m \in Given(d, w, ms)
                   THEN [ d.row[m] EXCEPT !.status = d.wf[w].bind[m].status ]
                   ELSE d.row[m]]

LEMMA RestoreRemarks ==
  ASSUME NEW d \in Database, NEW w \in Workflow, d.wf[w].kind = "lanraragi_metadata",
         NEW ms \in SUBSET Bound(d.wf[w])
  PROVE  LET x == d.wf[w]
             e == Restore(d, w, ms) IN
         /\ Remarks(d, e) /\ e.row = RestoredRow(d, w, ms) /\ RestoredRow(d, w, ms) \in [Manga -> Row]
         /\ \A v \in Workflow \ {w} : e.wf[v] = d.wf[v]
         /\ e.wf[w] = [ x EXCEPT !.data = [ x.data EXCEPT
                          !.reserved = x.data.reserved \ Given(d, w, ms),
                          !.stale = x.data.stale \cup Given(d, w, ms) ] ]
<1> DEFINE x == d.wf[w]
           back == Given(d, w, ms)
           rows == RestoredRow(d, w, ms)
           z == [ x.data EXCEPT !.reserved = x.data.reserved \ back,
                                !.stale = x.data.stale \cup back ]
           d1 == [ d EXCEPT !.row = rows ]
           y == [ x EXCEPT !.data = z ]
           d2 == [ d1 EXCEPT !.wf[w] = y ]
<1>1. x \in WorkflowOf("lanraragi_metadata") /\ "lanraragi_metadata" \in Kind
  BY DatabaseFields, RecordKind
<1>2. Bound(x) \subseteq Manga /\ \A m \in Bound(x) : x.bind[m] \in Entry
  BY <1>1, BoundRows
<1>3. back \subseteq ms BY DEF Given
<1>4. rows \in [Manga -> Row]
  <2>1. ASSUME NEW m \in Manga PROVE rows[m] \in Row
    <3>1. d.row[m] \in Row BY DatabaseFields
    <3>2. CASE m \in back
      <4>1. x.bind[m].status \in RowStatus BY <1>2, <1>3, <3>2, EntryFields
      <4> QED BY <3>1, <3>2, <4>1, RowFields DEF RestoredRow
    <3> QED BY <3>1, <3>2 DEF RestoredRow
  <2> QED BY <2>1 DEF RestoredRow
<1>5. d1 \in Database /\ d1.wf = d.wf /\ d1.row = rows
  <2> HIDE DEF rows
  <2> QED BY <1>4 DEF Database
<1>6. /\ z \in DataOf("lanraragi_metadata") /\ z.ready = x.data.ready
      /\ z.done = x.data.done /\ z.reserved \subseteq x.data.reserved
      /\ x.data.stale \subseteq z.stale
  <2>1. x.data \in DataOf("lanraragi_metadata") BY <1>1, WorkflowFields
  <2>2. back \subseteq Manga BY <1>2, <1>3
  <2> HIDE DEF back
  <2> QED BY <2>1, <2>2, MetadataDataFields DEF DataOf
<1>7. DataLike(x, y)
  <2> HIDE DEF z
  <2> QED BY <1>1, <1>6 DEF DataLike, WorkflowOf
<1>8. Remarks(d1, d2) /\ d2.row = rows /\ d2.wf[w] = y
  <2> HIDE DEF z, d1, rows
  <2> QED BY <1>1, <1>5, <1>6, <1>7, PutDataRemarks
<1>9. \A v \in Workflow \ {w} : d2.wf[v] = d.wf[v]
  <2> HIDE DEF y, d1, rows
  <2> QED BY <1>5 DEF Database
<1>10. Restore(d, w, ms) = d2
  <2>1. Restore(d, w, ms) = [ d EXCEPT !.row = rows, !.wf[w].data.reserved = @ \ back,
                                       !.wf[w].data.stale = @ \cup back ]
    BY DEF Restore, Given, RestoredRow
  <2> DEFINE z1 == [ x.data EXCEPT !.reserved = x.data.reserved \ back ]
             y1 == [ x EXCEPT !.data = z1 ]
             e1 == [ d1 EXCEPT !.wf[w] = y1 ]
  <2> HIDE DEF rows, back
  <2>2. [ d EXCEPT !.row = rows, !.wf[w].data.reserved = @ \ back,
                   !.wf[w].data.stale = @ \cup back ]
          = [[ d1 EXCEPT !.wf[w].data.reserved = @ \ back ]
               EXCEPT !.wf[w].data.stale = @ \cup back ]
    OBVIOUS
  <2>3. [ d1 EXCEPT !.wf[w].data.reserved = @ \ back ] = e1
    <3> HIDE DEF d1
    <3> QED BY <1>5
  <2>4. z = [ z1 EXCEPT !.stale = z1.stale \cup back ]
    <3>1. x.data \in [ ready : SUBSET (Manga \X Archive), reserved : SUBSET Manga,
                       done : SUBSET Manga, stale : SUBSET Manga ]
      BY <1>1, WorkflowFields, MetadataDataFields
    <3>2. z1.stale = x.data.stale BY <3>1
    <3> QED BY <3>1, <3>2
  <2>5. /\ e1.wf[w] = y1 /\ y1.data = z1
        /\ y = [ y1 EXCEPT !.data = z ]
    <3> HIDE DEF z1, z, d1
    <3> QED BY <1>1, <1>5 DEF Database, WorkflowOf
  <2>6. d2 = [ e1 EXCEPT !.wf[w] = y ]
    <3> HIDE DEF y1, y, d1
    <3> QED BY <1>5 DEF Database
  <2>7. [ e1 EXCEPT !.wf[w].data.stale = @ \cup back ]
          = [ e1 EXCEPT !.wf[w] = [ y1 EXCEPT !.data = [ z1 EXCEPT !.stale = z1.stale \cup back ] ] ]
    <3> HIDE DEF e1, y1, z1
    <3> QED BY <2>5
  <2>8. [[ d1 EXCEPT !.wf[w].data.reserved = @ \ back ]
           EXCEPT !.wf[w].data.stale = @ \cup back ]
          = [ e1 EXCEPT !.wf[w].data.stale = @ \cup back ]
    BY <2>3
  <2> HIDE DEF e1, y1, z1, z, y, d1, d2
  <2>9. [ e1 EXCEPT !.wf[w].data.stale = @ \cup back ] = d2
    BY <2>4, <2>5, <2>6, <2>7
  <2> QED BY <2>1, <2>2, <2>8, <2>9
<1>11. Remarks(d, d1)
  <2> HIDE DEF d1
  <2> QED BY <1>5, KeptReflexive DEF Remarks
<1> HIDE DEF d1, d2, rows, back
<1> QED BY <1>4, <1>8, <1>9, <1>10, <1>11, RemarksTransitive DEF rows, back

LEMMA ChangedRemarks ==
  ASSUME NEW d \in Database, NEW w \in Workflow, d.wf[w].kind # "none",
         NEW op \in OperationsOf(d.wf[w].kind), NEW event
  PROVE  Remarks(d, Changed(d, w, op, event))
<1> DEFINE x == d.wf[w]
<1>1. x.kind \in Kind /\ x \in WorkflowOf(x.kind) BY DatabaseFields, RecordKind
<1>2. CASE x.kind = "video_archive"
  <2>1. Changed(d, w, op, event) = VideoChanged(d, w, op, event) BY <1>2 DEF Changed
  <2>2. op \in OperationsOf("video_archive") BY <1>2
  <2>3. Remarks(d, VideoChanged(d, w, op, event)) BY <1>2, <2>2, VideoChangedRemarks
  <2> QED BY <2>1, <2>3
<1>3. CASE x.kind = "manual_torrent"
  <2>1. Changed(d, w, op, event) = TorrentChanged(d, w, event) BY <1>3 DEF Changed
  <2> QED BY <1>3, <2>1, TorrentChangedRemarks
<1>4. CASE x.kind = "lanraragi_metadata"
  <2>1. Changed(d, w, op, event) = MetadataChanged(d, w, op, event) BY <1>4 DEF Changed
  <2>2. MetadataChanged(d, w, op, event) \in { d, Restore(d, w, Bound(x)) }
    BY DEF MetadataChanged
  <2>3. Remarks(d, Restore(d, w, Bound(x))) BY <1>4, RestoreRemarks
  <2> QED BY <2>1, <2>2, <2>3, RemarksReflexive
<1>5. CASE x.kind \notin { "video_archive", "manual_torrent", "lanraragi_metadata" }
  <2>1. Changed(d, w, op, event) = d BY <1>5 DEF Changed
  <2> QED BY <2>1, RemarksReflexive
<1> QED BY <1>2, <1>3, <1>4, <1>5

LEMMA SetPhaseMoves ==
  ASSUME NEW d \in Database, NEW w \in Workflow, d.wf[w].kind # "none",
         NEW op \in OperationsOf(d.wf[w].kind), NEW ph \in Phase
  PROVE  LET x == d.wf[w]
             y == IF Def(d, w, op).affects THEN [ x EXCEPT !.phase = ph ] ELSE x
         IN y \in WorkflowOf(x.kind) /\ Rewrites(d, SetPhase(d, w, op, ph), w, y)
<1> DEFINE x == d.wf[w]
           y == [ x EXCEPT !.phase = ph ]
<1>1. x.kind \in Kind /\ x \in WorkflowOf(x.kind) BY DatabaseFields, RecordKind
<1>2. y \in WorkflowOf(x.kind) BY <1>1, PutPhase
<1>3. [ d EXCEPT !.wf[w].phase = ph ] = [ d EXCEPT !.wf[w] = y ] OBVIOUS
<1>4. Rewrites(d, [ d EXCEPT !.wf[w] = y ], w, y) BY <1>1, <1>2, PutWorkflow, WorkflowIsRecord
<1>5. Rewrites(d, d, w, x) BY DEF Rewrites
<1> HIDE DEF y
<1> QED BY <1>1, <1>2, <1>3, <1>4, <1>5 DEF SetPhase, y

----------------------------------------------------------------------------
\* How the jobs and the claims of a workflow move in one step.

JobSame(j, k) ==
  /\ k.status = j.status /\ k.no = j.no /\ k.owner = j.owner
  /\ k.lease = "live" => j.lease = "live"

JobIdles(j, k) ==
  /\ j.status # "running" /\ k.status # "running" /\ k.no \in Nat /\ j.no <= k.no
  /\ k.status = "queued" => j.no < k.no \/ j.status = "queued"

\* The job that runs as operation o comes to its end.
JobEnds(x, y, o) ==
  /\ y.kind = x.kind /\ y.bind = x.bind
  /\ y.status = "active" => x.status = "active" /\ WorkKeys(x) \subseteq WorkKeys(y)
  /\ \A c \in y.claims : /\ c \in x.claims /\ ~(c.op = o /\ c.no = x.job[o].no)
                         /\ c.op = ByWorkflow => y.status = "active"
  /\ y.job[o].status # "running"
  /\ \/ /\ y.job[o].no \in Nat /\ x.job[o].no <= y.job[o].no
        /\ y.job[o].status = "queued" => x.job[o].no < y.job[o].no
     \/ y.status # "active" /\ y.job[o] = NoJob
  /\ \A q \in OperationsOf(x.kind) \ {o} :
       y.job[q] = x.job[q] \/ (y.status # "active" /\ y.job[q] = NoJob)

\* What the end of a job makes of the database.
Ending(d, e, w, o) ==
  LET x == d.wf[w]
      y == e.wf[w]
  IN /\ e \in Database /\ JobEnds(x, y, o)
     /\ y.cancel => x.cancel
     /\ y.status = "active" => DataLike(x, y)
     /\ \A v \in Workflow \ {w} : Kept(d.wf[v], e.wf[v])

LEMMA ByWorkflowIsNoOperation == ByWorkflow \notin OpName /\ "none" \notin OpName
<1>1. \A k \in Kind : ByWorkflow \notin OperationsOf(k) /\ "none" \notin OperationsOf(k)
  BY KindNames, OperationNames DEF ByWorkflow
<1> QED BY <1>1 DEF OpName

LEMMA OperationIsName ==
  ASSUME NEW k \in Kind, NEW o \in OperationsOf(k) PROVE o \in OpName /\ o # ByWorkflow
BY ByWorkflowIsNoOperation DEF OpName

\* A job ends and what it claimed is released, in whatever order, and what is kept
\* of the workflow is dropped when it is over.
LEMMA UpdateMoves ==
  ASSUME NEW d \in Database, NEW c, c.w \in Workflow, d.wf[c.w].kind # "none",
         c.op \in OperationsOf(d.wf[c.w].kind), NEW ph \in Phase
  PROVE  LET x == d.wf[c.w]
             e == Update(d, c, ph)
             y == e.wf[c.w]
         IN /\ e \in Database /\ \A v \in Workflow \ {c.w} : Kept(d.wf[v], e.wf[v])
            /\ y.kind = x.kind /\ y.status = x.status /\ y.cancel = x.cancel
            /\ y.claims = x.claims /\ y.bind = x.bind /\ y.job = x.job /\ DataLike(x, y)
            /\ y.phase = IF Def(d, c.w, c.op).affects THEN ph ELSE x.phase
<1> DEFINE x == d.wf[c.w]
           d1 == SetPhase(d, c.w, c.op, ph)
           x1 == IF Def(d, c.w, c.op).affects THEN [ x EXCEPT !.phase = ph ] ELSE x
           d2 == Changed(d1, c.w, c.op, "updated")
<1>1. x.kind \in Kind /\ x \in WorkflowOf(x.kind) BY DatabaseFields, RecordKind
<1>2. x1 \in WorkflowOf(x.kind) /\ Rewrites(d, d1, c.w, x1) BY SetPhaseMoves
<1>3. /\ x1.kind = x.kind /\ x1.status = x.status /\ x1.cancel = x.cancel
      /\ x1.claims = x.claims /\ x1.bind = x.bind /\ x1.job = x.job /\ x1.data = x.data
      /\ x1.phase = IF Def(d, c.w, c.op).affects THEN ph ELSE x.phase
  BY <1>1 DEF WorkflowOf
<1> HIDE DEF x1, d1
<1>4. d1 \in Database /\ d1.wf[c.w] = x1 BY <1>2 DEF Rewrites
<1>5. Remarks(d1, d2) BY <1>1, <1>3, <1>4, ChangedRemarks
<1>6. Update(d, c, ph) = d2 BY DEF Update, d1
<1> HIDE DEF d2
<1>7. \A v \in Workflow \ {c.w} : Kept(d.wf[v], d2.wf[v])
  BY <1>2, <1>5 DEF Rewrites, Remarks
<1>8. d2 \in Database /\ Kept(x1, d2.wf[c.w]) BY <1>4, <1>5 DEF Remarks
<1> QED BY <1>3, <1>6, <1>7, <1>8 DEF Kept, DataLike

LEMMA EndedJobFields ==
  ASSUME NEW st, NEW no
  PROVE  LET j == [ NoJob EXCEPT !.status = st, !.no = no ]
         IN j.status = st /\ j.no = no
BY DEF NoJob

\* The claims that are left when a job of workflow x ends.
LeftClaims(x, o) ==
  { c \in x.claims :
      ~ \/ c.op = ByWorkflow /\ x.status \in { "completed", "cancelled" }
        \/ c.op = o /\ c.no = x.job[o].no }

\* The record of a workflow that has ended a job but released nothing.
JobOver(x, y, o, st) ==
  /\ y.kind = x.kind /\ y.bind = x.bind /\ y.claims = x.claims
  /\ y.status \in { x.status, "completed", "cancelled" }
  /\ y.cancel = x.cancel /\ DataLike(x, y)
  /\ y.job[o].status = st /\ y.job[o].no = x.job[o].no
  /\ \A q \in OperationsOf(x.kind) \ {o} : y.job[q] = x.job[q]

LEMMA ReleasedIsEnded ==
  ASSUME NEW d \in Database, NEW e \in Database, NEW w \in Workflow, d.wf[w].kind # "none",
         NEW o \in OperationsOf(d.wf[w].kind),
         NEW st \in { "succeeded", "failed", "abandoned", "cancelled" },
         JobOver(d.wf[w], e.wf[w], o, st),
         \A v \in Workflow \ {w} : Kept(d.wf[v], e.wf[v])
  PROVE  /\ Ending(d, Release(e, w, o), w, o)
         /\ Release(e, w, o).wf[w].status = e.wf[w].status
         /\ Ending(d, Over(Release(e, w, o), w), w, o)
         /\ Over(Release(e, w, o), w).wf[w].status = e.wf[w].status
<1> DEFINE x == d.wf[w]
           x1 == e.wf[w]
           y == [ x1 EXCEPT !.claims = LeftClaims(x1, o) ]
           f == Release(e, w, o)
           g == Over(f, w)
<1>1. x.kind \in Kind /\ x \in WorkflowOf(x.kind) BY DatabaseFields, RecordKind
<1>2. x1.kind = x.kind /\ x1 \in WorkflowOf(x.kind)
  BY <1>1, NoneIsNoKind, DatabaseFields, RecordKind DEF JobOver
<1>3. y \in WorkflowOf(x.kind) /\ Rewrites(e, f, w, y)
  BY <1>1, <1>2, ReleaseMoves, NoneIsNoKind DEF LeftClaims
<1>4. /\ y.kind = x.kind /\ y.status = x1.status /\ y.cancel = x1.cancel
      /\ y.bind = x1.bind /\ y.job = x1.job /\ y.data = x1.data
      /\ y.claims = LeftClaims(x1, o)
  BY <1>2 DEF WorkflowOf
<1>5. f \in Database /\ f.wf[w] = y BY <1>3 DEF Rewrites
<1>6. x.job[o] \in Job /\ x.job[o].no \in Nat BY <1>1, WorkflowFields, JobFields
<1>7. o \in OpName /\ o # ByWorkflow BY <1>1, OperationIsName
<1>8. x1.status \in { "active", "completed", "cancelled" } BY <1>1, <1>2, WorkflowFields
<1> HIDE DEF y, f
<1>9. /\ x1.bind = x.bind /\ x1.claims = x.claims /\ x1.cancel = x.cancel /\ DataLike(x, x1)
      /\ x1.job[o].status = st /\ x1.job[o].no = x.job[o].no
      /\ \A q \in OperationsOf(x.kind) \ {o} : x1.job[q] = x.job[q]
  BY DEF JobOver
<1>10. /\ y.status = "active" => WorkKeys(x) \subseteq WorkKeys(y)
       /\ \A c \in y.claims : /\ c \in x.claims /\ ~(c.op = o /\ c.no = x.job[o].no)
                              /\ c.op = ByWorkflow => y.status = "active"
  BY <1>4, <1>7, <1>8, <1>9 DEF LeftClaims, WorkKeys
<1>11. JobEnds(x, y, o)
  <2>1. y.status = "active" => x.status = "active" BY <1>4 DEF JobOver
  <2> QED BY <1>4, <1>6, <1>9, <1>10, <2>1 DEF JobEnds
<1>12. \A v \in Workflow \ {w} : Kept(d.wf[v], f.wf[v])
  BY <1>3 DEF Rewrites
<1>13. Ending(d, f, w, o)
  BY <1>4, <1>5, <1>9, <1>11, <1>12 DEF Ending, DataLike
<1>14. Rewrites(f, g, w, Dropped(y))
  BY <1>1, <1>4, <1>5, OverMoves, NoneIsNoKind
<1> DEFINE u == Dropped(y)
<1>15. /\ u.kind = x.kind /\ u.status = y.status /\ u.claims = y.claims
       /\ u.bind = y.bind
       /\ y.status = "active" => u = y
       /\ u.cancel => y.cancel
       /\ \A q \in OperationsOf(x.kind) :
            u.job[q] = y.job[q] \/ (y.status # "active" /\ u.job[q] = NoJob)
  BY <1>1, <1>3, DroppedFields
<1> HIDE DEF u, g
<1>16. g \in Database /\ g.wf[w] = u /\ \A v \in Workflow \ {w} : g.wf[v] = f.wf[v]
  BY <1>14 DEF Rewrites, u
<1>17. JobEnds(x, u, o)
  <2>1. WorkKeys(u) = WorkKeys(y) BY <1>15 DEF WorkKeys
  <2>2. NoJob.status # "running" BY DEF NoJob
  <2>3. CASE y.status = "active" BY <1>11, <1>15, <2>3
  <2>4. CASE y.status # "active"
    <3>1. \A c \in u.claims : /\ c \in x.claims /\ ~(c.op = o /\ c.no = x.job[o].no)
                             /\ c.op = ByWorkflow => u.status = "active"
      BY <1>11, <1>15 DEF JobEnds
    <3>2. u.job[o] = NoJob \/ u.job[o] = y.job[o] BY <1>15
    <3>3. \A q \in OperationsOf(x.kind) \ {o} : u.job[q] = x.job[q] \/ u.job[q] = NoJob
      BY <1>11, <1>15 DEF JobEnds
    <3> QED BY <1>11, <1>15, <2>2, <2>4, <3>1, <3>2, <3>3 DEF JobEnds
  <2> QED BY <2>3, <2>4
<1>18. Ending(d, g, w, o)
  <2>1. u.cancel => x.cancel BY <1>5, <1>13, <1>15 DEF Ending
  <2>2. u.status = "active" => DataLike(x, u) BY <1>5, <1>13, <1>15 DEF Ending
  <2>3. \A v \in Workflow \ {w} : Kept(d.wf[v], g.wf[v]) BY <1>12, <1>16
  <2> QED BY <1>16, <1>17, <2>1, <2>2, <2>3 DEF Ending
<1> QED BY <1>4, <1>5, <1>13, <1>15, <1>16, <1>18 DEF f, g

\* The end of a job is written on its record.
LEMMA EndJobOver ==
  ASSUME NEW d \in Database, NEW e \in Database, NEW w \in Workflow, d.wf[w].kind # "none",
         NEW o \in OperationsOf(d.wf[w].kind),
         NEW st \in { "succeeded", "failed", "abandoned", "cancelled" },
         e.wf[w].kind = d.wf[w].kind, e.wf[w].status = d.wf[w].status,
         e.wf[w].cancel = d.wf[w].cancel, e.wf[w].claims = d.wf[w].claims,
         e.wf[w].bind = d.wf[w].bind, e.wf[w].job = d.wf[w].job,
         DataLike(d.wf[w], e.wf[w]),
         \A v \in Workflow \ {w} : Kept(d.wf[v], e.wf[v])
  PROVE  LET f == EndJob(e, w, o, st) IN
         /\ f \in Database /\ f.row = e.row /\ JobOver(d.wf[w], f.wf[w], o, st)
         /\ f.wf[w].kind = d.wf[w].kind /\ f.wf[w].status = d.wf[w].status
         /\ f.wf[w].phase = e.wf[w].phase /\ f.wf[w].data = e.wf[w].data
         /\ \A v \in Workflow \ {w} : Kept(d.wf[v], f.wf[v])
<1> DEFINE x == d.wf[w]
           x1 == e.wf[w]
           j == [ NoJob EXCEPT !.status = st, !.no = x1.job[o].no ]
           y == [ x1 EXCEPT !.job[o] = j ]
           f == EndJob(e, w, o, st)
<1>1. x.kind \in Kind /\ x1 \in WorkflowOf(x.kind) /\ x1.kind = x.kind
  BY DatabaseFields, RecordKind, NoneIsNoKind
<1>2. x1.kind # "none" /\ o \in OperationsOf(x1.kind) OBVIOUS
<1>3. j \in Job /\ y \in WorkflowOf(x.kind) /\ Rewrites(e, f, w, y)
  BY <1>1, <1>2, EndJobMoves
<1>4. j.status = st /\ j.no = x1.job[o].no BY EndedJobFields
<1> HIDE DEF j
<1>5. /\ y.kind = x.kind /\ y.status = x.status /\ y.cancel = x.cancel /\ y.claims = x.claims
      /\ y.bind = x.bind /\ y.data = x1.data /\ y.phase = x1.phase
      /\ y.job = [ x1.job EXCEPT ![o] = j ]
  BY <1>1 DEF WorkflowOf
<1>6. x1.job \in [OperationsOf(x.kind) -> Job] BY <1>1, WorkflowFields
<1> HIDE DEF y
<1>7. y.job[o] = j /\ \A q \in OperationsOf(x.kind) \ {o} : y.job[q] = x.job[q]
  BY <1>5, <1>6
<1>8. DataLike(x, y) BY <1>5 DEF DataLike
<1>9. JobOver(x, y, o, st) BY <1>4, <1>5, <1>7, <1>8 DEF JobOver
<1> HIDE DEF f
<1> QED BY <1>3, <1>5, <1>9 DEF Rewrites, f

\* What follows the end of a job before it is released changes only remarks, the
\* phase and the status of the workflow.
LEMMA JobOverKept ==
  ASSUME NEW x, NEW y, NEW z, NEW o, NEW st, JobOver(x, y, o, st), Kept(y, z)
  PROVE  JobOver(x, z, o, st)
BY DEF JobOver, Kept, DataLike

LEMMA JobOverStatus ==
  ASSUME NEW k \in Kind, NEW x, NEW y \in WorkflowOf(k), NEW z \in WorkflowOf(k), NEW o, NEW st,
         JobOver(x, y, o, st),
         z.status \in { x.status, "completed", "cancelled" }, z.cancel = y.cancel,
         z.claims = y.claims, z.bind = y.bind, z.data = y.data, z.job = y.job
  PROVE  JobOver(x, z, o, st)
<1>1. z.kind = y.kind BY WorkflowFields
<1> QED BY <1>1 DEF JobOver, DataLike

LEMMA SucceedEnds ==
  ASSUME NEW d \in Database, NEW c, c.w \in Workflow, d.wf[c.w].kind # "none",
         c.op \in OperationsOf(d.wf[c.w].kind), NEW ph \in Phase,
         NEW st \in { "active", "completed" }, d.wf[c.w].status = "active"
  PROVE  LET e == Succeed(d, c, ph, st) IN
         Ending(d, e, c.w, c.op) /\ e.wf[c.w].status = st
<1> DEFINE w == c.w
           o == c.op
           x == d.wf[w]
           d1 == Update(d, c, ph)
           d2 == EndJob(d1, w, o, "succeeded")
           d3 == [ d2 EXCEPT !.wf[w].status = st ]
           y == [ d2.wf[w] EXCEPT !.status = st ]
           d4 == Changed(d3, w, o, "succeeded")
<1>1. x.kind \in Kind /\ x \in WorkflowOf(x.kind) BY DatabaseFields, RecordKind
<1>2. /\ d1 \in Database /\ d1.wf[w].kind = x.kind /\ d1.wf[w].status = x.status
      /\ d1.wf[w].cancel = x.cancel /\ d1.wf[w].claims = x.claims
      /\ d1.wf[w].bind = x.bind /\ d1.wf[w].job = x.job /\ DataLike(x, d1.wf[w])
      /\ \A v \in Workflow \ {w} : Kept(d.wf[v], d1.wf[v])
  BY UpdateMoves
<1> HIDE DEF d1
<1>3. /\ d2 \in Database /\ JobOver(x, d2.wf[w], o, "succeeded")
      /\ d2.wf[w].kind = x.kind /\ d2.wf[w].status = x.status
      /\ \A v \in Workflow \ {w} : Kept(d.wf[v], d2.wf[v])
  BY <1>1, <1>2, EndJobOver
<1> HIDE DEF d2
<1>4. d2.wf[w] \in WorkflowOf(x.kind) BY <1>1, <1>3, DatabaseFields, RecordKind
<1>5. y \in WorkflowOf(x.kind) BY <1>1, <1>4, PutStatus
<1>6. JobOver(x, y, o, "succeeded") /\ y.status = st /\ y.kind = x.kind
  <2>1. /\ y.status = st /\ y.cancel = d2.wf[w].cancel /\ y.claims = d2.wf[w].claims
        /\ y.bind = d2.wf[w].bind /\ y.data = d2.wf[w].data /\ y.job = d2.wf[w].job
        /\ y.kind = x.kind
    BY <1>3, <1>4 DEF WorkflowOf
  <2> HIDE DEF y
  <2> QED BY <1>1, <1>3, <1>4, <1>5, <2>1, JobOverStatus
<1>7. Rewrites(d2, d3, w, y)
  <2>1. d3 = [ d2 EXCEPT !.wf[w] = y ] OBVIOUS
  <2> QED BY <2>1, <1>1, <1>3, <1>5, PutWorkflow, WorkflowIsRecord
<1> HIDE DEF y, d3
<1>8. d3 \in Database /\ d3.wf[w] = y /\ \A v \in Workflow \ {w} : Kept(d.wf[v], d3.wf[v])
  BY <1>3, <1>7 DEF Rewrites
<1>9. Remarks(d3, d4) BY <1>1, <1>6, <1>8, ChangedRemarks, NoneIsNoKind
<1> HIDE DEF d4
<1>10. /\ d4 \in Database /\ JobOver(x, d4.wf[w], o, "succeeded") /\ d4.wf[w].status = st
       /\ \A v \in Workflow \ {w} : Kept(d.wf[v], d4.wf[v])
  BY <1>6, <1>8, <1>9, JobOverKept, KeptTransitive DEF Remarks, Kept
<1>11. Succeed(d, c, ph, st) = Over(Release(d4, w, o), w)
  BY DEF Succeed, d1, d2, d3, d4
<1> QED BY <1>10, <1>11, ReleasedIsEnded

LEMMA FailEnds ==
  ASSUME NEW d \in Database, NEW c, c.w \in Workflow, d.wf[c.w].kind # "none",
         c.op \in OperationsOf(d.wf[c.w].kind)
  PROVE  LET e == Fail(d, c) IN
         Ending(d, e, c.w, c.op) /\ e.wf[c.w].status = d.wf[c.w].status
<1> DEFINE w == c.w
           o == c.op
           x == d.wf[w]
           ph == Def(d, w, o).failure
           d1 == EndJob(d, w, o, "failed")
           d2 == SetPhase(d1, w, o, ph)
           y == IF Def(d1, w, o).affects THEN [ d1.wf[w] EXCEPT !.phase = ph ] ELSE d1.wf[w]
           d3 == Changed(d2, w, o, "failed")
<1>1. x.kind \in Kind /\ x \in WorkflowOf(x.kind) BY DatabaseFields, RecordKind
<1>2. ph \in Phase BY <1>1, PhasesOfOperations DEF Def
<1>3. /\ d1 \in Database /\ JobOver(x, d1.wf[w], o, "failed")
      /\ d1.wf[w].kind = x.kind /\ d1.wf[w].status = x.status
      /\ \A v \in Workflow \ {w} : Kept(d.wf[v], d1.wf[v])
  BY <1>1, EndJobOver, KeptReflexive DEF Kept
<1> HIDE DEF d1, ph
<1>4. d1.wf[w] \in WorkflowOf(x.kind) BY <1>1, <1>3, DatabaseFields, RecordKind
<1>5. y \in WorkflowOf(x.kind) /\ Rewrites(d1, d2, w, y)
  BY <1>1, <1>2, <1>3, SetPhaseMoves, NoneIsNoKind
<1>6. JobOver(x, y, o, "failed") /\ y.status = x.status /\ y.kind = x.kind
  <2>1. /\ y.status = x.status /\ y.cancel = d1.wf[w].cancel /\ y.claims = d1.wf[w].claims
        /\ y.bind = d1.wf[w].bind /\ y.data = d1.wf[w].data /\ y.job = d1.wf[w].job
        /\ y.kind = x.kind
    BY <1>3, <1>4 DEF WorkflowOf
  <2> HIDE DEF y
  <2> QED BY <1>1, <1>3, <1>4, <1>5, <2>1, JobOverStatus
<1> HIDE DEF y, d2
<1>7. d2 \in Database /\ d2.wf[w] = y /\ \A v \in Workflow \ {w} : Kept(d.wf[v], d2.wf[v])
  BY <1>3, <1>5 DEF Rewrites
<1>8. Remarks(d2, d3) BY <1>1, <1>6, <1>7, ChangedRemarks, NoneIsNoKind
<1> HIDE DEF d3
<1>9. /\ d3 \in Database /\ JobOver(x, d3.wf[w], o, "failed") /\ d3.wf[w].status = x.status
      /\ \A v \in Workflow \ {w} : Kept(d.wf[v], d3.wf[v])
  BY <1>6, <1>7, <1>8, JobOverKept, KeptTransitive DEF Remarks, Kept
<1>10. Fail(d, c) = Release(d3, w, o)
  BY DEF Fail, d1, d2, d3, ph
<1> QED BY <1>9, <1>10, ReleasedIsEnded

LEMMA CancelCompleteEnds ==
  ASSUME NEW d \in Database, NEW c, c.w \in Workflow, d.wf[c.w].kind # "none",
         c.op \in OperationsOf(d.wf[c.w].kind)
  PROVE  LET e == CancelComplete(d, c) IN
         Ending(d, e, c.w, c.op) /\ e.wf[c.w].status = "cancelled"
<1> DEFINE w == c.w
           o == c.op
           x == d.wf[w]
           st == IF Def(d, w, o).cancellation THEN "succeeded" ELSE "cancelled"
           d1 == EndJob(d, w, o, st)
           d2 == EndWorkflow(d1, w, "cancelled", "cancelled")
           y == [ d1.wf[w] EXCEPT !.status = "cancelled", !.phase = "cancelled" ]
           d3 == Changed(d2, w, o, "cancelled")
<1>1. x.kind \in Kind /\ x \in WorkflowOf(x.kind) BY DatabaseFields, RecordKind
<1>2. st \in { "succeeded", "failed", "abandoned", "cancelled" } OBVIOUS
<1> HIDE DEF st
<1>3. /\ d1 \in Database /\ JobOver(x, d1.wf[w], o, st)
      /\ d1.wf[w].kind = x.kind /\ d1.wf[w].status = x.status
      /\ \A v \in Workflow \ {w} : Kept(d.wf[v], d1.wf[v])
  <2>1. DataLike(x, x) /\ \A v \in Workflow \ {w} : Kept(d.wf[v], d.wf[v])
    BY KeptReflexive DEF Kept
  <2> HIDE DEF d1
  <2> QED BY <1>1, <1>2, <2>1, EndJobOver DEF d1
<1> HIDE DEF d1
<1>4. d1.wf[w] \in WorkflowOf(x.kind) BY <1>1, <1>3, DatabaseFields, RecordKind
<1>5. y \in WorkflowOf(x.kind) /\ Rewrites(d1, d2, w, y)
  BY <1>1, <1>3, EndWorkflowMoves, NoneIsNoKind, PhaseNames
<1>6. JobOver(x, y, o, st) /\ y.status = "cancelled" /\ y.kind = x.kind
  <2>1. /\ y.status = "cancelled" /\ y.cancel = d1.wf[w].cancel /\ y.claims = d1.wf[w].claims
        /\ y.bind = d1.wf[w].bind /\ y.data = d1.wf[w].data /\ y.job = d1.wf[w].job
        /\ y.kind = x.kind
    BY <1>3, <1>4 DEF WorkflowOf
  <2> HIDE DEF y
  <2> QED BY <1>1, <1>3, <1>4, <1>5, <2>1, JobOverStatus
<1> HIDE DEF y, d2
<1>7. d2 \in Database /\ d2.wf[w] = y /\ \A v \in Workflow \ {w} : Kept(d.wf[v], d2.wf[v])
  BY <1>3, <1>5 DEF Rewrites
<1>8. Remarks(d2, d3) BY <1>1, <1>6, <1>7, ChangedRemarks, NoneIsNoKind
<1> HIDE DEF d3
<1>9. /\ d3 \in Database /\ JobOver(x, d3.wf[w], o, st) /\ d3.wf[w].status = "cancelled"
      /\ \A v \in Workflow \ {w} : Kept(d.wf[v], d3.wf[v])
  BY <1>6, <1>7, <1>8, JobOverKept, KeptTransitive DEF Remarks, Kept
<1>10. CancelComplete(d, c) = Over(Release(d3, w, o), w)
  BY DEF CancelComplete, d1, d2, d3, st
<1> QED BY <1>2, <1>9, <1>10, ReleasedIsEnded

----------------------------------------------------------------------------
\* What one step makes of a workflow.

DataMoves(x, y) ==
  x.status = "active" /\ y.status = "active" =>
    /\ x.kind = "lanraragi_metadata" =>
         /\ (y.data.done \ x.data.done) \cap x.data.stale = {}
         /\ \A r \in y.data.ready : r \in x.data.ready \/ ArchiveKey(r[2]) \in WorkKeys(y)
    /\ x.kind = "full_collect" =>
         y.data.cursor = x.data.cursor \/ x.data.intent = "run"

Uncancellable == { "manual_torrent", "full_collect" }

StatusMoves(x, y) ==
  /\ x.status = "active" /\ x.cancel /\ y.status = "completed" => x.kind \in Uncancellable
  /\ y.cancel => x.cancel \/ x.kind \notin Uncancellable

\* It goes on, with what it has claimed and perhaps more.
CalmOn(x, y) ==
  /\ y.kind = x.kind /\ y.bind = x.bind /\ y.status = x.status
  /\ AllKeys(x) \subseteq AllKeys(y) /\ WorkKeys(x) \subseteq WorkKeys(y)
  /\ \A c \in y.claims : c \in x.claims \/ (c.op = ByWorkflow /\ x.status = "active")
  /\ \A o \in OperationsOf(x.kind) :
       JobSame(x.job[o], y.job[o]) \/ JobIdles(x.job[o], y.job[o])
  /\ y.cancel => x.cancel \/ x.kind \notin Uncancellable
  /\ DataMoves(x, y)

\* It is closed while no job of it runs.
Closed(x, y) ==
  /\ y.kind = x.kind /\ y.bind = x.bind
  /\ x.status = "active" /\ y.status \in { "completed", "cancelled" }
  /\ y.claims = {}
  /\ y.cancel => x.cancel \/ x.kind \notin Uncancellable
  /\ y.status = "completed" => x.kind \in Uncancellable
  /\ \A o \in OperationsOf(x.kind) :
       x.job[o].status # "running" /\ y.job[o].status # "running"

\* It is created, with the claims on what it is about.
Begun(x, y) ==
  /\ x = NoWorkflow /\ y.kind \in Kind /\ y.status = "active" /\ y.cancel = FALSE
  /\ \A c \in y.claims : c.op = ByWorkflow
  /\ { MangaKey(m) : m \in Bound(y) } \subseteq WorkKeys(y)
  /\ y.kind = "lanraragi_metadata" => y.data.ready = {}
  /\ \A o \in OperationsOf(y.kind) : y.job[o].status # "running"

\* A job of it comes to its end.
Finished(x, y, o) ==
  /\ x.job[o].status = "running" /\ JobEnds(x, y, o)
  /\ DataMoves(x, y) /\ StatusMoves(x, y)

\* What a workflow claims newly nobody else has claimed.
Fresh(d, e, w) ==
  \A c \in e.wf[w].claims :
    c \in d.wf[w].claims \/ \A v \in Workflow \ {w} : c.key \notin AllKeys(d.wf[v])

CalmIn(d, e, w) ==
  /\ e \in Database /\ CalmOn(d.wf[w], e.wf[w]) /\ Fresh(d, e, w)
  /\ \A v \in Workflow \ {w} : Kept(d.wf[v], e.wf[v])

LEMMA JobSameReflexive == ASSUME NEW j PROVE JobSame(j, j)
BY DEF JobSame

LEMMA LikeMovesData ==
  ASSUME NEW x, NEW y, DataLike(x, y) PROVE DataMoves(x, y)
BY DEF DataLike, DataMoves

LEMMA DataMovesLike ==
  ASSUME NEW k \in Kind, NEW x, NEW y, NEW z,
         DataMoves(x, y), DataLike(y, z), y.kind = x.kind,
         z.status = y.status, z.claims = y.claims
  PROVE  DataMoves(x, z)
BY DEF DataLike, DataMoves, WorkKeys

LEMMA KeptIsCalm ==
  ASSUME NEW x, NEW y, Kept(x, y) PROVE CalmOn(x, y)
BY LikeMovesData, JobSameReflexive DEF Kept, CalmOn, AllKeys, WorkKeys

LEMMA CalmKept ==
  ASSUME NEW x, NEW y, NEW z, CalmOn(x, y), Kept(y, z) PROVE CalmOn(x, z)
<1>1. WorkKeys(z) = WorkKeys(y) /\ AllKeys(z) = AllKeys(y) BY DEF Kept, WorkKeys, AllKeys
<1>2. DataMoves(x, z)
  BY DEF DataLike, DataMoves, WorkKeys, CalmOn, Kept
<1> QED BY <1>1, <1>2 DEF CalmOn, Kept

LEMMA CalmRemarks ==
  ASSUME NEW d, NEW e, NEW f, NEW w \in Workflow, CalmIn(d, e, w), Remarks(e, f)
  PROVE  CalmIn(d, f, w)
<1>1. \A v \in Workflow : e.wf[v].claims = f.wf[v].claims BY DEF Remarks, Kept
<1>2. Fresh(d, f, w) BY <1>1 DEF CalmIn, Fresh
<1> QED BY <1>2, CalmKept, KeptTransitive DEF CalmIn, Remarks

LEMMA RemarksAreCalm ==
  ASSUME NEW d, NEW e, NEW w \in Workflow, Remarks(d, e)
  PROVE  CalmIn(d, e, w)
<1>1. Fresh(d, e, w) BY DEF Remarks, Kept, Fresh
<1> QED BY <1>1, KeptIsCalm DEF CalmIn, Remarks

LEMMA CalmQueue ==
  ASSUME NEW d \in Database, NEW e, NEW w \in Workflow, CalmIn(d, e, w), d.wf[w].kind # "none",
         NEW o \in OperationsOf(d.wf[w].kind)
  PROVE  CalmIn(d, Queue(e, w, o), w)
<1> DEFINE x == d.wf[w]
           y == e.wf[w]
           j == [ NoJob EXCEPT !.status = "queued", !.no = y.job[o].no + 1 ]
           z == [ y EXCEPT !.job[o] = j ]
           f == Queue(e, w, o)
<1>1. x.kind \in Kind /\ x \in WorkflowOf(x.kind) BY DatabaseFields, RecordKind
<1>2. e \in Database /\ y.kind = x.kind /\ y \in WorkflowOf(x.kind)
  BY <1>1, NoneIsNoKind, DatabaseFields, RecordKind DEF CalmIn, CalmOn
<1>3. /\ j \in Job /\ z \in WorkflowOf(x.kind)
      /\ Rewrites(e, f, w, IF y.job[o].status \in { "queued", "running" } THEN y ELSE z)
  BY <1>1, <1>2, QueueMoves, NoneIsNoKind
<1>4. j.status = "queued" /\ j.no = y.job[o].no + 1 BY EndedJobFields
<1>5. x.job[o] \in Job /\ y.job[o] \in Job /\ y.job \in [OperationsOf(x.kind) -> Job]
  BY <1>1, <1>2, WorkflowFields
<1>6. x.job[o].no \in Nat /\ y.job[o].no \in Nat BY <1>5, JobFields
<1> HIDE DEF j
<1>7. /\ z.kind = y.kind /\ z.bind = y.bind /\ z.status = y.status /\ z.claims = y.claims
      /\ z.cancel = y.cancel /\ z.data = y.data /\ z.job = [ y.job EXCEPT ![o] = j ]
  BY <1>2 DEF WorkflowOf
<1> HIDE DEF z, f
<1>8. CASE y.job[o].status \in { "queued", "running" }
  <2>1. f.wf[w] = y /\ f \in Database /\ \A v \in Workflow \ {w} : f.wf[v] = e.wf[v]
    BY <1>3, <1>8 DEF Rewrites
  <2>2. Fresh(d, f, w) BY <2>1 DEF CalmIn, Fresh
  <2> QED BY <2>1, <2>2 DEF CalmIn, f
<1>9. CASE y.job[o].status \notin { "queued", "running" }
  <2>1. z.job[o] = j /\ \A q \in OperationsOf(x.kind) \ {o} : z.job[q] = y.job[q]
    BY <1>5, <1>7
  <2>2. JobIdles(x.job[o], j)
    BY <1>4, <1>5, <1>6, <1>9 DEF CalmIn, CalmOn, JobSame, JobIdles
  <2>3. \A q \in OperationsOf(x.kind) :
          JobSame(x.job[q], z.job[q]) \/ JobIdles(x.job[q], z.job[q])
    BY <2>1, <2>2 DEF CalmIn, CalmOn
  <2>4. WorkKeys(z) = WorkKeys(y) /\ AllKeys(z) = AllKeys(y)
    BY <1>7 DEF WorkKeys, AllKeys
  <2>5. DataMoves(x, z) BY <1>7, <2>4 DEF CalmIn, CalmOn, DataMoves
  <2>6. CalmOn(x, z) BY <1>7, <2>3, <2>4, <2>5 DEF CalmIn, CalmOn
  <2>7. Fresh(d, f, w) BY <1>3, <1>7, <1>9 DEF CalmIn, Rewrites, Fresh
  <2> QED BY <1>3, <1>9, <2>6, <2>7 DEF CalmIn, Rewrites, f
<1> QED BY <1>8, <1>9

LEMMA CalmCancelQueued ==
  ASSUME NEW d \in Database, NEW w \in Workflow, d.wf[w].kind # "none"
  PROVE  CalmIn(d, CancelQueued(d, w), w)
<1> DEFINE x == d.wf[w]
           jobs == [o \in DOMAIN x.job |-> IF x.job[o].status = "queued"
                      THEN [ x.job[o] EXCEPT !.status = "cancelled" ] ELSE x.job[o]]
           y == [ x EXCEPT !.job = jobs ]
<1>1. x.kind \in Kind /\ x \in WorkflowOf(x.kind) BY DatabaseFields, RecordKind
<1>2. y \in WorkflowOf(x.kind) /\ Rewrites(d, CancelQueued(d, w), w, y)
  BY <1>1, CancelQueuedMoves
<1>3. \A o \in OperationsOf(x.kind) : JobSame(x.job[o], jobs[o]) \/ JobIdles(x.job[o], jobs[o])
  <2> SUFFICES ASSUME NEW o \in OperationsOf(x.kind)
               PROVE  JobSame(x.job[o], jobs[o]) \/ JobIdles(x.job[o], jobs[o])
    OBVIOUS
  <2>1. x.job[o] \in Job /\ DOMAIN x.job = OperationsOf(x.kind) BY <1>1, WorkflowFields
  <2>2. CASE x.job[o].status = "queued"
    <3>1. jobs[o].status = "cancelled" /\ jobs[o].no = x.job[o].no
      BY <2>1, <2>2 DEF Job
    <3>2. x.job[o].no \in Nat BY <2>1, JobFields
    <3> QED BY <2>2, <3>1, <3>2 DEF JobIdles
  <2>3. CASE x.job[o].status # "queued"
    BY <2>1, <2>3, JobSameReflexive
  <2> QED BY <2>2, <2>3
<1> HIDE DEF jobs
<1>4. /\ y.kind = x.kind /\ y.bind = x.bind /\ y.status = x.status /\ y.claims = x.claims
      /\ y.cancel = x.cancel /\ y.data = x.data /\ y.job = jobs
  BY <1>1 DEF WorkflowOf
<1> HIDE DEF y
<1>5. DataMoves(x, y) BY <1>4 DEF DataMoves
<1>6. CalmOn(x, y) BY <1>3, <1>4, <1>5 DEF CalmOn, AllKeys, WorkKeys
<1>7. Fresh(d, CancelQueued(d, w), w) BY <1>2, <1>4 DEF Rewrites, Fresh
<1> QED BY <1>2, <1>6, <1>7, KeptReflexive DEF CalmIn, Rewrites

LEMMA CalmFields ==
  ASSUME NEW d \in Database, NEW e, NEW w \in Workflow, CalmIn(d, e, w), d.wf[w].kind # "none"
  PROVE  /\ d.wf[w].kind \in Kind /\ d.wf[w] \in WorkflowOf(d.wf[w].kind)
         /\ e \in Database /\ e.wf[w].kind = d.wf[w].kind
         /\ e.wf[w] \in WorkflowOf(d.wf[w].kind) /\ e.wf[w].status = d.wf[w].status
         /\ e.wf[w].bind = d.wf[w].bind
<1>1. e \in Database /\ e.wf[w].kind = d.wf[w].kind /\ e.wf[w].status = d.wf[w].status
      /\ e.wf[w].bind = d.wf[w].bind
  BY DEF CalmIn, CalmOn
<1>2. d.wf[w] \in Record /\ e.wf[w] \in Record BY <1>1, DatabaseFields
<1> QED BY <1>1, <1>2, RecordKind

\* The record is written once more.
LEMMA CalmPut ==
  ASSUME NEW d \in Database, NEW e, NEW w \in Workflow, CalmIn(d, e, w), d.wf[w].kind # "none",
         NEW y \in WorkflowOf(d.wf[w].kind), y.bind = d.wf[w].bind,
         y.status = d.wf[w].status, y.claims = e.wf[w].claims,
         \A o \in OperationsOf(d.wf[w].kind) : JobSame(e.wf[w].job[o], y.job[o]),
         y.cancel => e.wf[w].cancel \/ d.wf[w].kind \notin Uncancellable,
         DataMoves(d.wf[w], y)
  PROVE  LET f == [ e EXCEPT !.wf[w] = y ] IN
         /\ CalmIn(d, f, w) /\ f \in Database /\ f.row = e.row /\ f.wf[w] = y
<1> DEFINE x == d.wf[w]
           f == [ e EXCEPT !.wf[w] = y ]
<1>1. x.kind \in Kind /\ e \in Database BY CalmFields
<1>2. y \in Record /\ y.kind = x.kind BY <1>1, WorkflowIsRecord, WorkflowFields
<1>3. Rewrites(e, f, w, y) BY <1>1, <1>2, PutWorkflow
<1> HIDE DEF f
<1>4. WorkKeys(y) = WorkKeys(e.wf[w]) /\ AllKeys(y) = AllKeys(e.wf[w])
  BY DEF WorkKeys, AllKeys
<1>5. \A o \in OperationsOf(x.kind) : JobSame(x.job[o], y.job[o]) \/ JobIdles(x.job[o], y.job[o])
  BY DEF CalmIn, CalmOn, JobSame, JobIdles
<1>6. CalmOn(x, y) BY <1>2, <1>4, <1>5 DEF CalmIn, CalmOn
<1>7. Fresh(d, f, w) BY <1>3 DEF Rewrites, CalmIn, Fresh
<1> QED BY <1>3, <1>6, <1>7 DEF CalmIn, Rewrites, f

LEMMA CalmRow ==
  ASSUME NEW d \in Database, NEW e, NEW w \in Workflow, CalmIn(d, e, w),
         NEW m \in Manga, NEW r \in Row
  PROVE  CalmIn(d, [ e EXCEPT !.row[m] = r ], w)
<1>1. e \in Database BY DEF CalmIn
<1> QED BY <1>1, PutRowRemarks, CalmRemarks

LEMMA CalmRefl ==
  ASSUME NEW d \in Database, NEW w \in Workflow PROVE CalmIn(d, d, w)
<1>1. Remarks(d, d) BY RemarksReflexive
<1> QED BY <1>1, RemarksAreCalm

LEMMA CalmAcquire ==
  ASSUME NEW d \in Database, NEW e, NEW w \in Workflow, CalmIn(d, e, w), d.wf[w].kind # "none",
         d.wf[w].status = "active", NEW keys \in SUBSET Key, NEW no \in Nat, Free(e, w, keys)
  PROVE  LET f == Acquire(e, w, keys, ByWorkflow, no) IN
         /\ CalmIn(d, f, w) /\ f.row = e.row /\ keys \subseteq WorkKeys(f.wf[w])
         /\ f.wf[w].data = e.wf[w].data /\ f.wf[w].job = e.wf[w].job
<1> DEFINE x == d.wf[w]
           y == e.wf[w]
           cs == { c \in y.claims : c.key \notin keys \/ c.key \in WorkKeys(y) }
                    \cup { [ key |-> key, op |-> ByWorkflow, no |-> no ]
                             : key \in keys \ WorkKeys(y) }
           z == [ y EXCEPT !.claims = cs ]
           f == Acquire(e, w, keys, ByWorkflow, no)
<1>1. x.kind \in Kind /\ e \in Database /\ y.kind = x.kind /\ y \in WorkflowOf(x.kind)
  BY CalmFields
<1>2. z \in WorkflowOf(x.kind) /\ Rewrites(e, f, w, z) BY <1>1, NoneIsNoKind, AcquireMoves
<1>3. /\ z.kind = y.kind /\ z.bind = y.bind /\ z.status = y.status /\ z.claims = cs
      /\ z.cancel = y.cancel /\ z.data = y.data /\ z.job = y.job
  BY <1>1 DEF WorkflowOf
<1> HIDE DEF z, f
<1>4. WorkKeys(y) \subseteq WorkKeys(z)
  <2> SUFFICES ASSUME NEW c \in y.claims, c.op = ByWorkflow PROVE c.key \in WorkKeys(z)
    BY DEF WorkKeys
  <2>1. c.key \in WorkKeys(y) BY DEF WorkKeys
  <2>2. c \in z.claims BY <1>3, <2>1
  <2> QED BY <2>2 DEF WorkKeys
<1>5. keys \subseteq WorkKeys(z)
  <2> SUFFICES ASSUME NEW key \in keys, key \notin WorkKeys(y) PROVE key \in WorkKeys(z)
    BY <1>4
  <2>1. [ key |-> key, op |-> ByWorkflow, no |-> no ] \in z.claims BY <1>3
  <2> QED BY <2>1 DEF WorkKeys
<1>6. AllKeys(y) \subseteq AllKeys(z)
  <2> SUFFICES ASSUME NEW c \in y.claims PROVE c.key \in AllKeys(z)
    BY DEF AllKeys
  <2>1. CASE c.key \in keys BY <1>5, <2>1 DEF WorkKeys, AllKeys
  <2>2. CASE c.key \notin keys
    <3>1. c \in z.claims BY <1>3, <2>2
    <3> QED BY <3>1 DEF AllKeys
  <2> QED BY <2>1, <2>2
<1>7. \A c \in z.claims : c \in y.claims \/ (c.op = ByWorkflow /\ c.key \in keys)
  BY <1>3
<1>8. DataMoves(x, z) BY <1>3, <1>4 DEF DataMoves, CalmIn, CalmOn
<1>9. CalmOn(x, z) BY <1>3, <1>4, <1>6, <1>7, <1>8 DEF CalmIn, CalmOn
<1>10. \A v \in Workflow \ {w} : AllKeys(d.wf[v]) \cap keys = {}
  <2>1. \A v \in Workflow \ {w} : d.wf[v].claims = e.wf[v].claims BY DEF CalmIn, Kept
  <2> QED BY <2>1 DEF Free, Keys, AllKeys
<1>11. Fresh(d, f, w) BY <1>2, <1>7, <1>10 DEF Rewrites, CalmIn, Fresh
<1> QED BY <1>2, <1>3, <1>5, <1>9, <1>11 DEF CalmIn, Rewrites, f

LEMMA CalmUpdate ==
  ASSUME NEW d \in Database, NEW e, NEW c, c.w \in Workflow, CalmIn(d, e, c.w),
         d.wf[c.w].kind # "none", c.op \in OperationsOf(d.wf[c.w].kind), NEW ph \in Phase
  PROVE  CalmIn(d, Update(e, c, ph), c.w)
<1> DEFINE x == d.wf[c.w]
           y == e.wf[c.w]
           f == Update(e, c, ph)
           z == f.wf[c.w]
<1>1. x.kind \in Kind /\ e \in Database /\ y.kind = x.kind BY CalmFields
<1>2. /\ f \in Database /\ \A v \in Workflow \ {c.w} : Kept(e.wf[v], f.wf[v])
      /\ z.kind = y.kind /\ z.status = y.status /\ z.cancel = y.cancel
      /\ z.claims = y.claims /\ z.bind = y.bind /\ z.job = y.job /\ DataLike(y, z)
  BY <1>1, UpdateMoves
<1> HIDE DEF f
<1>3. DataMoves(x, z) BY <1>1, <1>2, DataMovesLike DEF CalmIn, CalmOn
<1>4. WorkKeys(z) = WorkKeys(y) /\ AllKeys(z) = AllKeys(y) BY <1>2 DEF WorkKeys, AllKeys
<1>5. CalmOn(x, z) BY <1>1, <1>2, <1>3, <1>4 DEF CalmIn, CalmOn
<1>6. Fresh(d, f, c.w) BY <1>2 DEF CalmIn, Fresh
<1>7. \A v \in Workflow \ {c.w} : Kept(d.wf[v], f.wf[v])
  BY <1>2, KeptTransitive DEF CalmIn
<1> QED BY <1>2, <1>5, <1>6, <1>7 DEF CalmIn, f

FinishIn(d, e, w, o) ==
  /\ e \in Database /\ Finished(d.wf[w], e.wf[w], o)
  /\ \A v \in Workflow \ {w} : Kept(d.wf[v], e.wf[v])

\* The payload is written and then the job ends.
LEMMA CalmThenEnds ==
  ASSUME NEW d \in Database, NEW e, NEW f, NEW w \in Workflow, CalmIn(d, e, w),
         d.wf[w].kind # "none", NEW o \in OperationsOf(d.wf[w].kind),
         e.wf[w].job = d.wf[w].job, e.wf[w].claims = d.wf[w].claims,
         e.wf[w].cancel = d.wf[w].cancel, d.wf[w].job[o].status = "running",
         Ending(e, f, w, o),
         f.wf[w].status = "completed" /\ d.wf[w].status = "active" =>
           ~d.wf[w].cancel \/ d.wf[w].kind \in Uncancellable
  PROVE  FinishIn(d, f, w, o)
<1> DEFINE x == d.wf[w]
           y == e.wf[w]
           z == f.wf[w]
<1>1. /\ e \in Database /\ y.kind = x.kind /\ y.bind = x.bind /\ y.status = x.status
  BY CalmFields
<1>2. WorkKeys(y) = WorkKeys(x) BY DEF WorkKeys
<1>3. JobEnds(x, z, o) BY <1>1, <1>2 DEF Ending, JobEnds
<1>4. DataMoves(x, z)
  <2>1. SUFFICES ASSUME x.status = "active", z.status = "active" PROVE DataMoves(x, z)
    BY DEF DataMoves
  <2>2. DataLike(y, z) /\ WorkKeys(y) \subseteq WorkKeys(z) BY <2>1 DEF Ending, JobEnds
  <2>3. DataMoves(x, y) BY DEF CalmIn, CalmOn
  <2> QED BY <1>1, <2>1, <2>2, <2>3 DEF DataMoves, DataLike
<1>5. StatusMoves(x, z) BY DEF Ending, StatusMoves
<1>6. \A v \in Workflow \ {w} : Kept(d.wf[v], f.wf[v])
  BY KeptTransitive DEF CalmIn, Ending
<1> QED BY <1>3, <1>4, <1>5, <1>6 DEF Finished, FinishIn, Ending

LEMMA EndsAtOnce ==
  ASSUME NEW d \in Database, NEW f, NEW w \in Workflow,
         d.wf[w].kind # "none", NEW o \in OperationsOf(d.wf[w].kind),
         d.wf[w].job[o].status = "running", Ending(d, f, w, o),
         f.wf[w].status = "completed" /\ d.wf[w].status = "active" =>
           ~d.wf[w].cancel \/ d.wf[w].kind \in Uncancellable
  PROVE  FinishIn(d, f, w, o)
BY CalmRefl, CalmThenEnds

\* The next job is queued with the end of the one before.
LEMMA FinishQueue ==
  ASSUME NEW d \in Database, NEW e, NEW w \in Workflow, d.wf[w].kind # "none",
         NEW o \in OperationsOf(d.wf[w].kind), FinishIn(d, e, w, o),
         e.wf[w].status = "active"
  PROVE  FinishIn(d, Queue(e, w, o), w, o)
<1> DEFINE x == d.wf[w]
           y == e.wf[w]
           j == [ NoJob EXCEPT !.status = "queued", !.no = y.job[o].no + 1 ]
           z == [ y EXCEPT !.job[o] = j ]
           f == Queue(e, w, o)
<1>1. x.kind \in Kind /\ x \in WorkflowOf(x.kind) BY DatabaseFields, RecordKind
<1>2. e \in Database /\ y.kind = x.kind /\ y \in WorkflowOf(x.kind)
  BY <1>1, NoneIsNoKind, DatabaseFields, RecordKind DEF FinishIn, Finished, JobEnds
<1>3. /\ j \in Job /\ z \in WorkflowOf(x.kind)
      /\ Rewrites(e, f, w, IF y.job[o].status \in { "queued", "running" } THEN y ELSE z)
  BY <1>1, <1>2, QueueMoves, NoneIsNoKind
<1>4. j.status = "queued" /\ j.no = y.job[o].no + 1 BY EndedJobFields
<1>5. x.job[o] \in Job /\ y.job[o] \in Job /\ y.job \in [OperationsOf(x.kind) -> Job]
  BY <1>1, <1>2, WorkflowFields
<1>6. x.job[o].no \in Nat /\ y.job[o].no \in Nat BY <1>5, JobFields
<1> HIDE DEF j
<1>7. /\ z.kind = y.kind /\ z.bind = y.bind /\ z.status = y.status /\ z.claims = y.claims
      /\ z.cancel = y.cancel /\ z.data = y.data /\ z.job = [ y.job EXCEPT ![o] = j ]
  BY <1>2 DEF WorkflowOf
<1> HIDE DEF z, f
<1>8. CASE y.job[o].status \in { "queued", "running" }
  BY <1>3, <1>8 DEF FinishIn, Rewrites, f
<1>9. CASE y.job[o].status \notin { "queued", "running" }
  <2>1. z.job[o] = j /\ \A q \in OperationsOf(x.kind) \ {o} : z.job[q] = y.job[q]
    BY <1>5, <1>7
  <2>2. x.job[o].no <= y.job[o].no BY DEF FinishIn, Finished, JobEnds
  <2>3. j.no \in Nat /\ x.job[o].no <= j.no /\ x.job[o].no < j.no BY <1>4, <1>6, <2>2
  <2>4. WorkKeys(z) = WorkKeys(y) BY <1>7 DEF WorkKeys
  <2>5. JobEnds(x, z, o)
    <3>1. \A q \in OperationsOf(x.kind) \ {o} :
            z.job[q] = x.job[q] \/ (z.status # "active" /\ z.job[q] = NoJob)
      BY <1>7, <2>1 DEF FinishIn, Finished, JobEnds
    <3> HIDE DEF x, y
    <3>2. \A c \in z.claims : /\ c \in x.claims /\ ~(c.op = o /\ c.no = x.job[o].no)
                              /\ c.op = ByWorkflow => z.status = "active"
      BY <1>7 DEF FinishIn, Finished, JobEnds, x, y
    <3>3. /\ z.kind = x.kind /\ z.bind = x.bind
          /\ z.status = "active" => x.status = "active" /\ WorkKeys(x) \subseteq WorkKeys(z)
      BY <1>7, <2>4 DEF FinishIn, Finished, JobEnds, x, y
    <3> QED BY <1>4, <2>1, <2>3, <3>1, <3>2, <3>3 DEF JobEnds
  <2>6. DataMoves(x, z) BY <1>7, <2>4 DEF DataMoves, FinishIn, Finished
  <2>7. StatusMoves(x, z) BY <1>7 DEF StatusMoves, FinishIn, Finished
  <2> QED BY <1>3, <1>9, <2>5, <2>6, <2>7 DEF FinishIn, Finished, Rewrites, f
<1> QED BY <1>8, <1>9

CloseIn(d, e, w) ==
  /\ e \in Database /\ Closed(d.wf[w], e.wf[w])
  /\ \A v \in Workflow \ {w} : Kept(d.wf[v], e.wf[v])

\* A workflow without a running job is ended and gives back all it has claimed.
LEMMA Closes ==
  ASSUME NEW d \in Database, NEW e, NEW w \in Workflow, CalmIn(d, e, w), d.wf[w].kind # "none",
         d.wf[w].status = "active",
         \A o \in OperationsOf(d.wf[w].kind) : d.wf[w].job[o].status # "running",
         \A o \in OperationsOf(d.wf[w].kind) : e.wf[w].job[o].status # "running",
         NEW st \in { "completed", "cancelled" }, NEW ph \in Phase,
         st = "completed" => d.wf[w].kind \in Uncancellable
  PROVE  LET f == ReleaseAll(EndWorkflow(e, w, st, ph), w) IN
         CloseIn(d, f, w) /\ CloseIn(d, Over(f, w), w) /\ f.row = e.row
<1> DEFINE k == d.wf[w].kind
           y == e.wf[w]
           e1 == EndWorkflow(e, w, st, ph)
           y1 == [ y EXCEPT !.status = st, !.phase = ph ]
           f == ReleaseAll(e1, w)
           y2 == [ y1 EXCEPT !.claims = {} ]
<1>1. k \in Kind /\ e \in Database /\ y.kind = k /\ y \in WorkflowOf(k) /\ y.bind = d.wf[w].bind
  BY CalmFields
<1>2. y1 \in WorkflowOf(k) /\ Rewrites(e, e1, w, y1) BY <1>1, NoneIsNoKind, EndWorkflowMoves
<1> HIDE DEF e1
<1>3. y1.kind = k /\ y1.status = st /\ y1.bind = y.bind /\ y1.cancel = y.cancel /\ y1.job = y.job
  BY <1>1 DEF WorkflowOf
<1>4. e1 \in Database /\ e1.wf[w] = y1 BY <1>2 DEF Rewrites
<1> HIDE DEF y1
<1>5. y2 \in WorkflowOf(k) /\ Rewrites(e1, f, w, y2)
  BY <1>1, <1>3, <1>4, NoneIsNoKind, ReleaseAllMoves
<1>6. y2.kind = k /\ y2.status = st /\ y2.bind = y.bind /\ y2.cancel = y.cancel /\ y2.job = y.job
      /\ y2.claims = {}
  BY <1>2, <1>3 DEF WorkflowOf
<1>7. f \in Database /\ f.wf[w] = y2 /\ \A v \in Workflow \ {w} : f.wf[v] = e.wf[v]
  BY <1>2, <1>5 DEF Rewrites
<1> HIDE DEF f, y2
<1>8. y.cancel => d.wf[w].cancel \/ k \notin Uncancellable BY DEF CalmIn, CalmOn
<1>9. CloseIn(d, f, w) BY <1>1, <1>6, <1>7, <1>8 DEF CloseIn, Closed, CalmIn
<1>10. CloseIn(d, Over(f, w), w)
  <2> DEFINE z == Dropped(y2)
             g == Over(f, w)
  <2>1. Rewrites(f, g, w, z) BY <1>1, <1>6, <1>7, NoneIsNoKind, OverMoves
  <2>2. /\ z.kind = k /\ z.status = st /\ z.claims = {} /\ z.bind = y.bind
        /\ z.cancel => y.cancel
    BY <1>1, <1>5, <1>6, DroppedFields
  <2>3. \A o \in OperationsOf(k) : z.job[o] = y.job[o] \/ z.job[o] = NoJob
    BY <1>1, <1>5, <1>6, DroppedFields
  <2>4. NoJob.status # "running" BY DEF NoJob
  <2> HIDE DEF z, g
  <2> QED BY <1>1, <1>7, <1>8, <2>1, <2>2, <2>3, <2>4 DEF CloseIn, Closed, CalmIn, Rewrites, g
<1>11. f.row = e.row BY <1>2, <1>5 DEF Rewrites, f
<1> QED BY <1>9, <1>10, <1>11 DEF f, e1

LEMMA CloseRemarks ==
  ASSUME NEW d, NEW e, NEW f, NEW w \in Workflow, CloseIn(d, e, w), Remarks(e, f)
  PROVE  CloseIn(d, f, w)
BY KeptTransitive DEF CloseIn, Closed, Remarks, Kept

LEMMA OverCloses ==
  ASSUME NEW d \in Database, NEW e, NEW w \in Workflow, CloseIn(d, e, w), d.wf[w].kind # "none"
  PROVE  CloseIn(d, Over(e, w), w)
<1> DEFINE k == d.wf[w].kind
           y == e.wf[w]
           z == Dropped(y)
           g == Over(e, w)
<1>1. k \in Kind BY DatabaseFields, RecordKind
<1>2. e \in Database /\ y.kind = k BY DEF CloseIn, Closed
<1>3. y \in WorkflowOf(k) BY <1>1, <1>2, NoneIsNoKind, DatabaseFields, RecordKind
<1>4. Rewrites(e, g, w, z) BY <1>1, <1>2, NoneIsNoKind, OverMoves
<1>5. /\ z.kind = k /\ z.status = y.status /\ z.claims = y.claims /\ z.bind = y.bind
      /\ z.cancel => y.cancel
  BY <1>1, <1>3, DroppedFields
<1>6. \A o \in OperationsOf(k) : z.job[o] = y.job[o] \/ z.job[o] = NoJob
  BY <1>1, <1>3, DroppedFields
<1>7. NoJob.status # "running" BY DEF NoJob
<1> HIDE DEF z, g
<1> QED BY <1>2, <1>4, <1>5, <1>6, <1>7 DEF CloseIn, Closed, Rewrites, g

BeginIn(d, e, w) ==
  /\ e \in Database /\ Begun(d.wf[w], e.wf[w]) /\ Fresh(d, e, w)
  /\ \A v \in Workflow \ {w} : Kept(d.wf[v], e.wf[v])

\* A workflow that has just been written, with nothing claimed yet.
Born(d, e, w, k) ==
  /\ e \in Database /\ d.wf[w] = NoWorkflow /\ e.wf[w] \in WorkflowOf(k)
  /\ e.wf[w].status = "active" /\ e.wf[w].cancel = FALSE /\ e.wf[w].claims = {}
  /\ e.wf[w].data = InitialData[k] /\ e.wf[w].job = [o \in OperationsOf(k) |-> NoJob]
  /\ \A v \in Workflow \ {w} : Kept(d.wf[v], e.wf[v])

LEMMA NoneReady ==
  ASSUME NEW k \in Kind, k = "lanraragi_metadata" PROVE InitialData[k].ready = {}
BY DEF InitialData

LEMMA BornBegins ==
  ASSUME NEW d \in Database, NEW e, NEW w \in Workflow, NEW k \in Kind, Born(d, e, w, k),
         Bound(e.wf[w]) = {}
  PROVE  BeginIn(d, e, w)
<1> DEFINE y == e.wf[w]
<1>1. y.kind = k BY WorkflowFields DEF Born
<1>2. \A o \in OperationsOf(k) : y.job[o].status # "running" BY DEF Born, NoJob
<1>3. k = "lanraragi_metadata" => y.data.ready = {} BY NoneReady DEF Born
<1>4. Begun(d.wf[w], y) BY <1>1, <1>2, <1>3 DEF Born, Begun
<1>5. Fresh(d, e, w) BY DEF Born, Fresh
<1> QED BY <1>4, <1>5 DEF Born, BeginIn

LEMMA BornAcquires ==
  ASSUME NEW d \in Database, NEW e, NEW w \in Workflow, NEW k \in Kind, Born(d, e, w, k),
         NEW keys \in SUBSET Key, NEW no \in Nat, Free(d, w, keys),
         { MangaKey(m) : m \in Bound(e.wf[w]) } \subseteq keys
  PROVE  LET f == Acquire(e, w, keys, ByWorkflow, no) IN
         BeginIn(d, f, w) /\ f.row = e.row /\ f.wf[w].kind = k
<1> DEFINE y == e.wf[w]
           cs == { c \in y.claims : c.key \notin keys \/ c.key \in WorkKeys(y) }
                    \cup { [ key |-> key, op |-> ByWorkflow, no |-> no ]
                             : key \in keys \ WorkKeys(y) }
           z == [ y EXCEPT !.claims = cs ]
           f == Acquire(e, w, keys, ByWorkflow, no)
<1>1. e \in Database /\ y \in WorkflowOf(k) /\ y.kind = k BY WorkflowFields DEF Born
<1>2. z \in WorkflowOf(k) /\ Rewrites(e, f, w, z)
  <2>1. e.wf[w].kind # "none" /\ ByWorkflow \in OpName \cup { ByWorkflow } 
    BY <1>1, NoneIsNoKind
  <2>2. z \in WorkflowOf(e.wf[w].kind) /\ Rewrites(e, f, w, z)
    BY <1>1, <2>1, AcquireMoves
  <2> QED BY <1>1, <2>2
<1>3. /\ z.kind = k /\ z.bind = y.bind /\ z.status = y.status /\ z.claims = cs
      /\ z.cancel = y.cancel /\ z.data = y.data /\ z.job = y.job
  BY <1>1 DEF WorkflowOf
<1>4. WorkKeys(y) = {} BY DEF Born, WorkKeys
<1> HIDE DEF z, f
<1>5. \A c \in z.claims : c.op = ByWorkflow /\ c.key \in keys BY <1>3, <1>4 DEF Born
<1>6. keys \subseteq WorkKeys(z)
  <2> SUFFICES ASSUME NEW key \in keys PROVE key \in WorkKeys(z)
    OBVIOUS
  <2>1. [ key |-> key, op |-> ByWorkflow, no |-> no ] \in z.claims BY <1>3, <1>4
  <2> QED BY <2>1 DEF WorkKeys
<1>7. \A o \in OperationsOf(k) : z.job[o].status # "running" BY <1>3 DEF Born, NoJob
<1>8. k = "lanraragi_metadata" => z.data.ready = {} BY <1>3, NoneReady DEF Born
<1>9. Begun(d.wf[w], z) BY <1>3, <1>5, <1>6, <1>7, <1>8 DEF Born, Begun, Bound
<1>10. Fresh(d, f, w) BY <1>2, <1>5 DEF Rewrites, Fresh, Free, Keys, AllKeys
<1> QED BY <1>2, <1>3, <1>9, <1>10 DEF BeginIn, Born, Rewrites, f

LEMMA BeginQueue ==
  ASSUME NEW d \in Database, NEW e, NEW w \in Workflow, BeginIn(d, e, w),
         NEW o \in OperationsOf(e.wf[w].kind)
  PROVE  BeginIn(d, Queue(e, w, o), w) /\ Queue(e, w, o).row = e.row
<1> DEFINE k == e.wf[w].kind
           y == e.wf[w]
           j == [ NoJob EXCEPT !.status = "queued", !.no = y.job[o].no + 1 ]
           z == [ y EXCEPT !.job[o] = j ]
           f == Queue(e, w, o)
<1>1. e \in Database /\ k \in Kind BY DEF BeginIn, Begun
<1>2. y \in WorkflowOf(k) BY <1>1, NoneIsNoKind, DatabaseFields, RecordKind
<1>3. /\ j \in Job /\ z \in WorkflowOf(k)
      /\ Rewrites(e, f, w, IF y.job[o].status \in { "queued", "running" } THEN y ELSE z)
  BY <1>1, NoneIsNoKind, QueueMoves
<1>4. j.status = "queued" BY EndedJobFields
<1> HIDE DEF j
<1>5. /\ z.kind = y.kind /\ z.bind = y.bind /\ z.status = y.status /\ z.claims = y.claims
      /\ z.cancel = y.cancel /\ z.data = y.data /\ z.job = [ y.job EXCEPT ![o] = j ]
  BY <1>2 DEF WorkflowOf
<1>6. y.job \in [OperationsOf(k) -> Job] BY <1>1, <1>2, WorkflowFields
<1> HIDE DEF z, f
<1>7. \A q \in OperationsOf(k) : z.job[q].status # "running"
  BY <1>4, <1>5, <1>6 DEF BeginIn, Begun
<1>8. WorkKeys(z) = WorkKeys(y) BY <1>5 DEF WorkKeys
<1>9. Begun(d.wf[w], z) BY <1>5, <1>7, <1>8 DEF BeginIn, Begun, Bound
<1>10. Fresh(d, f, w) BY <1>3, <1>5 DEF Rewrites, BeginIn, Fresh
<1> QED BY <1>3, <1>9, <1>10 DEF BeginIn, Rewrites, f

----------------------------------------------------------------------------
\* What a step makes of the system.

\* A process holds the claim of an operation its workflow has, and a metadata update
\* goes through rows it is about.
Fits(d, c) ==
  /\ c.at = "idle" => c = NoClaim
  /\ c.at # "idle" =>
       /\ c.w \in Workflow /\ d.wf[c.w].kind # "none"
       /\ c.op \in OperationsOf(d.wf[c.w].kind)
       /\ d.wf[c.w].kind = "lanraragi_metadata" => c.todo \subseteq Bound(d.wf[c.w])
       /\ d.wf[c.w].kind = "lanraragi_metadata" /\ c.at = "write" =>
            c.item \in Bound(d.wf[c.w])

QbitType == [Manga -> SUBSET (Role \cup { "manual" })]

TypeInv ==
  /\ db \in Database /\ sup \in SupervisorRow /\ qbit \in QbitType
  /\ proc \in [Proc -> Process] /\ \A p \in Proc : Fits(db, proc[p])

\* No process is started and none ends.
GoesOn(c, b) ==
  /\ c.at # "idle" /\ b.at # "idle"
  /\ b.w = c.w /\ b.op = c.op /\ b.no = c.no /\ b.owner = c.owner

Steady ==
  /\ sup' = sup /\ proc' \in [Proc -> Process] /\ qbit' \in QbitType
  /\ \A p \in Proc :
       proc'[p] = proc[p] \/ (GoesOn(proc[p], proc'[p]) /\ Fits(db, proc'[p]))

\* One workflow moves, and no job of it ends.
CalmStep ==
  /\ Steady
  /\ \/ Remarks(db, db')
     \/ \E w \in Workflow : \/ db.wf[w].kind # "none" /\ CalmIn(db, db', w)
                            \/ CloseIn(db, db', w) \/ BeginIn(db, db', w)

\* A process ends; it records the end of its attempt if that still counts.
EndStep(p) ==
  /\ Busy(p) /\ Exits(p) /\ qbit' = qbit
  /\ \/ db' = db
     \/ Valid(db, proc[p]) /\ FinishIn(db, db', proc[p].w, proc[p].op)

\* A job whose lease has run out is given up by hand.
GiveUpStep(w, o) ==
  /\ db.wf[w].kind # "none" /\ o \in OperationsOf(db.wf[w].kind)
  /\ db.wf[w].job[o].lease = "expired" /\ (ReleaseOnlyStopped => RunBy(w, o) = {})
  /\ FinishIn(db, db', w, o) /\ UNCHANGED << sup, proc, qbit >>

\* A job is started in a process of its own, with what it needs claimed.
ClaimStep(w, o, p) ==
  LET x == db.wf[w]
      y == db'.wf[w]
  IN /\ x.kind # "none" /\ o \in OperationsOf(x.kind) /\ proc[p] = NoClaim
     /\ x.job[o].status = "queued" /\ x.status \in Definition[x.kind][o].statuses
     /\ \A q \in OperationsOf(x.kind) : x.job[q].status # "running"
     /\ db' \in Database /\ Fresh(db, db', w)
     /\ \A v \in Workflow \ {w} : Kept(db.wf[v], db'.wf[v])
     /\ y.kind = x.kind /\ y.bind = x.bind /\ y.status = x.status /\ y.cancel = x.cancel
     /\ DataMoves(x, y)
     /\ WorkKeys(x) = WorkKeys(y) /\ AllKeys(x) \subseteq AllKeys(y)
     /\ ResourcesOf(db, w) \subseteq AllKeys(y)
     /\ \A c \in y.claims : c \in x.claims \/ (c.op = o /\ c.no = x.job[o].no)
     /\ y.job[o].status = "running" /\ y.job[o].no = x.job[o].no
     /\ \A q \in OperationsOf(x.kind) \ {o} : y.job[q] = x.job[q]
     /\ proc' = [ proc EXCEPT ![p] = Started(w, o) ]
     /\ sup' = sup /\ qbit' = qbit

LEMMA TypedProcess ==
  ASSUME TypeInv, NEW p \in Proc, Busy(p)
  PROVE  /\ proc[p] \in Process /\ proc[p].w \in Workflow /\ proc[p].op \in OpName
         /\ db.wf[proc[p].w].kind # "none" /\ db.wf[proc[p].w].kind \in Kind
         /\ db.wf[proc[p].w] \in WorkflowOf(db.wf[proc[p].w].kind)
         /\ proc[p].op \in OperationsOf(db.wf[proc[p].w].kind)
         /\ proc[p].no \in Nat /\ proc[p].owner \in 0 .. MaxOwner
<1>1. proc[p] \in Process /\ Fits(db, proc[p]) BY DEF TypeInv
<1>2. proc[p].w \in Workflow /\ db.wf[proc[p].w].kind # "none"
      /\ proc[p].op \in OperationsOf(db.wf[proc[p].w].kind)
  BY <1>1 DEF Fits, Busy
<1>3. db.wf[proc[p].w].kind \in Kind /\ db.wf[proc[p].w] \in WorkflowOf(db.wf[proc[p].w].kind)
  BY <1>2, DatabaseFields, RecordKind DEF TypeInv
<1>4. proc[p].no \in Nat /\ proc[p].owner \in 0 .. MaxOwner BY <1>1 DEF Process
<1> QED BY <1>1, <1>2, <1>3, <1>4, OperationIsName

\* A process goes on to another place of its run.
LEMMA GotoIsSteady ==
  ASSUME TypeInv, NEW p \in Proc, Busy(p), NEW at \in Place \ { "idle" }, Goto(p, at),
         sup' = sup, qbit' \in QbitType,
         db.wf[proc[p].w].kind # "lanraragi_metadata" \/ at # "write"
  PROVE  Steady
<1> DEFINE b == [ proc[p] EXCEPT !.at = at ]
<1>1. proc[p] \in Process /\ Fits(db, proc[p]) BY DEF TypeInv
<1>2. b \in Process BY <1>1 DEF Process
<1>3. proc' = [ proc EXCEPT ![p] = b ] BY DEF Goto
<1>4. b.w = proc[p].w /\ b.op = proc[p].op /\ b.no = proc[p].no /\ b.owner = proc[p].owner
      /\ b.at = at /\ b.todo = proc[p].todo /\ b.item = proc[p].item
  BY <1>1 DEF Process
<1> HIDE DEF b
<1>5. GoesOn(proc[p], b) BY <1>4 DEF GoesOn, Busy
<1>6. Fits(db, b) BY <1>1, <1>4 DEF Fits, Busy
<1> QED BY <1>2, <1>3, <1>5, <1>6 DEF Steady, TypeInv

LEMMA SameIsSteady ==
  ASSUME TypeInv, UNCHANGED << sup, proc, qbit >> PROVE Steady
BY DEF TypeInv, Steady

----------------------------------------------------------------------------
\* A field of the record is written in a step that goes on.

LEMMA CalmPhase ==
  ASSUME NEW d \in Database, NEW e, NEW w \in Workflow, CalmIn(d, e, w), d.wf[w].kind # "none",
         NEW ph \in Phase
  PROVE  LET f == [ e EXCEPT !.wf[w].phase = ph ] IN
         /\ CalmIn(d, f, w) /\ f \in Database /\ f.row = e.row
         /\ f.wf[w].phase = ph /\ f.wf[w].data = e.wf[w].data /\ f.wf[w].job = e.wf[w].job
         /\ f.wf[w].claims = e.wf[w].claims /\ f.wf[w].cancel = e.wf[w].cancel
<1> DEFINE y == [ e.wf[w] EXCEPT !.phase = ph ]
<1>1. [ e EXCEPT !.wf[w].phase = ph ] = [ e EXCEPT !.wf[w] = y ] OBVIOUS
<1>2. d.wf[w].kind \in Kind /\ e.wf[w] \in WorkflowOf(d.wf[w].kind)
      /\ e.wf[w].bind = d.wf[w].bind /\ e.wf[w].status = d.wf[w].status
  BY CalmFields
<1>3. y \in WorkflowOf(d.wf[w].kind) BY <1>2, PutPhase
<1>4. /\ y.bind = e.wf[w].bind /\ y.status = e.wf[w].status /\ y.claims = e.wf[w].claims
      /\ y.cancel = e.wf[w].cancel /\ y.data = e.wf[w].data /\ y.job = e.wf[w].job
      /\ y.phase = ph
  BY <1>2 DEF WorkflowOf
<1> HIDE DEF y
<1>5. WorkKeys(y) = WorkKeys(e.wf[w]) BY <1>4 DEF WorkKeys
<1>6. DataMoves(d.wf[w], y) BY <1>2, <1>4, <1>5 DEF DataMoves, CalmIn, CalmOn
<1> QED BY <1>1, <1>2, <1>3, <1>4, <1>6, CalmPut, JobSameReflexive

LEMMA CalmAsked ==
  ASSUME NEW d \in Database, NEW e, NEW w \in Workflow, CalmIn(d, e, w), d.wf[w].kind # "none",
         d.wf[w].kind \notin Uncancellable
  PROVE  LET f == [ e EXCEPT !.wf[w].cancel = TRUE ] IN
         /\ CalmIn(d, f, w) /\ f \in Database /\ f.row = e.row
         /\ f.wf[w].data = e.wf[w].data /\ f.wf[w].job = e.wf[w].job
         /\ f.wf[w].claims = e.wf[w].claims
<1> DEFINE y == [ e.wf[w] EXCEPT !.cancel = TRUE ]
<1>1. [ e EXCEPT !.wf[w].cancel = TRUE ] = [ e EXCEPT !.wf[w] = y ] OBVIOUS
<1>2. d.wf[w].kind \in Kind /\ e.wf[w] \in WorkflowOf(d.wf[w].kind)
      /\ e.wf[w].bind = d.wf[w].bind /\ e.wf[w].status = d.wf[w].status
  BY CalmFields
<1>3. y \in WorkflowOf(d.wf[w].kind) BY <1>2, PutCancel
<1>4. /\ y.bind = e.wf[w].bind /\ y.status = e.wf[w].status /\ y.claims = e.wf[w].claims
      /\ y.data = e.wf[w].data /\ y.job = e.wf[w].job
  BY <1>2 DEF WorkflowOf
<1> HIDE DEF y
<1>5. WorkKeys(y) = WorkKeys(e.wf[w]) BY <1>4 DEF WorkKeys
<1>6. DataMoves(d.wf[w], y) BY <1>2, <1>4, <1>5 DEF DataMoves, CalmIn, CalmOn
<1> QED BY <1>1, <1>2, <1>3, <1>4, <1>6, CalmPut, JobSameReflexive

\* What the payload of workflow x may become.
MayHold(x, y, z) ==
  x.status = "active" =>
    /\ x.kind = "lanraragi_metadata" =>
         /\ (z.done \ x.data.done) \cap x.data.stale = {}
         /\ \A r \in z.ready : r \in x.data.ready \/ ArchiveKey(r[2]) \in WorkKeys(y)
    /\ x.kind = "full_collect" =>
         z.cursor = x.data.cursor \/ x.data.intent = "run"

DataPut(e, w, z) == [ e EXCEPT !.wf[w] = [ e.wf[w] EXCEPT !.data = z ] ]

LEMMA CalmData ==
  ASSUME NEW d \in Database, NEW e, NEW w \in Workflow, CalmIn(d, e, w), d.wf[w].kind # "none",
         NEW z \in DataOf(d.wf[w].kind),
         MayHold(d.wf[w], e.wf[w], z)
  PROVE  LET f == DataPut(e, w, z) IN
         /\ CalmIn(d, f, w) /\ f \in Database /\ f.row = e.row
         /\ f.wf[w].data = z /\ f.wf[w].job = e.wf[w].job /\ f.wf[w].phase = e.wf[w].phase
         /\ f.wf[w].claims = e.wf[w].claims /\ f.wf[w].cancel = e.wf[w].cancel
<1> DEFINE y == [ e.wf[w] EXCEPT !.data = z ]
           f == DataPut(e, w, z)
<1>2. d.wf[w].kind \in Kind /\ e.wf[w] \in WorkflowOf(d.wf[w].kind)
      /\ e.wf[w].bind = d.wf[w].bind /\ e.wf[w].status = d.wf[w].status
  BY CalmFields
<1>3. y \in WorkflowOf(d.wf[w].kind) BY <1>2, PutData
<1>4. /\ y.bind = e.wf[w].bind /\ y.status = e.wf[w].status /\ y.claims = e.wf[w].claims
      /\ y.data = z /\ y.job = e.wf[w].job /\ y.cancel = e.wf[w].cancel
      /\ y.phase = e.wf[w].phase
  BY <1>2 DEF WorkflowOf
<1> HIDE DEF y
<1>5. WorkKeys(y) = WorkKeys(e.wf[w]) BY <1>4 DEF WorkKeys
<1>6. DataMoves(d.wf[w], y) BY <1>2, <1>4, <1>5 DEF DataMoves, MayHold
<1>7. \A o \in OperationsOf(d.wf[w].kind) : JobSame(e.wf[w].job[o], y.job[o])
  BY <1>4, JobSameReflexive
<1>8. CalmIn(d, f, w) /\ f \in Database /\ f.row = e.row /\ f.wf[w] = y
  <2>1. f = [ e EXCEPT !.wf[w] = y ] BY DEF y, DataPut
  <2>2. LET g == [ e EXCEPT !.wf[w] = y ] IN
        CalmIn(d, g, w) /\ g \in Database /\ g.row = e.row /\ g.wf[w] = y
    BY <1>2, <1>3, <1>4, <1>6, <1>7, CalmPut
  <2> QED BY <2>1, <2>2
<1> QED BY <1>4, <1>8 DEF y

\* The payload of a kind of which no step is summed up.
LEMMA CalmPlain ==
  ASSUME NEW d \in Database, NEW e, NEW w \in Workflow, CalmIn(d, e, w),
         NEW k \in { "video_archive", "manual_torrent", "lanraragi_compare",
                      "download_cleanup" },
         d.wf[w].kind = k, NEW z \in DataOf(k)
  PROVE  LET f == DataPut(e, w, z) IN
         /\ CalmIn(d, f, w) /\ f \in Database /\ f.row = e.row
         /\ f.wf[w].kind = k /\ f.wf[w].data = z /\ f.wf[w].job = e.wf[w].job
         /\ f.wf[w].phase = e.wf[w].phase
         /\ f.wf[w].claims = e.wf[w].claims /\ f.wf[w].cancel = e.wf[w].cancel
<1> DEFINE f == DataPut(e, w, z)
<1>1. k # "none" /\ k # "lanraragi_metadata" /\ k # "full_collect" OBVIOUS
<1>2. /\ CalmIn(d, f, w) /\ f \in Database /\ f.row = e.row
      /\ f.wf[w].data = z /\ f.wf[w].job = e.wf[w].job
      /\ f.wf[w].phase = e.wf[w].phase
      /\ f.wf[w].claims = e.wf[w].claims /\ f.wf[w].cancel = e.wf[w].cancel
  <2>1. d.wf[w].kind # "none" /\ z \in DataOf(d.wf[w].kind) BY <1>1
  <2>2. MayHold(d.wf[w], e.wf[w], z) BY <1>1 DEF MayHold
  <2> QED BY <2>1, <2>2, CalmData
<1>3. f.wf[w].kind = k BY <1>1, <1>2, CalmFields
<1> QED BY <1>2, <1>3

LEMMA CalmJob ==
  ASSUME NEW d \in Database, NEW e, NEW w \in Workflow, CalmIn(d, e, w), d.wf[w].kind # "none",
         NEW o \in OperationsOf(d.wf[w].kind), NEW j \in Job, JobSame(e.wf[w].job[o], j)
  PROVE  LET f == [ e EXCEPT !.wf[w].job[o] = j ] IN
         /\ CalmIn(d, f, w) /\ f \in Database /\ f.row = e.row
         /\ f.wf[w].data = e.wf[w].data /\ f.wf[w].cancel = e.wf[w].cancel
<1> DEFINE y == [ e.wf[w] EXCEPT !.job[o] = j ]
<1>1. [ e EXCEPT !.wf[w].job[o] = j ] = [ e EXCEPT !.wf[w] = y ] OBVIOUS
<1>2. d.wf[w].kind \in Kind /\ e.wf[w] \in WorkflowOf(d.wf[w].kind)
      /\ e.wf[w].bind = d.wf[w].bind /\ e.wf[w].status = d.wf[w].status
  BY CalmFields
<1>3. y \in WorkflowOf(d.wf[w].kind) BY <1>2, PutJob
<1>4. /\ y.bind = e.wf[w].bind /\ y.status = e.wf[w].status /\ y.claims = e.wf[w].claims
      /\ y.cancel = e.wf[w].cancel /\ y.data = e.wf[w].data
      /\ y.job = [ e.wf[w].job EXCEPT ![o] = j ]
  BY <1>2 DEF WorkflowOf
<1> HIDE DEF y
<1>5. WorkKeys(y) = WorkKeys(e.wf[w]) BY <1>4 DEF WorkKeys
<1>6. DataMoves(d.wf[w], y) BY <1>2, <1>4, <1>5 DEF DataMoves, CalmIn, CalmOn
<1>7. e.wf[w].job \in [OperationsOf(d.wf[w].kind) -> Job] BY <1>2, WorkflowFields
<1>8. \A q \in OperationsOf(d.wf[w].kind) : JobSame(e.wf[w].job[q], y.job[q])
  BY <1>4, <1>7, JobSameReflexive
<1>9. /\ y.cancel => e.wf[w].cancel \/ d.wf[w].kind \notin Uncancellable
      /\ y.bind = d.wf[w].bind /\ y.status = d.wf[w].status /\ y.claims = e.wf[w].claims
  BY <1>2, <1>4
<1>10. LET f == [ e EXCEPT !.wf[w] = y ] IN
       CalmIn(d, f, w) /\ f \in Database /\ f.row = e.row /\ f.wf[w] = y
  BY <1>3, <1>6, <1>8, <1>9, CalmPut
<1> QED BY <1>1, <1>4, <1>10

\* The effect, the lease and the request to stop of a job.
LEMMA CalmFlags ==
  ASSUME NEW d \in Database, NEW e, NEW w \in Workflow, CalmIn(d, e, w), d.wf[w].kind # "none",
         NEW o \in OperationsOf(d.wf[w].kind)
  PROVE  /\ LET f == [ e EXCEPT !.wf[w].job[o].effect = TRUE ] IN
            /\ CalmIn(d, f, w) /\ f \in Database /\ f.row = e.row
            /\ f.wf[w].data = e.wf[w].data /\ f.wf[w].cancel = e.wf[w].cancel
         /\ LET f == [ e EXCEPT !.wf[w].job[o].lease = "expired" ] IN
            CalmIn(d, f, w) /\ f.row = e.row /\ f.wf[w].data = e.wf[w].data
         /\ LET f == [ e EXCEPT !.wf[w].job[o].stop = TRUE ] IN
            CalmIn(d, f, w) /\ f.row = e.row /\ f.wf[w].data = e.wf[w].data
<1> DEFINE j == e.wf[w].job[o]
           j1 == [ j EXCEPT !.effect = TRUE ]
           j2 == [ j EXCEPT !.lease = "expired" ]
           j3 == [ j EXCEPT !.stop = TRUE ]
<1>1. d.wf[w].kind \in Kind /\ e.wf[w] \in WorkflowOf(d.wf[w].kind) BY CalmFields
<1>2. j \in Job BY <1>1, WorkflowFields
<1>3. /\ [ e EXCEPT !.wf[w].job[o].effect = TRUE ] = [ e EXCEPT !.wf[w].job[o] = j1 ]
      /\ [ e EXCEPT !.wf[w].job[o].lease = "expired" ] = [ e EXCEPT !.wf[w].job[o] = j2 ]
      /\ [ e EXCEPT !.wf[w].job[o].stop = TRUE ] = [ e EXCEPT !.wf[w].job[o] = j3 ]
  OBVIOUS
<1>4. j1 \in Job /\ j2 \in Job /\ j3 \in Job BY <1>2 DEF Job
<1>5. JobSame(j, j1) /\ JobSame(j, j2) /\ JobSame(j, j3) BY <1>2 DEF Job, JobSame
<1> HIDE DEF j1, j2, j3
<1> QED BY <1>3, <1>4, <1>5, CalmJob

----------------------------------------------------------------------------
\* The workflows that take over a row.

LEMMA NotThere ==
  ASSUME TypeInv, NEW w \in Workflow, ~Exists(db, w) PROVE db.wf[w] = NoWorkflow
<1>1. db.wf[w] \in Record BY DatabaseFields DEF TypeInv
<1> QED BY <1>1, RecordKind DEF Exists

LEMMA CalmCommand ==
  ASSUME TypeInv, NEW w \in Workflow, UNCHANGED << sup, proc, qbit >>,
         \/ db.wf[w].kind # "none" /\ CalmIn(db, db', w)
         \/ CloseIn(db, db', w) \/ BeginIn(db, db', w)
  PROVE  CalmStep
BY SameIsSteady DEF CalmStep

LEMMA TakeOver ==
  ASSUME TypeInv, NEW w \in Workflow, ~Exists(db, w), NEW m \in Manga,
         NEW k \in { "video_archive", "manual_torrent" },
         db.row[m].status # "special_processing"
  PROVE  LET x == [ NewWorkflow(k) EXCEPT
                      !.bind = [n \in {m} |-> [ status |-> db.row[m].status,
                                                error |-> db.row[m].error ]] ]
             born == [ Touch(db, m) EXCEPT !.wf[w] = x, !.row[m].status = "special_processing" ]
         IN /\ Born(db, born, w, k) /\ Bound(born.wf[w]) = {m}
            /\ born.row = [ db.row EXCEPT ![m] = [ db.row[m] EXCEPT
                                                      !.status = "special_processing" ] ]
<1> DEFINE r == db.row[m]
           b == [n \in {m} |-> [ status |-> r.status, error |-> r.error ]]
           x == [ NewWorkflow(k) EXCEPT !.bind = b ]
           t == Touch(db, m)
           e == [ t EXCEPT !.wf[w] = x ]
           s == [ r EXCEPT !.status = "special_processing" ]
           born == [ t EXCEPT !.wf[w] = x, !.row[m].status = "special_processing" ]
<1>1. db \in Database /\ r \in Row /\ k \in Kind BY DatabaseFields, KindNames DEF TypeInv
<1>2. b \in BindOf(k)
  <2>1. [ status |-> r.status, error |-> r.error ] \in Entry BY <1>1 DEF Row, Entry
  <2>2. b \in [{m} -> Entry] BY <2>1
  <2> HIDE DEF b
  <2> QED BY <2>2 DEF BindOf
<1>3. DOMAIN b = {m} OBVIOUS
<1> HIDE DEF b
<1>4. /\ x \in WorkflowOf(k) /\ x.kind = k /\ x.status = "active"
      /\ x.cancel = FALSE /\ x.claims = {} /\ x.bind = b
      /\ x.data = InitialData[k] /\ x.job = [o \in OperationsOf(k) |-> NoJob]
  BY <1>1, <1>2, NewIsTyped
<1> HIDE DEF x
<1>5. Remarks(db, t) /\ t.row = db.row /\ t \in Database
  BY <1>1, TouchRemarks DEF Remarks
<1> HIDE DEF t
<1>6. x \in Record BY <1>1, <1>4, WorkflowIsRecord
<1>7. Rewrites(t, e, w, x) BY <1>5, <1>6, PutWorkflow
<1>8. e \in Database /\ e.row = db.row /\ e.wf[w] = x
      /\ \A v \in Workflow \ {w} : e.wf[v] = t.wf[v]
  BY <1>5, <1>7 DEF Rewrites
<1>9. born = [ e EXCEPT !.row[m] = s ]
  <2>1. born = [ e EXCEPT !.row[m] = [ e.row[m] EXCEPT !.status = "special_processing" ] ]
    OBVIOUS
  <2> QED BY <1>8, <2>1
<1>10. s \in Row BY <1>1, RowFields DEF RowStatus
<1> HIDE DEF e, s, born
<1>11. born \in Database /\ born.wf = e.wf /\ born.row = [ db.row EXCEPT ![m] = s ]
  BY <1>8, <1>9, <1>10, PutRow
<1>12. \A v \in Workflow \ {w} : Kept(db.wf[v], born.wf[v])
  BY <1>5, <1>8, <1>11 DEF Remarks
<1>13. db.wf[w] = NoWorkflow BY NotThere
<1>14. Born(db, born, w, k) BY <1>4, <1>8, <1>11, <1>12, <1>13 DEF Born
<1>15. Bound(born.wf[w]) = {m} BY <1>3, <1>4, <1>8, <1>11 DEF Bound
<1> QED BY <1>11, <1>14, <1>15 DEF x, t, b, s, born

LEMMA MangaKeyIsKey == \A m \in Manga : MangaKey(m) \in Key
BY DEF Key

LEMMA ArchiveKeyIsKey == \A a \in Archive : ArchiveKey(a) \in Key
BY DEF Key

\* What a workflow of a given kind is made of.
LEMMA TypedWorkflow ==
  ASSUME TypeInv, NEW w \in Workflow, db.wf[w].kind # "none"
  PROVE  /\ db \in Database /\ db.wf[w].kind \in Kind
         /\ db.wf[w] \in WorkflowOf(db.wf[w].kind)
         /\ db.wf[w].data \in DataOf(db.wf[w].kind)
         /\ db.wf[w].job \in [OperationsOf(db.wf[w].kind) -> Job]
         /\ DOMAIN db.wf[w].job = OperationsOf(db.wf[w].kind)
<1>1. db \in Database /\ db.wf[w].kind \in Kind /\ db.wf[w] \in WorkflowOf(db.wf[w].kind)
  BY DatabaseFields, RecordKind DEF TypeInv
<1> QED BY <1>1, WorkflowFields

LEMMA QueueStep ==
  ASSUME TypeInv, NEW w \in Workflow, db.wf[w].kind # "none",
         NEW o \in OperationsOf(db.wf[w].kind), db' = Queue(db, w, o),
         UNCHANGED << sup, proc, qbit >>
  PROVE  CalmStep
<1>1. db \in Database BY DEF TypeInv
<1>2. CalmIn(db, db', w) BY <1>1, CalmRefl, CalmQueue
<1> QED BY <1>2, CalmCommand

----------------------------------------------------------------------------
\* A job is taken from its process: its claims are released before it is ended.
LEMMA GivenUp ==
  ASSUME NEW d \in Database, NEW w \in Workflow, d.wf[w].kind # "none",
         NEW o \in OperationsOf(d.wf[w].kind)
  PROVE  LET f == EndJob(Release(d, w, o), w, o, "abandoned") IN
         /\ Ending(d, f, w, o) /\ f \in Database /\ f.row = d.row
         /\ f.wf[w].kind = d.wf[w].kind /\ f.wf[w].status = d.wf[w].status
         /\ f.wf[w].phase = d.wf[w].phase /\ f.wf[w].data = d.wf[w].data
         /\ f.wf[w].cancel = d.wf[w].cancel
         /\ f.wf[w].job[o].status = "abandoned" /\ f.wf[w].job[o].no = d.wf[w].job[o].no
         /\ \A q \in OperationsOf(d.wf[w].kind) \ {o} : f.wf[w].job[q] = d.wf[w].job[q]
         /\ \A v \in Workflow \ {w} : f.wf[v] = d.wf[v]
<1> DEFINE x == d.wf[w]
           e == Release(d, w, o)
           y == [ x EXCEPT !.claims = LeftClaims(x, o) ]
           j == [ NoJob EXCEPT !.status = "abandoned", !.no = y.job[o].no ]
           z == [ y EXCEPT !.job[o] = j ]
           f == EndJob(e, w, o, "abandoned")
<1>1. x.kind \in Kind /\ x \in WorkflowOf(x.kind) BY DatabaseFields, RecordKind
<1>2. y \in WorkflowOf(x.kind) /\ Rewrites(d, e, w, y)
  BY <1>1, ReleaseMoves DEF LeftClaims
<1>3. /\ y.kind = x.kind /\ y.status = x.status /\ y.cancel = x.cancel /\ y.phase = x.phase
      /\ y.bind = x.bind /\ y.job = x.job /\ y.data = x.data
      /\ y.claims = LeftClaims(x, o)
  BY <1>1 DEF WorkflowOf
<1>4. e \in Database /\ e.wf[w] = y /\ e.row = d.row
      /\ \A v \in Workflow \ {w} : e.wf[v] = d.wf[v]
  BY <1>2 DEF Rewrites
<1> HIDE DEF y, e
<1>5. j \in Job /\ z \in WorkflowOf(x.kind) /\ Rewrites(e, f, w, z)
  BY <1>1, <1>3, <1>4, EndJobMoves
<1>6. j.status = "abandoned" /\ j.no = x.job[o].no BY <1>3, EndedJobFields
<1> HIDE DEF j
<1>7. /\ z.kind = x.kind /\ z.status = x.status /\ z.cancel = x.cancel /\ z.phase = x.phase
      /\ z.bind = x.bind /\ z.data = x.data /\ z.claims = LeftClaims(x, o)
      /\ z.job = [ x.job EXCEPT ![o] = j ]
  BY <1>2, <1>3 DEF WorkflowOf
<1>8. x.job \in [OperationsOf(x.kind) -> Job] BY <1>1, WorkflowFields
<1> HIDE DEF z, f
<1>9. z.job[o] = j /\ \A q \in OperationsOf(x.kind) \ {o} : z.job[q] = x.job[q]
  BY <1>7, <1>8
<1>10. x.job[o].no \in Nat BY <1>8, JobFields
<1>11. o \in OpName /\ o # ByWorkflow BY <1>1, OperationIsName
<1>12. x.status \in { "active", "completed", "cancelled" } BY <1>1, WorkflowFields
<1>13. /\ z.status = "active" => WorkKeys(x) \subseteq WorkKeys(z)
       /\ \A c \in z.claims : /\ c \in x.claims /\ ~(c.op = o /\ c.no = x.job[o].no)
                              /\ c.op = ByWorkflow => z.status = "active"
  BY <1>7, <1>11, <1>12 DEF LeftClaims, WorkKeys
<1>14. JobEnds(x, z, o)
  BY <1>6, <1>7, <1>9, <1>10, <1>13 DEF JobEnds
<1>15. f \in Database /\ f.wf[w] = z /\ f.row = d.row
       /\ \A v \in Workflow \ {w} : f.wf[v] = d.wf[v]
  BY <1>4, <1>5 DEF Rewrites
<1>16. DataLike(x, z) BY <1>7 DEF DataLike
<1>17. Ending(d, f, w, o)
  BY <1>7, <1>14, <1>15, <1>16, KeptReflexive DEF Ending
<1> QED BY <1>6, <1>7, <1>9, <1>15, <1>17 DEF f, e

LEMMA EndingRemarks ==
  ASSUME NEW d \in Database, NEW e, NEW f, NEW w \in Workflow, NEW o, Ending(d, e, w, o),
         Remarks(e, f)
  PROVE  Ending(d, f, w, o) /\ f.wf[w].status = e.wf[w].status /\ f.wf[w].kind = e.wf[w].kind
<1>1. WorkKeys(f.wf[w]) = WorkKeys(e.wf[w]) BY DEF Remarks, Kept, WorkKeys
<1>2. JobEnds(d.wf[w], f.wf[w], o) BY <1>1 DEF Remarks, Kept, JobEnds, Ending
<1>3. f.wf[w].status = "active" => DataLike(d.wf[w], f.wf[w])
  BY DEF Remarks, Kept, Ending, JobEnds, DataLike
<1> QED BY <1>2, <1>3, KeptTransitive DEF Ending, Remarks, Kept

PhasePut(e, w, ph) == [ e EXCEPT !.wf[w].phase = ph ]

LEMMA EndingFields ==
  ASSUME NEW d \in Database, NEW e, NEW w \in Workflow, NEW o, Ending(d, e, w, o),
         d.wf[w].kind # "none"
  PROVE  e \in Database /\ d.wf[w].kind \in Kind /\ e.wf[w] \in WorkflowOf(d.wf[w].kind)
         /\ e.wf[w].kind = d.wf[w].kind
<1>1. e.wf[w].kind = d.wf[w].kind /\ e \in Database BY DEF Ending, JobEnds
<1>2. e.wf[w] \in Record BY <1>1, DatabaseFields
<1> QED BY <1>1, <1>2, RecordKind

LEMMA EndingWrites ==
  ASSUME NEW d \in Database, NEW e, NEW w \in Workflow, NEW o, Ending(d, e, w, o),
         d.wf[w].kind # "none", NEW y \in WorkflowOf(d.wf[w].kind),
         y.status = e.wf[w].status, y.cancel = e.wf[w].cancel, y.claims = e.wf[w].claims,
         y.bind = e.wf[w].bind, y.job = e.wf[w].job,
         y.status = "active" => DataLike(e.wf[w], y),
         NEW f, Rewrites(e, f, w, y)
  PROVE  Ending(d, f, w, o)
<1>1. y.kind = d.wf[w].kind BY EndingFields, WorkflowFields
<1>2. WorkKeys(y) = WorkKeys(e.wf[w]) BY DEF WorkKeys
<1>3. JobEnds(d.wf[w], y, o) BY <1>1, <1>2 DEF JobEnds, Ending
<1>4. y.status = "active" => DataLike(d.wf[w], y)
  BY <1>1 DEF Ending, DataLike, JobEnds
<1> QED BY <1>3, <1>4 DEF Ending, Rewrites

LEMMA EndingPhase ==
  ASSUME NEW d \in Database, NEW e, NEW w \in Workflow, NEW o, Ending(d, e, w, o),
         d.wf[w].kind # "none", NEW ph \in Phase
  PROVE  LET f == PhasePut(e, w, ph) IN
         /\ Ending(d, f, w, o) /\ f \in Database /\ f.row = e.row
         /\ f.wf[w].status = e.wf[w].status /\ f.wf[w].kind = e.wf[w].kind
         /\ f.wf[w].data = e.wf[w].data
<1> DEFINE y == [ e.wf[w] EXCEPT !.phase = ph ]
           f == PhasePut(e, w, ph)
<1>1. e \in Database /\ d.wf[w].kind \in Kind /\ e.wf[w] \in WorkflowOf(d.wf[w].kind)
      /\ e.wf[w].kind = d.wf[w].kind
  BY EndingFields
<1>2. y \in WorkflowOf(d.wf[w].kind) BY <1>1, PutPhase
<1>3. f = [ e EXCEPT !.wf[w] = y ] BY DEF PhasePut
<1>4. Rewrites(e, f, w, y) BY <1>1, <1>2, <1>3, PutWorkflow, WorkflowIsRecord
<1>5. /\ y.kind = e.wf[w].kind /\ y.status = e.wf[w].status /\ y.cancel = e.wf[w].cancel
      /\ y.claims = e.wf[w].claims /\ y.bind = e.wf[w].bind /\ y.job = e.wf[w].job
      /\ y.data = e.wf[w].data
  BY <1>1 DEF WorkflowOf
<1> HIDE DEF y, f
<1>6. DataLike(e.wf[w], y) BY <1>5 DEF DataLike
<1>7. Ending(d, f, w, o) BY <1>2, <1>4, <1>5, <1>6, EndingWrites
<1> QED BY <1>4, <1>5, <1>7 DEF Rewrites, f

LEMMA EndingData ==
  ASSUME NEW d \in Database, NEW e, NEW w \in Workflow, NEW o, Ending(d, e, w, o),
         d.wf[w].kind # "none", NEW z \in DataOf(d.wf[w].kind),
         e.wf[w].status = "active" => DataLike(e.wf[w], [ e.wf[w] EXCEPT !.data = z ])
  PROVE  LET f == DataPut(e, w, z) IN
         /\ Ending(d, f, w, o) /\ f \in Database /\ f.row = e.row
         /\ f.wf[w].status = e.wf[w].status /\ f.wf[w].kind = e.wf[w].kind
         /\ f.wf[w].data = z
<1> DEFINE y == [ e.wf[w] EXCEPT !.data = z ]
           f == DataPut(e, w, z)
<1>1. e \in Database /\ d.wf[w].kind \in Kind /\ e.wf[w] \in WorkflowOf(d.wf[w].kind)
      /\ e.wf[w].kind = d.wf[w].kind
  BY EndingFields
<1>2. y \in WorkflowOf(d.wf[w].kind) BY <1>1, PutData
<1>3. f = [ e EXCEPT !.wf[w] = y ] BY DEF DataPut
<1>4. Rewrites(e, f, w, y) BY <1>1, <1>2, <1>3, PutWorkflow, WorkflowIsRecord
<1>5. /\ y.kind = e.wf[w].kind /\ y.status = e.wf[w].status /\ y.cancel = e.wf[w].cancel
      /\ y.claims = e.wf[w].claims /\ y.bind = e.wf[w].bind /\ y.job = e.wf[w].job
      /\ y.data = z
  BY <1>1 DEF WorkflowOf
<1>6. y.status = "active" => DataLike(e.wf[w], y) BY <1>5
<1> HIDE DEF y, f
<1>7. Ending(d, f, w, o) BY <1>2, <1>4, <1>5, <1>6, EndingWrites
<1> QED BY <1>4, <1>5, <1>7 DEF Rewrites, f

\* The cleanup and the retry of a video archive are no part of what a step sums up.
LEMMA VideoSettles ==
  ASSUME NEW x \in WorkflowOf("video_archive"), NEW z \in DataOf("video_archive"),
         z.selected = x.data.selected, z.torrents = x.data.torrents
  PROVE  DataLike(x, [ x EXCEPT !.data = z ])
BY DEF DataLike, WorkflowOf

LEMMA GiveUpRecorded ==
  ASSUME TypeInv, NEW w \in Workflow, db.wf[w].kind # "none",
         NEW o \in OperationsOf(db.wf[w].kind),
         db.wf[w].job[o].status = "running", db.wf[w].job[o].lease = "expired",
         ReleaseOnlyStopped => RunBy(w, o) = {},
         Ending(db, db', w, o), db'.wf[w].status = db.wf[w].status,
         UNCHANGED << sup, proc, qbit >>
  PROVE  GiveUpStep(w, o)
<1>1. db \in Database BY DEF TypeInv
<1>2. db'.wf[w].status = "completed" /\ db.wf[w].status = "active" =>
        ~db.wf[w].cancel \/ db.wf[w].kind \in Uncancellable
  OBVIOUS
<1>3. FinishIn(db, db', w, o) BY <1>1, <1>2, EndsAtOnce
<1> QED BY <1>3 DEF GiveUpStep

----------------------------------------------------------------------------
\* A workflow of which no job runs.
LEMMA RunsNone ==
  ASSUME TypeInv, NEW w \in Workflow, db.wf[w].kind # "none",
         Running(db, w) = {} \/ Idle(db, w)
  PROVE  \A o \in OperationsOf(db.wf[w].kind) : db.wf[w].job[o].status # "running"
<1>1. DOMAIN db.wf[w].job = OperationsOf(db.wf[w].kind) BY TypedWorkflow
<1> QED BY <1>1 DEF Running, Idle

LEMMA CancelledQueueRunsNone ==
  ASSUME NEW d \in Database, NEW w \in Workflow, d.wf[w].kind # "none",
         \A o \in OperationsOf(d.wf[w].kind) : d.wf[w].job[o].status # "running"
  PROVE  /\ \A o \in OperationsOf(d.wf[w].kind) :
              CancelQueued(d, w).wf[w].job[o].status # "running"
         /\ CancelQueued(d, w).row = d.row
<1> DEFINE x == d.wf[w]
           jobs == [o \in DOMAIN x.job |-> IF x.job[o].status = "queued"
                      THEN [ x.job[o] EXCEPT !.status = "cancelled" ] ELSE x.job[o]]
           y == [ x EXCEPT !.job = jobs ]
<1>1. x.kind \in Kind /\ x \in WorkflowOf(x.kind) BY DatabaseFields, RecordKind
<1>2. Rewrites(d, CancelQueued(d, w), w, y) BY CancelQueuedMoves
<1>3. DOMAIN x.job = OperationsOf(x.kind) /\ \A o \in OperationsOf(x.kind) : x.job[o] \in Job
  BY <1>1, WorkflowFields
<1>4. \A o \in OperationsOf(x.kind) : jobs[o].status # "running"
  BY <1>3 DEF Job
<1> HIDE DEF jobs
<1>5. y.job = jobs BY <1>1 DEF WorkflowOf
<1> QED BY <1>2, <1>4, <1>5 DEF Rewrites

----------------------------------------------------------------------------
\* What a process does.

\* A process whose attempt counts runs a job of a workflow that allows it.
LEMMA ValidRuns ==
  ASSUME TypeInv, NEW p \in Proc, Busy(p), Valid(db, proc[p])
  PROVE  LET x == db.wf[proc[p].w]
             o == proc[p].op
         IN /\ x.job[o].status = "running" /\ x.job[o].no = proc[p].no
            /\ x.job[o].owner = proc[p].owner /\ x.job[o].lease = "live"
            /\ x.status = IF x.kind = "video_archive" /\ o = "cleanup"
                          THEN "completed" ELSE "active"
            /\ Going(p) => ~x.cancel \/ (x.kind = "video_archive" /\ o = "cancel")
<1> DEFINE x == db.wf[proc[p].w]
           o == proc[p].op
<1>1. x.kind \in Kind /\ o \in OperationsOf(x.kind) BY TypedProcess
<1>2. x.status \in Definition[x.kind][o].statuses BY DEF Valid, Def
<1>3. x.status = IF x.kind = "video_archive" /\ o = "cleanup" THEN "completed" ELSE "active"
  <2> HIDE DEF x, o
  <2>1. CASE x.kind = "video_archive" /\ o = "cleanup"
    <3>1. Definition[x.kind][o].statuses = { "completed" } BY <1>1, <2>1, DefinitionOf
    <3> QED BY <1>2, <2>1, <3>1
  <2>2. CASE ~(x.kind = "video_archive" /\ o = "cleanup")
    <3>1. Definition[x.kind][o].statuses = { "active" } BY <1>1, <2>2, DefinitionOf
    <3> QED BY <1>2, <2>2, <3>1
  <2> QED BY <2>1, <2>2
<1>4. Going(p) => ~x.cancel \/ (x.kind = "video_archive" /\ o = "cancel")
  BY <1>1, DefinitionOf DEF Going, Stopped, Def
<1> QED BY <1>3, <1>4 DEF Valid

\* A run that succeeds, after its result is written on the record.
LEMMA SucceedStep ==
  ASSUME TypeInv, NEW p \in Proc, Busy(p), Valid(db, proc[p]),
         db.wf[proc[p].w].status = "active",
         NEW e, CalmIn(db, e, proc[p].w),
         e.wf[proc[p].w].job = db.wf[proc[p].w].job,
         e.wf[proc[p].w].claims = db.wf[proc[p].w].claims,
         e.wf[proc[p].w].cancel = db.wf[proc[p].w].cancel,
         NEW ph \in Phase, NEW st \in { "active", "completed" },
         st = "completed" =>
           ~db.wf[proc[p].w].cancel \/ db.wf[proc[p].w].kind \in Uncancellable,
         NEW f, f = Succeed(e, proc[p], ph, st)
  PROVE  FinishIn(db, f, proc[p].w, proc[p].op) /\ f.wf[proc[p].w].status = st
<1> DEFINE w == proc[p].w
           o == proc[p].op
<1>1. /\ w \in Workflow /\ db.wf[w].kind # "none" /\ o \in OperationsOf(db.wf[w].kind)
      /\ db \in Database
  BY TypedProcess DEF TypeInv
<1>2. e \in Database /\ e.wf[w].kind = db.wf[w].kind /\ e.wf[w].status = "active"
  BY <1>1, CalmFields
<1>3. Ending(e, f, w, o) /\ f.wf[w].status = st
  BY <1>1, <1>2, SucceedEnds
<1>4. db.wf[w].job[o].status = "running" BY ValidRuns
<1>5. FinishIn(db, f, w, o) BY <1>1, <1>3, <1>4, CalmThenEnds
<1> QED BY <1>3, <1>5

LEMMA EndsWell ==
  ASSUME NEW p \in Proc, Busy(p), Valid(db, proc[p]),
         FinishIn(db, db', proc[p].w, proc[p].op), Exits(p), qbit' = qbit
  PROVE  EndStep(p)
BY DEF EndStep

\* A run that goes on, with what it has written.
LEMMA RunGoesOn ==
  ASSUME TypeInv, NEW p \in Proc, Busy(p), CalmIn(db, db', proc[p].w), Steady
  PROVE  CalmStep
BY TypedProcess DEF CalmStep

LEMMA RunGoesOnUnseen ==
  ASSUME TypeInv, db' = db, Steady
  PROVE  CalmStep
<1>1. Remarks(db, db') BY RemarksReflexive DEF TypeInv
<1> QED BY <1>1 DEF CalmStep

----------------------------------------------------------------------------
\* What qBittorrent has.
LEMMA QbitAdd ==
  ASSUME TypeInv, NEW m \in Manga, NEW ts \in SUBSET (Role \cup { "manual" })
  PROVE  [ qbit EXCEPT ![m] = ts ] \in QbitType
BY DEF TypeInv, QbitType

LEMMA QbitOf ==
  ASSUME TypeInv, NEW m \in Manga
  PROVE  qbit[m] \subseteq Role \cup { "manual" }
BY DEF TypeInv, QbitType

\* A process writes a step of its workflow and goes on.
LEMMA UpdateStep ==
  ASSUME TypeInv, NEW p \in Proc, Busy(p), NEW e, CalmIn(db, e, proc[p].w), NEW ph \in Phase,
         db' = Update(e, proc[p], ph), NEW at \in Place \ { "idle" }, Goto(p, at),
         sup' = sup, qbit' = qbit,
         db.wf[proc[p].w].kind # "lanraragi_metadata" \/ at # "write"
  PROVE  CalmStep
<1>1. /\ proc[p].w \in Workflow /\ db.wf[proc[p].w].kind # "none" /\ db \in Database
      /\ proc[p].op \in OperationsOf(db.wf[proc[p].w].kind)
  BY TypedProcess DEF TypeInv
<1>2. CalmIn(db, db', proc[p].w) BY <1>1, CalmUpdate
<1>3. qbit' \in QbitType BY DEF TypeInv
<1>4. Steady BY <1>3, GotoIsSteady
<1> QED BY <1>2, <1>4, RunGoesOn

LEMMA OwnPhase ==
  ASSUME TypeInv, NEW p \in Proc, Busy(p) PROVE db.wf[proc[p].w].phase \in Phase
BY TypedProcess, WorkflowFields

\* A cancellation is accepted: the workflow is over.
LEMMA CancelCompleteStep ==
  ASSUME TypeInv, NEW p \in Proc, Busy(p), Valid(db, proc[p]),
         db' = CancelComplete(db, proc[p]), Exits(p), qbit' = qbit
  PROVE  EndStep(p)
<1>1. /\ proc[p].w \in Workflow /\ db.wf[proc[p].w].kind # "none" /\ db \in Database
      /\ proc[p].op \in OperationsOf(db.wf[proc[p].w].kind)
      /\ db.wf[proc[p].w].job[proc[p].op].status = "running"
  BY TypedProcess, ValidRuns DEF TypeInv
<1>2. Ending(db, db', proc[p].w, proc[p].op) /\ db'.wf[proc[p].w].status = "cancelled"
  BY <1>1, CancelCompleteEnds
<1>3. FinishIn(db, db', proc[p].w, proc[p].op) BY <1>1, <1>2, EndsAtOnce
<1> QED BY <1>3, EndsWell

----------------------------------------------------------------------------
\* What is written in the step that ends a job.
LEMMA JobOverData ==
  ASSUME NEW x, NEW y, NEW z, NEW o, NEW st, JobOver(x, y, o, st),
         z.kind = y.kind, z.bind = y.bind, z.claims = y.claims, z.status = y.status,
         z.cancel = y.cancel, z.job = y.job, DataLike(x, z)
  PROVE  JobOver(x, z, o, st)
BY DEF JobOver

LEMMA DataPutFields ==
  ASSUME NEW d \in Database, NEW w \in Workflow, d.wf[w].kind # "none",
         NEW z \in DataOf(d.wf[w].kind)
  PROVE  LET f == DataPut(d, w, z) IN
         /\ f \in Database /\ f.row = d.row /\ f.wf[w] \in WorkflowOf(d.wf[w].kind)
         /\ f.wf[w].kind = d.wf[w].kind /\ f.wf[w].bind = d.wf[w].bind
         /\ f.wf[w].claims = d.wf[w].claims /\ f.wf[w].status = d.wf[w].status
         /\ f.wf[w].cancel = d.wf[w].cancel /\ f.wf[w].job = d.wf[w].job
         /\ f.wf[w].phase = d.wf[w].phase /\ f.wf[w].data = z
         /\ \A v \in Workflow \ {w} : f.wf[v] = d.wf[v]
<1> DEFINE y == [ d.wf[w] EXCEPT !.data = z ]
<1>1. d.wf[w].kind \in Kind /\ d.wf[w] \in WorkflowOf(d.wf[w].kind)
  BY DatabaseFields, RecordKind
<1>2. y \in WorkflowOf(d.wf[w].kind) BY <1>1, PutData
<1>3. y \in Record BY <1>1, <1>2, WorkflowIsRecord
<1>4. /\ y.kind = d.wf[w].kind /\ y.bind = d.wf[w].bind /\ y.claims = d.wf[w].claims
      /\ y.status = d.wf[w].status /\ y.cancel = d.wf[w].cancel /\ y.job = d.wf[w].job
      /\ y.phase = d.wf[w].phase /\ y.data = z
  BY <1>1 DEF WorkflowOf
<1>5. DataPut(d, w, z) = [ d EXCEPT !.wf[w] = y ] BY DEF DataPut
<1> HIDE DEF y
<1>6. Rewrites(d, DataPut(d, w, z), w, y) BY <1>3, <1>5, PutWorkflow
<1> QED BY <1>2, <1>4, <1>6 DEF Rewrites

\* The job of a workflow is over in e, and what else its end does may follow.
JobDone(d, e, w, o, st) ==
  /\ e \in Database /\ JobOver(d.wf[w], e.wf[w], o, st)
  /\ \A v \in Workflow \ {w} : Kept(d.wf[v], e.wf[v])

LEMMA DoneFields ==
  ASSUME NEW d \in Database, NEW e, NEW w \in Workflow, NEW o, NEW st, JobDone(d, e, w, o, st),
         d.wf[w].kind # "none"
  PROVE  /\ e \in Database /\ d.wf[w].kind \in Kind /\ e.wf[w].kind = d.wf[w].kind
         /\ e.wf[w] \in WorkflowOf(d.wf[w].kind) /\ e.wf[w].data \in DataOf(d.wf[w].kind)
         /\ e.wf[w].bind = d.wf[w].bind
         /\ d.wf[w].kind = "video_archive" =>
              /\ e.wf[w].data.selected = d.wf[w].data.selected
              /\ e.wf[w].data.torrents = d.wf[w].data.torrents
<1>1. e \in Database /\ d.wf[w].kind \in Kind /\ e.wf[w].kind = d.wf[w].kind
      /\ e.wf[w].bind = d.wf[w].bind /\ DataLike(d.wf[w], e.wf[w])
  BY DatabaseFields, RecordKind DEF JobDone, JobOver
<1>2. e.wf[w] \in WorkflowOf(d.wf[w].kind) BY <1>1, DatabaseFields, RecordKind
<1> QED BY <1>1, <1>2, WorkflowFields DEF DataLike

LEMMA DoneAtOnce ==
  ASSUME NEW d \in Database, NEW w \in Workflow, d.wf[w].kind # "none",
         NEW o \in OperationsOf(d.wf[w].kind),
         NEW st \in { "succeeded", "failed", "abandoned", "cancelled" }
  PROVE  LET e == EndJob(d, w, o, st) IN
         /\ JobDone(d, e, w, o, st) /\ e.row = d.row /\ e.wf[w].status = d.wf[w].status
         /\ e.wf[w].data = d.wf[w].data
<1> DEFINE e == EndJob(d, w, o, st)
<1>1. DataLike(d.wf[w], d.wf[w]) BY DEF DataLike
<1>2. \A v \in Workflow \ {w} : Kept(d.wf[v], d.wf[v]) BY KeptReflexive
<1>3. /\ e \in Database /\ e.row = d.row /\ JobOver(d.wf[w], e.wf[w], o, st)
      /\ e.wf[w].status = d.wf[w].status /\ e.wf[w].data = d.wf[w].data
      /\ \A v \in Workflow \ {w} : Kept(d.wf[v], e.wf[v])
  BY <1>1, <1>2, EndJobOver
<1> HIDE DEF e
<1> QED BY <1>3 DEF JobDone, e

LEMMA DoneRemarks ==
  ASSUME NEW d, NEW e, NEW f, NEW w \in Workflow, NEW o, NEW st, JobDone(d, e, w, o, st),
         Remarks(e, f)
  PROVE  JobDone(d, f, w, o, st) /\ f.wf[w].status = e.wf[w].status
BY JobOverKept, KeptTransitive DEF Remarks, Kept, JobDone

LEMMA DoneData ==
  ASSUME NEW d \in Database, NEW e, NEW w \in Workflow, NEW o, NEW st, JobDone(d, e, w, o, st),
         d.wf[w].kind # "none", NEW z \in DataOf(d.wf[w].kind),
         DataLike(d.wf[w], [ e.wf[w] EXCEPT !.data = z ])
  PROVE  LET f == DataPut(e, w, z) IN
         /\ JobDone(d, f, w, o, st) /\ f.wf[w].status = e.wf[w].status /\ f.row = e.row
         /\ f.wf[w].data = z
<1> DEFINE f == DataPut(e, w, z)
           y == [ e.wf[w] EXCEPT !.data = z ]
<1>1. /\ e \in Database /\ e.wf[w].kind = d.wf[w].kind /\ d.wf[w].kind \in Kind
      /\ e.wf[w] \in WorkflowOf(d.wf[w].kind)
  BY DoneFields
<1>2. /\ f \in Database /\ f.row = e.row /\ f.wf[w] \in WorkflowOf(d.wf[w].kind)
      /\ f.wf[w].kind = e.wf[w].kind /\ f.wf[w].bind = e.wf[w].bind
      /\ f.wf[w].claims = e.wf[w].claims /\ f.wf[w].status = e.wf[w].status
      /\ f.wf[w].cancel = e.wf[w].cancel /\ f.wf[w].job = e.wf[w].job
      /\ f.wf[w].data = z
      /\ \A v \in Workflow \ {w} : f.wf[v] = e.wf[v]
  BY <1>1, DataPutFields
<1>3. y.data = z BY <1>1 DEF WorkflowOf
<1> HIDE DEF f, y
<1>4. DataLike(d.wf[w], f.wf[w])
  <2>1. DataLike(d.wf[w], y) BY DEF y
  <2> QED BY <1>2, <1>3, <2>1 DEF DataLike
<1>5. JobOver(d.wf[w], e.wf[w], o, st) BY DEF JobDone
<1>6. JobOver(d.wf[w], f.wf[w], o, st) BY <1>2, <1>4, <1>5, JobOverData
<1>7. JobDone(d, f, w, o, st) BY <1>2, <1>6 DEF JobDone
<1> QED BY <1>2, <1>7 DEF f

LEMMA DoneStatus ==
  ASSUME NEW d \in Database, NEW e, NEW w \in Workflow, NEW o, NEW st, JobDone(d, e, w, o, st),
         d.wf[w].kind # "none", NEW to \in { "completed", "cancelled" }, NEW ph \in Phase
  PROVE  LET f == EndWorkflow(e, w, to, ph) IN
         /\ JobDone(d, f, w, o, st) /\ f.row = e.row /\ f.wf[w].status = to
         /\ f.wf[w].data = e.wf[w].data
<1> DEFINE f == EndWorkflow(e, w, to, ph)
           y == [ e.wf[w] EXCEPT !.status = to, !.phase = ph ]
<1>1. /\ e \in Database /\ e.wf[w].kind = d.wf[w].kind /\ d.wf[w].kind \in Kind
      /\ e.wf[w] \in WorkflowOf(d.wf[w].kind)
  BY DoneFields
<1>2. y \in WorkflowOf(d.wf[w].kind) /\ Rewrites(e, f, w, y) BY <1>1, EndWorkflowMoves
<1>3. /\ y.status = to /\ y.cancel = e.wf[w].cancel /\ y.claims = e.wf[w].claims
      /\ y.bind = e.wf[w].bind /\ y.data = e.wf[w].data /\ y.job = e.wf[w].job
  BY <1>1 DEF WorkflowOf
<1> HIDE DEF f, y
<1>4. JobOver(d.wf[w], y, o, st)
  <2>1. JobOver(d.wf[w], e.wf[w], o, st) BY DEF JobDone
  <2>2. to \in { d.wf[w].status, "completed", "cancelled" } OBVIOUS
  <2> QED BY <1>1, <1>2, <1>3, <2>1, <2>2, JobOverStatus
<1>5. JobDone(d, f, w, o, st) /\ f.row = e.row /\ f.wf[w] = y
  BY <1>2, <1>4 DEF Rewrites, JobDone
<1> QED BY <1>3, <1>5 DEF f

LEMMA DoneReleases ==
  ASSUME NEW d \in Database, NEW e, NEW w \in Workflow, NEW o \in OperationsOf(d.wf[w].kind),
         NEW st \in { "succeeded", "failed", "abandoned", "cancelled" }, JobDone(d, e, w, o, st),
         d.wf[w].kind # "none", d.wf[w].job[o].status = "running",
         e.wf[w].status = "completed" /\ d.wf[w].status = "active" =>
           ~d.wf[w].cancel \/ d.wf[w].kind \in Uncancellable
  PROVE  /\ FinishIn(d, Release(e, w, o), w, o)
         /\ Release(e, w, o).wf[w].status = e.wf[w].status
         /\ FinishIn(d, Over(Release(e, w, o), w), w, o)
<1> DEFINE f == Release(e, w, o)
           g == Over(f, w)
<1>1. /\ Ending(d, f, w, o) /\ f.wf[w].status = e.wf[w].status
      /\ Ending(d, g, w, o) /\ g.wf[w].status = e.wf[w].status
  BY ReleasedIsEnded DEF JobDone
<1> HIDE DEF f, g
<1>2. FinishIn(d, f, w, o) /\ FinishIn(d, g, w, o) BY <1>1, EndsAtOnce
<1> QED BY <1>1, <1>2 DEF f, g

----------------------------------------------------------------------------
\* The metadata update.

LEMMA MetadataIsKind ==
  /\ "lanraragi_metadata" \in Kind /\ "lanraragi_metadata" # "none"
  /\ "lanraragi_metadata" \notin Uncancellable
BY KindNames, NoneIsNoKind DEF Uncancellable

----------------------------------------------------------------------------
\* The comparison and the cleanup.

LEMMA ScanKinds ==
  /\ "lanraragi_compare" \in Kind /\ "lanraragi_compare" # "none"
  /\ "download_cleanup" \in Kind /\ "download_cleanup" # "none"
  /\ "lanraragi_compare" \notin Uncancellable /\ "download_cleanup" \notin Uncancellable
BY KindNames, NoneIsNoKind DEF Uncancellable

\* Several fields of a payload are written one after the other.
LEMMA DataPutTwice ==
  ASSUME NEW d \in Database, NEW w \in Workflow, d.wf[w].kind # "none",
         NEW z \in DataOf(d.wf[w].kind), NEW y
  PROVE  DataPut(d, w, z).wf[w].data = z /\ DataPut(DataPut(d, w, z), w, y) = DataPut(d, w, y)
<1>1. DataPut(d, w, z).wf[w].data = z BY DataPutFields
<1>2. DataPut(DataPut(d, w, z), w, y) = DataPut(d, w, y) BY DEF DataPut
<1> QED BY <1>1, <1>2

----------------------------------------------------------------------------
(* The actions of the core. *)

LEMMA QueueOperationStep ==
  ASSUME TypeInv, NEW w \in Workflow, NEW o \in DOMAIN db.wf[w].job, QueueOperation(w, o)
  PROVE  CalmStep
<1>1. db.wf[w].kind # "none" /\ db' = Queue(db, w, o) /\ UNCHANGED << sup, proc, qbit >>
  BY DEF QueueOperation, Exists
<1>2. o \in OperationsOf(db.wf[w].kind) BY <1>1, TypedWorkflow
<1> QED BY <1>1, <1>2, QueueStep

LEMMA OnlyThoseHaveJobs ==
  ASSUME TypeInv, NEW w \in Workflow, NEW o \in DOMAIN db.wf[w].job
  PROVE  db.wf[w].kind # "none" /\ db.wf[w].kind \in Kind /\ o \in OperationsOf(db.wf[w].kind)
<1>1. db.wf[w].kind # "none"
  <2> SUFFICES ASSUME db.wf[w].kind = "none" PROVE FALSE OBVIOUS
  <2>1. db.wf[w] = NoWorkflow BY DatabaseFields, RecordKind DEF TypeInv
  <2>2. db.wf[w].job = << >> BY <2>1, NoFields
  <2>3. DOMAIN << >> = {} OBVIOUS
  <2> QED BY <2>2, <2>3
<1> QED BY <1>1, TypedWorkflow

\* A job that is given up is over, whatever phase that leaves.
LEMMA ReleaseExpiredStep ==
  ASSUME TypeInv, NEW w \in Workflow, NEW o \in DOMAIN db.wf[w].job, ReleaseExpired(w, o)
  PROVE  GiveUpStep(w, o)
<1> DEFINE d == EndJob(Release(db, w, o), w, o, "abandoned")
           ph == Def(db, w, o).failure
           e == SetPhase(d, w, o, ph)
<1>1. /\ db.wf[w].job[o].status = "running" /\ db.wf[w].job[o].lease = "expired"
      /\ (ReleaseOnlyStopped => RunBy(w, o) = {})
      /\ UNCHANGED << sup, proc, qbit >> /\ db' = Changed(e, w, o, "failed")
  BY DEF ReleaseExpired
<1>2. /\ db \in Database /\ db.wf[w].kind # "none" /\ db.wf[w].kind \in Kind
      /\ o \in OperationsOf(db.wf[w].kind)
  BY OnlyThoseHaveJobs DEF TypeInv
<1>3. Ending(db, d, w, o) /\ d.wf[w].status = db.wf[w].status
      /\ d \in Database /\ d.wf[w].kind = db.wf[w].kind
  BY <1>1, <1>2, GivenUp
<1>4. ph \in Phase BY <1>2, PhasesOfOperations DEF Def
<1>5. e = IF Def(d, w, o).affects THEN PhasePut(d, w, ph) ELSE d
  BY DEF SetPhase, PhasePut
<1> HIDE DEF d, ph, e
<1>6. Ending(db, PhasePut(d, w, ph), w, o)
      /\ PhasePut(d, w, ph).wf[w].status = d.wf[w].status
  BY <1>2, <1>3, <1>4, EndingPhase
<1>7. Ending(db, e, w, o) /\ e.wf[w].status = db.wf[w].status
  BY <1>3, <1>5, <1>6
<1>8. e \in Database /\ e.wf[w].kind = db.wf[w].kind BY <1>2, <1>7, EndingFields
<1>9. Remarks(e, db') BY <1>1, <1>2, <1>8, ChangedRemarks
<1>10. Ending(db, db', w, o) /\ db'.wf[w].status = db.wf[w].status
  BY <1>2, <1>7, <1>9, EndingRemarks
<1> QED BY <1>1, <1>2, <1>10, GiveUpRecorded

LEMMA WorkerFailsStep ==
  ASSUME TypeInv, NEW p \in Proc, WorkerFails(p) PROVE EndStep(p)
<1>1. /\ Busy(p) /\ Exits(p) /\ qbit' = qbit
      /\ db' = IF Valid(db, proc[p]) THEN Fail(db, proc[p]) ELSE db
  BY DEF WorkerFails
<1>2. CASE ~Valid(db, proc[p]) BY <1>1, <1>2 DEF EndStep
<1>3. CASE Valid(db, proc[p])
  <2> DEFINE c == proc[p]
             f == Fail(db, c)
  <2>1. /\ db \in Database /\ c.w \in Workflow /\ db.wf[c.w].kind # "none"
        /\ c.op \in OperationsOf(db.wf[c.w].kind) /\ db' = f
    BY <1>1, <1>3, TypedProcess DEF TypeInv
  <2>2. Ending(db, f, c.w, c.op) /\ f.wf[c.w].status = db.wf[c.w].status
    BY <2>1, FailEnds
  <2>3. db.wf[c.w].job[c.op].status = "running" BY <1>1, <1>3, ValidRuns
  <2> HIDE DEF f, c
  <2>4. FinishIn(db, f, c.w, c.op) BY <2>1, <2>2, <2>3, EndsAtOnce
  <2> QED BY <1>1, <1>3, <2>1, <2>4, EndsWell DEF c
<1> QED BY <1>2, <1>3

LEMMA WorkerDiesStep ==
  ASSUME NEW p \in Proc, WorkerDies(p) PROVE EndStep(p)
BY DEF WorkerDies, EndStep

LEMMA FlagStep ==
  ASSUME TypeInv, NEW w \in Workflow, NEW o \in DOMAIN db.wf[w].job,
         JobLeaseExpires(w, o) \/ RequestStop(w, o)
  PROVE  CalmStep
<1> DEFINE e == [ db EXCEPT !.wf[w].job[o].lease = "expired" ]
           s == [ db EXCEPT !.wf[w].job[o].stop = TRUE ]
<1>1. UNCHANGED << sup, proc, qbit >> /\ (db' = e \/ db' = s)
  BY DEF JobLeaseExpires, RequestStop
<1>2. db \in Database /\ db.wf[w].kind # "none" /\ o \in OperationsOf(db.wf[w].kind)
  BY OnlyThoseHaveJobs DEF TypeInv
<1>3. CalmIn(db, db, w) BY <1>2, CalmRefl
<1>4. CalmIn(db, e, w) /\ CalmIn(db, s, w) BY <1>2, <1>3, CalmFlags
<1> HIDE DEF e, s
<1> QED BY <1>1, <1>2, <1>4, CalmCommand

LEMMA EditRowStep ==
  ASSUME TypeInv, NEW m \in Manga, EditRow(m) PROVE CalmStep
<1>1. UNCHANGED << sup, proc, qbit >> /\ db' = Touch(db, m) BY DEF EditRow
<1>2. Remarks(db, db') BY <1>1, TouchRemarks DEF TypeInv
<1> QED BY <1>1, <1>2, SameIsSteady DEF CalmStep

LEMMA OrdinaryRows == OrdinaryRow \subseteq Row
<1> SUFFICES ASSUME NEW r \in OrdinaryRow PROVE r \in Row OBVIOUS
<1>1. CASE \E b \in BOOLEAN :
             r = [ status |-> "details_pending", error |-> "none", method |-> "direct",
                   external |-> FALSE, busy |-> b ]
  BY <1>1 DEF Row, RowStatus, RowError
<1>2. CASE \E e \in { "video_torrent", "upload" } :
             r = [ status |-> "manual_review", error |-> e, method |-> "torrent",
                   external |-> FALSE, busy |-> FALSE ]
  BY <1>2 DEF Row, RowStatus, RowError
<1>3. CASE r = [ status |-> "completed", error |-> "none", method |-> "torrent",
                 external |-> FALSE, busy |-> FALSE ]
  BY <1>3 DEF Row, RowStatus, RowError
<1> QED BY <1>1, <1>2, <1>3 DEF OrdinaryRow

LEMMA PipelineStep ==
  ASSUME TypeInv, NEW m \in Manga, PipelineMoves(m) PROVE CalmStep
<1> DEFINE t == Touch(db, m)
<1>1. PICK r \in OrdinaryRow : db' = [ t EXCEPT !.row[m] = r ] BY DEF PipelineMoves
<1>2. r \in Row BY OrdinaryRows
<1>3. Remarks(db, t) BY TouchRemarks DEF TypeInv
<1>4. t \in Database BY <1>3 DEF Remarks
<1> HIDE DEF t
<1>5. Remarks(t, db') BY <1>1, <1>2, <1>4, PutRowRemarks
<1>6. Remarks(db, db') BY <1>3, <1>5, RemarksTransitive
<1>7. sup' = sup /\ proc' = proc BY DEF PipelineMoves
<1>8. qbit' \in QbitType
  <2> DEFINE q == IF db.row[m].external THEN qbit[m] \ { "manual" } ELSE qbit[m]
  <2>1. qbit' = [ qbit EXCEPT ![m] = q ] BY DEF PipelineMoves
  <2>2. q \in SUBSET (Role \cup { "manual" }) BY QbitOf
  <2> HIDE DEF q
  <2> QED BY <2>1, <2>2, QbitAdd
<1>9. Steady BY <1>7, <1>8 DEF Steady, TypeInv
<1> QED BY <1>6, <1>9 DEF CalmStep

LEMMA CancelWorkflowStep ==
  ASSUME TypeInv, NEW w \in Workflow, CancelWorkflow(w) PROVE CalmStep
<1> DEFINE c == CancelQueued(db, w)
           asked == [ c EXCEPT !.wf[w].cancel = TRUE ]
           back == IF db.wf[w].kind = "lanraragi_metadata"
                   THEN Restore(asked, w, Bound(db.wf[w])) ELSE asked
           f == ReleaseAll(EndWorkflow(back, w, "cancelled", "cancelled"), w)
<1>1. /\ db.wf[w].kind \in { "lanraragi_metadata", "lanraragi_compare", "download_cleanup" }
      /\ db.wf[w].status = "active" /\ UNCHANGED << sup, proc, qbit >>
      /\ db' = IF Running(db, w) # {} THEN asked ELSE Over(f, w)
  BY DEF CancelWorkflow, Active
<1>2. /\ db \in Database /\ db.wf[w].kind # "none" /\ db.wf[w].kind \notin Uncancellable
  BY <1>1, MetadataIsKind, ScanKinds DEF TypeInv
<1>3. CalmIn(db, c, w) BY <1>2, CalmCancelQueued
<1>4. Running(db, w) = {} =>
        \A o \in OperationsOf(db.wf[w].kind) :
          db.wf[w].job[o].status # "running" /\ c.wf[w].job[o].status # "running"
  BY <1>2, RunsNone, CancelledQueueRunsNone
<1> HIDE DEF c
<1>5. CalmIn(db, asked, w) /\ asked.wf[w].job = c.wf[w].job BY <1>2, <1>3, CalmAsked
<1> HIDE DEF asked
<1>6. /\ asked \in Database /\ asked.wf[w].kind = db.wf[w].kind
      /\ Bound(asked.wf[w]) = Bound(db.wf[w])
  BY <1>2, <1>5, CalmFields DEF Bound
<1>7. Remarks(asked, back)
  <2>1. CASE db.wf[w].kind = "lanraragi_metadata"
    <3>1. back = Restore(asked, w, Bound(asked.wf[w])) BY <1>6, <2>1
    <3> QED BY <1>6, <2>1, <3>1, RestoreRemarks
  <2>2. CASE db.wf[w].kind # "lanraragi_metadata" BY <1>6, <2>2, RemarksReflexive
  <2> QED BY <2>1, <2>2
<1> HIDE DEF back
<1>8. CalmIn(db, back, w) /\ back.wf[w].job = c.wf[w].job
  <2>1. back.wf[w].job = asked.wf[w].job BY <1>7 DEF Remarks, Kept
  <2> QED BY <1>5, <1>7, <2>1, CalmRemarks
<1>9. CASE Running(db, w) # {} BY <1>1, <1>2, <1>5, <1>9, CalmCommand
<1>10. CASE Running(db, w) = {}
  <2>1. \A o \in OperationsOf(db.wf[w].kind) : back.wf[w].job[o].status # "running"
    BY <1>4, <1>8, <1>10
  <2>2. CloseIn(db, Over(f, w), w)
    BY <1>1, <1>2, <1>4, <1>8, <1>10, <2>1, Closes, PhaseNames
  <2> QED BY <1>1, <1>10, <2>2, CalmCommand
<1> QED BY <1>9, <1>10

\* A job that never started may be put aside like a queued one is.
LEMMA CalmEndJob ==
  ASSUME NEW d \in Database, NEW w \in Workflow, d.wf[w].kind # "none",
         NEW o \in OperationsOf(d.wf[w].kind), d.wf[w].job[o].status # "running",
         NEW st \in { "failed", "abandoned", "cancelled" }
  PROVE  CalmIn(d, EndJob(d, w, o, st), w)
<1> DEFINE x == d.wf[w]
           j == [ NoJob EXCEPT !.status = st, !.no = x.job[o].no ]
           y == [ x EXCEPT !.job[o] = j ]
<1>1. x.kind \in Kind /\ x \in WorkflowOf(x.kind) BY DatabaseFields, RecordKind
<1>2. y \in WorkflowOf(x.kind) /\ Rewrites(d, EndJob(d, w, o, st), w, y)
  BY <1>1, EndJobMoves
<1>3. j.status = st /\ j.no = x.job[o].no BY EndedJobFields
<1>4. x.job[o] \in Job /\ x.job[o].no \in Nat BY <1>1, WorkflowFields, JobFields
<1> HIDE DEF j
<1>5. JobIdles(x.job[o], j) BY <1>3, <1>4 DEF JobIdles
<1>6. /\ y.kind = x.kind /\ y.bind = x.bind /\ y.status = x.status /\ y.claims = x.claims
      /\ y.cancel = x.cancel /\ y.data = x.data /\ y.job = [ x.job EXCEPT ![o] = j ]
  BY <1>1 DEF WorkflowOf
<1>7. \A q \in OperationsOf(x.kind) :
        y.job[q] = IF q = o THEN j ELSE x.job[q]
  BY <1>1, <1>6, WorkflowFields
<1> HIDE DEF y
<1>8. \A q \in OperationsOf(x.kind) : JobSame(x.job[q], y.job[q]) \/ JobIdles(x.job[q], y.job[q])
  BY <1>5, <1>7, JobSameReflexive
<1>9. DataMoves(x, y) BY <1>6 DEF DataMoves
<1>10. CalmOn(x, y) BY <1>6, <1>8, <1>9 DEF CalmOn, AllKeys, WorkKeys
<1>11. Fresh(d, EndJob(d, w, o, st), w) BY <1>2, <1>6 DEF Rewrites, Fresh
<1> QED BY <1>2, <1>10, <1>11, KeptReflexive DEF CalmIn, Rewrites

LEMMA CalmSetPhase ==
  ASSUME NEW d \in Database, NEW e, NEW w \in Workflow, CalmIn(d, e, w), d.wf[w].kind # "none",
         NEW o \in OperationsOf(d.wf[w].kind), NEW ph \in Phase
  PROVE  CalmIn(d, SetPhase(e, w, o, ph), w)
<1> DEFINE f == [ e EXCEPT !.wf[w].phase = ph ]
<1>1. CalmIn(d, f, w) BY CalmPhase
<1>2. SetPhase(e, w, o, ph) = IF Def(e, w, o).affects THEN f ELSE e BY DEF SetPhase
<1> HIDE DEF f
<1> QED BY <1>1, <1>2

LEMMA CalmChanged ==
  ASSUME NEW d \in Database, NEW e, NEW w \in Workflow, CalmIn(d, e, w), d.wf[w].kind # "none",
         NEW o \in OperationsOf(d.wf[w].kind), NEW event
  PROVE  CalmIn(d, Changed(e, w, o, event), w)
<1>1. e \in Database /\ e.wf[w].kind = d.wf[w].kind BY CalmFields
<1>2. Remarks(e, Changed(e, w, o, event)) BY <1>1, ChangedRemarks
<1> QED BY <1>2, CalmRemarks

LEMMA FailMisplacedStep ==
  ASSUME TypeInv, NEW w \in Workflow, NEW o \in DOMAIN db.wf[w].job, FailMisplacedJob(w, o)
  PROVE  CalmStep
<1> DEFINE d == EndJob(db, w, o, "failed")
           ph == Def(db, w, o).failure
           e == SetPhase(d, w, o, ph)
<1>1. db.wf[w].job[o].status = "queued" /\ db' = Changed(e, w, o, "failed")
      /\ UNCHANGED << sup, proc, qbit >>
  BY DEF FailMisplacedJob, Eligible
<1>2. /\ db \in Database /\ db.wf[w].kind # "none" /\ db.wf[w].kind \in Kind
      /\ o \in OperationsOf(db.wf[w].kind)
  BY OnlyThoseHaveJobs DEF TypeInv
<1>3. ph \in Phase BY <1>2, PhasesOfOperations DEF Def
<1>4. CalmIn(db, d, w) BY <1>1, <1>2, CalmEndJob
<1> HIDE DEF d, ph
<1>5. CalmIn(db, e, w) BY <1>2, <1>3, <1>4, CalmSetPhase
<1> HIDE DEF e
<1>6. CalmIn(db, db', w) BY <1>1, <1>2, <1>5, CalmChanged
<1> QED BY <1>1, <1>2, <1>6, CalmCommand

----------------------------------------------------------------------------
\* While a job is claimed: what it needs is claimed for it, and only for it.
ClaimIn(d, e, w, o) ==
  LET x == d.wf[w]
      y == e.wf[w]
  IN /\ e \in Database /\ Fresh(d, e, w)
     /\ \A v \in Workflow \ {w} : Kept(d.wf[v], e.wf[v])
     /\ y.kind = x.kind /\ y.bind = x.bind /\ y.status = x.status /\ y.cancel = x.cancel
     /\ DataMoves(x, y)
     /\ WorkKeys(x) = WorkKeys(y) /\ AllKeys(x) \subseteq AllKeys(y)
     /\ ResourcesOf(d, w) \subseteq AllKeys(y)
     /\ \A c \in y.claims : c \in x.claims \/ (c.op = o /\ c.no = x.job[o].no)
     /\ \A q \in OperationsOf(x.kind) \ {o} : y.job[q] = x.job[q]

LEMMA ClaimRemarks ==
  ASSUME NEW d \in Database, NEW e, NEW f, NEW w \in Workflow, d.wf[w].kind # "none",
         NEW o, ClaimIn(d, e, w, o), Remarks(e, f)
  PROVE  ClaimIn(d, f, w, o) /\ f.wf[w].job = e.wf[w].job
<1>1. d.wf[w].kind \in Kind BY DatabaseFields, RecordKind
<1>2. f \in Database /\ \A v \in Workflow : Kept(e.wf[v], f.wf[v]) BY DEF Remarks
<1>3. \A v \in Workflow \ {w} : Kept(d.wf[v], f.wf[v])
  BY <1>2, KeptTransitive DEF ClaimIn
<1>4. DataMoves(d.wf[w], f.wf[w])
  <2>1. Kept(e.wf[w], f.wf[w]) BY <1>2
  <2> QED BY <1>1, <2>1, DataMovesLike DEF ClaimIn, Kept
<1>5. Fresh(d, f, w) BY <1>2 DEF Kept, Fresh, ClaimIn
<1>6. WorkKeys(f.wf[w]) = WorkKeys(e.wf[w]) /\ AllKeys(f.wf[w]) = AllKeys(e.wf[w])
  BY <1>2 DEF Kept, WorkKeys, AllKeys
<1> QED BY <1>2, <1>3, <1>4, <1>5, <1>6 DEF ClaimIn, Kept

LEMMA ClaimWrites ==
  ASSUME NEW d \in Database, NEW e, NEW w \in Workflow, d.wf[w].kind # "none",
         NEW o \in OperationsOf(d.wf[w].kind), ClaimIn(d, e, w, o),
         NEW y, y.kind = e.wf[w].kind, y.bind = e.wf[w].bind, y.status = e.wf[w].status,
         y.cancel = e.wf[w].cancel, y.claims = e.wf[w].claims, DataMoves(d.wf[w], y),
         \A q \in OperationsOf(d.wf[w].kind) \ {o} : y.job[q] = e.wf[w].job[q],
         NEW f, Rewrites(e, f, w, y)
  PROVE  ClaimIn(d, f, w, o)
<1>1. Fresh(d, f, w) BY DEF Rewrites, ClaimIn, Fresh
<1>2. WorkKeys(y) = WorkKeys(e.wf[w]) /\ AllKeys(y) = AllKeys(e.wf[w])
  BY DEF WorkKeys, AllKeys
<1> QED BY <1>1, <1>2 DEF Rewrites, ClaimIn

LEMMA ResourcesAreKeys ==
  ASSUME NEW d \in Database, NEW w \in Workflow, d.wf[w].kind # "none"
  PROVE  ResourcesOf(d, w) \in SUBSET Key
<1>1. d.wf[w].kind \in Kind /\ d.wf[w] \in WorkflowOf(d.wf[w].kind)
  BY DatabaseFields, RecordKind
<1>2. Bound(d.wf[w]) \subseteq Manga BY <1>1, BoundRows
<1>3. { MangaKey(m) : m \in Bound(d.wf[w]) } \subseteq Key BY <1>2, MangaKeyIsKey
<1>4. InstanceKey \in Key /\ CleanupKey \in Key BY DEF Key
<1> QED BY <1>3, <1>4 DEF ResourcesOf

LEMMA AcquiredForAJob ==
  ASSUME NEW d \in Database, NEW w \in Workflow, d.wf[w].kind # "none",
         NEW o \in OperationsOf(d.wf[w].kind), Free(d, w, ResourcesOf(d, w))
  PROVE  LET e == Acquire(d, w, ResourcesOf(d, w), o, d.wf[w].job[o].no) IN
         ClaimIn(d, e, w, o) /\ e.wf[w].job = d.wf[w].job /\ e.wf[w].data = d.wf[w].data
<1> DEFINE x == d.wf[w]
           keys == ResourcesOf(d, w)
           no == x.job[o].no
           cs == { c \in x.claims : c.key \notin keys \/ c.key \in WorkKeys(x) }
                    \cup { [ key |-> key, op |-> o, no |-> no ]
                             : key \in keys \ WorkKeys(x) }
           z == [ x EXCEPT !.claims = cs ]
           e == Acquire(d, w, keys, o, no)
<1>1. x.kind \in Kind /\ x \in WorkflowOf(x.kind) BY DatabaseFields, RecordKind
<1>2. o \in OpName /\ o # ByWorkflow BY <1>1, OperationIsName
<1>3. no \in Nat BY <1>1, WorkflowFields, JobFields
<1>4. keys \in SUBSET Key BY ResourcesAreKeys
<1> HIDE DEF keys, no
<1>5. z \in WorkflowOf(x.kind) /\ Rewrites(d, e, w, z) BY <1>2, <1>3, <1>4, AcquireMoves
<1>6. /\ z.kind = x.kind /\ z.bind = x.bind /\ z.status = x.status /\ z.claims = cs
      /\ z.cancel = x.cancel /\ z.data = x.data /\ z.job = x.job
  BY <1>1 DEF WorkflowOf
<1> HIDE DEF z, e
<1>7. \A key \in keys \ WorkKeys(x) : [ key |-> key, op |-> o, no |-> no ] \in z.claims
  BY <1>6
<1>8. WorkKeys(z) = WorkKeys(x)
  <2>1. ASSUME NEW c \in x.claims, c.op = ByWorkflow PROVE c.key \in WorkKeys(z)
    <3>1. c.key \in WorkKeys(x) BY <2>1 DEF WorkKeys
    <3>2. c \in z.claims BY <1>6, <3>1
    <3> QED BY <2>1, <3>2 DEF WorkKeys
  <2>2. ASSUME NEW c \in z.claims, c.op = ByWorkflow PROVE c.key \in WorkKeys(x)
    <3>1. c \in x.claims BY <1>2, <1>6, <2>2
    <3> QED BY <2>2, <3>1 DEF WorkKeys
  <2> QED BY <2>1, <2>2 DEF WorkKeys
<1>9. keys \subseteq AllKeys(z)
  <2> SUFFICES ASSUME NEW key \in keys PROVE key \in AllKeys(z) OBVIOUS
  <2>1. CASE key \in WorkKeys(x)
    BY <1>8, <2>1 DEF WorkKeys, AllKeys
  <2>2. CASE key \notin WorkKeys(x)
    <3>1. [ key |-> key, op |-> o, no |-> no ] \in z.claims BY <1>7, <2>2
    <3> QED BY <3>1 DEF AllKeys
  <2> QED BY <2>1, <2>2
<1>10. AllKeys(x) \subseteq AllKeys(z)
  <2> SUFFICES ASSUME NEW c \in x.claims PROVE c.key \in AllKeys(z) BY DEF AllKeys
  <2>1. CASE c.key \in keys BY <1>9, <2>1
  <2>2. CASE c.key \notin keys
    <3>1. c \in z.claims BY <1>6, <2>2
    <3> QED BY <3>1 DEF AllKeys
  <2> QED BY <2>1, <2>2
<1>11. \A c \in z.claims : c \in x.claims \/ (c.op = o /\ c.no = no /\ c.key \in keys)
  BY <1>6
<1>12. Fresh(d, e, w)
  <2>1. \A v \in Workflow \ {w} : AllKeys(d.wf[v]) \cap keys = {}
    BY DEF Free, Keys, AllKeys, keys
  <2> QED BY <1>5, <1>11, <2>1 DEF Rewrites, Fresh
<1>13. DataMoves(x, z) BY <1>6 DEF DataMoves
<1>14. \A v \in Workflow \ {w} : Kept(d.wf[v], e.wf[v])
  BY <1>5, KeptReflexive DEF Rewrites
<1>15. e.wf[w] = z /\ e \in Database BY <1>5 DEF Rewrites
<1>16. ClaimIn(d, e, w, o)
  BY <1>6, <1>8, <1>9, <1>10, <1>11, <1>12, <1>13, <1>14, <1>15 DEF ClaimIn, keys, no
<1> QED BY <1>6, <1>15, <1>16 DEF e, keys, no

NotedPut(e, w, owner) ==
  [ e EXCEPT !.wf[w].data.owner = owner, !.wf[w].data.started = TRUE ]

RunPut(e, w, o, owner) ==
  [ e EXCEPT !.wf[w].job[o] =
      [ @ EXCEPT !.status = "running", !.owner = owner, !.lease = "live" ] ]

LEMMA CollectionIsKind == "full_collect" \in Kind /\ "full_collect" # "none"
BY KindNames

LEMMA ClaimNotes ==
  ASSUME NEW d \in Database, NEW e, NEW w \in Workflow, d.wf[w].kind = "full_collect",
         NEW o \in OperationsOf("full_collect"), ClaimIn(d, e, w, o),
         NEW owner \in 0 .. MaxOwner
  PROVE  LET f == NotedPut(e, w, owner) IN
         ClaimIn(d, f, w, o) /\ f.wf[w].job = e.wf[w].job
<1> DEFINE z1 == [ e.wf[w].data EXCEPT !.owner = owner ]
           f1 == [ e EXCEPT !.wf[w].data.owner = owner ]
           z2 == [ f1.wf[w].data EXCEPT !.started = TRUE ]
           z == [ z1 EXCEPT !.started = TRUE ]
           f == [ f1 EXCEPT !.wf[w].data.started = TRUE ]
           y == [ e.wf[w] EXCEPT !.data = z ]
<1>1. /\ e \in Database /\ e.wf[w].kind = "full_collect" /\ e.wf[w].kind # "none"
      /\ e.wf[w] \in WorkflowOf("full_collect") /\ d.wf[w].kind # "none"
  BY DatabaseFields, RecordKind, CollectionIsKind DEF ClaimIn
<1>2. e.wf[w].data \in DataOf("full_collect") BY <1>1, WorkflowFields, CollectionIsKind
<1>3. z1 \in DataOf("full_collect") /\ z1.cursor = e.wf[w].data.cursor
  BY <1>2, RoundDataFields DEF DataOf
<1>4. f1 = DataPut(e, w, z1) BY DEF DataPut
<1> HIDE DEF z1
<1>5. z \in DataOf("full_collect") /\ z.cursor = e.wf[w].data.cursor
  BY <1>3, RoundDataFields DEF DataOf
<1> HIDE DEF f1
<1>6. f = DataPut(f1, w, z2) BY DEF DataPut
<1>7. f1.wf[w].data = z1 BY <1>1, <1>3, <1>4, DataPutTwice
<1>8. z2 = z BY <1>7
<1> HIDE DEF z2, z
<1>9. f = DataPut(e, w, z) BY <1>1, <1>3, <1>4, <1>6, <1>8, DataPutTwice
<1> HIDE DEF f
<1>10. y \in WorkflowOf("full_collect") BY <1>1, <1>5, PutData, CollectionIsKind
<1>11. y \in Record BY <1>10, WorkflowIsRecord, CollectionIsKind
<1>12. Rewrites(e, f, w, y)
  <2>1. f = [ e EXCEPT !.wf[w] = y ] BY <1>9 DEF DataPut
  <2> HIDE DEF y
  <2> QED BY <1>1, <1>11, <2>1, PutWorkflow
<1>13. /\ y.kind = e.wf[w].kind /\ y.bind = e.wf[w].bind /\ y.status = e.wf[w].status
       /\ y.cancel = e.wf[w].cancel /\ y.claims = e.wf[w].claims /\ y.job = e.wf[w].job
       /\ y.data = z
  BY <1>1 DEF WorkflowOf
<1> HIDE DEF y
<1>14. DataMoves(d.wf[w], y)
  BY <1>1, <1>5, <1>13 DEF DataMoves, ClaimIn
<1>15. ClaimIn(d, f, w, o) BY <1>1, <1>12, <1>13, <1>14, ClaimWrites
<1>16. f = NotedPut(e, w, owner) BY DEF f, f1, NotedPut
<1>17. f.wf[w].job = e.wf[w].job BY <1>12, <1>13 DEF Rewrites
<1> QED BY <1>15, <1>16, <1>17

LEMMA ClaimRuns ==
  ASSUME NEW d \in Database, NEW e, NEW w \in Workflow, d.wf[w].kind # "none",
         NEW o \in OperationsOf(d.wf[w].kind), ClaimIn(d, e, w, o),
         e.wf[w].job = d.wf[w].job, NEW owner \in 0 .. MaxOwner
  PROVE  LET f == RunPut(e, w, o, owner)
         IN /\ ClaimIn(d, f, w, o)
            /\ f.wf[w].job[o].status = "running" /\ f.wf[w].job[o].no = d.wf[w].job[o].no
<1> DEFINE j0 == e.wf[w].job[o]
           j == [ j0 EXCEPT !.status = "running", !.owner = owner, !.lease = "live" ]
           y == [ e.wf[w] EXCEPT !.job[o] = j ]
           f == RunPut(e, w, o, owner)
<1>1. /\ e \in Database /\ d.wf[w].kind \in Kind /\ e.wf[w].kind = d.wf[w].kind
      /\ e.wf[w] \in WorkflowOf(d.wf[w].kind)
  BY DatabaseFields, RecordKind DEF ClaimIn
<1>2. j0 \in Job BY <1>1, WorkflowFields
<1>3. f = [ e EXCEPT !.wf[w] = y ] BY DEF RunPut
<1> HIDE DEF j0
<1>4. j \in Job /\ j.status = "running" /\ j.no = j0.no BY <1>2 DEF Job
<1> HIDE DEF j, f
<1>5. y \in WorkflowOf(d.wf[w].kind) BY <1>1, <1>4, PutJob
<1>6. /\ y.kind = e.wf[w].kind /\ y.bind = e.wf[w].bind /\ y.status = e.wf[w].status
      /\ y.cancel = e.wf[w].cancel /\ y.claims = e.wf[w].claims /\ y.data = e.wf[w].data
      /\ y.job = [ e.wf[w].job EXCEPT ![o] = j ]
  BY <1>1 DEF WorkflowOf
<1> HIDE DEF y
<1>7. e.wf[w].job \in [OperationsOf(d.wf[w].kind) -> Job] BY <1>1, WorkflowFields
<1>8. /\ y.job[o] = j
      /\ \A q \in OperationsOf(d.wf[w].kind) \ {o} : y.job[q] = e.wf[w].job[q]
  BY <1>6, <1>7
<1>9. Rewrites(e, f, w, y) BY <1>1, <1>3, <1>5, PutWorkflow, WorkflowIsRecord
<1>10. DataMoves(d.wf[w], y)
  <2>1. WorkKeys(y) = WorkKeys(e.wf[w]) BY <1>6 DEF WorkKeys
  <2> QED BY <1>6, <2>1 DEF DataMoves, ClaimIn
<1>11. ClaimIn(d, f, w, o) BY <1>1, <1>6, <1>8, <1>9, <1>10, ClaimWrites
<1>12. f.wf[w] = y BY <1>9 DEF Rewrites
<1> QED BY <1>4, <1>8, <1>11, <1>12 DEF f, j0

LEMMA ClaimSetsPhase ==
  ASSUME NEW d \in Database, NEW e, NEW w \in Workflow, d.wf[w].kind # "none",
         NEW o \in OperationsOf(d.wf[w].kind), ClaimIn(d, e, w, o), NEW ph \in Phase
  PROVE  ClaimIn(d, SetPhase(e, w, o, ph), w, o)
         /\ SetPhase(e, w, o, ph).wf[w].job = e.wf[w].job
<1> DEFINE y == IF Def(e, w, o).affects THEN [ e.wf[w] EXCEPT !.phase = ph ] ELSE e.wf[w]
           f == SetPhase(e, w, o, ph)
<1>1. /\ e \in Database /\ d.wf[w].kind \in Kind /\ e.wf[w].kind = d.wf[w].kind
      /\ e.wf[w] \in WorkflowOf(d.wf[w].kind)
  BY DatabaseFields, RecordKind DEF ClaimIn
<1>2. Rewrites(e, f, w, y) BY <1>1, SetPhaseMoves
<1>3. /\ y.kind = e.wf[w].kind /\ y.bind = e.wf[w].bind /\ y.status = e.wf[w].status
      /\ y.cancel = e.wf[w].cancel /\ y.claims = e.wf[w].claims /\ y.data = e.wf[w].data
      /\ y.job = e.wf[w].job
  BY <1>1 DEF WorkflowOf
<1> HIDE DEF y, f
<1>4. DataMoves(d.wf[w], y)
  <2>1. WorkKeys(y) = WorkKeys(e.wf[w]) BY <1>3 DEF WorkKeys
  <2> QED BY <1>3, <2>1 DEF DataMoves, ClaimIn
<1>5. ClaimIn(d, f, w, o) BY <1>2, <1>3, <1>4, ClaimWrites
<1> QED BY <1>2, <1>3, <1>5 DEF Rewrites, f

LEMMA ClaimJobStep ==
  ASSUME TypeInv, NEW w \in Workflow, NEW o \in DOMAIN db.wf[w].job, NEW p \in Proc,
         ClaimJob(w, o, p)
  PROVE  ClaimStep(w, o, p)
<1> DEFINE kept == Acquire(db, w, ResourcesOf(db, w), o, db.wf[w].job[o].no)
           owned == IF db.wf[w].kind \in Recoverable
                    THEN NotedPut(kept, w, sup.owner) ELSE kept
           run == RunPut(owned, w, o, sup.owner)
           ph == Def(db, w, o).running
           f == SetPhase(run, w, o, ph)
<1>1. /\ Eligible(w, o) /\ proc[p] = NoClaim /\ Free(db, w, ResourcesOf(db, w))
      /\ db' = Changed(f, w, o, "claimed")
      /\ proc' = [ proc EXCEPT ![p] = Started(w, o) ] /\ sup' = sup /\ qbit' = qbit
  BY DEF ClaimJob, NotedPut, RunPut
<1>2. /\ db \in Database /\ db.wf[w].kind # "none" /\ db.wf[w].kind \in Kind
      /\ o \in OperationsOf(db.wf[w].kind) /\ sup.owner \in 0 .. MaxOwner
  BY OnlyThoseHaveJobs DEF TypeInv, SupervisorRow
<1>3. /\ db.wf[w].job[o].status = "queued"
      /\ db.wf[w].status \in Definition[db.wf[w].kind][o].statuses
  BY <1>1 DEF Eligible, Def
<1>4. \A q \in OperationsOf(db.wf[w].kind) : db.wf[w].job[q].status # "running"
  BY <1>1, <1>2, RunsNone DEF Eligible
<1>5. ph \in Phase BY <1>2, PhasesOfOperations DEF Def
<1>6. ClaimIn(db, kept, w, o) /\ kept.wf[w].job = db.wf[w].job
  BY <1>1, <1>2, AcquiredForAJob
<1> HIDE DEF kept, ph
<1>7. ClaimIn(db, owned, w, o) /\ owned.wf[w].job = db.wf[w].job
  <2>1. CASE db.wf[w].kind \in Recoverable
    <3>1. db.wf[w].kind = "full_collect" BY <2>1 DEF Recoverable
    <3> QED BY <1>2, <1>6, <2>1, <3>1, ClaimNotes
  <2>2. CASE db.wf[w].kind \notin Recoverable BY <1>6, <2>2
  <2> QED BY <2>1, <2>2
<1> HIDE DEF owned
<1>8. /\ ClaimIn(db, run, w, o)
      /\ run.wf[w].job[o].status = "running" /\ run.wf[w].job[o].no = db.wf[w].job[o].no
  BY <1>2, <1>7, ClaimRuns
<1> HIDE DEF run
<1>9. ClaimIn(db, f, w, o) /\ f.wf[w].job = run.wf[w].job
  BY <1>2, <1>5, <1>8, ClaimSetsPhase
<1> HIDE DEF f
<1>10. Remarks(f, db')
  <2>1. f \in Database /\ f.wf[w].kind = db.wf[w].kind BY <1>9 DEF ClaimIn
  <2> QED BY <1>1, <1>2, <2>1, ChangedRemarks
<1>11. ClaimIn(db, db', w, o) /\ db'.wf[w].job = run.wf[w].job
  BY <1>2, <1>9, <1>10, ClaimRemarks
<1> QED BY <1>1, <1>2, <1>3, <1>4, <1>8, <1>11 DEF ClaimIn, ClaimStep

\* What is still written of the workflow once the job has ended.
LEMMA FinishWrites ==
  ASSUME NEW d \in Database, NEW e, NEW w \in Workflow, d.wf[w].kind # "none",
         NEW o, FinishIn(d, e, w, o),
         NEW y, y.kind = e.wf[w].kind, y.bind = e.wf[w].bind, y.status = e.wf[w].status,
         y.claims = e.wf[w].claims, y.job = e.wf[w].job, y.cancel = e.wf[w].cancel,
         DataMoves(d.wf[w], y),
         NEW f, Rewrites(e, f, w, y)
  PROVE  FinishIn(d, f, w, o)
<1>1. WorkKeys(y) = WorkKeys(e.wf[w]) BY DEF WorkKeys
<1>2. JobEnds(d.wf[w], y, o) BY <1>1 DEF FinishIn, Finished, JobEnds
<1>3. StatusMoves(d.wf[w], y) BY DEF FinishIn, Finished, StatusMoves
<1> QED BY <1>2, <1>3 DEF FinishIn, Finished, Rewrites

LEMMA FinishFields ==
  ASSUME NEW d \in Database, NEW e, NEW w \in Workflow, NEW o, FinishIn(d, e, w, o),
         d.wf[w].kind # "none"
  PROVE  e \in Database /\ d.wf[w].kind \in Kind /\ e.wf[w].kind = d.wf[w].kind
         /\ e.wf[w] \in WorkflowOf(d.wf[w].kind)
<1>1. e \in Database /\ d.wf[w].kind \in Kind /\ e.wf[w].kind = d.wf[w].kind
  BY DatabaseFields, RecordKind DEF FinishIn, Finished, JobEnds
<1> QED BY <1>1, DatabaseFields, RecordKind

LEMMA FinishData ==
  ASSUME NEW d \in Database, NEW e, NEW w \in Workflow, d.wf[w].kind = "full_collect",
         NEW o, FinishIn(d, e, w, o), NEW z \in DataOf("full_collect"),
         z.cursor = e.wf[w].data.cursor
  PROVE  /\ FinishIn(d, DataPut(e, w, z), w, o)
         /\ DataPut(e, w, z).wf[w].status = e.wf[w].status
<1> DEFINE y == [ e.wf[w] EXCEPT !.data = z ]
<1>1. /\ e \in Database /\ e.wf[w].kind = "full_collect" /\ d.wf[w].kind # "none"
      /\ e.wf[w] \in WorkflowOf("full_collect")
  BY FinishFields, CollectionIsKind
<1>2. y \in WorkflowOf("full_collect") BY <1>1, PutData, CollectionIsKind
<1>3. y \in Record BY <1>2, WorkflowIsRecord, CollectionIsKind
<1>4. /\ y.kind = e.wf[w].kind /\ y.bind = e.wf[w].bind /\ y.status = e.wf[w].status
      /\ y.claims = e.wf[w].claims /\ y.job = e.wf[w].job /\ y.cancel = e.wf[w].cancel
      /\ y.data = z
  BY <1>1 DEF WorkflowOf
<1>5. DataPut(e, w, z) = [ e EXCEPT !.wf[w] = y ] BY DEF DataPut
<1> HIDE DEF y
<1>6. Rewrites(e, DataPut(e, w, z), w, y) BY <1>1, <1>3, <1>5, PutWorkflow
<1>7. DataMoves(d.wf[w], y)
  BY <1>1, <1>4 DEF DataMoves, FinishIn, Finished
<1>8. FinishIn(d, DataPut(e, w, z), w, o) BY <1>1, <1>4, <1>6, <1>7, FinishWrites
<1> QED BY <1>4, <1>6, <1>8 DEF Rewrites

LEMMA CloseData ==
  ASSUME NEW d \in Database, NEW e, NEW w \in Workflow, d.wf[w].kind = "full_collect",
         CloseIn(d, e, w), NEW z \in DataOf("full_collect")
  PROVE  CloseIn(d, DataPut(e, w, z), w)
<1>1. e \in Database /\ e.wf[w].kind = "full_collect" /\ e.wf[w].kind # "none"
  BY CollectionIsKind DEF CloseIn, Closed
<1> DEFINE f == DataPut(e, w, z)
<1>2. /\ f \in Database
      /\ f.wf[w].kind = e.wf[w].kind /\ f.wf[w].bind = e.wf[w].bind
      /\ f.wf[w].claims = e.wf[w].claims /\ f.wf[w].status = e.wf[w].status
      /\ f.wf[w].cancel = e.wf[w].cancel /\ f.wf[w].job = e.wf[w].job
      /\ \A v \in Workflow \ {w} : f.wf[v] = e.wf[v]
  BY <1>1, DataPutFields
<1> HIDE DEF f
<1> QED BY <1>2 DEF CloseIn, Closed, f
=============================================================================
