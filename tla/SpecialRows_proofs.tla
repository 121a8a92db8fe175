------------------------- MODULE SpecialRows_proofs -------------------------
(***************************************************************************)
(* The rows special processing keeps from the ordinary pipeline: that each *)
(* is kept by exactly one workflow, that a torrent submitted by hand stays *)
(* on record, and the types.                                               *)
(*                                                                         *)
(* A step seldom touches what these invariants speak of: most steps only   *)
(* move the phase, the jobs or the claims of a workflow and leave every    *)
(* row where it is (Rests).  The others begin a workflow (Begins), end one *)
(* that holds rows (GivesBack) or move a metadata update (Updates).        *)
(***************************************************************************)
EXTENDS SpecialWork_proofs

----------------------------------------------------------------------------
\* The invariants, of a database.

\* The kinds that take a row over when they start, and the kinds that can hold one.
Takers == { "video_archive", "manual_torrent" }
Holders == Takers \cup { "lanraragi_metadata" }

Open(x, o) == x.job[o].status \in { "queued", "running" }

Keeps(x, m) ==
  /\ x.status = "active" /\ m \in Bound(x) /\ x.kind \in Holders
  /\ x.kind = "lanraragi_metadata" => m \in x.data.reserved /\ Open(x, "apply")

RowSound(r) ==
  /\ r.status = "special_processing" => ~r.busy
  /\ r.external => r.status = "downloading" /\ r.method = "torrent"

\* A metadata update is about its rows only, and its phase says which of its two
\* operations is open.
UpdateInOrder(x) ==
  /\ Ready(x) \subseteq Bound(x) /\ x.data.reserved \subseteq Bound(x)
  /\ x.job["scan"].status = "queued" => x.phase = "queued"
  /\ x.job["scan"].status = "running" => x.phase = "scanning"
  /\ x.job["apply"].status = "queued" => x.phase = "awaiting_confirmation"
  /\ x.job["apply"].status = "running" => x.phase = "applying"

InOrder(x) ==
  x.kind = "lanraragi_metadata" =>
    IF x.status = "active" THEN UpdateInOrder(x)
    ELSE \A o \in { "scan", "apply" } : ~Open(x, o)

RowsSound(d) == \A m \in Manga : RowSound(d.row[m])

AllInOrder(d) == \A w \in Workflow : InOrder(d.wf[w])

KeptBySome(d) ==
  \A m \in Manga :
    d.row[m].status = "special_processing" => \E w \in Workflow : Keeps(d.wf[w], m)

TakersHold(d) ==
  \A w \in Workflow :
    d.wf[w].kind \in Takers /\ d.wf[w].status = "active" =>
      \A m \in Bound(d.wf[w]) : d.row[m].status = "special_processing"

RowsIn(d) == RowsSound(d) /\ AllInOrder(d) /\ KeptBySome(d) /\ TakersHold(d)

\* No row is bound to two workflows that are open.
BoundOnce(d) ==
  \A u, v \in Workflow :
    u # v /\ d.wf[u].status = "active" /\ d.wf[v].status = "active" =>
      Bound(d.wf[u]) \cap Bound(d.wf[v]) = {}

\* Whether the torrent submitted for a row is on record.
Remembers(x, m) ==
  /\ x.kind = "manual_torrent" /\ x.status = "active"
  /\ m \in Bound(x) /\ x.data.submission

OnRecord(d, m) == d.row[m].external \/ \E w \in Workflow : Remembers(d.wf[w], m)

\* A round does not go past the end of its range.
RoundInRange(x) ==
  x.kind = "full_collect" =>
    /\ x.data.cursor <= LastPage
    /\ x.status = "active" /\ x.data.cursor = LastPage => x.data.end

CursorIn(d) == \A w \in Workflow : RoundInRange(d.wf[w])

----------------------------------------------------------------------------
\* A step that leaves the rows where they are.

UpdateLike(x, y) ==
  IF x.status = "active"
  THEN /\ y.phase = x.phase /\ y.data.ready = x.data.ready
       /\ y.data.reserved = x.data.reserved
       /\ \A o \in { "scan", "apply" } : y.job[o].status = x.job[o].status
  ELSE \A o \in { "scan", "apply" } : Open(y, o) => Open(x, o)

RoundLike(x, y) ==
  IF y.status = "active"
  THEN x.status = "active" /\ y.data.cursor = x.data.cursor /\ y.data.end = x.data.end
  ELSE y.data.cursor \in { x.data.cursor, 0 }

Alike(x, y) ==
  /\ y.kind = x.kind /\ y.bind = x.bind
  /\ x.kind \in Holders => y.status = x.status
  /\ x.kind = "manual_torrent" =>
       (x.status = "active" /\ x.data.submission => y.data.submission)
  /\ x.kind = "lanraragi_metadata" => UpdateLike(x, y)
  /\ x.kind = "full_collect" => RoundLike(x, y)

RowLike(r, s) ==
  s.status = r.status /\ s.busy = r.busy /\ s.method = r.method /\ s.external = r.external

RowsLike(d, e) == \A m \in Manga : RowLike(d.row[m], e.row[m])

OthersAlike(d, e, w) == \A v \in Workflow \ {w} : Alike(d.wf[v], e.wf[v])

Rests(d, e) ==
  e \in Database /\ RowsLike(d, e) /\ \A v \in Workflow : Alike(d.wf[v], e.wf[v])

LEMMA HolderNames ==
  /\ Holders = { "video_archive", "manual_torrent", "lanraragi_metadata" }
  /\ Takers = { "video_archive", "manual_torrent" }
  /\ "full_collect" \notin Holders /\ "lanraragi_compare" \notin Holders
  /\ "download_cleanup" \notin Holders /\ "none" \notin Holders
BY DEF Holders, Takers

LEMMA AlikeReflexive == ASSUME NEW x PROVE Alike(x, x)
BY DEF Alike, UpdateLike, RoundLike

LEMMA AlikeTransitive ==
  ASSUME NEW x, NEW y, NEW z, Alike(x, y), Alike(y, z) PROVE Alike(x, z)
<1>1. z.kind = x.kind /\ z.bind = x.bind /\ (x.kind \in Holders => z.status = x.status)
  BY DEF Alike
<1>2. x.kind = "lanraragi_metadata" => UpdateLike(x, z)
  BY DEF Alike, UpdateLike, Holders
<1>3. x.kind = "full_collect" => RoundLike(x, z)
  BY DEF Alike, RoundLike
<1>4. x.kind = "manual_torrent" =>
        (x.status = "active" /\ x.data.submission => z.data.submission)
  BY DEF Alike, Holders, Takers
<1> QED BY <1>1, <1>2, <1>3, <1>4 DEF Alike

LEMMA RestsReflexive == ASSUME NEW d \in Database PROVE Rests(d, d)
BY AlikeReflexive DEF Rests, RowsLike, RowLike

LEMMA RestsTransitive ==
  ASSUME NEW d, NEW e, NEW f, Rests(d, e), Rests(e, f) PROVE Rests(d, f)
<1>1. RowsLike(d, f) BY DEF Rests, RowsLike, RowLike
<1>2. \A v \in Workflow : Alike(d.wf[v], f.wf[v]) BY AlikeTransitive DEF Rests
<1> QED BY <1>1, <1>2 DEF Rests

LEMMA OthersAlikeTransitive ==
  ASSUME NEW d, NEW e, NEW f, NEW w, OthersAlike(d, e, w), OthersAlike(e, f, w)
  PROVE  OthersAlike(d, f, w)
BY AlikeTransitive DEF OthersAlike

LEMMA AlikeKeeps ==
  ASSUME NEW x, NEW y, Alike(x, y), NEW m, Keeps(x, m) PROVE Keeps(y, m)
BY DEF Alike, Keeps, UpdateLike, Bound, Open

LEMMA AlikeInOrder ==
  ASSUME NEW x, NEW y, Alike(x, y), InOrder(x) PROVE InOrder(y)
<1> SUFFICES ASSUME x.kind = "lanraragi_metadata", y.kind = "lanraragi_metadata"
             PROVE  IF y.status = "active" THEN UpdateInOrder(y)
                    ELSE \A o \in { "scan", "apply" } : ~Open(y, o)
  BY DEF InOrder, Alike
<1>1. y.status = x.status /\ y.bind = x.bind /\ UpdateLike(x, y)
  BY HolderNames DEF Alike
<1>2. CASE x.status = "active"
  <2>1. UpdateInOrder(x) BY <1>2 DEF InOrder
  <2>2. Bound(y) = Bound(x) /\ Ready(y) = Ready(x) BY <1>1, <1>2 DEF Bound, Ready, UpdateLike
  <2> QED BY <1>1, <1>2, <2>1, <2>2 DEF UpdateLike, UpdateInOrder
<1>3. CASE x.status # "active"
  BY <1>1, <1>3 DEF InOrder, UpdateLike
<1> QED BY <1>2, <1>3

LEMMA AlikeRemembers ==
  ASSUME NEW x, NEW y, Alike(x, y), NEW m, Remembers(x, m) PROVE Remembers(y, m)
BY DEF Alike, Remembers, Bound, Holders, Takers

LEMMA AlikeInRange ==
  ASSUME NEW x, NEW y, Alike(x, y), RoundInRange(x) PROVE RoundInRange(y)
BY Limits DEF Alike, RoundInRange, RoundLike

LEMMA RestsKeepRows ==
  ASSUME NEW d, NEW e, Rests(d, e), RowsIn(d) PROVE RowsIn(e)
<1>1. RowsSound(e) BY DEF Rests, RowsIn, RowsSound, RowsLike, RowLike, RowSound
<1>2. AllInOrder(e) BY AlikeInOrder DEF Rests, RowsIn, AllInOrder
<1>3. KeptBySome(e)
  <2> SUFFICES ASSUME NEW m \in Manga, e.row[m].status = "special_processing"
               PROVE  \E w \in Workflow : Keeps(e.wf[w], m)
    BY DEF KeptBySome
  <2>1. d.row[m].status = "special_processing" BY DEF Rests, RowsLike, RowLike
  <2>2. PICK w \in Workflow : Keeps(d.wf[w], m) BY <2>1 DEF RowsIn, KeptBySome
  <2>3. Keeps(e.wf[w], m) BY <2>2, AlikeKeeps DEF Rests
  <2> QED BY <2>3
<1>4. TakersHold(e)
  <2> SUFFICES ASSUME NEW w \in Workflow, e.wf[w].kind \in Takers,
                      e.wf[w].status = "active", NEW m \in Bound(e.wf[w])
               PROVE  e.row[m].status = "special_processing"
    BY DEF TakersHold
  <2>1. /\ d.wf[w].kind \in Takers /\ d.wf[w].status = "active"
        /\ Bound(d.wf[w]) = Bound(e.wf[w])
    BY DEF Rests, Alike, Bound, Holders
  <2>2. d.row[m].status = "special_processing" BY <2>1 DEF RowsIn, TakersHold
  <2>3. m \in Manga
    <3>1. e \in Database /\ e.wf[w].kind # "none" BY HolderNames DEF Rests, Holders
    <3> QED BY <3>1, DatabaseFields, RecordKind, BoundRows
  <2> QED BY <2>2, <2>3 DEF Rests, RowsLike, RowLike
<1> QED BY <1>1, <1>2, <1>3, <1>4 DEF RowsIn

LEMMA RestsOnRecord ==
  ASSUME NEW d, NEW e, Rests(d, e), NEW m \in Manga, OnRecord(d, m) PROVE OnRecord(e, m)
<1>1. CASE d.row[m].external BY <1>1 DEF OnRecord, Rests, RowsLike, RowLike
<1>2. CASE \E w \in Workflow : Remembers(d.wf[w], m)
  <2>1. PICK w \in Workflow : Remembers(d.wf[w], m) BY <1>2
  <2>2. Remembers(e.wf[w], m) BY <2>1, AlikeRemembers DEF Rests
  <2> QED BY <2>2 DEF OnRecord
<1> QED BY <1>1, <1>2 DEF OnRecord

LEMMA RestsInRange ==
  ASSUME NEW d, NEW e, Rests(d, e), CursorIn(d) PROVE CursorIn(e)
BY AlikeInRange DEF Rests, CursorIn

----------------------------------------------------------------------------
\* The steps that move rows.

\* A workflow is created, and takes over its rows if it is of such a kind.
Begins(d, e, w) ==
  LET y == e.wf[w] IN
  /\ e \in Database /\ d.wf[w].kind = "none" /\ y.kind \in Kind
  /\ OthersAlike(d, e, w)
  /\ InOrder(y) /\ RoundInRange(y)
  /\ \A m \in Manga :
       /\ e.row[m].external = d.row[m].external
       /\ \/ RowLike(d.row[m], e.row[m])
          \/ /\ y.kind \in Takers /\ y.status = "active" /\ m \in Bound(y)
             /\ RowSound(e.row[m]) /\ e.row[m].status = "special_processing"
  /\ y.kind \in Takers /\ y.status = "active" =>
       \A m \in Bound(y) : e.row[m].status = "special_processing"

\* A workflow that has taken over a row ends and gives it back.
GivesBack(d, e, w) ==
  LET x == d.wf[w]
      y == e.wf[w]
  IN /\ e \in Database /\ x.kind \in Takers /\ x.status = "active"
     /\ y.kind = x.kind /\ y.bind = x.bind /\ y.status # "active"
     /\ OthersAlike(d, e, w)
     /\ \A m \in Manga \ Bound(x) : RowLike(d.row[m], e.row[m])
     /\ \A m \in Bound(x) :
          /\ RowSound(e.row[m]) /\ e.row[m].status # "special_processing"
          /\ x.kind = "manual_torrent" /\ x.data.submission => e.row[m].external

\* A metadata update sets its rows aside, or gives them back.
Updates(d, e, w) ==
  LET x == d.wf[w]
      y == e.wf[w]
  IN /\ e \in Database /\ x.kind = "lanraragi_metadata"
     /\ y.kind = x.kind /\ y.bind = x.bind
     /\ OthersAlike(d, e, w) /\ InOrder(y)
     /\ \A m \in Manga :
          /\ RowSound(e.row[m]) /\ e.row[m].external = d.row[m].external
          /\ \/ e.row[m].status = d.row[m].status
             \/ x.status = "active" /\ m \in Bound(x)
          /\ e.row[m].status = "special_processing" =>
               \/ Keeps(y, m)
               \/ d.row[m].status = "special_processing" /\ ~Keeps(x, m)

\* The ordinary pipeline moves a row that is its own.
Pipes(d, e, m) ==
  /\ e \in Database /\ \A v \in Workflow : Alike(d.wf[v], e.wf[v])
  /\ \A n \in Manga \ {m} : RowLike(d.row[n], e.row[n])
  /\ d.row[m].status # "special_processing" /\ e.row[m].status # "special_processing"
  /\ RowSound(e.row[m])

LEMMA BoundAreRows ==
  ASSUME NEW d \in Database, NEW w \in Workflow, NEW m \in Bound(d.wf[w])
  PROVE  m \in Manga
<1>1. d.wf[w].kind # "none"
  <2>1. d.wf[w].kind = "none" => Bound(d.wf[w]) = {}
    BY DatabaseFields, RecordKind, NoFields DEF Bound
  <2> QED BY <2>1
<1> QED BY <1>1, DatabaseFields, RecordKind, BoundRows

LEMMA BeginsKeepRows ==
  ASSUME NEW d \in Database, NEW e, NEW w \in Workflow, Begins(d, e, w), RowsIn(d)
  PROVE  RowsIn(e)
<1> DEFINE y == e.wf[w]
<1>1. RowsSound(e)
  BY DEF Begins, RowsIn, RowsSound, RowLike, RowSound
<1>2. AllInOrder(e) BY AlikeInOrder DEF Begins, OthersAlike, RowsIn, AllInOrder
<1>3. KeptBySome(e)
  <2> SUFFICES ASSUME NEW m \in Manga, e.row[m].status = "special_processing"
               PROVE  \E v \in Workflow : Keeps(e.wf[v], m)
    BY DEF KeptBySome
  <2>1. CASE y.kind \in Takers /\ y.status = "active" /\ m \in Bound(y)
    BY <2>1, HolderNames DEF Keeps
  <2>2. CASE RowLike(d.row[m], e.row[m])
    <3>1. d.row[m].status = "special_processing" BY <2>2 DEF RowLike
    <3>2. PICK v \in Workflow : Keeps(d.wf[v], m) BY <3>1 DEF RowsIn, KeptBySome
    <3>3. v # w BY <3>2, HolderNames DEF Keeps, Begins
    <3>4. Keeps(e.wf[v], m) BY <3>2, <3>3, AlikeKeeps DEF Begins, OthersAlike
    <3> QED BY <3>4
  <2> QED BY <2>1, <2>2 DEF Begins
<1>4. TakersHold(e)
  <2> SUFFICES ASSUME NEW v \in Workflow, e.wf[v].kind \in Takers,
                      e.wf[v].status = "active", NEW m \in Bound(e.wf[v])
               PROVE  e.row[m].status = "special_processing"
    BY DEF TakersHold
  <2>1. CASE v = w BY <2>1 DEF Begins
  <2>2. CASE v # w
    <3>1. /\ d.wf[v].kind \in Takers /\ d.wf[v].status = "active"
          /\ m \in Bound(d.wf[v])
      BY <2>2 DEF Begins, OthersAlike, Alike, Bound, Holders
    <3>2. d.row[m].status = "special_processing" BY <3>1 DEF RowsIn, TakersHold
    <3>3. m \in Manga BY <3>1, BoundAreRows
    <3> QED BY <3>2, <3>3 DEF Begins, RowLike
  <2> QED BY <2>1, <2>2
<1> QED BY <1>1, <1>2, <1>3, <1>4 DEF RowsIn

LEMMA GivesBackKeepsRows ==
  ASSUME NEW d \in Database, NEW e, NEW w \in Workflow, GivesBack(d, e, w), RowsIn(d),
         BoundOnce(d)
  PROVE  RowsIn(e)
<1> DEFINE x == d.wf[w]
<1>1. RowsSound(e)
  BY DEF GivesBack, RowsIn, RowsSound, RowLike, RowSound
<1>2. AllInOrder(e)
  <2>1. InOrder(e.wf[w]) BY HolderNames DEF GivesBack, InOrder
  <2> QED BY <2>1, AlikeInOrder DEF GivesBack, OthersAlike, RowsIn, AllInOrder
<1>3. KeptBySome(e)
  <2> SUFFICES ASSUME NEW m \in Manga, e.row[m].status = "special_processing"
               PROVE  \E v \in Workflow : Keeps(e.wf[v], m)
    BY DEF KeptBySome
  <2>1. m \notin Bound(x) BY DEF GivesBack
  <2>2. d.row[m].status = "special_processing" BY <2>1 DEF GivesBack, RowLike
  <2>3. PICK v \in Workflow : Keeps(d.wf[v], m) BY <2>2 DEF RowsIn, KeptBySome
  <2>4. v # w BY <2>1, <2>3 DEF Keeps
  <2>5. Keeps(e.wf[v], m) BY <2>3, <2>4, AlikeKeeps DEF GivesBack, OthersAlike
  <2> QED BY <2>5
<1>4. TakersHold(e)
  <2> SUFFICES ASSUME NEW v \in Workflow, e.wf[v].kind \in Takers,
                      e.wf[v].status = "active", NEW m \in Bound(e.wf[v])
               PROVE  e.row[m].status = "special_processing"
    BY DEF TakersHold
  <2>1. v # w BY DEF GivesBack
  <2>2. /\ d.wf[v].kind \in Takers /\ d.wf[v].status = "active"
        /\ m \in Bound(d.wf[v])
    BY <2>1 DEF GivesBack, OthersAlike, Alike, Bound, Holders
  <2>3. d.row[m].status = "special_processing" BY <2>2 DEF RowsIn, TakersHold
  <2>4. m \in Manga BY <2>2, BoundAreRows
  <2>5. m \notin Bound(x) BY <2>1, <2>2 DEF BoundOnce, GivesBack
  <2> QED BY <2>3, <2>4, <2>5 DEF GivesBack, RowLike
<1> QED BY <1>1, <1>2, <1>3, <1>4 DEF RowsIn

LEMMA UpdatesKeepRows ==
  ASSUME NEW d \in Database, NEW e, NEW w \in Workflow, Updates(d, e, w), RowsIn(d),
         BoundOnce(d)
  PROVE  RowsIn(e)
<1> DEFINE x == d.wf[w]
           y == e.wf[w]
<1>1. RowsSound(e) BY DEF Updates, RowsSound
<1>2. AllInOrder(e) BY AlikeInOrder DEF Updates, OthersAlike, RowsIn, AllInOrder
<1>3. KeptBySome(e)
  <2> SUFFICES ASSUME NEW m \in Manga, e.row[m].status = "special_processing", ~Keeps(y, m)
               PROVE  \E v \in Workflow : Keeps(e.wf[v], m)
    BY DEF KeptBySome
  <2>1. d.row[m].status = "special_processing" /\ ~Keeps(x, m) BY DEF Updates
  <2>2. PICK v \in Workflow : Keeps(d.wf[v], m) BY <2>1 DEF RowsIn, KeptBySome
  <2>3. v # w BY <2>1, <2>2
  <2>4. Keeps(e.wf[v], m) BY <2>2, <2>3, AlikeKeeps DEF Updates, OthersAlike
  <2> QED BY <2>4
<1>4. TakersHold(e)
  <2> SUFFICES ASSUME NEW v \in Workflow, e.wf[v].kind \in Takers,
                      e.wf[v].status = "active", NEW m \in Bound(e.wf[v])
               PROVE  e.row[m].status = "special_processing"
    BY DEF TakersHold
  <2>1. v # w BY HolderNames DEF Updates
  <2>2. /\ d.wf[v].kind \in Takers /\ d.wf[v].status = "active"
        /\ m \in Bound(d.wf[v])
    BY <2>1 DEF Updates, OthersAlike, Alike, Bound, Holders
  <2>3. d.row[m].status = "special_processing" BY <2>2 DEF RowsIn, TakersHold
  <2>4. m \in Manga BY <2>2, BoundAreRows
  <2>5. ~(x.status = "active" /\ m \in Bound(x)) BY <2>1, <2>2 DEF BoundOnce
  <2> QED BY <2>3, <2>4, <2>5 DEF Updates
<1> QED BY <1>1, <1>2, <1>3, <1>4 DEF RowsIn

LEMMA PipesKeepRows ==
  ASSUME NEW d \in Database, NEW e, NEW m \in Manga, Pipes(d, e, m), RowsIn(d)
  PROVE  RowsIn(e)
<1>1. RowsSound(e) BY DEF Pipes, RowsIn, RowsSound, RowLike, RowSound
<1>2. AllInOrder(e) BY AlikeInOrder DEF Pipes, RowsIn, AllInOrder
<1>3. KeptBySome(e)
  <2> SUFFICES ASSUME NEW n \in Manga, e.row[n].status = "special_processing"
               PROVE  \E w \in Workflow : Keeps(e.wf[w], n)
    BY DEF KeptBySome
  <2>1. d.row[n].status = "special_processing" BY DEF Pipes, RowLike
  <2>2. PICK w \in Workflow : Keeps(d.wf[w], n) BY <2>1 DEF RowsIn, KeptBySome
  <2>3. Keeps(e.wf[w], n) BY <2>2, AlikeKeeps DEF Pipes
  <2> QED BY <2>3
<1>4. TakersHold(e)
  <2> SUFFICES ASSUME NEW w \in Workflow, e.wf[w].kind \in Takers,
                      e.wf[w].status = "active", NEW n \in Bound(e.wf[w])
               PROVE  e.row[n].status = "special_processing"
    BY DEF TakersHold
  <2>1. /\ d.wf[w].kind \in Takers /\ d.wf[w].status = "active"
        /\ n \in Bound(d.wf[w])
    BY DEF Pipes, Alike, Bound, Holders
  <2>2. d.row[n].status = "special_processing" BY <2>1 DEF RowsIn, TakersHold
  <2>3. n \in Manga BY <2>1, BoundAreRows
  <2> QED BY <2>2, <2>3 DEF Pipes, RowLike
<1> QED BY <1>1, <1>2, <1>3, <1>4 DEF RowsIn

\* What is on record stays on record in each of these.
LEMMA BeginsOnRecord ==
  ASSUME NEW d, NEW e, NEW w \in Workflow, Begins(d, e, w), NEW m \in Manga, OnRecord(d, m)
  PROVE  OnRecord(e, m)
<1>1. CASE d.row[m].external BY <1>1 DEF OnRecord, Begins
<1>2. CASE \E v \in Workflow : Remembers(d.wf[v], m)
  <2>1. PICK v \in Workflow : Remembers(d.wf[v], m) BY <1>2
  <2>2. v # w BY <2>1 DEF Begins, Remembers
  <2>3. Remembers(e.wf[v], m) BY <2>1, <2>2, AlikeRemembers DEF Begins, OthersAlike
  <2> QED BY <2>3 DEF OnRecord
<1> QED BY <1>1, <1>2 DEF OnRecord

LEMMA GivesBackOnRecord ==
  ASSUME NEW d \in Database, NEW e, NEW w \in Workflow, GivesBack(d, e, w), RowsIn(d),
         NEW m \in Manga, OnRecord(d, m)
  PROVE  OnRecord(e, m)
<1> DEFINE x == d.wf[w]
<1>1. CASE d.row[m].external
  <2>1. d.row[m].status # "special_processing" BY <1>1 DEF RowsIn, RowsSound, RowSound
  <2>2. m \notin Bound(x) BY <2>1 DEF RowsIn, TakersHold, GivesBack
  <2> QED BY <1>1, <2>2 DEF OnRecord, GivesBack, RowLike
<1>2. CASE \E v \in Workflow : Remembers(d.wf[v], m)
  <2>1. PICK v \in Workflow : Remembers(d.wf[v], m) BY <1>2
  <2>2. CASE v = w BY <2>1, <2>2 DEF OnRecord, GivesBack, Remembers
  <2>3. CASE v # w
    <3>1. Remembers(e.wf[v], m) BY <2>1, <2>3, AlikeRemembers DEF GivesBack, OthersAlike
    <3> QED BY <3>1 DEF OnRecord
  <2> QED BY <2>2, <2>3
<1> QED BY <1>1, <1>2 DEF OnRecord

LEMMA UpdatesOnRecord ==
  ASSUME NEW d, NEW e, NEW w \in Workflow, Updates(d, e, w), NEW m \in Manga, OnRecord(d, m)
  PROVE  OnRecord(e, m)
<1>1. CASE d.row[m].external BY <1>1 DEF OnRecord, Updates
<1>2. CASE \E v \in Workflow : Remembers(d.wf[v], m)
  <2>1. PICK v \in Workflow : Remembers(d.wf[v], m) BY <1>2
  <2>2. v # w BY <2>1 DEF Updates, Remembers
  <2>3. Remembers(e.wf[v], m) BY <2>1, <2>2, AlikeRemembers DEF Updates, OthersAlike
  <2> QED BY <2>3 DEF OnRecord
<1> QED BY <1>1, <1>2 DEF OnRecord

\* And no round is moved by any of them.
LEMMA FormsInRange ==
  ASSUME NEW d, NEW e, CursorIn(d),
         \/ \E w \in Workflow : Begins(d, e, w) \/ GivesBack(d, e, w) \/ Updates(d, e, w)
         \/ \E m \in Manga : Pipes(d, e, m)
  PROVE  CursorIn(e)
<1>1. ASSUME NEW w \in Workflow, OthersAlike(d, e, w), RoundInRange(e.wf[w])
      PROVE  CursorIn(e)
  BY <1>1, AlikeInRange DEF OthersAlike, CursorIn
<1>2. CASE \E w \in Workflow : Begins(d, e, w) BY <1>1, <1>2 DEF Begins
<1>3. CASE \E w \in Workflow : GivesBack(d, e, w)
  BY <1>1, <1>3, HolderNames DEF GivesBack, RoundInRange
<1>4. CASE \E w \in Workflow : Updates(d, e, w)
  BY <1>1, <1>4 DEF Updates, RoundInRange
<1>5. CASE \E m \in Manga : Pipes(d, e, m) BY <1>5, AlikeInRange DEF Pipes, CursorIn
<1> QED BY <1>2, <1>3, <1>4, <1>5

----------------------------------------------------------------------------
\* The operators that leave the rows where they are.

\* A workflow moves, but neither ends nor changes its payload.
Bare(x, y) == y.kind = x.kind /\ y.bind = x.bind /\ y.status = x.status /\ y.data = x.data

Quiet(d, e, w) ==
  /\ e \in Database /\ e.row = d.row /\ Bare(d.wf[w], e.wf[w])
  /\ \A v \in Workflow \ {w} : e.wf[v] = d.wf[v]

\* What the phase and the jobs of a metadata update allow for.
Plain(x) == x.kind # "lanraragi_metadata"

LEMMA QuietTransitive ==
  ASSUME NEW d, NEW e, NEW f, NEW w, Quiet(d, e, w), Quiet(e, f, w) PROVE Quiet(d, f, w)
BY DEF Quiet, Bare

LEMMA WorkRests ==
  ASSUME NEW d \in Database, NEW e, NEW w \in Workflow, NEW y, Rewrites(d, e, w, y),
         Alike(d.wf[w], y)
  PROVE  Rests(d, e)
BY AlikeReflexive DEF Rewrites, Rests, RowsLike, RowLike

LEMMA BareAlike == ASSUME NEW x, NEW y, Bare(x, y), Plain(x) PROVE Alike(x, y)
BY DEF Bare, Plain, Alike, RoundLike

LEMMA QuietRests ==
  ASSUME NEW d \in Database, NEW e, NEW w \in Workflow, Quiet(d, e, w), Plain(d.wf[w])
  PROVE  Rests(d, e)
BY BareAlike, AlikeReflexive DEF Quiet, Rests, RowsLike, RowLike

LEMMA QueueIsQuiet ==
  ASSUME NEW d \in Database, NEW w \in Workflow, d.wf[w].kind # "none",
         NEW o \in OperationsOf(d.wf[w].kind)
  PROVE  Quiet(d, Queue(d, w, o), w)
<1> DEFINE x == d.wf[w]
           y == [ x EXCEPT !.job[o] = [ NoJob EXCEPT !.status = "queued",
                                                     !.no = x.job[o].no + 1 ] ]
<1>1. x \in WorkflowOf(x.kind) BY DatabaseFields, RecordKind
<1>2. Bare(x, y) /\ Bare(x, x) BY <1>1 DEF Bare, WorkflowOf
<1>3. Rewrites(d, Queue(d, w, o), w,
               IF x.job[o].status \in { "queued", "running" } THEN x ELSE y)
  BY QueueMoves
<1> HIDE DEF y
<1> QED BY <1>2, <1>3 DEF Rewrites, Quiet

LEMMA CancelQueuedIsQuiet ==
  ASSUME NEW d \in Database, NEW w \in Workflow, d.wf[w].kind # "none"
  PROVE  Quiet(d, CancelQueued(d, w), w)
<1> DEFINE x == d.wf[w]
           y == [ x EXCEPT !.job =
                    [o \in DOMAIN x.job |-> IF x.job[o].status = "queued"
                        THEN [ x.job[o] EXCEPT !.status = "cancelled" ] ELSE x.job[o]] ]
<1>1. x \in WorkflowOf(x.kind) BY DatabaseFields, RecordKind
<1>2. Bare(x, y) BY <1>1 DEF Bare, WorkflowOf
<1>3. Rewrites(d, CancelQueued(d, w), w, y) BY CancelQueuedMoves
<1> HIDE DEF y
<1> QED BY <1>2, <1>3 DEF Rewrites, Quiet

LEMMA EndJobIsQuiet ==
  ASSUME NEW d \in Database, NEW w \in Workflow, d.wf[w].kind # "none",
         NEW o \in OperationsOf(d.wf[w].kind),
         NEW st \in { "succeeded", "failed", "abandoned", "cancelled" }
  PROVE  Quiet(d, EndJob(d, w, o, st), w)
<1> DEFINE x == d.wf[w]
           y == [ x EXCEPT !.job[o] = [ NoJob EXCEPT !.status = st, !.no = x.job[o].no ] ]
<1>1. x \in WorkflowOf(x.kind) BY DatabaseFields, RecordKind
<1>2. Bare(x, y) BY <1>1 DEF Bare, WorkflowOf
<1>3. Rewrites(d, EndJob(d, w, o, st), w, y) BY EndJobMoves
<1> HIDE DEF y
<1> QED BY <1>2, <1>3 DEF Rewrites, Quiet

LEMMA SetPhaseIsQuiet ==
  ASSUME NEW d \in Database, NEW w \in Workflow, d.wf[w].kind # "none",
         NEW o \in OperationsOf(d.wf[w].kind), NEW ph \in Phase
  PROVE  Quiet(d, SetPhase(d, w, o, ph), w)
<1> DEFINE x == d.wf[w]
           y == [ x EXCEPT !.phase = ph ]
           z == IF Def(d, w, o).affects THEN y ELSE x
<1>1. x \in WorkflowOf(x.kind) BY DatabaseFields, RecordKind
<1>2. Bare(x, y) /\ Bare(x, x) BY <1>1 DEF Bare, WorkflowOf
<1>3. Rewrites(d, SetPhase(d, w, o, ph), w, z) BY SetPhaseMoves
<1>4. Bare(x, z) BY <1>2
<1> HIDE DEF y, z
<1> QED BY <1>3, <1>4 DEF Rewrites, Quiet

LEMMA PhasePutIsQuiet ==
  ASSUME NEW d \in Database, NEW w \in Workflow, d.wf[w].kind # "none", NEW ph \in Phase
  PROVE  Quiet(d, PhasePut(d, w, ph), w) /\ PhasePut(d, w, ph).wf[w].job = d.wf[w].job
<1> DEFINE x == d.wf[w]
           y == [ x EXCEPT !.phase = ph ]
<1>1. x \in WorkflowOf(x.kind) /\ x.kind \in Kind BY DatabaseFields, RecordKind
<1>2. Bare(x, y) /\ y.job = x.job BY <1>1 DEF Bare, WorkflowOf
<1>3. PhasePut(d, w, ph) = [ d EXCEPT !.wf[w] = y ] BY DEF PhasePut
<1>4. y \in Record BY <1>1, PutPhase, WorkflowIsRecord
<1>5. Rewrites(d, PhasePut(d, w, ph), w, y) BY <1>3, <1>4, PutWorkflow
<1> HIDE DEF y
<1> QED BY <1>2, <1>5 DEF Rewrites, Quiet

\* The claims of a workflow, and the flags of its jobs, matter to no row.
SameButClaims(x, y) ==
  Bare(x, y) /\ y.phase = x.phase
  /\ \A o \in OperationsOf(x.kind) : y.job[o].status = x.job[o].status

LEMMA SameButClaimsAlike ==
  ASSUME NEW x, NEW y, SameButClaims(x, y) PROVE Alike(x, y)
<1>1. x.kind = "lanraragi_metadata" => UpdateLike(x, y)
  BY OperationNames DEF SameButClaims, Bare, UpdateLike, Open
<1> QED BY <1>1 DEF SameButClaims, Bare, Alike, RoundLike

LEMMA ReleaseRests ==
  ASSUME NEW d \in Database, NEW w \in Workflow, d.wf[w].kind # "none",
         NEW o \in OperationsOf(d.wf[w].kind)
  PROVE  Rests(d, Release(d, w, o)) /\ Quiet(d, Release(d, w, o), w)
<1> DEFINE x == d.wf[w]
           y == [ x EXCEPT !.claims =
                    { c \in x.claims :
                        ~ \/ c.op = ByWorkflow /\ x.status \in { "completed", "cancelled" }
                          \/ c.op = o /\ c.no = x.job[o].no } ]
<1>1. x \in WorkflowOf(x.kind) BY DatabaseFields, RecordKind
<1>2. SameButClaims(x, y) BY <1>1 DEF SameButClaims, Bare, WorkflowOf
<1>3. Rewrites(d, Release(d, w, o), w, y) BY ReleaseMoves
<1> HIDE DEF y
<1>4. Rests(d, Release(d, w, o)) BY <1>2, <1>3, SameButClaimsAlike, WorkRests
<1> QED BY <1>2, <1>3, <1>4 DEF Rewrites, Quiet, SameButClaims

LEMMA ReleaseAllRests ==
  ASSUME NEW d \in Database, NEW w \in Workflow, d.wf[w].kind # "none"
  PROVE  Rests(d, ReleaseAll(d, w)) /\ Quiet(d, ReleaseAll(d, w), w)
<1> DEFINE x == d.wf[w]
           y == [ x EXCEPT !.claims = {} ]
<1>1. x \in WorkflowOf(x.kind) BY DatabaseFields, RecordKind
<1>2. SameButClaims(x, y) BY <1>1 DEF SameButClaims, Bare, WorkflowOf
<1>3. Rewrites(d, ReleaseAll(d, w), w, y) BY ReleaseAllMoves
<1> HIDE DEF y
<1>4. Rests(d, ReleaseAll(d, w)) BY <1>2, <1>3, SameButClaimsAlike, WorkRests
<1> QED BY <1>2, <1>3, <1>4 DEF Rewrites, Quiet, SameButClaims

LEMMA AcquireRests ==
  ASSUME NEW d \in Database, NEW w \in Workflow, d.wf[w].kind # "none",
         NEW keys \in SUBSET Key, NEW o \in OpName \cup { ByWorkflow }, NEW no \in Nat
  PROVE  LET e == Acquire(d, w, keys, o, no) IN
         Rests(d, e) /\ Quiet(d, e, w) /\ SameButClaims(d.wf[w], e.wf[w])
<1> DEFINE x == d.wf[w]
           y == [ x EXCEPT !.claims =
                    { c \in x.claims : c.key \notin keys \/ c.key \in WorkKeys(x) }
                      \cup { [ key |-> key, op |-> o, no |-> no ]
                               : key \in keys \ WorkKeys(x) } ]
           e == Acquire(d, w, keys, o, no)
<1>1. x \in WorkflowOf(x.kind) BY DatabaseFields, RecordKind
<1>2. SameButClaims(x, y) BY <1>1 DEF SameButClaims, Bare, WorkflowOf
<1>3. Rewrites(d, e, w, y) BY AcquireMoves
<1> HIDE DEF y, e
<1>4. Rests(d, e) BY <1>2, <1>3, SameButClaimsAlike, WorkRests
<1> QED BY <1>2, <1>3, <1>4 DEF Rewrites, Quiet, SameButClaims, e

LEMMA DroppedAlike ==
  ASSUME NEW k \in Kind, NEW x \in WorkflowOf(k) PROVE Alike(x, Dropped(x))
<1> DEFINE y == Dropped(x)
<1>1. /\ y \in WorkflowOf(k) /\ y.kind = k /\ y.status = x.status /\ y.bind = x.bind
      /\ x.kind = k
      /\ x.status = "active" => y = x
      /\ \A o \in OperationsOf(k) : y.job[o] = x.job[o] \/ y.job[o] = NoJob
      /\ y.data = x.data \/ y.data = InitialData[k]
  BY DroppedFields, WorkflowFields
<1> HIDE DEF y
<1>2. CASE x.status = "active"
  <2>1. y = x BY <1>1, <1>2
  <2> QED BY <2>1, AlikeReflexive DEF y
<1>3. CASE x.status # "active"
  <2>1. k = "lanraragi_metadata" => UpdateLike(x, y)
    BY <1>1, <1>3, OperationNames DEF UpdateLike, Open, NoJob
  <2>2. k = "full_collect" => RoundLike(x, y)
    <3>1. k = "full_collect" => InitialData[k].cursor = 0 BY DEF InitialData
    <3> QED BY <1>1, <1>3, <3>1 DEF RoundLike
  <2> QED BY <1>1, <1>3, <2>1, <2>2 DEF Alike, y
<1> QED BY <1>2, <1>3

LEMMA OverRests ==
  ASSUME NEW d \in Database, NEW w \in Workflow, d.wf[w].kind # "none"
  PROVE  Rests(d, Over(d, w))
<1>1. d.wf[w] \in WorkflowOf(d.wf[w].kind) /\ d.wf[w].kind \in Kind
  BY DatabaseFields, RecordKind
<1>2. Rewrites(d, Over(d, w), w, Dropped(d.wf[w])) BY OverMoves
<1> QED BY <1>1, <1>2, DroppedAlike, WorkRests

\* A workflow that holds no row may end.
MayEnd(x, st) ==
  /\ x.kind \in Kind \ Holders
  /\ st = "active" => x.status = "active"

LEMMA EndWorkflowRests ==
  ASSUME NEW d \in Database, NEW w \in Workflow, d.wf[w].kind # "none",
         NEW st \in { "active", "completed", "cancelled" }, NEW ph \in Phase,
         MayEnd(d.wf[w], st)
  PROVE  Rests(d, EndWorkflow(d, w, st, ph))
<1> DEFINE x == d.wf[w]
           y == [ x EXCEPT !.status = st, !.phase = ph ]
<1>1. x \in WorkflowOf(x.kind) BY DatabaseFields, RecordKind
<1>2. y.kind = x.kind /\ y.bind = x.bind /\ y.status = st /\ y.data = x.data
  BY <1>1 DEF WorkflowOf
<1>3. Rewrites(d, EndWorkflow(d, w, st, ph), w, y) BY EndWorkflowMoves
<1> HIDE DEF y
<1>4. Alike(x, y) BY <1>2, HolderNames DEF Alike, RoundLike, MayEnd, Holders
<1> QED BY <1>3, <1>4, WorkRests

\* The payload of a workflow is written.
PayloadRests(x, z) ==
  /\ x.kind = "manual_torrent" => (x.status = "active" /\ x.data.submission => z.submission)
  /\ x.kind = "lanraragi_metadata" /\ x.status = "active" =>
       z.ready = x.data.ready /\ z.reserved = x.data.reserved
  /\ x.kind = "full_collect" => z.cursor = x.data.cursor /\ z.end = x.data.end

LEMMA DataPutRests ==
  ASSUME NEW d \in Database, NEW w \in Workflow, d.wf[w].kind # "none",
         NEW z \in DataOf(d.wf[w].kind), PayloadRests(d.wf[w], z)
  PROVE  Rests(d, DataPut(d, w, z))
<1> DEFINE x == d.wf[w]
           e == DataPut(d, w, z)
           y == e.wf[w]
<1>1. /\ e \in Database /\ e.row = d.row /\ y.kind = x.kind /\ y.bind = x.bind
      /\ y.status = x.status /\ y.job = x.job /\ y.phase = x.phase /\ y.data = z
      /\ \A v \in Workflow \ {w} : e.wf[v] = d.wf[v]
  BY DataPutFields
<1> HIDE DEF e
<1>2. x.kind = "lanraragi_metadata" => UpdateLike(x, y)
  BY <1>1 DEF UpdateLike, PayloadRests, Open
<1>3. Alike(x, y) BY <1>1, <1>2 DEF Alike, PayloadRests, RoundLike
<1> QED BY <1>1, <1>3, AlikeReflexive DEF Rests, RowsLike, RowLike, e

----------------------------------------------------------------------------
\* The version of a row, and the hooks.

Reserves(x, y) ==
  x.kind = "lanraragi_metadata" /\ x.status = "active" => y.data.reserved = x.data.reserved

LEMMA KeptAlike ==
  ASSUME NEW x, NEW y, Kept(x, y), Reserves(x, y) PROVE Alike(x, y)
<1>1. x.kind = "lanraragi_metadata" => UpdateLike(x, y)
  BY DEF Kept, DataLike, Reserves, UpdateLike, Open
<1> QED BY <1>1 DEF Kept, DataLike, Alike, RoundLike

LEMMA OutdatedAlike ==
  ASSUME NEW x \in Record, NEW ms PROVE Alike(x, Outdated(x, ms))
<1>1. Kept(x, Outdated(x, ms)) BY OutdatedKeeps
<1>2. Reserves(x, Outdated(x, ms))
  <2> SUFFICES ASSUME x.kind = "lanraragi_metadata"
               PROVE  Outdated(x, ms).data.reserved = x.data.reserved
    BY DEF Reserves
  <2> DEFINE more == x.data.stale \cup ((ms \cap Bound(x)) \ x.data.done)
             z == [ x.data EXCEPT !.stale = more ]
  <2>1. Outdated(x, ms) = x \/ Outdated(x, ms) = [ x EXCEPT !.data = z ]
    BY DEF Outdated
  <2>2. x \in WorkflowOf("lanraragi_metadata") BY RecordKind, MetadataIsKind
  <2>3. x.data \in DataOf("lanraragi_metadata") BY <2>2, MetadataIsKind, WorkflowFields
  <2> HIDE DEF more
  <2>4. z.reserved = x.data.reserved BY <2>3, MetadataDataFields
  <2> HIDE DEF z
  <2>5. [ x EXCEPT !.data = z ].data = z BY <2>2 DEF WorkflowOf
  <2> QED BY <2>1, <2>4, <2>5
<1> QED BY <1>1, <1>2, KeptAlike

LEMMA TouchAllRests ==
  ASSUME NEW d \in Database, NEW ms
  PROVE  Rests(d, TouchAll(d, ms)) /\ TouchAll(d, ms) \in Database
<1>1. TouchAll(d, ms) \in Database /\ TouchAll(d, ms).row = d.row
  BY TouchAllRemarks DEF Remarks
<1>2. \A v \in Workflow : TouchAll(d, ms).wf[v] = Outdated(d.wf[v], ms)
  BY DEF TouchAll, Database
<1>3. \A v \in Workflow : Alike(d.wf[v], TouchAll(d, ms).wf[v])
  BY <1>2, OutdatedAlike, DatabaseFields
<1> QED BY <1>1, <1>3 DEF Rests, RowsLike, RowLike

LEMMA TouchRests ==
  ASSUME NEW d \in Database, NEW m
  PROVE  Rests(d, Touch(d, m)) /\ Touch(d, m) \in Database
BY TouchAllRests DEF Touch

LEMMA SyncRests ==
  ASSUME NEW d \in Database, NEW w \in Workflow, d.wf[w].kind = "video_archive"
  PROVE  Rests(d, SyncRemark(d, w))
<1> DEFINE z == [ d.wf[w].data EXCEPT !.fresh = TRUE ]
<1>1. d.wf[w].data \in DataOf("video_archive")
  BY DatabaseFields, RecordKind, VideoIsKind, WorkflowFields
<1>2. z \in DataOf("video_archive") BY <1>1, VideoDataFields DEF DataOf
<1>3. SyncRemark(d, w) = DataPut(d, w, z) BY DEF SyncRemark, DataPut
<1> HIDE DEF z
<1>4. PayloadRests(d.wf[w], z) BY DEF PayloadRests
<1> QED BY <1>2, <1>3, <1>4, DataPutRests, VideoIsKind

LEMMA RebasedRests ==
  ASSUME NEW d \in Database, NEW w \in Workflow, d.wf[w].kind = "video_archive"
  PROVE  Rests(d, Rebased(d, w)) /\ Rebased(d, w) \in Database
         /\ Rebased(d, w).row = d.row
<1> DEFINE m == TheManga(d.wf[w])
           e == Touch(d, m)
<1>1. Rests(d, e) /\ e \in Database BY TouchRests
<1>2. e.wf[w].kind = "video_archive" BY <1>1 DEF Rests, Alike
<1>3. Rests(e, SyncRemark(e, w)) BY <1>1, <1>2, SyncRests
<1>4. Rests(d, Rebased(d, w)) BY <1>1, <1>3, RestsTransitive DEF Rebased
<1> QED BY <1>4, RebasedRemarks DEF Rests

LEMMA RowsPutRests ==
  ASSUME NEW d \in Database, NEW e \in Database, e.wf = d.wf, RowsLike(d, e)
  PROVE  Rests(d, e)
BY AlikeReflexive DEF Rests

LEMMA RowPutRests ==
  ASSUME NEW d \in Database, NEW m \in Manga, NEW r \in Row, RowLike(d.row[m], r)
  PROVE  Rests(d, [ d EXCEPT !.row[m] = r ])
<1> DEFINE e == [ d EXCEPT !.row[m] = r ]
<1>1. e \in Database /\ e.wf = d.wf /\ e.row = [ d.row EXCEPT ![m] = r ] BY PutRow
<1>2. d.row \in [Manga -> Row] BY DatabaseFields
<1> HIDE DEF e
<1>3. RowsLike(d, e) BY <1>1, <1>2 DEF RowsLike, RowLike
<1> QED BY <1>1, <1>3, RowsPutRests DEF e

\* The hook of a video archive moves no other workflow, and its own row only when
\* the workflow is cancelled.
LEMMA VideoChangedAlike ==
  ASSUME NEW d \in Database, NEW w \in Workflow, d.wf[w].kind = "video_archive",
         NEW op \in OperationsOf("video_archive"), NEW event
  PROVE  LET e == VideoChanged(d, w, op, event) IN
         \A v \in Workflow : Alike(d.wf[v], e.wf[v])
<1> DEFINE e == VideoChanged(d, w, op, event)
           t == Touch(d, TheManga(d.wf[w]))
<1>1. \A v \in Workflow : Kept(d.wf[v], e.wf[v])
  BY VideoChangedRemarks DEF Remarks
<1>2. Rests(d, t) BY TouchRests
<1>3. \A v \in Workflow \ {w} : e.wf[v] = t.wf[v]
  <2>1. t \in Database BY TouchRests
  <2> HIDE DEF t
  <2> QED BY <2>1 DEF e, VideoChanged, SyncRemark, t, Database
<1> HIDE DEF e, t
<1>4. ASSUME NEW v \in Workflow PROVE Alike(d.wf[v], e.wf[v])
  <2>1. CASE v = w
    <3>1. Reserves(d.wf[w], e.wf[w]) BY DEF Reserves
    <3> QED BY <1>1, <2>1, <3>1, KeptAlike
  <2>2. CASE v # w BY <1>2, <1>3, <2>2 DEF Rests
  <2> QED BY <2>1, <2>2
<1> QED BY <1>4 DEF e

LEMMA VideoChangedRests ==
  ASSUME NEW d \in Database, NEW w \in Workflow, d.wf[w].kind = "video_archive",
         NEW op \in OperationsOf("video_archive"), NEW event, event # "cancelled"
  PROVE  Rests(d, VideoChanged(d, w, op, event))
<1> DEFINE e == VideoChanged(d, w, op, event)
           m == TheManga(d.wf[w])
           r == VideoRow(d.wf[w], d.row[m], op, event)
<1>1. /\ m \in Manga /\ e \in Database /\ e.row = [ d.row EXCEPT ![m] = r ]
  BY VideoChangedRemarks DEF Remarks
<1>2. \A v \in Workflow : Alike(d.wf[v], e.wf[v]) BY VideoChangedAlike
<1>3. RowLike(d.row[m], r)
  <2>1. d.row[m] \in Row BY <1>1, DatabaseFields
  <2> QED BY <2>1 DEF RowLike, VideoRow, Row
<1>4. d.row \in [Manga -> Row] BY DatabaseFields
<1> HIDE DEF e, m, r
<1> QED BY <1>1, <1>2, <1>3, <1>4 DEF Rests, RowsLike, RowLike, e

LEMMA TorrentChangedAlike ==
  ASSUME NEW d \in Database, NEW w \in Workflow, d.wf[w].kind = "manual_torrent", NEW event
  PROVE  LET e == TorrentChanged(d, w, event) IN
         /\ \A v \in Workflow : Alike(d.wf[v], e.wf[v])
         /\ ~(event = "succeeded" /\ d.wf[w].status = "completed") => e = d
<1> DEFINE e == TorrentChanged(d, w, event)
           t == Touch(d, TheManga(d.wf[w]))
<1>1. Rests(d, t) /\ t \in Database BY TouchRests
<1>2. e.wf = t.wf \/ e = d
  <2> HIDE DEF t
  <2> QED BY <1>1 DEF e, TorrentChanged, t, Database
<1>3. ~(event = "succeeded" /\ d.wf[w].status = "completed") => e = d
  BY DEF TorrentChanged
<1> HIDE DEF e, t
<1>4. \A v \in Workflow : Alike(d.wf[v], e.wf[v]) BY <1>1, <1>2, AlikeReflexive DEF Rests
<1> QED BY <1>3, <1>4 DEF e

\* The hooks that move no row.
Unmoved(x, event) ==
  /\ Plain(x)
  /\ x.kind = "video_archive" => event # "cancelled"
  /\ x.kind = "manual_torrent" => ~(event = "succeeded" /\ x.status = "completed")

LEMMA ChangedRests ==
  ASSUME NEW d \in Database, NEW w \in Workflow, d.wf[w].kind # "none",
         NEW op \in OperationsOf(d.wf[w].kind), NEW event, Unmoved(d.wf[w], event)
  PROVE  Rests(d, Changed(d, w, op, event))
<1>1. CASE d.wf[w].kind = "video_archive"
  <2>1. Changed(d, w, op, event) = VideoChanged(d, w, op, event) BY <1>1 DEF Changed
  <2> QED BY <1>1, <2>1, VideoChangedRests DEF Unmoved
<1>2. CASE d.wf[w].kind = "manual_torrent"
  <2>1. Changed(d, w, op, event) = TorrentChanged(d, w, event) BY <1>2 DEF Changed
  <2> QED BY <1>2, <2>1, TorrentChangedAlike, RestsReflexive DEF Unmoved
<1>3. CASE d.wf[w].kind \notin Takers
  <2>1. Changed(d, w, op, event) = d
    BY <1>3, HolderNames DEF Changed, Unmoved, Plain
  <2> QED BY <2>1, RestsReflexive
<1> QED BY <1>1, <1>2, <1>3, HolderNames

LEMMA RestsFields ==
  ASSUME NEW d \in Database, NEW e, Rests(d, e), NEW w \in Workflow, d.wf[w].kind # "none"
  PROVE  /\ e \in Database /\ e.wf[w].kind = d.wf[w].kind /\ e.wf[w].kind # "none"
         /\ e.wf[w].bind = d.wf[w].bind
         /\ d.wf[w].kind \in Kind /\ d.wf[w] \in WorkflowOf(d.wf[w].kind)
         /\ e.wf[w] \in WorkflowOf(d.wf[w].kind)
         /\ Plain(e.wf[w]) <=> Plain(d.wf[w])
         /\ d.wf[w].kind \in Holders => e.wf[w].status = d.wf[w].status
         /\ TheManga(e.wf[w]) = TheManga(d.wf[w])
<1>1. e \in Database /\ e.wf[w].kind = d.wf[w].kind /\ e.wf[w].bind = d.wf[w].bind
      /\ (d.wf[w].kind \in Holders => e.wf[w].status = d.wf[w].status)
  BY DEF Rests, Alike
<1>2. d.wf[w].kind \in Kind /\ d.wf[w] \in WorkflowOf(d.wf[w].kind)
  BY DatabaseFields, RecordKind
<1>3. e.wf[w] \in WorkflowOf(d.wf[w].kind) BY <1>1, DatabaseFields, RecordKind
<1> QED BY <1>1, <1>2, <1>3 DEF Plain, TheManga, Bound

----------------------------------------------------------------------------
\* The operators of a worker, for a workflow that is not a metadata update.

LEMMA UpdateRests ==
  ASSUME NEW d \in Database, NEW c, c.w \in Workflow, d.wf[c.w].kind # "none",
         c.op \in OperationsOf(d.wf[c.w].kind), NEW ph \in Phase, Plain(d.wf[c.w])
  PROVE  Rests(d, Update(d, c, ph)) /\ Update(d, c, ph) \in Database
<1> DEFINE e == SetPhase(d, c.w, c.op, ph)
<1>1. Rests(d, e) BY SetPhaseIsQuiet, QuietRests
<1>2. e \in Database /\ e.wf[c.w].kind = d.wf[c.w].kind /\ Plain(e.wf[c.w])
  BY <1>1, RestsFields
<1> HIDE DEF e
<1>3. Unmoved(e.wf[c.w], "updated") BY <1>2 DEF Unmoved
<1>4. Rests(e, Changed(e, c.w, c.op, "updated")) BY <1>2, <1>3, ChangedRests
<1>5. Update(d, c, ph) = Changed(e, c.w, c.op, "updated") BY DEF Update, e
<1> QED BY <1>1, <1>4, <1>5, RestsTransitive DEF Rests

LEMMA EndJobRests ==
  ASSUME NEW d \in Database, NEW w \in Workflow, d.wf[w].kind # "none",
         NEW o \in OperationsOf(d.wf[w].kind), Plain(d.wf[w]),
         NEW st \in { "succeeded", "failed", "abandoned", "cancelled" }
  PROVE  Rests(d, EndJob(d, w, o, st)) /\ EndJob(d, w, o, st).wf[w].status = d.wf[w].status
BY EndJobIsQuiet, QuietRests DEF Quiet, Bare

LEMMA FailRests ==
  ASSUME NEW d \in Database, NEW c, c.w \in Workflow, d.wf[c.w].kind # "none",
         c.op \in OperationsOf(d.wf[c.w].kind), Plain(d.wf[c.w])
  PROVE  Rests(d, Fail(d, c))
<1> DEFINE e1 == EndJob(d, c.w, c.op, "failed")
           e2 == SetPhase(e1, c.w, c.op, Def(d, c.w, c.op).failure)
           e3 == Changed(e2, c.w, c.op, "failed")
<1>1. Rests(d, e1) BY EndJobRests
<1>2. e1 \in Database /\ e1.wf[c.w].kind = d.wf[c.w].kind /\ e1.wf[c.w].kind # "none"
      /\ Plain(e1.wf[c.w]) /\ d.wf[c.w].kind \in Kind
  BY <1>1, RestsFields
<1>3. Def(d, c.w, c.op).failure \in Phase BY <1>2, PhasesOfOperations DEF Def
<1>4. Fail(d, c) = Release(e3, c.w, c.op) BY DEF Fail
<1> HIDE DEF e1
<1>5. Rests(e1, e2) BY <1>2, <1>3, SetPhaseIsQuiet, QuietRests
<1>6. e2 \in Database /\ e2.wf[c.w].kind = d.wf[c.w].kind /\ Plain(e2.wf[c.w])
  BY <1>2, <1>5, RestsFields
<1> HIDE DEF e2
<1>7. Unmoved(e2.wf[c.w], "failed") BY <1>6 DEF Unmoved
<1>8. Rests(e2, e3) BY <1>2, <1>6, <1>7, ChangedRests
<1>9. e3 \in Database /\ e3.wf[c.w].kind = d.wf[c.w].kind
  BY <1>2, <1>6, <1>8, RestsFields
<1> HIDE DEF e3
<1>10. Rests(e3, Release(e3, c.w, c.op)) BY <1>2, <1>9, ReleaseRests
<1> QED BY <1>1, <1>4, <1>5, <1>8, <1>10, RestsTransitive

\* The status a workflow is left with when its job has succeeded.
StatusPut(d, w, st) == [ d EXCEPT !.wf[w].status = st ]

MayGoOn(x, st) ==
  /\ x.kind \in Holders => st = x.status
  /\ st = "active" => x.status = "active"

LEMMA StatusPutFields ==
  ASSUME NEW d \in Database, NEW w \in Workflow, d.wf[w].kind # "none",
         NEW st \in { "active", "completed", "cancelled" }
  PROVE  LET e == StatusPut(d, w, st) IN
         /\ e \in Database /\ e.row = d.row
         /\ e.wf[w].kind = d.wf[w].kind /\ e.wf[w].bind = d.wf[w].bind
         /\ e.wf[w].status = st /\ e.wf[w].phase = d.wf[w].phase
         /\ e.wf[w].data = d.wf[w].data /\ e.wf[w].job = d.wf[w].job
         /\ \A v \in Workflow \ {w} : e.wf[v] = d.wf[v]
<1> DEFINE x == d.wf[w]
           y == [ x EXCEPT !.status = st ]
           e == [ d EXCEPT !.wf[w] = y ]
<1>1. x \in WorkflowOf(x.kind) /\ x.kind \in Kind BY DatabaseFields, RecordKind
<1>2. /\ y.kind = x.kind /\ y.bind = x.bind /\ y.status = st /\ y.phase = x.phase
      /\ y.data = x.data /\ y.job = x.job
  BY <1>1 DEF WorkflowOf
<1>3. y \in Record BY <1>1, PutStatus, WorkflowIsRecord
<1>4. StatusPut(d, w, st) = e BY DEF StatusPut
<1> HIDE DEF y
<1>5. Rewrites(d, e, w, y) BY <1>3, PutWorkflow
<1> HIDE DEF e
<1> QED BY <1>2, <1>4, <1>5 DEF Rewrites

LEMMA StatusPutRests ==
  ASSUME NEW d \in Database, NEW w \in Workflow, d.wf[w].kind # "none",
         NEW st \in { "active", "completed", "cancelled" }, MayGoOn(d.wf[w], st)
  PROVE  Rests(d, StatusPut(d, w, st))
<1> DEFINE x == d.wf[w]
           e == StatusPut(d, w, st)
           y == e.wf[w]
<1>1. /\ e \in Database /\ e.row = d.row /\ y.kind = x.kind /\ y.bind = x.bind
      /\ y.status = st /\ y.phase = x.phase /\ y.data = x.data /\ y.job = x.job
      /\ \A v \in Workflow \ {w} : e.wf[v] = d.wf[v]
  BY StatusPutFields
<1> HIDE DEF e
<1>2. x.kind = "lanraragi_metadata" => UpdateLike(x, y)
  BY <1>1 DEF UpdateLike, Open
<1>3. Alike(x, y) BY <1>1, <1>2 DEF Alike, RoundLike, MayGoOn
<1> QED BY <1>1, <1>3, AlikeReflexive DEF Rests, RowsLike, RowLike, e

LEMMA SucceedRests ==
  ASSUME NEW d \in Database, NEW c, c.w \in Workflow, d.wf[c.w].kind # "none",
         c.op \in OperationsOf(d.wf[c.w].kind), Plain(d.wf[c.w]), NEW ph \in Phase,
         NEW st \in { "active", "completed" }, d.wf[c.w].status = "active",
         d.wf[c.w].kind \in Holders => st = "active"
  PROVE  Rests(d, Succeed(d, c, ph, st))
<1> DEFINE w == c.w
           e1 == Update(d, c, ph)
           e2 == EndJob(e1, w, c.op, "succeeded")
           e3 == StatusPut(e2, w, st)
           e4 == Changed(e3, w, c.op, "succeeded")
           e5 == Release(e4, w, c.op)
<1>1. Succeed(d, c, ph, st) = Over(e5, w) BY DEF Succeed, StatusPut
<1>2. Rests(d, e1) BY UpdateRests
<1>3. e1 \in Database /\ e1.wf[w].kind = d.wf[w].kind /\ Plain(e1.wf[w])
      /\ e1.wf[w].status = "active"
  <2>1. e1.wf[w].status = "active" BY UpdateMoves
  <2> QED BY <1>2, <2>1, RestsFields
<1> HIDE DEF e1
<1>4. Rests(e1, e2) /\ e2.wf[w].status = "active" BY <1>3, EndJobRests
<1>5. e2 \in Database /\ e2.wf[w].kind = d.wf[w].kind /\ Plain(e2.wf[w])
  BY <1>3, <1>4, RestsFields
<1> HIDE DEF e2
<1>6. MayGoOn(e2.wf[w], st) BY <1>4, <1>5 DEF MayGoOn
<1>7. Rests(e2, e3) /\ e3.wf[w].status = st BY <1>5, <1>6, StatusPutRests, StatusPutFields
<1>8. e3 \in Database /\ e3.wf[w].kind = d.wf[w].kind /\ Plain(e3.wf[w])
  BY <1>5, <1>7, RestsFields
<1> HIDE DEF e3
<1>9. Unmoved(e3.wf[w], "succeeded") BY <1>7, <1>8, HolderNames DEF Unmoved
<1>10. Rests(e3, e4) BY <1>8, <1>9, ChangedRests
<1>11. e4 \in Database /\ e4.wf[w].kind = d.wf[w].kind BY <1>8, <1>10, RestsFields
<1> HIDE DEF e4
<1>12. Rests(e4, e5) BY <1>11, ReleaseRests
<1>13. e5 \in Database /\ e5.wf[w].kind = d.wf[w].kind BY <1>11, <1>12, RestsFields
<1> HIDE DEF e5
<1>14. Rests(e5, Over(e5, w)) BY <1>13, OverRests
<1> QED BY <1>1, <1>2, <1>4, <1>7, <1>10, <1>12, <1>14, RestsTransitive

LEMMA CancelCompleteRests ==
  ASSUME NEW d \in Database, NEW c, c.w \in Workflow, d.wf[c.w].kind # "none",
         c.op \in OperationsOf(d.wf[c.w].kind), d.wf[c.w].kind \notin Holders
  PROVE  Rests(d, CancelComplete(d, c))
<1> DEFINE w == c.w
           st == IF Def(d, c.w, c.op).cancellation THEN "succeeded" ELSE "cancelled"
           e1 == EndJob(d, w, c.op, st)
           e2 == EndWorkflow(e1, w, "cancelled", "cancelled")
           e3 == Changed(e2, w, c.op, "cancelled")
           e4 == Release(e3, w, c.op)
<1>1. CancelComplete(d, c) = Over(e4, w) BY DEF CancelComplete
<1>2. st \in { "succeeded", "failed", "abandoned", "cancelled" } OBVIOUS
<1>3. Plain(d.wf[w]) BY HolderNames DEF Plain
<1> HIDE DEF st
<1>4. Rests(d, e1) BY <1>2, <1>3, EndJobRests
<1>5. e1 \in Database /\ e1.wf[w].kind = d.wf[w].kind /\ Plain(e1.wf[w])
      /\ d.wf[w].kind \in Kind
  BY <1>3, <1>4, RestsFields
<1> HIDE DEF e1
<1>6. MayEnd(e1.wf[w], "cancelled") BY <1>5 DEF MayEnd
<1>7. Rests(e1, e2) BY <1>5, <1>6, EndWorkflowRests, PhaseNames
<1>8. e2 \in Database /\ e2.wf[w].kind = d.wf[w].kind /\ Plain(e2.wf[w])
  BY <1>5, <1>7, RestsFields
<1> HIDE DEF e2
<1>9. Unmoved(e2.wf[w], "cancelled") BY <1>8, HolderNames DEF Unmoved
<1>10. Rests(e2, e3) BY <1>8, <1>9, ChangedRests
<1>11. e3 \in Database /\ e3.wf[w].kind = d.wf[w].kind BY <1>8, <1>10, RestsFields
<1> HIDE DEF e3
<1>12. Rests(e3, e4) BY <1>11, ReleaseRests
<1>13. e4 \in Database /\ e4.wf[w].kind = d.wf[w].kind BY <1>11, <1>12, RestsFields
<1> HIDE DEF e4
<1>14. Rests(e4, Over(e4, w)) BY <1>13, OverRests
<1> QED BY <1>1, <1>4, <1>7, <1>10, <1>12, <1>14, RestsTransitive

\* The flags of a job and of a workflow.
JobPut(d, w, o, j) == [ d EXCEPT !.wf[w].job[o] = j ]
EffectPut(d, w, o) == [ d EXCEPT !.wf[w].job[o].effect = TRUE ]
LeasePut(d, w, o) == [ d EXCEPT !.wf[w].job[o].lease = "expired" ]
StopPut(d, w, o) == [ d EXCEPT !.wf[w].job[o].stop = TRUE ]
CancelPut(d, w) == [ d EXCEPT !.wf[w].cancel = TRUE ]

LEMMA JobPutRests ==
  ASSUME NEW d \in Database, NEW w \in Workflow, d.wf[w].kind # "none",
         NEW o \in OperationsOf(d.wf[w].kind), NEW j \in Job,
         j.status = d.wf[w].job[o].status
  PROVE  Rests(d, JobPut(d, w, o, j)) /\ Quiet(d, JobPut(d, w, o, j), w)
<1> DEFINE x == d.wf[w]
           y == [ x EXCEPT !.job[o] = j ]
           e == [ d EXCEPT !.wf[w] = y ]
<1>1. x \in WorkflowOf(x.kind) /\ x.kind \in Kind BY DatabaseFields, RecordKind
<1>2. x.job \in [OperationsOf(x.kind) -> Job] BY <1>1, WorkflowFields
<1>3. Bare(x, y) /\ y.phase = x.phase /\ y.job = [ x.job EXCEPT ![o] = j ]
  BY <1>1 DEF Bare, WorkflowOf
<1>4. y \in Record BY <1>1, PutJob, WorkflowIsRecord
<1>5. JobPut(d, w, o, j) = e BY DEF JobPut
<1> HIDE DEF y
<1>6. Rewrites(d, e, w, y) BY <1>4, PutWorkflow
<1> HIDE DEF e
<1>7. SameButClaims(x, y) BY <1>2, <1>3 DEF SameButClaims
<1>8. Rests(d, e) BY <1>6, <1>7, SameButClaimsAlike, WorkRests
<1> QED BY <1>3, <1>5, <1>6, <1>8 DEF Rewrites, Quiet

LEMMA FlagsRest ==
  ASSUME NEW d \in Database, NEW w \in Workflow, d.wf[w].kind # "none",
         NEW o \in OperationsOf(d.wf[w].kind)
  PROVE  /\ Rests(d, EffectPut(d, w, o)) /\ Quiet(d, EffectPut(d, w, o), w)
         /\ Rests(d, LeasePut(d, w, o)) /\ Rests(d, StopPut(d, w, o))
<1> DEFINE j == d.wf[w].job[o]
           j1 == [ j EXCEPT !.effect = TRUE ]
           j2 == [ j EXCEPT !.lease = "expired" ]
           j3 == [ j EXCEPT !.stop = TRUE ]
<1>1. j \in Job
  <2>1. d.wf[w] \in WorkflowOf(d.wf[w].kind) /\ d.wf[w].kind \in Kind
    BY DatabaseFields, RecordKind
  <2> QED BY <2>1, WorkflowFields
<1>2. /\ EffectPut(d, w, o) = JobPut(d, w, o, j1)
      /\ LeasePut(d, w, o) = JobPut(d, w, o, j2) /\ StopPut(d, w, o) = JobPut(d, w, o, j3)
  BY DEF JobPut, EffectPut, LeasePut, StopPut
<1> HIDE DEF j
<1>3. /\ j1 \in Job /\ j1.status = j.status /\ j2 \in Job /\ j2.status = j.status
      /\ j3 \in Job /\ j3.status = j.status
  BY <1>1 DEF Job
<1> HIDE DEF j1, j2, j3
<1> QED BY <1>2, <1>3, JobPutRests DEF j

LEMMA CancelPutRests ==
  ASSUME NEW d \in Database, NEW w \in Workflow, d.wf[w].kind # "none"
  PROVE  /\ Rests(d, CancelPut(d, w)) /\ Quiet(d, CancelPut(d, w), w)
         /\ CancelPut(d, w).wf[w].job = d.wf[w].job
         /\ CancelPut(d, w).wf[w].phase = d.wf[w].phase
<1> DEFINE x == d.wf[w]
           y == [ x EXCEPT !.cancel = TRUE ]
           e == [ d EXCEPT !.wf[w] = y ]
<1>1. x \in WorkflowOf(x.kind) /\ x.kind \in Kind BY DatabaseFields, RecordKind
<1>2. Bare(x, y) /\ y.phase = x.phase /\ y.job = x.job
  BY <1>1 DEF Bare, WorkflowOf
<1>4. y \in Record BY <1>1, PutCancel, WorkflowIsRecord
<1>5. CancelPut(d, w) = e BY DEF CancelPut
<1> HIDE DEF y
<1>6. Rewrites(d, e, w, y) BY <1>4, PutWorkflow
<1> HIDE DEF e
<1>7. SameButClaims(x, y) BY <1>2 DEF SameButClaims
<1>8. Rests(d, e) BY <1>6, <1>7, SameButClaimsAlike, WorkRests
<1> QED BY <1>2, <1>5, <1>6, <1>8 DEF Rewrites, Quiet

\* A job that was given up.
LEMMA GivenUpRests ==
  ASSUME NEW d \in Database, NEW w \in Workflow, d.wf[w].kind # "none",
         NEW o \in OperationsOf(d.wf[w].kind), Plain(d.wf[w])
  PROVE  LET f == EndJob(Release(d, w, o), w, o, "abandoned") IN
         /\ Rests(d, f) /\ Quiet(d, f, w) /\ f \in Database
         /\ f.wf[w].kind = d.wf[w].kind /\ f.wf[w].status = d.wf[w].status
         /\ f.wf[w].data = d.wf[w].data /\ f.wf[w].phase = d.wf[w].phase
<1> DEFINE f == EndJob(Release(d, w, o), w, o, "abandoned")
<1>1. /\ f \in Database /\ f.row = d.row /\ f.wf[w].kind = d.wf[w].kind
      /\ f.wf[w].status = d.wf[w].status /\ f.wf[w].data = d.wf[w].data
      /\ f.wf[w].phase = d.wf[w].phase
  BY GivenUp
<1>2. Quiet(d, Release(d, w, o), w) /\ Release(d, w, o) \in Database
  BY ReleaseRests DEF Quiet
<1>3. Quiet(Release(d, w, o), f, w) BY <1>2, EndJobIsQuiet DEF Quiet, Bare
<1> HIDE DEF f
<1>4. Quiet(d, f, w) BY <1>2, <1>3, QuietTransitive
<1>5. Rests(d, f) BY <1>4, QuietRests
<1> QED BY <1>1, <1>4, <1>5 DEF f

LEMMA PhasePutRests ==
  ASSUME NEW d \in Database, NEW w \in Workflow, d.wf[w].kind # "none", NEW ph \in Phase,
         Plain(d.wf[w])
  PROVE  Rests(d, PhasePut(d, w, ph))
BY PhasePutIsQuiet, QuietRests

LEMMA QueueRests ==
  ASSUME NEW d \in Database, NEW w \in Workflow, d.wf[w].kind # "none",
         NEW o \in OperationsOf(d.wf[w].kind), Plain(d.wf[w])
  PROVE  Rests(d, Queue(d, w, o)) /\ Queue(d, w, o).wf[w].status = d.wf[w].status
BY QueueIsQuiet, QuietRests DEF Quiet, Bare

LEMMA CancelQueuedRests ==
  ASSUME NEW d \in Database, NEW w \in Workflow, d.wf[w].kind # "none", Plain(d.wf[w])
  PROVE  Rests(d, CancelQueued(d, w)) /\ CancelQueued(d, w).wf[w].status = d.wf[w].status
BY CancelQueuedIsQuiet, QuietRests DEF Quiet, Bare

----------------------------------------------------------------------------
\* What rests may come before or after what moves a row.

LEMMA RowLikeSound ==
  ASSUME NEW r, NEW s, RowLike(r, s), RowSound(r) PROVE RowSound(s)
BY DEF RowLike, RowSound

LEMMA BeginsRests ==
  ASSUME NEW d, NEW e, NEW f, NEW w \in Workflow, Begins(d, e, w), Rests(e, f)
  PROVE  Begins(d, f, w)
<1> DEFINE y == e.wf[w]
           z == f.wf[w]
<1>1. Alike(y, z) /\ z.kind = y.kind /\ Bound(z) = Bound(y) BY DEF Rests, Alike, Bound
<1>2. y.kind \in Takers => z.status = y.status BY <1>1 DEF Alike, Holders
<1>3. InOrder(z) /\ RoundInRange(z) BY <1>1, AlikeInOrder, AlikeInRange DEF Begins
<1>4. OthersAlike(d, f, w) BY AlikeTransitive DEF Begins, Rests, OthersAlike
<1>5. ASSUME NEW m \in Manga
      PROVE  /\ f.row[m].external = d.row[m].external
             /\ \/ RowLike(d.row[m], f.row[m])
                \/ /\ z.kind \in Takers /\ z.status = "active" /\ m \in Bound(z)
                   /\ RowSound(f.row[m]) /\ f.row[m].status = "special_processing"
  <2>1. RowLike(e.row[m], f.row[m]) BY DEF Rests, RowsLike
  <2>2. CASE RowLike(d.row[m], e.row[m]) BY <2>1, <2>2 DEF RowLike
  <2>3. CASE ~RowLike(d.row[m], e.row[m])
    <3>1. /\ y.kind \in Takers /\ y.status = "active" /\ m \in Bound(y)
          /\ RowSound(e.row[m]) /\ e.row[m].status = "special_processing"
          /\ e.row[m].external = d.row[m].external
      BY <2>3 DEF Begins
    <3> QED BY <1>1, <1>2, <2>1, <3>1, RowLikeSound DEF RowLike
  <2> QED BY <2>2, <2>3
<1>6. ASSUME z.kind \in Takers, z.status = "active", NEW m \in Bound(z)
      PROVE  f.row[m].status = "special_processing"
  <2>1. e.row[m].status = "special_processing" BY <1>1, <1>2, <1>6 DEF Begins
  <2>2. m \in Manga
    <3>1. f \in Database BY DEF Rests
    <3> QED BY <1>6, <3>1, BoundAreRows
  <2> QED BY <2>1, <2>2 DEF Rests, RowsLike, RowLike
<1>7. f \in Database /\ d.wf[w].kind = "none" /\ z.kind \in Kind
  BY <1>1 DEF Rests, Begins
<1> QED BY <1>3, <1>4, <1>5, <1>6, <1>7 DEF Begins

LEMMA GivesBackRests ==
  ASSUME NEW d, NEW e, NEW f, NEW w \in Workflow, GivesBack(d, e, w), Rests(e, f),
         Bound(d.wf[w]) \subseteq Manga
  PROVE  GivesBack(d, f, w)
<1>1. /\ f.wf[w].kind = d.wf[w].kind /\ f.wf[w].bind = d.wf[w].bind
      /\ f.wf[w].status # "active"
  BY DEF GivesBack, Rests, Alike, Holders
<1>2. OthersAlike(d, f, w) BY AlikeTransitive DEF GivesBack, Rests, OthersAlike
<1>3. \A m \in Manga : RowLike(e.row[m], f.row[m]) BY DEF Rests, RowsLike
<1>4. \A m \in Manga \ Bound(d.wf[w]) : RowLike(d.row[m], f.row[m])
  BY <1>3 DEF GivesBack, RowLike
<1>5. \A m \in Bound(d.wf[w]) :
        /\ RowSound(f.row[m]) /\ f.row[m].status # "special_processing"
        /\ d.wf[w].kind = "manual_torrent" /\ d.wf[w].data.submission => f.row[m].external
  BY <1>3, RowLikeSound DEF GivesBack, RowLike
<1> QED BY <1>1, <1>2, <1>4, <1>5 DEF GivesBack, Rests

LEMMA RestsGivesBack ==
  ASSUME NEW d, NEW e, NEW f, NEW w \in Workflow, Rests(d, e), GivesBack(e, f, w)
  PROVE  GivesBack(d, f, w)
<1>1. /\ e.wf[w].kind = d.wf[w].kind /\ e.wf[w].bind = d.wf[w].bind
      /\ d.wf[w].status = "active" /\ Bound(e.wf[w]) = Bound(d.wf[w])
      /\ d.wf[w].kind = "manual_torrent" /\ d.wf[w].data.submission =>
           e.wf[w].data.submission
  BY DEF GivesBack, Rests, Alike, Holders, Bound
<1>2. OthersAlike(d, f, w) BY AlikeTransitive DEF GivesBack, Rests, OthersAlike
<1>3. \A m \in Manga : RowLike(d.row[m], e.row[m]) BY DEF Rests, RowsLike
<1>4. \A m \in Manga \ Bound(d.wf[w]) : RowLike(d.row[m], f.row[m])
  BY <1>1, <1>3 DEF GivesBack, RowLike
<1> QED BY <1>1, <1>2, <1>4 DEF GivesBack

LEMMA UpdatesRests ==
  ASSUME NEW d, NEW e, NEW f, NEW w \in Workflow, Updates(d, e, w), Rests(e, f)
  PROVE  Updates(d, f, w)
<1> DEFINE x == d.wf[w]
           y == e.wf[w]
           z == f.wf[w]
<1>1. Alike(y, z) /\ z.kind = x.kind /\ z.bind = x.bind BY DEF Updates, Rests, Alike
<1>2. InOrder(z) BY <1>1, AlikeInOrder DEF Updates
<1>3. OthersAlike(d, f, w) BY AlikeTransitive DEF Updates, Rests, OthersAlike
<1>4. ASSUME NEW m \in Manga
      PROVE  /\ RowSound(f.row[m]) /\ f.row[m].external = d.row[m].external
             /\ \/ f.row[m].status = d.row[m].status
                \/ x.status = "active" /\ m \in Bound(x)
             /\ f.row[m].status = "special_processing" =>
                  \/ Keeps(z, m)
                  \/ d.row[m].status = "special_processing" /\ ~Keeps(x, m)
  <2>1. RowLike(e.row[m], f.row[m]) BY DEF Rests, RowsLike
  <2>2. Keeps(y, m) => Keeps(z, m) BY <1>1, AlikeKeeps
  <2> QED BY <2>1, <2>2, RowLikeSound DEF Updates, RowLike
<1> QED BY <1>1, <1>2, <1>3, <1>4 DEF Updates, Rests

----------------------------------------------------------------------------
\* A workflow is created.

\* The database in which workflow w of kind k has just taken over row m.
TakenOver(d, w, m, k) ==
  [ Touch(d, m) EXCEPT
      !.wf[w] = [ NewWorkflow(k) EXCEPT
                    !.bind = [n \in {m} |-> [ status |-> d.row[m].status,
                                              error |-> d.row[m].error ]] ],
      !.row[m].status = "special_processing" ]

TookOver(w, m, k) ==
  LET e == TakenOver(db, w, m, k) IN
  /\ Born(db, e, w, k) /\ Bound(e.wf[w]) = {m}
  /\ e.row = [ db.row EXCEPT ![m] = [ db.row[m] EXCEPT !.status = "special_processing" ] ]
  /\ \A v \in Workflow \ {w} : e.wf[v] = Touch(db, m).wf[v]

LEMMA TakesOver ==
  ASSUME TypeInv, NEW w \in Workflow, ~Exists(db, w), NEW m \in Manga,
         NEW k \in { "video_archive", "manual_torrent" },
         db.row[m].status # "special_processing"
  PROVE  TookOver(w, m, k)
<1> DEFINE r == db.row[m]
           b == [n \in {m} |-> [ status |-> r.status, error |-> r.error ]]
           x == [ NewWorkflow(k) EXCEPT !.bind = b ]
           t == Touch(db, m)
           e == [ t EXCEPT !.wf[w] = x ]
           s == [ r EXCEPT !.status = "special_processing" ]
           born == [ t EXCEPT !.wf[w] = x, !.row[m].status = "special_processing" ]
<1>0. born = TakenOver(db, w, m, k) BY DEF TakenOver
<1>1. db \in Database /\ r \in Row /\ k \in Kind BY DatabaseFields, KindNames DEF TypeInv
<1>2. b \in BindOf(k)
  <2>1. [ status |-> r.status, error |-> r.error ] \in Entry BY <1>1 DEF Row, Entry
  <2>2. b \in [{m} -> Entry] BY <2>1
  <2> HIDE DEF b
  <2> QED BY <2>2 DEF BindOf
<1>3. DOMAIN b = {m} OBVIOUS
<1> HIDE DEF b
<1>4. /\ x \in WorkflowOf(k) /\ x.kind = k /\ x.status = "active"
      /\ x.cancel = FALSE /\ x.claims = {} /\ x.bind = b
      /\ x.data = InitialData[k] /\ x.job = [o \in OperationsOf(k) |-> NoJob]
  BY <1>1, <1>2, NewIsTyped
<1> HIDE DEF x
<1>5. Remarks(db, t) /\ t.row = db.row /\ t \in Database
  BY <1>1, TouchRemarks DEF Remarks
<1> HIDE DEF t
<1>6. x \in Record BY <1>1, <1>4, WorkflowIsRecord
<1>7. Rewrites(t, e, w, x) BY <1>5, <1>6, PutWorkflow
<1>8. e \in Database /\ e.row = db.row /\ e.wf[w] = x
      /\ \A v \in Workflow \ {w} : e.wf[v] = t.wf[v]
  BY <1>5, <1>7 DEF Rewrites
<1>9. born = [ e EXCEPT !.row[m] = s ]
  <2>1. born = [ e EXCEPT !.row[m] = [ e.row[m] EXCEPT !.status = "special_processing" ] ]
    OBVIOUS
  <2> QED BY <1>8, <2>1
<1>10. s \in Row BY <1>1 DEF Row, RowStatus
<1> HIDE DEF e, s, born
<1>11. born \in Database /\ born.wf = e.wf /\ born.row = [ db.row EXCEPT ![m] = s ]
  BY <1>8, <1>9, <1>10, PutRow
<1>12. \A v \in Workflow \ {w} : Kept(db.wf[v], born.wf[v])
  BY <1>5, <1>8, <1>11 DEF Remarks
<1>13. db.wf[w] = NoWorkflow BY NotThere
<1>14. Born(db, born, w, k) BY <1>4, <1>8, <1>11, <1>12, <1>13 DEF Born
<1>15. Bound(born.wf[w]) = {m} BY <1>3, <1>4, <1>8, <1>11 DEF Bound
<1>16. /\ born.row = [ db.row EXCEPT ![m] = [ db.row[m] EXCEPT !.status = "special_processing" ] ]
       /\ \A v \in Workflow \ {w} : born.wf[v] = Touch(db, m).wf[v]
  BY <1>8, <1>11 DEF s, t
<1> QED BY <1>0, <1>14, <1>15, <1>16 DEF TookOver

LEMMA BornRows ==
  ASSUME TypeInv, NEW w \in Workflow, ~Exists(db, w), NEW m \in Manga, NEW k \in Takers,
         db.row[m].status # "special_processing", ~db.row[m].busy, ~db.row[m].external
  PROVE  LET e == TakenOver(db, w, m, k) IN
         Begins(db, e, w) /\ e \in Database /\ e.wf[w].kind = k
<1> DEFINE born == TakenOver(db, w, m, k)
           t == Touch(db, m)
<1>1. k \in { "video_archive", "manual_torrent" } BY HolderNames
<1>2. /\ Born(db, born, w, k) /\ Bound(born.wf[w]) = {m}
      /\ born.row = [ db.row EXCEPT ![m] = [ db.row[m] EXCEPT
                                               !.status = "special_processing" ] ]
      /\ \A v \in Workflow \ {w} : born.wf[v] = t.wf[v]
  <2>1. TookOver(w, m, k) BY <1>1, TakesOver
  <2> QED BY <2>1 DEF TookOver
<1>3. db \in Database /\ Rests(db, t) /\ t \in Database BY TouchRests DEF TypeInv
<1> HIDE DEF born, t
<1>5. OthersAlike(db, born, w) BY <1>2, <1>3 DEF OthersAlike, Rests
<1>6. k \in Kind /\ born.wf[w].kind = k /\ born.wf[w].status = "active"
  BY <1>1, <1>2, KindNames, WorkflowFields DEF Born
<1>7. InOrder(born.wf[w]) /\ RoundInRange(born.wf[w])
  BY <1>6, HolderNames DEF InOrder, RoundInRange
<1>8. db.row \in [Manga -> Row] /\ db.row[m] \in Row BY <1>3, DatabaseFields
<1>9. /\ \A n \in Manga \ {m} : born.row[n] = db.row[n]
      /\ born.row[m].status = "special_processing"
      /\ born.row[m].busy = db.row[m].busy /\ born.row[m].external = db.row[m].external
  BY <1>2, <1>8 DEF Row
<1>10. ASSUME NEW n \in Manga
       PROVE  /\ born.row[n].external = db.row[n].external
              /\ \/ RowLike(db.row[n], born.row[n])
                 \/ /\ born.wf[w].kind \in Takers /\ born.wf[w].status = "active"
                    /\ n \in Bound(born.wf[w])
                    /\ RowSound(born.row[n]) /\ born.row[n].status = "special_processing"
  BY <1>2, <1>6, <1>9 DEF RowLike, RowSound
<1>11. db.wf[w].kind = "none" BY DEF Exists
<1> QED BY <1>2, <1>5, <1>6, <1>7, <1>9, <1>10, <1>11 DEF Begins, Born, born

LEMMA StartVideoBegins ==
  ASSUME TypeInv, RowsIn(db), NEW w \in Workflow, NEW m \in Manga, NEW load \in BOOLEAN,
         StartVideo(w, m, load)
  PROVE  Begins(db, db', w)
<1> DEFINE born == TakenOver(db, w, m, "video_archive")
           held == Acquire(born, w, { MangaKey(m) }, ByWorkflow, 0)
<1>1. /\ ~Exists(db, w) /\ db.row[m].status = "manual_review" /\ ~db.row[m].busy
      /\ db' = IF load THEN Queue(held, w, "load") ELSE held
  BY DEF StartVideo, IsNew, TakenOver
<1>2. "video_archive" \in Takers /\ ~db.row[m].external
  BY <1>1, HolderNames DEF RowsIn, RowsSound, RowSound
<1>3. Begins(db, born, w) /\ born \in Database /\ born.wf[w].kind = "video_archive"
  BY <1>1, <1>2, BornRows
<1> HIDE DEF born
<1>5. Rests(born, held) BY <1>3, VideoIsKind, MangaKeyIsKey, AcquireRests
<1>6. held \in Database /\ held.wf[w].kind = "video_archive" /\ Plain(held.wf[w])
  BY <1>3, <1>5, RestsFields, VideoIsKind DEF Plain
<1> HIDE DEF held
<1>7. Rests(held, Queue(held, w, "load")) BY <1>6, QueueRests, OperationNames, VideoIsKind
<1>8. Rests(born, db') BY <1>1, <1>5, <1>7, RestsTransitive
<1> QED BY <1>3, <1>8, BeginsRests

LEMMA StartManualBegins ==
  ASSUME TypeInv, NEW w \in Workflow, NEW m \in Manga, StartManual(w, m)
  PROVE  Begins(db, db', w)
<1> DEFINE born == TakenOver(db, w, m, "manual_torrent")
<1>1. /\ ~Exists(db, w) /\ db.row[m].status # "special_processing" /\ ~db.row[m].busy
      /\ ~db.row[m].external
      /\ db' = Acquire(born, w, { MangaKey(m) }, ByWorkflow, 0)
  BY DEF StartManual, IsNew, TakenOver
<1>2. "manual_torrent" \in Takers BY HolderNames
<1>3. Begins(db, born, w) /\ born \in Database /\ born.wf[w].kind = "manual_torrent"
  BY <1>1, <1>2, BornRows
<1> HIDE DEF born
<1>5. Rests(born, db') BY <1>1, <1>3, ManualIsKind, MangaKeyIsKey, AcquireRests
<1> QED BY <1>3, <1>5, BeginsRests

\* What the steps of a metadata update do to its phase and to its jobs.
StatusOf(d, w, o) == d.wf[w].job[o].status

LEMMA JobStatuses ==
  ASSUME NEW k \in Kind, NEW x \in WorkflowOf(k), NEW j \in [OperationsOf(k) -> Job],
         NEW y, y = [ x EXCEPT !.job = j ]
  PROVE  Bare(x, y) /\ y.phase = x.phase /\ y.job = j
BY DEF Bare, WorkflowOf

LEMMA QueueStatuses ==
  ASSUME NEW d \in Database, NEW w \in Workflow, d.wf[w].kind # "none",
         NEW o \in OperationsOf(d.wf[w].kind)
  PROVE  LET f == Queue(d, w, o) IN
         /\ Quiet(d, f, w) /\ f.wf[w].phase = d.wf[w].phase
         /\ \A n \in OperationsOf(d.wf[w].kind) :
              StatusOf(f, w, n) = IF n = o /\ ~Open(d.wf[w], o) THEN "queued"
                                  ELSE StatusOf(d, w, n)
<1> DEFINE x == d.wf[w]
           y == [ x EXCEPT !.job[o] = [ NoJob EXCEPT !.status = "queued",
                                                     !.no = x.job[o].no + 1 ] ]
<1>1. x \in WorkflowOf(x.kind) /\ x.kind \in Kind BY DatabaseFields, RecordKind
<1>2. x.job \in [OperationsOf(x.kind) -> Job] BY <1>1, WorkflowFields
<1>4. Rewrites(d, Queue(d, w, o), w,
               IF x.job[o].status \in { "queued", "running" } THEN x ELSE y)
  BY QueueMoves
<1> DEFINE i == [ NoJob EXCEPT !.status = "queued", !.no = x.job[o].no + 1 ]
           f == Queue(d, w, o)
<1>3. i.status = "queued" BY DEF NoJob
<1> HIDE DEF f
<1>5. y.phase = x.phase /\ y.job = [ x.job EXCEPT ![o] = i ] BY <1>1 DEF WorkflowOf
<1> HIDE DEF y, i
<1>6. f.wf[w] = IF x.job[o].status \in { "queued", "running" } THEN x ELSE y
  BY <1>4 DEF Rewrites, f
<1>7. f.wf[w].phase = x.phase BY <1>5, <1>6
<1>8. ASSUME NEW n \in OperationsOf(x.kind)
      PROVE  StatusOf(f, w, n) = IF n = o /\ ~Open(d.wf[w], o) THEN "queued"
                                 ELSE StatusOf(d, w, n)
  <2>1. CASE x.job[o].status \in { "queued", "running" }
    BY <1>6, <2>1 DEF StatusOf, Open
  <2>2. CASE x.job[o].status \notin { "queued", "running" }
    <3>1. f.wf[w].job = [ x.job EXCEPT ![o] = i ] BY <1>5, <1>6, <2>2
    <3> QED BY <1>2, <1>3, <2>2, <3>1 DEF StatusOf, Open
  <2> QED BY <2>1, <2>2
<1> QED BY <1>7, <1>8, QueueIsQuiet DEF f

LEMMA EndJobStatuses ==
  ASSUME NEW d \in Database, NEW w \in Workflow, d.wf[w].kind # "none",
         NEW o \in OperationsOf(d.wf[w].kind),
         NEW st \in { "succeeded", "failed", "abandoned", "cancelled" }
  PROVE  LET f == EndJob(d, w, o, st) IN
         /\ Quiet(d, f, w) /\ f.wf[w].phase = d.wf[w].phase
         /\ \A n \in OperationsOf(d.wf[w].kind) :
              StatusOf(f, w, n) = IF n = o THEN st ELSE StatusOf(d, w, n)
<1> DEFINE x == d.wf[w]
           y == [ x EXCEPT !.job[o] = [ NoJob EXCEPT !.status = st, !.no = x.job[o].no ] ]
<1>1. x \in WorkflowOf(x.kind) /\ x.kind \in Kind BY DatabaseFields, RecordKind
<1>2. x.job \in [OperationsOf(x.kind) -> Job] BY <1>1, WorkflowFields
<1>4. Rewrites(d, EndJob(d, w, o, st), w, y) BY EndJobMoves
<1> DEFINE i == [ NoJob EXCEPT !.status = st, !.no = x.job[o].no ]
           f == EndJob(d, w, o, st)
<1>3. i.status = st BY DEF NoJob
<1> HIDE DEF f
<1>5. y.phase = x.phase /\ y.job = [ x.job EXCEPT ![o] = i ] BY <1>1 DEF WorkflowOf
<1> HIDE DEF y, i
<1>6. f.wf[w].phase = x.phase /\ f.wf[w].job = [ x.job EXCEPT ![o] = i ]
  BY <1>4, <1>5 DEF Rewrites, f
<1>7. \A n \in OperationsOf(x.kind) :
        StatusOf(f, w, n) = IF n = o THEN st ELSE StatusOf(d, w, n)
  BY <1>2, <1>3, <1>6 DEF StatusOf
<1> QED BY <1>6, <1>7, EndJobIsQuiet DEF f

LEMMA CancelQueuedStatuses ==
  ASSUME NEW d \in Database, NEW w \in Workflow, d.wf[w].kind # "none"
  PROVE  LET f == CancelQueued(d, w) IN
         /\ Quiet(d, f, w) /\ f.wf[w].phase = d.wf[w].phase
         /\ \A n \in OperationsOf(d.wf[w].kind) :
              StatusOf(f, w, n) = IF StatusOf(d, w, n) = "queued" THEN "cancelled"
                                  ELSE StatusOf(d, w, n)
<1> DEFINE x == d.wf[w]
           j == [o \in DOMAIN x.job |-> IF x.job[o].status = "queued"
                   THEN [ x.job[o] EXCEPT !.status = "cancelled" ] ELSE x.job[o]]
           y == [ x EXCEPT !.job = j ]
           f == CancelQueued(d, w)
<1>1. x \in WorkflowOf(x.kind) /\ x.kind \in Kind BY DatabaseFields, RecordKind
<1>2. x.job \in [OperationsOf(x.kind) -> Job] BY <1>1, WorkflowFields
<1>3. \A n \in OperationsOf(x.kind) :
        j[n].status = IF x.job[n].status = "queued" THEN "cancelled" ELSE x.job[n].status
  BY <1>2 DEF Job
<1>4. Rewrites(d, f, w, y) BY CancelQueuedMoves
<1> HIDE DEF f, j
<1>5. y.phase = x.phase /\ y.job = j BY <1>1 DEF WorkflowOf
<1> HIDE DEF y
<1>6. f.wf[w].phase = x.phase /\ f.wf[w].job = j BY <1>4, <1>5 DEF Rewrites
<1> QED BY <1>3, <1>6, CancelQueuedIsQuiet DEF f, StatusOf

LEMMA SetPhaseStatuses ==
  ASSUME NEW d \in Database, NEW w \in Workflow, d.wf[w].kind # "none",
         NEW o \in OperationsOf(d.wf[w].kind), NEW ph \in Phase
  PROVE  LET f == SetPhase(d, w, o, ph) IN
         /\ Quiet(d, f, w) /\ f.wf[w].job = d.wf[w].job
         /\ f.wf[w].phase = IF Def(d, w, o).affects THEN ph ELSE d.wf[w].phase
<1> DEFINE x == d.wf[w]
           y == [ x EXCEPT !.phase = ph ]
           f == SetPhase(d, w, o, ph)
<1>1. x \in WorkflowOf(x.kind) /\ x.kind \in Kind BY DatabaseFields, RecordKind
<1>2. y.job = x.job /\ y.phase = ph BY <1>1 DEF WorkflowOf
<1>3. Rewrites(d, f, w, IF Def(d, w, o).affects THEN y ELSE x) BY SetPhaseMoves
<1> HIDE DEF y
<1> QED BY <1>2, <1>3, SetPhaseIsQuiet DEF Rewrites

\* The other kinds begin without a row of their own.
LEMMA NewBegins ==
  ASSUME NEW d \in Database, NEW e, NEW w \in Workflow, NEW y, d.wf[w].kind = "none",
         Rewrites(d, e, w, y), y.kind \in Kind \ Takers, InOrder(y), RoundInRange(y)
  PROVE  Begins(d, e, w)
<1>1. OthersAlike(d, e, w) BY AlikeReflexive DEF Rewrites, OthersAlike
<1>2. \A m \in Manga : RowLike(d.row[m], e.row[m]) /\ e.row[m].external = d.row[m].external
  BY DEF Rewrites, RowLike
<1> QED BY <1>1, <1>2 DEF Begins, Rewrites

LEMMA BeginsQuiet ==
  ASSUME NEW d, NEW e, NEW f, NEW w \in Workflow, Begins(d, e, w), Quiet(e, f, w),
         e.wf[w].kind \notin Takers, InOrder(f.wf[w])
  PROVE  Begins(d, f, w)
<1>1. f.wf[w].kind = e.wf[w].kind /\ f.wf[w].status = e.wf[w].status
      /\ f.wf[w].data = e.wf[w].data
  BY DEF Quiet, Bare
<1>2. RoundInRange(f.wf[w]) BY <1>1 DEF Begins, RoundInRange
<1>3. OthersAlike(d, f, w) BY DEF Begins, OthersAlike, Quiet
<1> QED BY <1>1, <1>2, <1>3 DEF Begins, Quiet

LEMMA StartMetadataBegins ==
  ASSUME TypeInv, NEW w \in Workflow, NEW ms \in SUBSET Manga, StartMetadata(w, ms)
  PROVE  Begins(db, db', w)
<1> DEFINE k == "lanraragi_metadata"
           b == [m \in ms |-> [ status |-> db.row[m].status, error |-> db.row[m].error ]]
           x == [ NewWorkflow(k) EXCEPT !.bind = b ]
           keys == { MangaKey(m) : m \in ms }
           e == [ db EXCEPT !.wf[w] = x ]
           born == Acquire(e, w, keys, ByWorkflow, 0)
<1>1. /\ ~Exists(db, w) /\ db' = Queue(born, w, "scan")
      /\ \A m \in ms : EligibleRow(db.row[m])
  BY DEF StartMetadata, IsNew
<1>2. db \in Database /\ k \in Kind /\ k \notin Takers /\ keys \in SUBSET Key
  BY MetadataIsKind, MangaKeyIsKey, HolderNames DEF TypeInv
<1>3. b \in BindOf(k)
  <2>1. ASSUME NEW m \in ms
        PROVE  [ status |-> db.row[m].status, error |-> db.row[m].error ] \in Entry
    <3>1. db.row[m] \in Row BY <1>2, DatabaseFields
    <3>2. db.row[m].status \in { "completed", "manual_review" } BY <1>1 DEF EligibleRow
    <3> QED BY <3>1, <3>2 DEF Row, Entry
  <2>2. b \in [ms -> Entry] BY <2>1
  <2> HIDE DEF b
  <2> QED BY <2>2 DEF BindOf
<1> HIDE DEF b
<1>4. /\ x \in WorkflowOf(k) /\ x.kind = k /\ x.status = "active"
      /\ x.cancel = FALSE /\ x.claims = {} /\ x.bind = b
      /\ x.data = InitialData[k] /\ x.job = [o \in OperationsOf(k) |-> NoJob]
  BY <1>2, <1>3, NewIsTyped
<1>5. x.phase = "queued" BY DEF NewWorkflow, NoWorkflow, InitialPhase
<1>6. x.data.ready = {} /\ x.data.reserved = {} BY <1>4 DEF InitialData
<1>7. \A o \in { "scan", "apply" } : x.job[o].status = "none"
  BY <1>4, OperationNames DEF NoJob
<1> HIDE DEF x
<1>8. x \in Record BY <1>2, <1>4, WorkflowIsRecord
<1>9. Rewrites(db, e, w, x) BY <1>2, <1>8, PutWorkflow
<1>10. InOrder(x) /\ RoundInRange(x)
  <2>1. Ready(x) = {} BY <1>6 DEF Ready
  <2> QED BY <1>4, <1>6, <1>7, <2>1 DEF InOrder, UpdateInOrder, RoundInRange
<1>11. Begins(db, e, w) BY <1>1, <1>2, <1>4, <1>9, <1>10, NewBegins DEF Exists
<1> HIDE DEF e
<1>12. e \in Database /\ e.wf[w] = x BY <1>9 DEF Rewrites
<1>13. Rests(e, born) /\ Quiet(e, born, w) /\ SameButClaims(x, born.wf[w])
  BY <1>2, <1>4, <1>12, AcquireRests
<1> HIDE DEF born
<1>14. /\ born \in Database /\ born.wf[w].kind = k /\ born.wf[w].status = "active"
       /\ born.wf[w].phase = "queued" /\ born.wf[w].data = x.data
       /\ \A o \in { "scan", "apply" } : born.wf[w].job[o].status = "none"
  BY <1>4, <1>5, <1>7, <1>13, OperationNames DEF Rests, SameButClaims, Bare
<1>15. Begins(db, born, w) BY <1>11, <1>13, BeginsRests
<1>16. k # "none" /\ OperationsOf(k) = { "scan", "apply" }
  BY OperationNames, MetadataIsKind
<1>17. /\ Quiet(born, db', w) /\ db'.wf[w].phase = "queued"
       /\ \A o \in { "scan", "apply" } :
            db'.wf[w].job[o].status = IF o = "scan" THEN "queued" ELSE "none"
  BY <1>1, <1>14, <1>16, QueueStatuses DEF StatusOf, Open
<1>18. InOrder(db'.wf[w])
  <2>1. db'.wf[w].data = x.data /\ db'.wf[w].status = "active" BY <1>14, <1>17 DEF Quiet, Bare
  <2>2. Ready(db'.wf[w]) = {} BY <1>6, <2>1 DEF Ready
  <2> QED BY <1>6, <1>17, <2>1, <2>2 DEF InOrder, UpdateInOrder, Open
<1> QED BY <1>2, <1>14, <1>15, <1>17, <1>18, BeginsQuiet

LEMMA LibraryBegins ==
  ASSUME TypeInv, NEW w \in Workflow, ~Exists(db, w),
         NEW k \in { "lanraragi_compare", "download_cleanup", "full_collect" }
  PROVE  LET e == [ db EXCEPT !.wf[w] = NewWorkflow(k) ] IN
         Begins(db, e, w) /\ e \in Database /\ e.wf[w].kind = k /\ e.wf[w].kind # "none"
<1> DEFINE x == NewWorkflow(k)
           e == [ db EXCEPT !.wf[w] = x ]
<1>1. db \in Database /\ k \in Kind \ Takers /\ k \notin Holders /\ k # "none"
  BY KindNames, HolderNames DEF TypeInv
<1>2. x \in WorkflowOf(k) /\ x.kind = k /\ x.data = InitialData[k] BY NewOfTheLibrary
<1>3. k = "full_collect" => x.data.cursor = 0 /\ LastPage # 0
  BY <1>2, RangeAssumption, Limits DEF InitialData
<1> HIDE DEF x
<1>4. x \in Record BY <1>1, <1>2, WorkflowIsRecord
<1>5. Rewrites(db, e, w, x) BY <1>1, <1>4, PutWorkflow
<1>6. InOrder(x) BY <1>1, <1>2, HolderNames DEF InOrder
<1>7. RoundInRange(x) BY <1>2, <1>3, Limits DEF RoundInRange
<1> HIDE DEF e
<1>8. Begins(db, e, w) BY <1>1, <1>2, <1>5, <1>6, <1>7, NewBegins DEF Exists
<1> QED BY <1>1, <1>2, <1>5, <1>8 DEF Rewrites, x, e

LEMMA StartLibraryBegins ==
  ASSUME TypeInv, NEW w \in Workflow, StartCompare(w) \/ StartCleanup(w) \/ StartRound(w)
  PROVE  Begins(db, db', w)
<1>1. CASE StartCompare(w)
  <2> DEFINE e == [ db EXCEPT !.wf[w] = NewWorkflow("lanraragi_compare") ]
             held == Acquire(e, w, { InstanceKey }, ByWorkflow, 0)
  <2>1. ~Exists(db, w) /\ db' = Queue(held, w, "compare") BY <1>1 DEF StartCompare, IsNew
  <2>2. Begins(db, e, w) /\ e \in Database /\ e.wf[w].kind = "lanraragi_compare"
        /\ e.wf[w].kind # "none"
    BY <2>1, LibraryBegins
  <2> HIDE DEF e
  <2>3. { InstanceKey } \in SUBSET Key /\ 0 \in Nat BY DEF Key
  <2>4. Rests(e, held) BY <2>2, <2>3, AcquireRests
  <2>5. held \in Database /\ held.wf[w].kind = "lanraragi_compare"
        /\ held.wf[w].kind # "none" /\ Plain(held.wf[w])
    BY <2>2, <2>4, RestsFields DEF Plain
  <2> HIDE DEF held
  <2>6. Rests(held, db') BY <2>1, <2>5, QueueRests, OperationNames
  <2> QED BY <2>2, <2>4, <2>6, RestsTransitive, BeginsRests
<1>2. CASE StartCleanup(w)
  <2> DEFINE e == [ db EXCEPT !.wf[w] = NewWorkflow("download_cleanup") ]
  <2>1. ~Exists(db, w) /\ db' = Queue(e, w, "scan") BY <1>2 DEF StartCleanup, IsNew
  <2>2. Begins(db, e, w) /\ e \in Database /\ e.wf[w].kind = "download_cleanup"
        /\ e.wf[w].kind # "none"
    BY <2>1, LibraryBegins
  <2> HIDE DEF e
  <2>3. Rests(e, db') BY <2>1, <2>2, QueueRests, OperationNames DEF Plain
  <2> QED BY <2>2, <2>3, BeginsRests
<1>3. CASE StartRound(w)
  <2> DEFINE e == [ db EXCEPT !.wf[w] = NewWorkflow("full_collect") ]
  <2>1. ~Exists(db, w) /\ db' = Queue(e, w, Batch) BY <1>3 DEF StartRound, IsNew
  <2>2. Begins(db, e, w) /\ e \in Database /\ e.wf[w].kind = "full_collect"
        /\ e.wf[w].kind # "none"
    BY <2>1, LibraryBegins
  <2> HIDE DEF e
  <2>3. Rests(e, db') BY <2>1, <2>2, QueueRests, OperationNames DEF Plain, Batch
  <2> QED BY <2>2, <2>3, BeginsRests
<1> QED BY <1>1, <1>2, <1>3

----------------------------------------------------------------------------
\* What a workflow other than a metadata update does within one transaction.
Stays(d, e, w) ==
  /\ d \in Database /\ e \in Database /\ Rests(d, e)
  /\ d.wf[w].kind # "none" /\ Plain(d.wf[w]) /\ e.wf[w].kind = d.wf[w].kind

LEMMA StaysAtOnce ==
  ASSUME NEW d \in Database, NEW w \in Workflow, d.wf[w].kind # "none", Plain(d.wf[w])
  PROVE  Stays(d, d, w)
BY RestsReflexive DEF Stays

LEMMA StaysOn ==
  ASSUME NEW d, NEW e, NEW f, NEW w \in Workflow, Stays(d, e, w), Rests(e, f)
  PROVE  Stays(d, f, w)
<1>1. Rests(d, f) BY RestsTransitive DEF Stays
<1>2. f \in Database /\ f.wf[w].kind = e.wf[w].kind BY RestsFields DEF Stays
<1> QED BY <1>1, <1>2 DEF Stays

LEMMA StaysFields ==
  ASSUME NEW d, NEW e, NEW w \in Workflow, Stays(d, e, w)
  PROVE  /\ e \in Database /\ e.wf[w].kind # "none" /\ Plain(e.wf[w])
         /\ e.wf[w].kind = d.wf[w].kind /\ e.wf[w].kind \in Kind
         /\ e.wf[w] \in WorkflowOf(d.wf[w].kind) /\ e.wf[w].data \in DataOf(d.wf[w].kind)
         /\ e.wf[w].bind = d.wf[w].bind /\ TheManga(e.wf[w]) = TheManga(d.wf[w])
         /\ d.wf[w].kind \in Holders => e.wf[w].status = d.wf[w].status
<1>1. e \in Database /\ e.wf[w].kind # "none" /\ Plain(e.wf[w])
      /\ e.wf[w].kind = d.wf[w].kind
  BY DEF Stays, Plain
<1>2. /\ e.wf[w].bind = d.wf[w].bind /\ TheManga(e.wf[w]) = TheManga(d.wf[w])
      /\ d.wf[w].kind \in Holders => e.wf[w].status = d.wf[w].status
      /\ e.wf[w] \in WorkflowOf(d.wf[w].kind) /\ d.wf[w].kind \in Kind
  BY RestsFields DEF Stays
<1>3. e.wf[w].data \in DataOf(d.wf[w].kind) BY <1>2, WorkflowFields
<1> QED BY <1>1, <1>2, <1>3

LEMMA StaysData ==
  ASSUME NEW d, NEW e, NEW w \in Workflow, Stays(d, e, w), NEW z \in DataOf(d.wf[w].kind),
         PayloadRests(e.wf[w], z)
  PROVE  Stays(d, DataPut(e, w, z), w) /\ DataPut(e, w, z).wf[w].data = z
<1>1. e \in Database /\ e.wf[w].kind # "none" /\ e.wf[w].kind = d.wf[w].kind BY StaysFields
<1>2. Rests(e, DataPut(e, w, z)) BY <1>1, DataPutRests
<1>3. DataPut(e, w, z).wf[w].data = z BY <1>1, DataPutFields
<1> QED BY <1>2, <1>3, StaysOn

LEMMA StaysQueue ==
  ASSUME NEW d, NEW e, NEW w \in Workflow, Stays(d, e, w), NEW o \in OperationsOf(d.wf[w].kind)
  PROVE  Stays(d, Queue(e, w, o), w)
BY StaysFields, QueueRests, StaysOn

LEMMA StaysPhase ==
  ASSUME NEW d, NEW e, NEW w \in Workflow, Stays(d, e, w), NEW ph \in Phase
  PROVE  Stays(d, PhasePut(e, w, ph), w)
BY StaysFields, PhasePutRests, StaysOn

LEMMA StaysCancelled ==
  ASSUME NEW d, NEW e, NEW w \in Workflow, Stays(d, e, w)
  PROVE  Stays(d, CancelQueued(e, w), w) /\ Stays(d, CancelPut(e, w), w)
BY StaysFields, CancelQueuedRests, CancelPutRests, StaysOn

LEMMA StaysRebased ==
  ASSUME NEW d, NEW e, NEW w \in Workflow, Stays(d, e, w), d.wf[w].kind = "video_archive"
  PROVE  Stays(d, Rebased(e, w), w)
BY StaysFields, RebasedRests, StaysOn

LEMMA StaysUpdate ==
  ASSUME NEW d, NEW e, NEW c, c.w \in Workflow, Stays(d, e, c.w),
         c.op \in OperationsOf(d.wf[c.w].kind), NEW ph \in Phase
  PROVE  Stays(d, Update(e, c, ph), c.w)
BY StaysFields, UpdateRests, StaysOn

LEMMA StaysEndJob ==
  ASSUME NEW d, NEW e, NEW w \in Workflow, Stays(d, e, w), NEW o \in OperationsOf(d.wf[w].kind),
         NEW st \in { "succeeded", "failed", "abandoned", "cancelled" }
  PROVE  Stays(d, EndJob(e, w, o, st), w)
BY StaysFields, EndJobRests, StaysOn

LEMMA StaysRelease ==
  ASSUME NEW d, NEW e, NEW w \in Workflow, Stays(d, e, w), NEW o \in OperationsOf(d.wf[w].kind)
  PROVE  Stays(d, Release(e, w, o), w)
BY StaysFields, ReleaseRests, StaysOn

LEMMA StaysRow ==
  ASSUME NEW d, NEW e, NEW w \in Workflow, Stays(d, e, w), NEW m \in Manga, NEW r \in Row,
         RowLike(e.row[m], r)
  PROVE  Stays(d, [ e EXCEPT !.row[m] = r ], w)
BY StaysFields, RowPutRests, StaysOn

----------------------------------------------------------------------------
\* The video archive.

LEMMA QueueVideoRests ==
  ASSUME TypeInv, NEW w \in Workflow,
         QueueLoad(w) \/ QueueCheck(w) \/ RetryVideo(w)
  PROVE  Rests(db, db')
<1>1. db.wf[w].kind = "video_archive" /\ db \in Database /\ db.wf[w].kind # "none"
  BY VideoIsKind DEF QueueLoad, QueueCheck, RetryVideo, IsLocked, TypeInv
<1>2. db.wf[w].data \in DataOf("video_archive") BY <1>1, TypedWorkflow
<1>3. PICK o \in OperationsOf("video_archive") : db' = Queue(db, w, o)
  <2>1. CASE QueueLoad(w) BY <2>1, OperationNames DEF QueueLoad, QueueVideo
  <2>2. CASE QueueCheck(w) BY <2>2, OperationNames DEF QueueCheck, QueueVideo
  <2>3. CASE RetryVideo(w)
    <3>1. db.wf[w].data.retry \in OperationsOf("video_archive") \cup { "none" }
      BY <1>2, VideoDataFields
    <3> QED BY <2>3, <3>1 DEF RetryVideo, QueueVideo
  <2> QED BY <2>1, <2>2, <2>3
<1> QED BY <1>1, <1>3, QueueRests DEF Plain

LEMMA SelectTorrentsRests ==
  ASSUME TypeInv, NEW w \in Workflow, SelectTorrents(w)
  PROVE  Rests(db, db')
<1> DEFINE ph == "torrent_submit_queued"
           d1 == PhasePut(db, w, ph)
           z1 == [ d1.wf[w].data EXCEPT !.selected = TRUE ]
           d2 == DataPut(d1, w, z1)
           z2 == [ d2.wf[w].data EXCEPT !.retry = "none" ]
           d3 == DataPut(d2, w, z2)
<1>1. db.wf[w].kind = "video_archive" /\ db \in Database
      /\ db.wf[w].kind # "none" /\ Plain(db.wf[w])
  BY VideoIsKind DEF SelectTorrents, IsLocked, TypeInv, Plain
<1>2. db' = Queue(Rebased(d3, w), w, "submit") BY DEF SelectTorrents, PhasePut, DataPut
<1>3. Stays(db, d1, w) BY <1>1, StaysAtOnce, StaysPhase, PhaseNames
<1> HIDE DEF d1
<1>4. d1.wf[w].kind = "video_archive" /\ d1.wf[w].data \in DataOf("video_archive")
  BY <1>1, <1>3, StaysFields
<1>5. z1 \in DataOf("video_archive") BY <1>4, VideoDataFields DEF DataOf
<1> HIDE DEF z1
<1>6. Stays(db, d2, w) BY <1>1, <1>3, <1>4, <1>5, StaysData DEF PayloadRests
<1> HIDE DEF d2
<1>7. d2.wf[w].kind = "video_archive" /\ d2.wf[w].data \in DataOf("video_archive")
  BY <1>1, <1>6, StaysFields
<1>8. z2 \in DataOf("video_archive") BY <1>7, VideoDataFields DEF DataOf
<1> HIDE DEF z2
<1>9. Stays(db, d3, w) BY <1>1, <1>6, <1>7, <1>8, StaysData DEF PayloadRests
<1> HIDE DEF d3
<1>10. Stays(db, Rebased(d3, w), w) BY <1>1, <1>9, StaysRebased
<1>11. Stays(db, db', w) BY <1>1, <1>2, <1>10, StaysQueue, OperationNames
<1> QED BY <1>11 DEF Stays

LEMMA QueueSourceCleanupRests ==
  ASSUME TypeInv, NEW w \in Workflow, QueueSourceCleanup(w)
  PROVE  Rests(db, db')
<1> DEFINE e == Queue(db, w, "cleanup")
           z == [ e.wf[w].data EXCEPT !.cleanup = "queued" ]
           d == DataPut(e, w, z)
<1>1. db.wf[w].kind = "video_archive" /\ db \in Database
      /\ db.wf[w].kind # "none" /\ Plain(db.wf[w])
  BY VideoIsKind DEF QueueSourceCleanup, TypeInv, Plain
<1>2. db' = Rebased(d, w) BY DEF QueueSourceCleanup, DataPut
<1>3. Stays(db, e, w) BY <1>1, StaysAtOnce, StaysQueue, OperationNames
<1> HIDE DEF e
<1>4. e.wf[w].kind = "video_archive" /\ e.wf[w].data \in DataOf("video_archive")
  BY <1>1, <1>3, StaysFields
<1>5. z \in DataOf("video_archive") BY <1>4, VideoDataFields DEF DataOf
<1> HIDE DEF z
<1>6. Stays(db, d, w) BY <1>1, <1>3, <1>4, <1>5, StaysData DEF PayloadRests
<1> HIDE DEF d
<1>7. Stays(db, db', w) BY <1>1, <1>2, <1>6, StaysRebased
<1> QED BY <1>7 DEF Stays

LEMMA CancelVideoRests ==
  ASSUME TypeInv, NEW w \in Workflow, CancelVideo(w)
  PROVE  Rests(db, db')
<1>1. db.wf[w].kind = "video_archive" /\ db \in Database
      /\ db.wf[w].kind # "none" /\ Plain(db.wf[w])
  BY VideoIsKind DEF CancelVideo, IsLocked, TypeInv, Plain
<1>2. Stays(db, CancelQueued(db, w), w) /\ Stays(db, CancelPut(db, w), w)
  BY <1>1, StaysAtOnce, StaysCancelled
<1>3. /\ Stays(db, Rebased(CancelPut(db, w), w), w)
      /\ Stays(db, Rebased(CancelQueued(db, w), w), w)
  BY <1>1, <1>2, StaysRebased
<1>4. Stays(db, Queue(Rebased(CancelQueued(db, w), w), w, "cancel"), w)
  BY <1>1, <1>3, StaysQueue, OperationNames
<1>5. \/ db' = Rebased(CancelPut(db, w), w)
      \/ db' = Queue(Rebased(CancelQueued(db, w), w), w, "cancel")
  BY DEF CancelVideo, CancelPut
<1> QED BY <1>3, <1>4, <1>5 DEF Stays

LEMMA ReleaseExpiredVideoRests ==
  ASSUME TypeInv, NEW w \in Workflow, NEW op \in OperationsOf("video_archive"),
         ReleaseExpiredVideo(w, op)
  PROVE  Rests(db, db')
<1> DEFINE m == TheManga(db.wf[w])
           g == EndJob(Release(db, w, op), w, op, "abandoned")
           d == Rebased(g, w)
<1>1. db.wf[w].kind = "video_archive" /\ db \in Database
      /\ db.wf[w].kind # "none" /\ Plain(db.wf[w])
  BY VideoIsKind DEF ReleaseExpiredVideo, TypeInv, Plain
<1>2. db' = IF op = "cleanup"
            THEN [ d EXCEPT !.wf[w].data.cleanup = "failed", !.wf[w].phase = "ready" ]
            ELSE [ d EXCEPT !.wf[w].data.retry = op, !.wf[w].phase = "failed",
                            !.row[m].error = "special" ]
  BY DEF ReleaseExpiredVideo
<1>3. Stays(db, Release(db, w, op), w) BY <1>1, StaysAtOnce, StaysRelease
<1>4. Stays(db, g, w) BY <1>1, <1>3, StaysEndJob
<1> HIDE DEF g
<1>5. Stays(db, d, w) BY <1>1, <1>4, StaysRebased
<1> HIDE DEF d
<1>6. d.wf[w].kind = "video_archive" /\ d.wf[w].data \in DataOf("video_archive")
  BY <1>1, <1>5, StaysFields
<1>7. CASE op = "cleanup"
  <2> DEFINE z == [ d.wf[w].data EXCEPT !.cleanup = "failed" ]
             e == DataPut(d, w, z)
  <2>1. db' = PhasePut(e, w, "ready") BY <1>2, <1>7 DEF PhasePut, DataPut
  <2>2. z \in DataOf("video_archive") BY <1>6, VideoDataFields DEF DataOf
  <2> HIDE DEF z
  <2>3. Stays(db, e, w) BY <1>1, <1>5, <1>6, <2>2, StaysData DEF PayloadRests
  <2> HIDE DEF e
  <2>4. Stays(db, db', w) BY <2>1, <2>3, StaysPhase, PhaseNames
  <2> QED BY <2>4 DEF Stays
<1>8. CASE op # "cleanup"
  <2> DEFINE z == [ d.wf[w].data EXCEPT !.retry = op ]
             e == DataPut(d, w, z)
             f == PhasePut(e, w, "failed")
             r == [ f.row[m] EXCEPT !.error = "special" ]
  <2>1. db' = [ f EXCEPT !.row[m].error = "special" ] BY <1>2, <1>8 DEF PhasePut, DataPut
  <2>2. z \in DataOf("video_archive") BY <1>6, VideoDataFields DEF DataOf
  <2> HIDE DEF z
  <2>3. Stays(db, e, w) BY <1>1, <1>5, <1>6, <2>2, StaysData DEF PayloadRests
  <2> HIDE DEF e
  <2>4. Stays(db, f, w) BY <2>3, StaysPhase, PhaseNames
  <2> HIDE DEF f
  <2>5. m \in Manga
    <3>1. db.wf[w] \in WorkflowOf("video_archive") BY <1>1, TypedWorkflow
    <3> QED BY <3>1, BoundRows, VideoIsKind
  <2> HIDE DEF m
  <2>6. f.row[m] \in Row BY <2>4, <2>5, DatabaseFields DEF Stays
  <2>7. r \in Row /\ RowLike(f.row[m], r) BY <2>6 DEF Row, RowError, RowLike
  <2>8. db' = [ f EXCEPT !.row[m] = r ] BY <2>1
  <2> HIDE DEF r
  <2>9. Stays(db, db', w) BY <2>4, <2>5, <2>7, <2>8, StaysRow
  <2> QED BY <2>9 DEF Stays
<1> QED BY <1>7, <1>8

LEMMA BeginVideoRests ==
  ASSUME TypeInv, NEW p \in Proc, BeginVideo(p) PROVE Rests(db, db')
<1>1. PICK op \in OperationsOf("video_archive") : AtVideo(p, op, "begin") BY DEF BeginVideo
<1>2. "begin" \in Place \ { "idle" } BY DEF Place
<1>3. /\ proc[p].w \in Workflow /\ db.wf[proc[p].w].kind = "video_archive"
      /\ proc[p].op \in OperationsOf("video_archive") /\ db \in Database
  BY <1>1, <1>2, AtVideoRuns
<1>4. db' = EffectPut(db, proc[p].w, proc[p].op) BY DEF BeginVideo, EffectPut
<1> QED BY <1>3, <1>4, FlagsRest, VideoIsKind

\* A result of a run of the video archive.
LEMMA VideoSucceeds ==
  ASSUME NEW p \in Proc, NEW d, proc[p].w \in Workflow, Stays(db, d, proc[p].w),
         db.wf[proc[p].w].kind = "video_archive", db.wf[proc[p].w].status = "active",
         proc[p].op \in OperationsOf("video_archive"), NEW ph \in Phase,
         db' = Succeed(d, proc[p], ph, "active")
  PROVE  Rests(db, db')
<1>1. /\ d \in Database /\ d.wf[proc[p].w].kind = "video_archive"
      /\ d.wf[proc[p].w].kind # "none" /\ Plain(d.wf[proc[p].w])
      /\ d.wf[proc[p].w].status = "active"
  BY StaysFields, HolderNames
<1>2. Rests(d, db') BY <1>1, SucceedRests
<1> QED BY <1>2, RestsTransitive DEF Stays

LEMMA LoadTorrentsRests ==
  ASSUME TypeInv, NEW p \in Proc, LoadTorrents(p) PROVE Rests(db, db')
<1> DEFINE w == proc[p].w
           z1 == [ db.wf[w].data EXCEPT !.selected = FALSE ]
           d1 == DataPut(db, w, z1)
           z2 == [ d1.wf[w].data EXCEPT !.retry = "none" ]
           d == DataPut(d1, w, z2)
<1>1. /\ AtVideo(p, "load", "work") /\ "work" \in Place \ { "idle" } /\ "load" # "cleanup"
      /\ db' = Succeed(d, proc[p], "awaiting_torrent_selection", "active")
  BY DEF LoadTorrents, Place, DataPut
<1>2. /\ w \in Workflow /\ db \in Database /\ db.wf[w].kind = "video_archive"
      /\ db.wf[w].data \in DataOf("video_archive") /\ db.wf[w].status = "active"
      /\ proc[p].op \in OperationsOf("video_archive") /\ db.wf[w].kind # "none"
      /\ Plain(db.wf[w])
  BY <1>1, AtVideoRuns, VideoIsKind DEF Plain
<1>3. z1 \in DataOf("video_archive") BY <1>2, VideoDataFields DEF DataOf
<1> HIDE DEF z1, w
<1>4. Stays(db, d1, w) BY <1>2, <1>3, StaysAtOnce, StaysData DEF PayloadRests
<1> HIDE DEF d1
<1>5. d1.wf[w].kind = "video_archive" /\ d1.wf[w].data \in DataOf("video_archive")
  BY <1>2, <1>4, StaysFields
<1>6. z2 \in DataOf("video_archive") BY <1>5, VideoDataFields DEF DataOf
<1> HIDE DEF z2
<1>7. Stays(db, d, w) BY <1>2, <1>4, <1>5, <1>6, StaysData DEF PayloadRests
<1> HIDE DEF d
<1> QED BY <1>1, <1>2, <1>7, VideoSucceeds, PhaseNames DEF w

LEMMA RecordTorrentRests ==
  ASSUME TypeInv, NEW p \in Proc, RecordTorrent(p) PROVE Rests(db, db')
<1> DEFINE w == proc[p].w
           ts == db.wf[w].data.torrents \cup { NextRole(p) }
           z == [ db.wf[w].data EXCEPT !.torrents = ts ]
           d == DataPut(db, w, z)
<1>1. /\ AtVideo(p, "submit", "added") /\ "added" \in Place \ { "idle" }
      /\ db' = Update(d, proc[p], db.wf[w].phase)
  BY DEF RecordTorrent, Video, Place, DataPut
<1>2. /\ w \in Workflow /\ db \in Database /\ db.wf[w].kind = "video_archive"
      /\ db.wf[w].data \in DataOf("video_archive") /\ db.wf[w].kind # "none"
      /\ proc[p].op \in OperationsOf(db.wf[w].kind) /\ Plain(db.wf[w]) /\ Busy(p)
  BY <1>1, AtVideoRuns, VideoIsKind DEF Plain
<1>3. NextRole(p) \in Role BY DEF NextRole, Role
<1>4. z \in DataOf("video_archive") BY <1>2, <1>3, VideoDataFields DEF DataOf
<1>5. db.wf[w].phase \in Phase BY <1>2, OwnPhase
<1> HIDE DEF z, w
<1>6. Stays(db, d, w) BY <1>2, <1>4, StaysAtOnce, StaysData DEF PayloadRests
<1> HIDE DEF d
<1>7. Stays(db, db', w) BY <1>1, <1>2, <1>5, <1>6, StaysUpdate DEF w
<1> QED BY <1>7 DEF Stays

LEMMA TorrentsSubmittedRests ==
  ASSUME TypeInv, NEW p \in Proc, TorrentsSubmitted(p) PROVE Rests(db, db')
<1> DEFINE w == proc[p].w
           z == [ db.wf[w].data EXCEPT !.retry = "none" ]
           d == DataPut(db, w, z)
<1>1. /\ AtVideo(p, "submit", "work") /\ "work" \in Place \ { "idle" }
      /\ "submit" # "cleanup" /\ db' = Succeed(d, proc[p], "downloading", "active")
  BY DEF TorrentsSubmitted, Place, DataPut
<1>2. /\ w \in Workflow /\ db \in Database /\ db.wf[w].kind = "video_archive"
      /\ db.wf[w].data \in DataOf("video_archive") /\ db.wf[w].status = "active"
      /\ proc[p].op \in OperationsOf("video_archive") /\ db.wf[w].kind # "none"
      /\ Plain(db.wf[w])
  BY <1>1, AtVideoRuns, VideoIsKind DEF Plain
<1>3. z \in DataOf("video_archive") BY <1>2, VideoDataFields DEF DataOf
<1> HIDE DEF z, w
<1>4. Stays(db, d, w) BY <1>2, <1>3, StaysAtOnce, StaysData DEF PayloadRests
<1> HIDE DEF d
<1> QED BY <1>1, <1>2, <1>4, VideoSucceeds, PhaseNames DEF w

LEMMA CheckRests ==
  ASSUME TypeInv, NEW p \in Proc,
         \/ \E complete \in BOOLEAN : CheckDownloads(p, complete)
         \/ \E at \in DOMAIN Composing : Compose(p, at)
  PROVE  Rests(db, db')
<1>1. PICK at \in { "work", "extract", "convert", "pack" }, ph \in Phase \cup { db.wf[proc[p].w].phase } :
        AtVideo(p, "check", at) /\ db' = Update(db, proc[p], ph)
  <2>1. CASE \E complete \in BOOLEAN : CheckDownloads(p, complete)
    BY <2>1 DEF CheckDownloads, Video
  <2>2. CASE \E at \in DOMAIN Composing : Compose(p, at)
    <3>1. PICK at \in DOMAIN Composing : Compose(p, at) BY <2>2
    <3>2. at \in { "extract", "convert", "pack" } BY DEF Composing
    <3>3. Composing[at][1] \in { "extracting", "converting", "packing" }
      BY <3>2 DEF Composing
    <3>4. Composing[at][1] \in Phase BY <3>3, PhaseNames
    <3> QED BY <3>1, <3>2, <3>4 DEF Compose
  <2> QED BY <2>1, <2>2
<1>2. at \in Place \ { "idle" } BY DEF Place
<1>3. /\ proc[p].w \in Workflow /\ db \in Database /\ db.wf[proc[p].w].kind = "video_archive"
      /\ proc[p].op \in OperationsOf("video_archive") /\ Busy(p)
  BY <1>1, <1>2, AtVideoRuns
<1>4. ph \in Phase BY <1>3, OwnPhase
<1> QED BY <1>1, <1>3, <1>4, UpdateRests, VideoIsKind DEF Plain

LEMMA StillDownloadingRests ==
  ASSUME TypeInv, NEW p \in Proc, StillDownloading(p) PROVE Rests(db, db')
<1>1. /\ AtVideo(p, "check", "incomplete") /\ "incomplete" \in Place \ { "idle" }
      /\ "check" # "cleanup" /\ db' = Succeed(db, proc[p], "downloading", "active")
  BY DEF StillDownloading, Place
<1>2. /\ proc[p].w \in Workflow /\ db \in Database
      /\ db.wf[proc[p].w].kind = "video_archive" /\ db.wf[proc[p].w].status = "active"
      /\ proc[p].op \in OperationsOf("video_archive") /\ db.wf[proc[p].w].kind # "none"
      /\ Plain(db.wf[proc[p].w])
  BY <1>1, AtVideoRuns, VideoIsKind DEF Plain
<1> QED BY <1>1, <1>2, StaysAtOnce, VideoSucceeds, PhaseNames

LEMMA SourcesCleanedRests ==
  ASSUME TypeInv, NEW p \in Proc, SourcesCleaned(p) PROVE Rests(db, db')
<1> DEFINE w == proc[p].w
           o == proc[p].op
           e1 == EndJob(db, w, o, "succeeded")
           z == [ e1.wf[w].data EXCEPT !.cleanup = "completed" ]
           e2 == DataPut(e1, w, z)
           e3 == Rebased(e2, w)
<1>1. /\ AtVideo(p, "cleanup", "deleted") /\ "deleted" \in Place \ { "idle" }
      /\ db' = Release(e3, w, o)
  BY DEF SourcesCleaned, Place, DataPut
<1>2. /\ w \in Workflow /\ db \in Database /\ db.wf[w].kind = "video_archive"
      /\ o \in OperationsOf(db.wf[w].kind) /\ db.wf[w].kind # "none" /\ Plain(db.wf[w])
  BY <1>1, AtVideoRuns, VideoIsKind DEF Plain
<1> HIDE DEF w, o
<1>3. Stays(db, e1, w) BY <1>2, StaysAtOnce, StaysEndJob
<1> HIDE DEF e1
<1>4. e1.wf[w].kind = "video_archive" /\ e1.wf[w].data \in DataOf("video_archive")
  BY <1>2, <1>3, StaysFields
<1>5. z \in DataOf("video_archive") BY <1>4, VideoDataFields DEF DataOf
<1> HIDE DEF z
<1>6. Stays(db, e2, w) BY <1>2, <1>3, <1>4, <1>5, StaysData DEF PayloadRests
<1> HIDE DEF e2
<1>7. Stays(db, e3, w) BY <1>2, <1>6, StaysRebased
<1> HIDE DEF e3
<1>8. Stays(db, db', w) BY <1>1, <1>2, <1>7, StaysRelease
<1> QED BY <1>8 DEF Stays


----------------------------------------------------------------------------
\* The manual torrent: the steps that leave the rows where they are.

LEMMA QueueManualRests ==
  ASSUME TypeInv, NEW w \in Workflow, db.wf[w].kind = "manual_torrent",
         NEW z \in DataOf("manual_torrent"), db.wf[w].data.submission => z.submission,
         NEW ph \in Phase, NEW o \in OperationsOf("manual_torrent"),
         db' = Queue(PhasePut(DataPut(db, w, z), w, ph), w, o)
  PROVE  Rests(db, db')
<1> DEFINE d1 == DataPut(db, w, z)
           d2 == PhasePut(d1, w, ph)
<1>1. db \in Database /\ db.wf[w].kind # "none" /\ Plain(db.wf[w])
  BY ManualIsKind DEF TypeInv, Plain
<1>2. Stays(db, d1, w) BY <1>1, StaysAtOnce, StaysData DEF PayloadRests
<1> HIDE DEF d1
<1>3. Stays(db, d2, w) BY <1>2, StaysPhase
<1>4. db' = Queue(d2, w, o) BY DEF d1
<1> HIDE DEF d2
<1>5. Stays(db, db', w) BY <1>3, <1>4, StaysQueue
<1> QED BY <1>5 DEF Stays

LEMMA ManualCommandRests ==
  ASSUME TypeInv, NEW w \in Workflow,
         LoadManual(w) \/ ChooseManual(w) \/ RetryManual(w) \/ VerifyManual(w)
  PROVE  Rests(db, db')
<1>1. db.wf[w].kind = "manual_torrent"
  BY DEF LoadManual, ChooseManual, RetryManual, VerifyManual, IsIdle
<1>2. /\ db \in Database /\ db.wf[w].data \in DataOf("manual_torrent")
      /\ db.wf[w].kind # "none" /\ Plain(db.wf[w])
  BY <1>1, TypedWorkflow, ManualIsKind DEF Plain
<1>3. /\ "load" \in OperationsOf("manual_torrent") /\ "submit" \in OperationsOf("manual_torrent")
      /\ "verify" \in OperationsOf("manual_torrent")
  BY OperationNames
<1>4. "awaiting_load" \in Phase /\ "submit_queued" \in Phase /\ "verify_queued" \in Phase
  BY PhaseNames
<1>5. CASE LoadManual(w)
  <2> DEFINE z == InitialData["manual_torrent"]
  <2>1. z \in DataOf("manual_torrent") BY ManualIsKind, InitialDataIsTyped
  <2>2. /\ db' = Queue([ db EXCEPT !.wf[w].data = z, !.wf[w].phase = "awaiting_load" ],
                       w, "load")
        /\ ~db.wf[w].data.submission
    BY <1>5 DEF LoadManual, QueueManual
  <2> HIDE DEF z
  <2>3. [ db EXCEPT !.wf[w].data = z, !.wf[w].phase = "awaiting_load" ]
          = PhasePut(DataPut(db, w, z), w, "awaiting_load")
    BY DEF PhasePut, DataPut
  <2>4. db' = Queue(PhasePut(DataPut(db, w, z), w, "awaiting_load"), w, "load")
    BY <2>2, <2>3
  <2> QED BY <1>1, <1>3, <1>4, <2>1, <2>2, <2>4, QueueManualRests
<1>6. CASE ChooseManual(w)
  <2> DEFINE z == [ db.wf[w].data EXCEPT !.selected = TRUE ]
  <2>1. z \in DataOf("manual_torrent") /\ z.submission = db.wf[w].data.submission
    BY <1>2, ManualDataFields DEF DataOf
  <2>2. db' = Queue([ db EXCEPT !.wf[w].data.selected = TRUE,
                                !.wf[w].phase = "submit_queued" ], w, "submit")
    BY <1>6 DEF ChooseManual, QueueManual
  <2>3. [ db EXCEPT !.wf[w].data.selected = TRUE, !.wf[w].phase = "submit_queued" ]
          = PhasePut(DataPut(db, w, z), w, "submit_queued")
    BY DEF PhasePut, DataPut
  <2> HIDE DEF z
  <2>4. db' = Queue(PhasePut(DataPut(db, w, z), w, "submit_queued"), w, "submit")
    BY <2>2, <2>3
  <2> QED BY <1>1, <1>3, <1>4, <2>1, <2>4, QueueManualRests
<1>7. ASSUME NEW ph \in Phase, NEW o \in OperationsOf("manual_torrent"),
             db' = Queue(PhasePut(db, w, ph), w, o)
      PROVE  Rests(db, db')
  <2> DEFINE d == PhasePut(db, w, ph)
  <2>1. Stays(db, d, w) BY <1>2, StaysAtOnce, StaysPhase
  <2>2. db' = Queue(d, w, o) BY <1>7
  <2> HIDE DEF d
  <2>3. Stays(db, db', w) BY <1>1, <2>1, <2>2, StaysQueue
  <2> QED BY <2>3 DEF Stays
<1>8. CASE RetryManual(w)
  <2>1. db' = Queue(PhasePut(db, w, "submit_queued"), w, "submit")
    BY <1>8 DEF RetryManual, QueueManual, PhasePut
  <2> QED BY <1>3, <1>4, <1>7, <2>1
<1>9. CASE VerifyManual(w)
  <2>1. db' = Queue(PhasePut(db, w, "verify_queued"), w, "verify")
    BY <1>9 DEF VerifyManual, QueueManual, PhasePut
  <2> QED BY <1>3, <1>4, <1>7, <2>1
<1> QED BY <1>5, <1>6, <1>8, <1>9

LEMMA ReleaseExpiredManualRests ==
  ASSUME TypeInv, NEW w \in Workflow, NEW op \in OperationsOf("manual_torrent"),
         ReleaseExpiredManual(w, op)
  PROVE  Rests(db, db')
<1> DEFINE d == EndJob(Release(db, w, op), w, op, "abandoned")
<1>1. db.wf[w].kind = "manual_torrent" BY DEF ReleaseExpiredManual
<1>2. db' = PhasePut(d, w, "failed") BY DEF ReleaseExpiredManual, PhasePut
<1>3. db \in Database /\ db.wf[w].kind # "none" /\ Plain(db.wf[w])
  BY <1>1, ManualIsKind DEF TypeInv, Plain
<1>4. Stays(db, Release(db, w, op), w) BY <1>1, <1>3, StaysAtOnce, StaysRelease
<1>5. Stays(db, d, w) BY <1>1, <1>4, StaysEndJob
<1> HIDE DEF d
<1>6. Stays(db, db', w) BY <1>2, <1>5, StaysPhase, PhaseNames
<1> QED BY <1>6 DEF Stays

LEMMA ManualSucceeds ==
  ASSUME NEW p \in Proc, NEW d, proc[p].w \in Workflow, Stays(db, d, proc[p].w),
         db.wf[proc[p].w].kind = "manual_torrent", db.wf[proc[p].w].status = "active",
         proc[p].op \in OperationsOf("manual_torrent"), NEW ph \in Phase,
         db' = Succeed(d, proc[p], ph, "active")
  PROVE  Rests(d, db') /\ Rests(db, db')
<1>1. /\ d \in Database /\ d.wf[proc[p].w].kind = "manual_torrent"
      /\ d.wf[proc[p].w].kind # "none" /\ Plain(d.wf[proc[p].w])
      /\ d.wf[proc[p].w].status = "active"
  BY StaysFields, HolderNames
<1>2. Rests(d, db') BY <1>1, SucceedRests
<1> QED BY <1>2, RestsTransitive DEF Stays

LEMMA LoadChoicesRests ==
  ASSUME TypeInv, NEW p \in Proc, LoadChoices(p) \/ ChoiceGone(p)
  PROVE  Rests(db, db')
<1> DEFINE w == proc[p].w
           z == [ db.wf[w].data EXCEPT !.choices = TRUE, !.selected = FALSE ]
           d == DataPut(db, w, z)
<1>1. /\ AtManual(p, "begin") /\ "begin" \in Place \ { "idle" }
      /\ db' = Succeed(d, proc[p], "awaiting_selection", "active")
  BY DEF LoadChoices, ChoiceGone, FinishManual, Manual, Place, DataPut
<1>2. /\ w \in Workflow /\ db \in Database /\ db.wf[w].kind = "manual_torrent"
      /\ db.wf[w].kind # "none" /\ Plain(db.wf[w]) /\ db.wf[w].status = "active"
      /\ db.wf[w].data \in DataOf("manual_torrent")
      /\ proc[p].op \in OperationsOf("manual_torrent")
  BY <1>1, AtManualRuns DEF Plain
<1>3. z \in DataOf("manual_torrent") /\ z.submission = db.wf[w].data.submission
  BY <1>2, ManualDataFields DEF DataOf
<1> HIDE DEF z, w
<1>4. Stays(db, d, w) BY <1>2, <1>3, StaysAtOnce, StaysData DEF PayloadRests
<1> HIDE DEF d
<1> QED BY <1>1, <1>2, <1>4, ManualSucceeds, PhaseNames DEF w

LEMMA RecordIntentRests ==
  ASSUME TypeInv, NEW p \in Proc, RecordIntent(p)
  PROVE  Rests(db, db') /\ db'.wf[proc[p].w].data.submission
<1> DEFINE w == proc[p].w
           z1 == [ db.wf[w].data EXCEPT !.submission = TRUE ]
           d1 == DataPut(db, w, z1)
           z2 == [ d1.wf[w].data EXCEPT !.choices = TRUE ]
           d2 == DataPut(d1, w, z2)
           d == EffectPut(d2, w, "submit")
           ph == db.wf[w].phase
<1>1. /\ AtManual(p, "begin") /\ "begin" \in Place \ { "idle" }
      /\ "submit" \in OperationsOf("manual_torrent")
  BY OperationNames DEF RecordIntent, Place, Manual
<1>2. db' = Update(d, proc[p], ph)
  <2> DEFINE a == [ db EXCEPT !.wf[w].data.submission = TRUE ]
             b == [ a EXCEPT !.wf[w].data.choices = TRUE ]
             c == [ b EXCEPT !.wf[w].job["submit"].effect = TRUE ]
  <2>1. db' = Update(c, proc[p], ph) BY DEF RecordIntent, Manual
  <2>2. a = d1 BY DEF DataPut
  <2> HIDE DEF a, d1
  <2>3. b = d2 BY <2>2 DEF DataPut
  <2> HIDE DEF b, d2
  <2>4. c = d BY <2>3 DEF EffectPut
  <2> QED BY <2>1, <2>4
<1>3. /\ w \in Workflow /\ db \in Database /\ db.wf[w].kind = "manual_torrent"
      /\ db.wf[w].kind # "none" /\ Plain(db.wf[w]) /\ db.wf[w].status = "active"
      /\ db.wf[w].data \in DataOf("manual_torrent") /\ Busy(p)
      /\ proc[p].op \in OperationsOf("manual_torrent")
  BY <1>1, AtManualRuns DEF Plain
<1>4. ph \in Phase BY <1>3, OwnPhase
<1>5. z1 \in DataOf("manual_torrent") /\ z1.submission BY <1>3, ManualDataFields DEF DataOf
<1> HIDE DEF z1, w, ph
<1>6. Stays(db, d1, w) /\ d1.wf[w].data = z1
  BY <1>3, <1>5, StaysAtOnce, StaysData DEF PayloadRests
<1> HIDE DEF d1
<1>7. z2 \in DataOf("manual_torrent") /\ z2.submission
  BY <1>5, <1>6, ManualDataFields DEF DataOf
<1>8. d1.wf[w].kind = "manual_torrent" BY <1>3, <1>6, StaysFields
<1> HIDE DEF z2
<1>9. Stays(db, d2, w) /\ d2.wf[w].data = z2
  BY <1>3, <1>6, <1>7, <1>8, StaysData DEF PayloadRests
<1> HIDE DEF d2
<1>10. d2 \in Database /\ d2.wf[w].kind = "manual_torrent" /\ d2.wf[w].kind # "none"
       /\ d2.wf[w].status = "active"
  BY <1>3, <1>9, StaysFields, HolderNames
<1>11. Rests(d2, d) BY <1>1, <1>3, <1>10, FlagsRest
<1>12. Stays(db, d, w) BY <1>3, <1>9, <1>11, StaysOn
<1> HIDE DEF d
<1>13. Stays(db, db', w) BY <1>2, <1>3, <1>4, <1>12, StaysUpdate DEF w
<1>14. db'.wf[w].data.submission
  <2>1. d \in Database /\ d.wf[w].kind = "manual_torrent" /\ d.wf[w].kind # "none"
        /\ Plain(d.wf[w]) /\ d.wf[w].status = "active" /\ d.wf[w].data.submission
    <3>1. Alike(d2.wf[w], d.wf[w]) BY <1>3, <1>11 DEF Rests
    <3> QED BY <1>3, <1>7, <1>9, <1>10, <1>12, <3>1, StaysFields, HolderNames DEF Alike
  <2>2. Rests(d, db') BY <1>2, <1>3, <1>4, <2>1, UpdateRests DEF w
  <2>3. Alike(d.wf[w], db'.wf[w]) BY <1>3, <2>2 DEF Rests
  <2> QED BY <2>1, <2>3 DEF Alike
<1> QED BY <1>13, <1>14 DEF Stays, w

----------------------------------------------------------------------------
\* The steps in which a workflow gives its row back, taken apart.

\* Workflow w may have ended, and its row may have moved; nothing else has.
Parts(d, e, w) ==
  LET x == d.wf[w]
      y == e.wf[w]
  IN /\ d \in Database /\ e \in Database /\ x.kind \in Takers /\ x.status = "active"
     /\ y.kind = x.kind /\ y.bind = x.bind
     /\ OthersAlike(d, e, w)
     /\ \A m \in Manga \ Bound(x) : RowLike(d.row[m], e.row[m])

Ordinary(r) == RowSound(r) /\ r.status # "special_processing"

LEMMA PartsAtOnce ==
  ASSUME NEW d \in Database, NEW w \in Workflow, d.wf[w].kind \in Takers,
         d.wf[w].status = "active"
  PROVE  Parts(d, d, w)
BY AlikeReflexive DEF Parts, OthersAlike, RowLike

LEMMA PartsFields ==
  ASSUME NEW d, NEW e, NEW w \in Workflow, Parts(d, e, w)
  PROVE  LET m == TheManga(d.wf[w]) IN
         /\ e \in Database /\ e.wf[w].kind = d.wf[w].kind /\ e.wf[w].kind \in Kind
         /\ e.wf[w].kind # "none" /\ Plain(e.wf[w]) /\ TheManga(e.wf[w]) = m
         /\ d.wf[w] \in WorkflowOf(d.wf[w].kind) /\ e.wf[w] \in WorkflowOf(d.wf[w].kind)
         /\ Bound(d.wf[w]) = {m} /\ m \in Manga /\ e.row[m] \in Row
         /\ d.wf[w].bind[m] \in Entry /\ e.wf[w].bind = d.wf[w].bind
<1>1. /\ d \in Database /\ e \in Database /\ d.wf[w].kind \in Takers
      /\ e.wf[w].kind = d.wf[w].kind /\ e.wf[w].bind = d.wf[w].bind
  BY DEF Parts
<1>2. d.wf[w].kind # "none" /\ Plain(e.wf[w]) BY <1>1, HolderNames DEF Plain
<1>3. /\ d.wf[w].kind \in Kind /\ d.wf[w] \in WorkflowOf(d.wf[w].kind)
      /\ e.wf[w] \in WorkflowOf(d.wf[w].kind)
  BY <1>1, <1>2, DatabaseFields, RecordKind
<1>4. /\ TheManga(d.wf[w]) \in Manga /\ Bound(d.wf[w]) = { TheManga(d.wf[w]) }
      /\ d.wf[w].bind[TheManga(d.wf[w])] \in Entry
  BY <1>1, <1>3, BoundRows, HolderNames
<1>5. TheManga(e.wf[w]) = TheManga(d.wf[w]) BY <1>1 DEF TheManga, Bound
<1>6. e.row[TheManga(d.wf[w])] \in Row BY <1>1, <1>4, DatabaseFields
<1> QED BY <1>1, <1>2, <1>3, <1>4, <1>5, <1>6

LEMMA PartsOn ==
  ASSUME NEW d, NEW e, NEW f, NEW w \in Workflow, Parts(d, e, w), Rests(e, f)
  PROVE  LET m == TheManga(d.wf[w]) IN
         /\ Parts(d, f, w) /\ f.wf[w].status = e.wf[w].status
         /\ RowLike(e.row[m], f.row[m])
<1> DEFINE m == TheManga(d.wf[w])
<1>1. /\ d.wf[w].kind \in Takers /\ e.wf[w].kind = d.wf[w].kind
      /\ e.wf[w].bind = d.wf[w].bind /\ m \in Manga
  BY PartsFields DEF Parts
<1>2. Alike(e.wf[w], f.wf[w]) /\ RowLike(e.row[m], f.row[m]) BY <1>1 DEF Rests, RowsLike
<1>3. f.wf[w].kind = d.wf[w].kind /\ f.wf[w].bind = d.wf[w].bind
      /\ f.wf[w].status = e.wf[w].status
  BY <1>1, <1>2, HolderNames DEF Alike
<1>4. OthersAlike(d, f, w) BY AlikeTransitive DEF Parts, Rests, OthersAlike
<1>5. \A n \in Manga \ Bound(d.wf[w]) : RowLike(d.row[n], f.row[n])
  BY DEF Parts, Rests, RowsLike, RowLike
<1> QED BY <1>2, <1>3, <1>4, <1>5 DEF Parts, Rests

LEMMA PartsStatus ==
  ASSUME NEW d, NEW e, NEW w \in Workflow, Parts(d, e, w),
         NEW st \in { "active", "completed", "cancelled" }
  PROVE  LET f == StatusPut(e, w, st) IN
         Parts(d, f, w) /\ f.wf[w].status = st /\ f.row = e.row
<1>1. e \in Database /\ e.wf[w].kind # "none" BY PartsFields
<1> DEFINE f == StatusPut(e, w, st)
<1>2. /\ f \in Database /\ f.row = e.row /\ f.wf[w].kind = e.wf[w].kind
      /\ f.wf[w].bind = e.wf[w].bind /\ f.wf[w].status = st
      /\ \A v \in Workflow \ {w} : f.wf[v] = e.wf[v]
  BY <1>1, StatusPutFields
<1> HIDE DEF f
<1>3. Parts(d, f, w) BY <1>2 DEF Parts, OthersAlike
<1> QED BY <1>2, <1>3 DEF f

LEMMA PartsEnd ==
  ASSUME NEW d, NEW e, NEW w \in Workflow, Parts(d, e, w),
         NEW st \in { "completed", "cancelled" }, NEW ph \in Phase
  PROVE  LET f == EndWorkflow(e, w, st, ph) IN
         Parts(d, f, w) /\ f.wf[w].status = st /\ f.row = e.row
<1> DEFINE s == StatusPut(e, w, st)
           f == EndWorkflow(e, w, st, ph)
<1>1. Parts(d, s, w) /\ s.wf[w].status = st /\ s.row = e.row BY PartsStatus
<1>2. f = PhasePut(s, w, ph) BY DEF EndWorkflow, PhasePut, StatusPut
<1> HIDE DEF s, f
<1>3. s \in Database /\ s.wf[w].kind # "none" /\ Plain(s.wf[w]) BY <1>1, PartsFields
<1>4. Rests(s, f) /\ f.row = s.row
  BY <1>2, <1>3, PhasePutRests, PhasePutIsQuiet DEF Quiet
<1>5. Parts(d, f, w) /\ f.wf[w].status = st BY <1>1, <1>4, PartsOn
<1> QED BY <1>1, <1>4, <1>5 DEF f

\* The row is written, and nothing else but versions.
Written(e, f, m, r) ==
  /\ f \in Database /\ \A v \in Workflow : Alike(e.wf[v], f.wf[v])
  /\ f.row = [ e.row EXCEPT ![m] = r ]

LEMMA PartsMoved ==
  ASSUME NEW d, NEW e, NEW f, NEW w \in Workflow, Parts(d, e, w), NEW m, NEW r,
         m = TheManga(d.wf[w]), Written(e, f, m, r)
  PROVE  Parts(d, f, w) /\ f.wf[w].status = e.wf[w].status /\ f.row[m] = r
<1>1. /\ d.wf[w].kind \in Takers /\ e.wf[w].kind = d.wf[w].kind /\ e \in Database
      /\ e.wf[w].bind = d.wf[w].bind /\ m \in Manga /\ Bound(d.wf[w]) = {m}
  BY PartsFields DEF Parts
<1>2. e.row \in [Manga -> Row] BY <1>1, DatabaseFields
<1>3. f.wf[w].kind = d.wf[w].kind /\ f.wf[w].bind = d.wf[w].bind
      /\ f.wf[w].status = e.wf[w].status /\ f \in Database
  BY <1>1, HolderNames DEF Alike, Written
<1>4. OthersAlike(d, f, w) BY AlikeTransitive DEF Parts, OthersAlike, Written
<1>5. \A n \in Manga \ {m} : f.row[n] = e.row[n] BY <1>1, <1>2 DEF Written
<1>6. f.row[m] = r BY <1>1, <1>2 DEF Written
<1>7. \A n \in Manga \ Bound(d.wf[w]) : RowLike(d.row[n], f.row[n])
  BY <1>1, <1>5 DEF Parts
<1> QED BY <1>3, <1>4, <1>6, <1>7 DEF Parts

LEMMA PartsRow ==
  ASSUME NEW d, NEW e, NEW w \in Workflow, Parts(d, e, w), NEW r \in Row
  PROVE  LET m == TheManga(d.wf[w])
             f == [ e EXCEPT !.row[m] = r ]
         IN Parts(d, f, w) /\ f.wf[w].status = e.wf[w].status /\ f.row[m] = r
<1> DEFINE m == TheManga(d.wf[w])
           f == [ e EXCEPT !.row[m] = r ]
<1>1. e \in Database /\ m \in Manga BY PartsFields
<1>2. f \in Database /\ f.wf = e.wf /\ f.row = [ e.row EXCEPT ![m] = r ] BY <1>1, PutRow
<1> HIDE DEF f
<1>3. \A v \in Workflow : Alike(e.wf[v], f.wf[v]) BY <1>2, AlikeReflexive
<1>4. Parts(d, f, w) /\ f.wf[w].status = e.wf[w].status /\ f.row[m] = r
  BY <1>2, <1>3, PartsMoved DEF Written
<1> QED BY <1>4 DEF f

LEMMA PartsGiveBack ==
  ASSUME NEW d, NEW e, NEW w \in Workflow, Parts(d, e, w), e.wf[w].status # "active",
         Ordinary(e.row[TheManga(d.wf[w])]),
         d.wf[w].kind = "manual_torrent" =>
           (d.wf[w].data.submission => e.row[TheManga(d.wf[w])].external)
  PROVE  GivesBack(d, e, w)
<1>1. Bound(d.wf[w]) = { TheManga(d.wf[w]) } BY PartsFields
<1> QED BY <1>1 DEF Parts, GivesBack, Ordinary

LEMMA OrdinaryStays ==
  ASSUME NEW r, NEW s, RowLike(r, s), Ordinary(r) PROVE Ordinary(s) /\ s.external = r.external
BY RowLikeSound DEF RowLike, Ordinary

\* The last two calls of each of these steps.
LEMMA PartsOver ==
  ASSUME NEW d, NEW e, NEW f, NEW w \in Workflow, Parts(d, e, w), e.wf[w].status # "active",
         Ordinary(e.row[TheManga(d.wf[w])]),
         d.wf[w].kind = "manual_torrent" =>
           (d.wf[w].data.submission => e.row[TheManga(d.wf[w])].external),
         Rests(e, f)
  PROVE  GivesBack(d, Over(f, w), w)
<1> DEFINE m == TheManga(d.wf[w])
           g == Over(f, w)
<1>1. /\ Parts(d, f, w) /\ f.wf[w].status # "active" /\ RowLike(e.row[m], f.row[m])
  <2>1. Parts(d, f, w) /\ f.wf[w].status = e.wf[w].status /\ RowLike(e.row[m], f.row[m])
    BY PartsOn
  <2> QED BY <2>1
<1>2. f \in Database /\ f.wf[w].kind # "none" BY <1>1, PartsFields
<1>3. Rests(f, g) BY <1>2, OverRests
<1> HIDE DEF g
<1>4. /\ Parts(d, g, w) /\ g.wf[w].status # "active" /\ RowLike(f.row[m], g.row[m])
  BY <1>1, <1>3, PartsOn
<1>5. Ordinary(g.row[m]) /\ g.row[m].external = e.row[m].external
  BY <1>1, <1>4, OrdinaryStays
<1>6. GivesBack(d, g, w) BY <1>4, <1>5, PartsGiveBack
<1> QED BY <1>6 DEF g

\* A row a workflow keeps is not downloading.
LEMMA KeptRow ==
  ASSUME TypeInv, RowsIn(db), NEW w \in Workflow, db.wf[w].kind \in Takers,
         db.wf[w].status = "active"
  PROVE  LET m == TheManga(db.wf[w]) IN
         db.row[m].status = "special_processing" /\ ~db.row[m].external
<1> DEFINE m == TheManga(db.wf[w])
<1>1. Parts(db, db, w) BY PartsAtOnce DEF TypeInv
<1>2. m \in Manga /\ Bound(db.wf[w]) = {m} BY <1>1, PartsFields
<1>3. db.row[m].status = "special_processing" BY <1>2 DEF RowsIn, TakersHold
<1>4. ~db.row[m].external BY <1>2, <1>3 DEF RowsIn, RowsSound, RowSound
<1> QED BY <1>3, <1>4

----------------------------------------------------------------------------
\* The steps in which a workflow gives its row back.

LEMMA ExitWithoutCleanupGivesBack ==
  ASSUME TypeInv, RowsIn(db), NEW w \in Workflow, ExitWithoutCleanup(w)
  PROVE  GivesBack(db, db', w)
<1> DEFINE x == db.wf[w]
           m == TheManga(x)
           entry == x.bind[m]
           c == CancelQueued(db, w)
           e == EndWorkflow(c, w, "cancelled", "cancelled")
           d == ReleaseAll(e, w)
           r == [ d.row[m] EXCEPT !.status = entry.status, !.error = entry.error ]
           g == [ d EXCEPT !.row[m] = r ]
           f == Touch(g, m)
<1>1. x.kind = "video_archive" /\ x.kind \in Takers /\ x.status = "active"
      /\ db \in Database /\ x.kind # "none" /\ Plain(x)
  BY VideoIsKind, HolderNames DEF ExitWithoutCleanup, IsLocked, Active, TypeInv, Plain
<1>2. db' = Over(f, w)
  <2>1. db' = Over(Touch([ d EXCEPT !.row[m].status = entry.status,
                                    !.row[m].error = entry.error ], m), w)
    BY DEF ExitWithoutCleanup
  <2> HIDE DEF d
  <2>2. [ d EXCEPT !.row[m].status = entry.status, !.row[m].error = entry.error ] = g
    OBVIOUS
  <2> QED BY <2>1, <2>2
<1>3. Parts(db, db, w) BY <1>1, PartsAtOnce
<1>4. m \in Manga /\ entry \in Entry BY <1>3, PartsFields
<1>5. ~db.row[m].external BY <1>1, KeptRow
<1> HIDE DEF c
<1>6. Rests(db, c) BY <1>1, CancelQueuedRests DEF c
<1>7. Parts(db, c, w) /\ RowLike(db.row[m], c.row[m]) BY <1>3, <1>6, PartsOn
<1> HIDE DEF e
<1>8. Parts(db, e, w) /\ e.wf[w].status = "cancelled" /\ e.row = c.row
  BY <1>7, PartsEnd, PhaseNames DEF e
<1>9. e \in Database /\ e.wf[w].kind # "none" BY <1>8, PartsFields
<1> HIDE DEF d
<1>10. Rests(e, d) BY <1>9, ReleaseAllRests DEF d
<1>11. /\ Parts(db, d, w) /\ d.wf[w].status = "cancelled" /\ RowLike(e.row[m], d.row[m])
  <2>1. Parts(db, d, w) /\ d.wf[w].status = e.wf[w].status /\ RowLike(e.row[m], d.row[m])
    BY <1>8, <1>10, PartsOn
  <2> QED BY <1>8, <2>1
<1>12. d.row[m] \in Row BY <1>11, PartsFields
<1>13. r \in Row /\ r.status = entry.status /\ r.external = d.row[m].external
  <2>1. r \in Row BY <1>4, <1>12, RowFields, EntryFields
  <2> QED BY <1>12, <2>1 DEF Row
<1> HIDE DEF r
<1>14. Ordinary(r)
  BY <1>4, <1>5, <1>7, <1>8, <1>11, <1>13 DEF Ordinary, RowSound, RowLike, Entry
<1> HIDE DEF g
<1>15. Parts(db, g, w) /\ g.wf[w].status = "cancelled" /\ g.row[m] = r
  <2>1. Parts(db, g, w) /\ g.wf[w].status = d.wf[w].status /\ g.row[m] = r
    BY <1>11, <1>13, PartsRow DEF g
  <2> QED BY <1>11, <2>1
<1>16. g \in Database BY <1>15, PartsFields
<1>17. Rests(g, f) BY <1>16, TouchRests
<1> HIDE DEF f
<1> QED BY <1>1, <1>2, <1>14, <1>15, <1>17, PartsOver

LEMMA CompleteVideoGivesBack ==
  ASSUME TypeInv, NEW p \in Proc, CompleteVideo(p)
  PROVE  GivesBack(db, db', proc[p].w)
<1> DEFINE w == proc[p].w
           o == proc[p].op
           m == TheManga(db.wf[w])
           e1 == EndJob(db, w, o, "succeeded")
           e2 == EndWorkflow(e1, w, "completed", "ready")
           z == [ e2.wf[w].data EXCEPT !.cleanup = "pending" ]
           e3 == DataPut(e2, w, z)
           r == [ e3.row[m] EXCEPT !.status = "downloaded", !.error = "none",
                                   !.method = "torrent", !.external = FALSE ]
           e4 == [ e3 EXCEPT !.row[m] = r ]
           e5 == Rebased(e4, w)
           e6 == Release(e5, w, o)
<1>1. /\ AtVideo(p, "check", "promote") /\ "promote" \in Place \ { "idle" }
      /\ "check" # "cleanup" /\ db' = Over(e6, w)
  <2> DEFINE a3 == [ e2 EXCEPT !.wf[w].data.cleanup = "pending" ]
             r4 == [ a3.row[m] EXCEPT !.status = "downloaded", !.error = "none",
                                      !.method = "torrent", !.external = FALSE ]
             a4 == [ a3 EXCEPT !.row[m] = r4 ]
  <2>1. /\ AtVideo(p, "check", "promote")
        /\ db' = Over(Release(Rebased(a4, w), w, o), w)
    BY DEF CompleteVideo, Video
  <2>2. a3 = e3 BY DEF DataPut
  <2> HIDE DEF e1, e2, e3, a3
  <2>3. a4 = e4 BY <2>2
  <2> QED BY <2>1, <2>3 DEF Place
<1>2. /\ w \in Workflow /\ db \in Database /\ db.wf[w].kind = "video_archive"
      /\ db.wf[w].kind # "none" /\ o \in OperationsOf("video_archive")
      /\ db.wf[w].status = "active" /\ Plain(db.wf[w]) /\ db.wf[w].kind \in Takers
  BY <1>1, AtVideoRuns, VideoIsKind, HolderNames DEF Plain
<1>3. Parts(db, db, w) BY <1>2, PartsAtOnce
<1>4. m \in Manga BY <1>2, <1>3, PartsFields
<1> HIDE DEF w, o, m, e1
<1>5. Rests(db, e1) BY <1>2, EndJobRests DEF e1
<1>6. Parts(db, e1, w) BY <1>2, <1>3, <1>5, PartsOn
<1> HIDE DEF e2
<1>7. Parts(db, e2, w) /\ e2.wf[w].status = "completed"
  BY <1>2, <1>6, PartsEnd, PhaseNames DEF e2
<1>8. /\ e2 \in Database /\ e2.wf[w].kind = "video_archive" /\ e2.wf[w].kind # "none"
      /\ e2.wf[w] \in WorkflowOf("video_archive")
  BY <1>2, <1>7, PartsFields
<1>9. e2.wf[w].data \in DataOf("video_archive") BY <1>8, VideoIsKind, WorkflowFields
<1>10. z \in DataOf("video_archive") BY <1>9, VideoDataFields DEF DataOf
<1> HIDE DEF z, e3
<1>11. Rests(e2, e3) BY <1>2, <1>8, <1>10, DataPutRests DEF PayloadRests, e3
<1>12. Parts(db, e3, w) /\ e3.wf[w].status = "completed"
  <2>1. Parts(db, e3, w) /\ e3.wf[w].status = e2.wf[w].status
    BY <1>2, <1>7, <1>11, PartsOn
  <2> QED BY <1>7, <2>1
<1>13. e3.row[m] \in Row BY <1>2, <1>12, PartsFields DEF m
<1>14. r \in Row /\ Ordinary(r) BY <1>13 DEF Row, RowStatus, RowError, Ordinary, RowSound
<1> HIDE DEF r, e4
<1>15. Parts(db, e4, w) /\ e4.wf[w].status = "completed" /\ e4.row[m] = r
  <2>1. Parts(db, e4, w) /\ e4.wf[w].status = e3.wf[w].status /\ e4.row[m] = r
    BY <1>2, <1>12, <1>14, PartsRow DEF m, e4
  <2> QED BY <1>12, <2>1
<1>16. e4 \in Database /\ e4.wf[w].kind = "video_archive" BY <1>2, <1>15, PartsFields
<1>17. Rests(e4, e5) BY <1>2, <1>16, RebasedRests
<1>18. e5 \in Database /\ e5.wf[w].kind = "video_archive" /\ e5.wf[w].kind # "none"
  BY <1>2, <1>16, <1>17, RestsFields
<1> HIDE DEF e5
<1>19. Rests(e5, e6) BY <1>2, <1>18, ReleaseRests
<1>20. Rests(e4, e6) BY <1>17, <1>19, RestsTransitive
<1> HIDE DEF e6
<1>21. GivesBack(db, Over(e6, w), w)
  BY <1>2, <1>14, <1>15, <1>20, PartsOver DEF m
<1> QED BY <1>1, <1>21 DEF w

LEMMA VideoCancelledGivesBack ==
  ASSUME TypeInv, RowsIn(db), NEW p \in Proc, VideoCancelled(p)
  PROVE  GivesBack(db, db', proc[p].w)
<1> DEFINE w == proc[p].w
           o == proc[p].op
           m == TheManga(db.wf[w])
           st == IF Def(db, w, o).cancellation THEN "succeeded" ELSE "cancelled"
           e1 == EndJob(db, w, o, st)
           e2 == EndWorkflow(e1, w, "cancelled", "cancelled")
           e3 == VideoChanged(e2, w, o, "cancelled")
           r == VideoRow(e2.wf[w], e2.row[m], o, "cancelled")
           e4 == Changed(e2, w, o, "cancelled")
           e6 == Release(e4, w, o)
<1>1. /\ AtVideo(p, "cancel", "deleted") /\ "deleted" \in Place \ { "idle" }
      /\ "cancel" # "cleanup" /\ db' = Over(e6, w)
  BY DEF VideoCancelled, CancelComplete, Place
<1>2. /\ w \in Workflow /\ db \in Database /\ db.wf[w].kind = "video_archive"
      /\ db.wf[w].kind # "none" /\ o \in OperationsOf("video_archive")
      /\ db.wf[w].status = "active" /\ Plain(db.wf[w]) /\ db.wf[w].kind \in Takers
  BY <1>1, AtVideoRuns, VideoIsKind, HolderNames DEF Plain
<1>3. Parts(db, db, w) BY <1>2, PartsAtOnce
<1>4. m \in Manga /\ db.wf[w].bind[m] \in Entry BY <1>2, <1>3, PartsFields
<1>5. ~db.row[m].external BY <1>2, KeptRow
<1>6. st \in { "succeeded", "failed", "abandoned", "cancelled" } OBVIOUS
<1> HIDE DEF w, o, m, st, e1
<1>7. Rests(db, e1) BY <1>2, <1>6, EndJobRests DEF e1
<1>8. Parts(db, e1, w) /\ RowLike(db.row[m], e1.row[m])
  BY <1>2, <1>3, <1>7, PartsOn DEF m
<1> HIDE DEF e2
<1>9. Parts(db, e2, w) /\ e2.wf[w].status = "cancelled" /\ e2.row = e1.row
  BY <1>2, <1>8, PartsEnd, PhaseNames DEF e2
<1>10. /\ e2 \in Database /\ e2.wf[w].kind = "video_archive" /\ TheManga(e2.wf[w]) = m
       /\ e2.wf[w].bind = db.wf[w].bind /\ e2.row[m] \in Row
  BY <1>2, <1>9, PartsFields DEF m
<1>11. e3 = e4 BY <1>10 DEF Changed
<1> HIDE DEF e3
<1>12. /\ e3 \in Database /\ e3.row = [ e2.row EXCEPT ![m] = r ] /\ r \in Row
  BY <1>2, <1>10, VideoChangedRemarks DEF Remarks, e3
<1>13. \A v \in Workflow : Alike(e2.wf[v], e3.wf[v])
  BY <1>2, <1>10, VideoChangedAlike DEF e3
<1>14. r.status = db.wf[w].bind[m].status /\ r.external = e2.row[m].external
  BY <1>10 DEF VideoRow, Row
<1> HIDE DEF r, e4
<1>15. Ordinary(r) BY <1>4, <1>5, <1>8, <1>9, <1>14 DEF Ordinary, RowSound, RowLike, Entry
<1>16. Parts(db, e4, w) /\ e4.wf[w].status = "cancelled" /\ e4.row[m] = r
  <2>1. Parts(db, e3, w) /\ e3.wf[w].status = e2.wf[w].status /\ e3.row[m] = r
    <3>1. Written(e2, e3, m, r) /\ m = TheManga(db.wf[w]) BY <1>12, <1>13 DEF Written, m
    <3> QED BY <1>2, <1>9, <3>1, PartsMoved
  <2> QED BY <1>9, <1>11, <2>1
<1>17. e4 \in Database /\ e4.wf[w].kind = "video_archive" /\ e4.wf[w].kind # "none"
  BY <1>2, <1>16, PartsFields
<1>18. Rests(e4, e6) BY <1>2, <1>17, ReleaseRests
<1> HIDE DEF e6
<1>19. GivesBack(db, Over(e6, w), w)
  BY <1>2, <1>15, <1>16, <1>18, PartsOver DEF m
<1> QED BY <1>1, <1>19 DEF w

LEMMA ExitManualGivesBack ==
  ASSUME TypeInv, RowsIn(db), NEW w \in Workflow, NEW direct \in BOOLEAN,
         ExitManual(w, direct)
  PROVE  GivesBack(db, db', w)
<1> DEFINE x == db.wf[w]
           m == TheManga(x)
           entry == x.bind[m]
           back == [ db.row[m] EXCEPT !.status = entry.status, !.error = entry.error ]
           fresh == [ db.row[m] EXCEPT !.status = "details_pending", !.error = "none",
                                       !.method = "direct" ]
           r == IF direct THEN fresh ELSE back
           t == Touch(db, m)
           d == [ t EXCEPT !.row[m] = r ]
           e == EndWorkflow(d, w, "cancelled", "cancelled")
           f == ReleaseAll(e, w)
<1>1. /\ x.kind = "manual_torrent" /\ x.kind \in Takers /\ x.status = "active"
      /\ db \in Database /\ ~x.data.submission /\ db' = Over(f, w)
  BY HolderNames DEF ExitManual, IsIdle, Active, TypeInv
<1>2. Parts(db, db, w) BY <1>1, PartsAtOnce
<1>3. m \in Manga /\ entry \in Entry /\ db.row[m] \in Row BY <1>2, PartsFields
<1>4. ~db.row[m].external BY <1>1, KeptRow
<1>5. back \in Row /\ back.status = entry.status /\ back.external = db.row[m].external
  <2>1. back \in Row BY <1>3, RowFields, EntryFields
  <2> QED BY <1>3, <2>1 DEF Row
<1>6. fresh \in Row /\ fresh.status = "details_pending"
      /\ fresh.external = db.row[m].external
  BY <1>3 DEF Row, RowStatus, RowError
<1> HIDE DEF back, fresh
<1>7. r \in Row /\ Ordinary(r) BY <1>3, <1>4, <1>5, <1>6 DEF Ordinary, RowSound, Entry
<1> HIDE DEF r, t
<1>8. Rests(db, t) BY <1>1, TouchRests DEF t
<1>9. Parts(db, t, w) BY <1>2, <1>8, PartsOn
<1> HIDE DEF d
<1>10. Parts(db, d, w) /\ d.row[m] = r BY <1>7, <1>9, PartsRow DEF d
<1> HIDE DEF e
<1>11. Parts(db, e, w) /\ e.wf[w].status = "cancelled" /\ e.row = d.row
  BY <1>10, PartsEnd, PhaseNames DEF e
<1>12. e \in Database /\ e.wf[w].kind # "none" BY <1>11, PartsFields
<1>13. Rests(e, f) BY <1>12, ReleaseAllRests
<1> HIDE DEF f
<1> QED BY <1>1, <1>7, <1>10, <1>11, <1>13, PartsOver

LEMMA HandOverGivesBack ==
  ASSUME TypeInv, NEW p \in Proc, FindSubmitted(p) \/ HandOver(p)
  PROVE  GivesBack(db, db', proc[p].w)
<1> DEFINE w == proc[p].w
           o == proc[p].op
           c == proc[p]
           m == TheManga(db.wf[w])
           e0 == DataPut(db, w, db.wf[w].data)
           e1 == Update(e0, c, "completed")
           e2 == EndJob(e1, w, o, "succeeded")
           e3 == StatusPut(e2, w, "completed")
           e4 == TorrentChanged(e3, w, "succeeded")
           e5 == Changed(e3, w, o, "succeeded")
           r == [ e3.row[m] EXCEPT !.status = "downloading", !.error = "none",
                                   !.method = "torrent", !.external = TRUE ]
           e6 == Release(e5, w, o)
<1>1. PICK at \in { "begin", "submitted" } : AtManual(p, at)
  BY DEF FindSubmitted, HandOver
<1>2. db' = Over(e6, w)
  <2>1. db' = Succeed(e0, c, "completed", "completed")
    BY DEF FindSubmitted, HandOver, FinishManual, Manual, DataPut
  <2> QED BY <2>1 DEF Succeed, StatusPut
<1>3. at \in Place \ { "idle" } BY DEF Place
<1>4. /\ w \in Workflow /\ db \in Database /\ db.wf[w].kind = "manual_torrent"
      /\ db.wf[w].kind # "none" /\ db.wf[w].data \in DataOf("manual_torrent")
      /\ o \in OperationsOf("manual_torrent") /\ db.wf[w].status = "active"
      /\ Plain(db.wf[w]) /\ db.wf[w].kind \in Takers
  BY <1>1, <1>3, AtManualRuns, HolderNames DEF Plain
<1>5. Parts(db, db, w) BY <1>4, PartsAtOnce
<1>6. m \in Manga BY <1>4, <1>5, PartsFields
<1>7. c.w = w /\ c.op = o OBVIOUS
<1> HIDE DEF w, o, c, m, e0
<1>8. Stays(db, e0, w) BY <1>4, StaysAtOnce, StaysData DEF PayloadRests, e0
<1> HIDE DEF e1
<1>9. Stays(db, e1, w) BY <1>4, <1>7, <1>8, StaysUpdate, PhaseNames DEF e1
<1> HIDE DEF e2
<1>10. Stays(db, e2, w) BY <1>4, <1>9, StaysEndJob DEF e2
<1>11. Parts(db, e2, w) BY <1>4, <1>5, <1>10, PartsOn DEF Stays
<1> HIDE DEF e3
<1>12. Parts(db, e3, w) /\ e3.wf[w].status = "completed"
  BY <1>4, <1>11, PartsStatus DEF e3
<1>13. /\ e3 \in Database /\ e3.wf[w].kind = "manual_torrent" /\ TheManga(e3.wf[w]) = m
       /\ e3.row[m] \in Row
  BY <1>4, <1>12, PartsFields DEF m
<1>14. e4 = e5 BY <1>13 DEF Changed
<1> HIDE DEF e4
<1>15. /\ e4 \in Database /\ e4.row = [ e3.row EXCEPT ![m] = r ]
  BY <1>4, <1>12, <1>13, TorrentChangedRemarks DEF Remarks, e4
<1>16. \A v \in Workflow : Alike(e3.wf[v], e4.wf[v])
  BY <1>4, <1>13, TorrentChangedAlike DEF e4
<1>17. Ordinary(r) /\ r.external BY <1>13 DEF Ordinary, RowSound, Row
<1> HIDE DEF r, e5
<1>18. Parts(db, e5, w) /\ e5.wf[w].status = "completed" /\ e5.row[m] = r
  <2>1. Parts(db, e4, w) /\ e4.wf[w].status = e3.wf[w].status /\ e4.row[m] = r
    <3>1. Written(e3, e4, m, r) /\ m = TheManga(db.wf[w]) BY <1>15, <1>16 DEF Written, m
    <3> QED BY <1>4, <1>12, <3>1, PartsMoved
  <2> QED BY <1>12, <1>14, <2>1
<1>19. e5 \in Database /\ e5.wf[w].kind = "manual_torrent" /\ e5.wf[w].kind # "none"
  BY <1>4, <1>18, PartsFields
<1>20. Rests(e5, e6) BY <1>4, <1>19, ReleaseRests
<1> HIDE DEF e6
<1>21. GivesBack(db, Over(e6, w), w)
  BY <1>4, <1>17, <1>18, <1>20, PartsOver DEF m
<1> QED BY <1>2, <1>21 DEF w

----------------------------------------------------------------------------
\* Two steps write a payload that the invariants speak of.

LEMMA SoundBoundOnce == Sound => BoundOnce(db)
<1> SUFFICES ASSUME Sound, NEW u \in Workflow, NEW v \in Workflow, u # v,
                    db.wf[u].status = "active", db.wf[v].status = "active"
             PROVE  Bound(db.wf[u]) \cap Bound(db.wf[v]) = {}
  BY DEF BoundOnce
<1>1. ASSUME NEW w \in Workflow, db.wf[w].status = "active", NEW m \in Bound(db.wf[w])
      PROVE  MangaKey(m) \in AllKeys(db.wf[w])
  <2>1. db.wf[w] \in Record /\ WorkInv(db.wf[w])
    BY DatabaseFields DEF Sound, TypeInv, WorkflowsSound
  <2>2. db.wf[w].kind # "none" BY <1>1, <2>1, RecordKind, NoFields
  <2>3. HoldsItsRows(db.wf[w]) BY <2>1, <2>2 DEF WorkInv
  <2>4. MangaKey(m) \in WorkKeys(db.wf[w]) BY <1>1, <2>3 DEF HoldsItsRows
  <2> QED BY <2>4 DEF WorkKeys, AllKeys
<1>2. AllKeys(db.wf[u]) \cap AllKeys(db.wf[v]) = {} BY DEF Sound, ClaimsDisjoint
<1> QED BY <1>1, <1>2

Writes(d, e, w, z) ==
  /\ d \in Database /\ d.wf[w].kind # "none" /\ Plain(d.wf[w])
  /\ z \in DataOf(d.wf[w].kind) /\ Rests(DataPut(d, w, z), e)

LEMMA WritesKeepRows ==
  ASSUME NEW d, NEW e, NEW w \in Workflow, NEW z, Writes(d, e, w, z), RowsIn(d)
  PROVE  RowsIn(e)
<1> DEFINE f == DataPut(d, w, z)
<1>1. /\ f \in Database /\ f.row = d.row /\ f.wf[w].kind = d.wf[w].kind
      /\ f.wf[w].bind = d.wf[w].bind /\ f.wf[w].status = d.wf[w].status
      /\ \A v \in Workflow \ {w} : f.wf[v] = d.wf[v]
  BY DataPutFields DEF Writes
<1>2. Plain(d.wf[w]) /\ Rests(f, e) BY DEF Writes
<1> HIDE DEF f
<1>3. RowsSound(f) BY <1>1 DEF RowsIn, RowsSound
<1>4. AllInOrder(f) BY <1>1, <1>2 DEF RowsIn, AllInOrder, InOrder, Plain
<1>5. \A v \in Workflow, m \in Manga : Keeps(d.wf[v], m) => Keeps(f.wf[v], m)
  BY <1>1, <1>2 DEF Keeps, Plain, Bound
<1>6. KeptBySome(f) BY <1>1, <1>5 DEF RowsIn, KeptBySome
<1>7. TakersHold(f) BY <1>1 DEF RowsIn, TakersHold, Bound
<1>8. RowsIn(f) BY <1>3, <1>4, <1>6, <1>7 DEF RowsIn
<1> QED BY <1>2, <1>8, RestsKeepRows

\* A verification that finds no torrent forgets the submission.
Forgets(d, e, w) ==
  /\ d.wf[w].kind = "manual_torrent"
  /\ Writes(d, e, w, InitialData["manual_torrent"])

LEMMA ForgetsOnRecord ==
  ASSUME NEW d, NEW e, NEW w \in Workflow, Forgets(d, e, w),
         NEW m \in Manga \ Bound(d.wf[w]), OnRecord(d, m)
  PROVE  OnRecord(e, m)
<1> DEFINE z == InitialData["manual_torrent"]
           f == DataPut(d, w, z)
<1>1. /\ f.row = d.row /\ \A v \in Workflow \ {w} : f.wf[v] = d.wf[v]
      /\ Rests(f, e)
  BY DataPutFields DEF Forgets, Writes
<1> HIDE DEF f
<1>2. OnRecord(f, m) BY <1>1 DEF OnRecord, Remembers
<1> QED BY <1>1, <1>2, RestsOnRecord

LEMMA ForgetsInRange ==
  ASSUME NEW d, NEW e, NEW w \in Workflow, Forgets(d, e, w), CursorIn(d)
  PROVE  CursorIn(e)
<1> DEFINE z == InitialData["manual_torrent"]
           f == DataPut(d, w, z)
<1>1. /\ \A v \in Workflow \ {w} : f.wf[v] = d.wf[v]
      /\ f.wf[w].kind = d.wf[w].kind /\ Rests(f, e)
  BY DataPutFields DEF Forgets, Writes
<1> HIDE DEF f
<1>2. CursorIn(f) BY <1>1 DEF CursorIn, RoundInRange, Forgets
<1> QED BY <1>1, <1>2, RestsInRange

\* A round commits a page.
Advanced(x, z) ==
  /\ z.cursor = x.data.cursor + 1
  /\ z.end = (x.data.cursor + 1 = LastPage)

Commits(d, e, w) ==
  /\ d.wf[w].kind = "full_collect" /\ d.wf[w].status = "active"
  /\ \E z \in DataOf("full_collect") : Advanced(d.wf[w], z) /\ Writes(d, e, w, z)

LEMMA CommitsOnRecord ==
  ASSUME NEW d, NEW e, NEW w \in Workflow, Commits(d, e, w), NEW m \in Manga, OnRecord(d, m)
  PROVE  OnRecord(e, m)
<1>1. PICK z \in DataOf("full_collect") : Writes(d, e, w, z) BY DEF Commits
<1> DEFINE f == DataPut(d, w, z)
<1>2. /\ f.row = d.row /\ \A v \in Workflow \ {w} : f.wf[v] = d.wf[v]
      /\ f.wf[w].kind = d.wf[w].kind /\ Rests(f, e)
  BY <1>1, DataPutFields DEF Writes
<1> HIDE DEF f
<1>3. OnRecord(f, m) BY <1>2 DEF OnRecord, Remembers, Commits
<1> QED BY <1>2, <1>3, RestsOnRecord

LEMMA CommitsInRange ==
  ASSUME NEW d, NEW e, NEW w \in Workflow, Commits(d, e, w), CursorIn(d), ~d.wf[w].data.end
  PROVE  CursorIn(e)
<1>1. PICK z \in DataOf("full_collect") : Advanced(d.wf[w], z) /\ Writes(d, e, w, z)
  BY DEF Commits
<1> DEFINE x == d.wf[w]
           f == DataPut(d, w, z)
<1>2. /\ \A v \in Workflow \ {w} : f.wf[v] = d.wf[v]
      /\ f.wf[w].kind = d.wf[w].kind /\ Rests(f, e)
  BY <1>1, DataPutFields DEF Writes
<1>3. f.wf[w].data = z BY <1>1, DataPutFields DEF Writes
<1>4. x.data \in DataOf("full_collect")
  BY <1>1, DatabaseFields, RecordKind, WorkflowFields DEF Writes, Commits
<1>5. x.data.cursor \in Nat BY <1>4, KindNames DEF DataOf
<1>6. x.data.cursor <= LastPage /\ x.data.cursor # LastPage
  BY DEF CursorIn, RoundInRange, Commits
<1>7. z.cursor <= LastPage /\ (z.cursor = LastPage => z.end)
  <2>1. z.cursor <= LastPage BY <1>1, <1>5, <1>6, Limits DEF Advanced
  <2>2. z.cursor = LastPage => z.end BY <1>1, Zenon DEF Advanced
  <2> QED BY <2>1, <2>2
<1> HIDE DEF f
<1>8. RoundInRange(f.wf[w]) BY <1>3, <1>7 DEF RoundInRange
<1>9. CursorIn(f) BY <1>2, <1>8 DEF CursorIn
<1> QED BY <1>2, <1>9, RestsInRange

----------------------------------------------------------------------------
\* Every step is one of these.

Leaves(p, w) == Busy(p) /\ proc[p].w = w /\ proc'[p] = NoClaim

\* The row goes back, and what was submitted for it is settled by its process.
GoesBack(w) ==
  /\ GivesBack(db, db', w)
  /\ db.wf[w].kind = "manual_torrent" /\ db.wf[w].data.submission =>
       \E p \in Proc : Leaves(p, w)

FindsNothing(w) ==
  /\ Forgets(db, db', w) /\ \E p \in Proc : Leaves(p, w)
  /\ Torrent \notin qbit[TheManga(db.wf[w])]

CommitsPage(p) ==
  /\ Busy(p) /\ proc[p].w \in Workflow /\ RunsItsAttempt(p)
  /\ proc[p].at = "received" /\ proc'[p].at = "begin"
  /\ Commits(db, db', proc[p].w)

RowMoves ==
  \/ Rests(db, db')
  \/ \E w \in Workflow : Begins(db, db', w) \/ Updates(db, db', w)
  \/ \E w \in Workflow : GoesBack(w) \/ FindsNothing(w)
  \/ \E p \in Proc : CommitsPage(p)
  \/ \E m \in Manga : Pipes(db, db', m) /\ (db.row[m].external => Torrent \notin qbit'[m])

LEMMA MovesKeepRows ==
  ASSUME TypeInv, RowsIn(db), BoundOnce(db), RowMoves PROVE RowsIn(db')
<1>1. db \in Database BY DEF TypeInv
<1>2. CASE Rests(db, db') BY <1>2, RestsKeepRows
<1>3. CASE \E w \in Workflow : Begins(db, db', w) \/ Updates(db, db', w)
  BY <1>1, <1>3, BeginsKeepRows, UpdatesKeepRows
<1>4. CASE \E w \in Workflow : GoesBack(w) \/ FindsNothing(w)
  BY <1>1, <1>4, GivesBackKeepsRows, WritesKeepRows DEF GoesBack, FindsNothing, Forgets
<1>5. CASE \E p \in Proc : CommitsPage(p)
  BY <1>5, WritesKeepRows DEF CommitsPage, Commits
<1>6. CASE \E m \in Manga : Pipes(db, db', m)
  BY <1>1, <1>6, PipesKeepRows
<1> QED BY <1>2, <1>3, <1>4, <1>5, <1>6 DEF RowMoves

LEMMA MovesOnRecord ==
  ASSUME TypeInv, RowsIn(db), RowMoves, NEW m \in Manga, OnRecord(db, m),
         Torrent \in qbit[m], Torrent \in qbit'[m]
  PROVE  OnRecord(db', m)
<1>1. db \in Database BY DEF TypeInv
<1>2. CASE Rests(db, db') BY <1>2, RestsOnRecord
<1>3. CASE \E w \in Workflow : Begins(db, db', w) \/ Updates(db, db', w)
  BY <1>3, BeginsOnRecord, UpdatesOnRecord
<1>4. CASE \E w \in Workflow : GoesBack(w)
  BY <1>1, <1>4, GivesBackOnRecord DEF GoesBack
<1>5. CASE \E w \in Workflow : FindsNothing(w)
  <2>1. PICK w \in Workflow : FindsNothing(w) BY <1>5
  <2>2. db.wf[w] \in WorkflowOf("manual_torrent")
    BY <1>1, <2>1, DatabaseFields, RecordKind, ManualIsKind DEF FindsNothing, Forgets
  <2>3. Bound(db.wf[w]) = { TheManga(db.wf[w]) } BY <2>2, BoundRows, ManualIsKind
  <2>4. m \notin Bound(db.wf[w]) BY <2>1, <2>3 DEF FindsNothing
  <2> QED BY <2>1, <2>4, ForgetsOnRecord DEF FindsNothing
<1>6. CASE \E p \in Proc : CommitsPage(p)
  BY <1>6, CommitsOnRecord DEF CommitsPage
<1>7. CASE \E n \in Manga : Pipes(db, db', n) /\ (db.row[n].external => Torrent \notin qbit'[n])
  <2>1. PICK n \in Manga : Pipes(db, db', n) /\ (db.row[n].external => Torrent \notin qbit'[n])
    BY <1>7
  <2>2. CASE db.row[m].external
    <3>1. m # n BY <2>1, <2>2
    <3> QED BY <2>1, <2>2, <3>1 DEF Pipes, RowLike, OnRecord
  <2>3. CASE \E w \in Workflow : Remembers(db.wf[w], m)
    BY <2>1, <2>3, AlikeRemembers DEF Pipes, OnRecord
  <2> QED BY <2>2, <2>3 DEF OnRecord
<1> QED BY <1>2, <1>3, <1>4, <1>5, <1>6, <1>7 DEF RowMoves

\* The round of a process that requests a page has not come to its end.
Requesting ==
  \A p \in Proc :
    /\ proc[p].at \in { "request", "received" } /\ RunsItsAttempt(p)
    /\ db.wf[proc[p].w].kind = "full_collect" /\ db.wf[proc[p].w].status = "active"
    => ~db.wf[proc[p].w].data.end

LEMMA MovesInRange ==
  ASSUME CursorIn(db), Requesting, RowMoves PROVE CursorIn(db')
<1>1. CASE Rests(db, db') BY <1>1, RestsInRange
<1>2. CASE \E w \in Workflow : Begins(db, db', w) \/ Updates(db, db', w)
  BY <1>2, FormsInRange
<1>3. CASE \E w \in Workflow : GoesBack(w) BY <1>3, FormsInRange DEF GoesBack
<1>4. CASE \E w \in Workflow : FindsNothing(w) BY <1>4, ForgetsInRange DEF FindsNothing
<1>5. CASE \E p \in Proc : CommitsPage(p)
  BY <1>5, CommitsInRange DEF CommitsPage, Requesting, Commits
<1>6. CASE \E m \in Manga : Pipes(db, db', m) BY <1>6, FormsInRange
<1> QED BY <1>1, <1>2, <1>3, <1>4, <1>5, <1>6 DEF RowMoves

\* A submission is on record until a process of its workflow has settled it.
Recorded(x) == x.kind = "manual_torrent" /\ x.status = "active" /\ x.data.submission

LEMMA AlikeRecorded ==
  ASSUME NEW x, NEW y, Alike(x, y), Recorded(x) PROVE Recorded(y)
BY HolderNames DEF Alike, Recorded

LEMMA WritesOthers ==
  ASSUME NEW d, NEW e, NEW w \in Workflow, NEW z, Writes(d, e, w, z)
  PROVE  OthersAlike(d, e, w)
<1> DEFINE f == DataPut(d, w, z)
<1>1. Rests(f, e) /\ \A v \in Workflow \ {w} : f.wf[v] = d.wf[v]
  BY DataPutFields DEF Writes
<1> HIDE DEF f
<1> QED BY <1>1 DEF Rests, OthersAlike

LEMMA RecordedStays ==
  ASSUME RowMoves, NEW w \in Workflow, Recorded(db.wf[w])
  PROVE  Recorded(db'.wf[w]) \/ \E p \in Proc : Leaves(p, w)
<1>1. ASSUME NEW u \in Workflow, OthersAlike(db, db', u), u # w PROVE Recorded(db'.wf[w])
  BY <1>1, AlikeRecorded DEF OthersAlike
<1>2. CASE Rests(db, db') BY <1>2, AlikeRecorded DEF Rests
<1>3. CASE \E u \in Workflow : Begins(db, db', u) \/ Updates(db, db', u)
  BY <1>1, <1>3 DEF Begins, Updates, Recorded
<1>4. CASE \E u \in Workflow : GoesBack(u)
  BY <1>1, <1>4 DEF GoesBack, GivesBack, Recorded
<1>5. CASE \E u \in Workflow : FindsNothing(u)
  BY <1>1, <1>5, WritesOthers DEF FindsNothing, Forgets
<1>6. CASE \E p \in Proc : CommitsPage(p)
  BY <1>1, <1>6, WritesOthers DEF CommitsPage, Commits, Recorded
<1>7. CASE \E m \in Manga : Pipes(db, db', m)
  BY <1>7, AlikeRecorded DEF Pipes
<1> QED BY <1>2, <1>3, <1>4, <1>5, <1>6, <1>7 DEF RowMoves

\* A round comes to the end of its range only when a page is committed.
AtEnd(x) == x.kind = "full_collect" /\ x.status = "active" /\ x.data.end

LEMMA AlikeAtEnd == ASSUME NEW x, NEW y, Alike(x, y), AtEnd(y) PROVE AtEnd(x)
BY DEF Alike, AtEnd, RoundLike

LEMMA EndsByCommit ==
  ASSUME RowMoves, NEW w \in Workflow, AtEnd(db'.wf[w]), db.wf[w].kind # "none"
  PROVE  AtEnd(db.wf[w]) \/ \E p \in Proc : CommitsPage(p) /\ proc[p].w = w
<1>1. ASSUME NEW u \in Workflow, OthersAlike(db, db', u), u # w PROVE AtEnd(db.wf[w])
  BY <1>1, AlikeAtEnd DEF OthersAlike
<1>2. CASE Rests(db, db') BY <1>2, AlikeAtEnd DEF Rests
<1>3. CASE \E u \in Workflow : Begins(db, db', u) \/ Updates(db, db', u)
  BY <1>1, <1>3 DEF Begins, Updates, AtEnd
<1>4. CASE \E u \in Workflow : GoesBack(u)
  BY <1>1, <1>4, HolderNames DEF GoesBack, GivesBack, AtEnd
<1>5. CASE \E u \in Workflow : FindsNothing(u)
  <2>1. PICK u \in Workflow : FindsNothing(u) BY <1>5
  <2>2. OthersAlike(db, db', u) BY <2>1, WritesOthers DEF FindsNothing, Forgets
  <2>3. db'.wf[u].kind = "manual_torrent"
    <3> DEFINE f == DataPut(db, u, InitialData["manual_torrent"])
    <3>1. Rests(f, db') /\ f.wf[u].kind = db.wf[u].kind
      BY <2>1, DataPutFields DEF FindsNothing, Forgets, Writes
    <3> HIDE DEF f
    <3> QED BY <2>1, <3>1 DEF Rests, Alike, FindsNothing, Forgets
  <2> QED BY <1>1, <2>2, <2>3 DEF AtEnd
<1>6. CASE \E p \in Proc : CommitsPage(p)
  <2>1. PICK p \in Proc : CommitsPage(p) BY <1>6
  <2>2. OthersAlike(db, db', proc[p].w) BY <2>1, WritesOthers DEF CommitsPage, Commits
  <2> QED BY <1>1, <2>1, <2>2 DEF CommitsPage
<1>7. CASE \E m \in Manga : Pipes(db, db', m)
  BY <1>7, AlikeAtEnd DEF Pipes
<1> QED BY <1>2, <1>3, <1>4, <1>5, <1>6, <1>7 DEF RowMoves

----------------------------------------------------------------------------
\* Where a process is about to submit a torrent or to ask for a page.
Hot == { "intended", "submitted", "request", "received" }

Cool == \A p \in Proc : proc'[p] = proc[p] \/ proc'[p].at \notin Hot

\* A step that moves the rows as it may, and neither submits nor asks.
Ordinarily ==
  /\ RowMoves /\ Cool
  /\ \A m \in Manga : Torrent \in qbit'[m] => Torrent \in qbit[m]

LEMMA GotoCools ==
  ASSUME TypeInv, NEW p \in Proc, NEW at, at \notin Hot, Goto(p, at) PROVE Cool
<1>1. proc \in [Proc -> Process] BY DEF TypeInv
<1>2. proc[p] \in Process BY <1>1
<1>3. proc' = [ proc EXCEPT ![p] = [ proc[p] EXCEPT !.at = at ] ] BY DEF Goto
<1>4. [ proc[p] EXCEPT !.at = at ].at = at BY <1>2 DEF Process
<1>5. proc'[p] = [ proc[p] EXCEPT !.at = at ] /\ \A q \in Proc \ {p} : proc'[q] = proc[q]
  BY <1>1, <1>3
<1> QED BY <1>4, <1>5 DEF Cool

LEMMA ExitsCool ==
  ASSUME TypeInv, NEW p \in Proc, Exits(p)
  PROVE  Cool /\ proc'[p] = NoClaim
<1>1. proc \in [Proc -> Process] BY DEF TypeInv
<1>2. proc' = [ proc EXCEPT ![p] = NoClaim ] BY DEF Exits
<1>3. proc'[p] = NoClaim /\ \A q \in Proc \ {p} : proc'[q] = proc[q] BY <1>1, <1>2
<1>4. NoClaim.at \notin Hot BY NoClaimIsTyped DEF Hot
<1> QED BY <1>3, <1>4 DEF Cool

LEMMA LeftCools ==
  ASSUME TypeInv, NEW p \in Proc, NEW todo, Left(p, todo) PROVE Cool
<1>1. proc \in [Proc -> Process] BY DEF TypeInv
<1>2. proc[p] \in Process BY <1>1
<1> DEFINE b == [ proc[p] EXCEPT !.todo = todo, !.at = "items", !.item = "none" ]
<1>3. proc' = [ proc EXCEPT ![p] = b ] BY <1>1, <1>2 DEF Left, Process
<1>4. b.at = "items" BY <1>2 DEF Process
<1> HIDE DEF b
<1>5. proc'[p] = b /\ \A q \in Proc \ {p} : proc'[q] = proc[q] BY <1>1, <1>3
<1> QED BY <1>4, <1>5 DEF Cool, Hot

LEMMA HotNames ==
  /\ \A at \in { "begin", "work", "added", "incomplete", "extract", "convert", "pack",
                 "promote", "deleted", "items", "write", "reading_lanraragi",
                 "reading_database", "comparing", "publishing_report", "cool", "repair" } :
       at \notin Hot
  /\ \A at \in Hot : at \in Place \ { "idle" }
BY DEF Hot, Place

LEMMA CommandOrdinary ==
  ASSUME RowMoves, UNCHANGED << proc, qbit >> PROVE Ordinarily
BY DEF Ordinarily, Cool

LEMMA StaysOrdinary ==
  ASSUME Rests(db, db'), Cool, qbit' = qbit PROVE Ordinarily
BY DEF Ordinarily, RowMoves

LEMMA GivenBackOrdinary ==
  ASSUME TypeInv, NEW p \in Proc, Busy(p), proc[p].w \in Workflow,
         GivesBack(db, db', proc[p].w), Exits(p), qbit' = qbit
  PROVE  Ordinarily
<1>1. Cool /\ Leaves(p, proc[p].w) BY ExitsCool DEF Leaves
<1> QED BY <1>1 DEF Ordinarily, RowMoves, GoesBack

LEMMA VideoCommandOrdinary ==
  ASSUME TypeInv, RowsIn(db), NEW w \in Workflow, VideoCommand(w) PROVE Ordinarily
<1>1. CASE \E m \in Manga, load \in BOOLEAN : StartVideo(w, m, load)
  BY <1>1, StartVideoBegins, CommandOrdinary DEF StartVideo, RowMoves
<1>2. CASE QueueLoad(w) \/ QueueCheck(w) \/ RetryVideo(w)
  BY <1>2, QueueVideoRests, CommandOrdinary
     DEF QueueLoad, QueueCheck, RetryVideo, QueueVideo, RowMoves
<1>3. CASE SelectTorrents(w)
  BY <1>3, SelectTorrentsRests, CommandOrdinary DEF SelectTorrents, RowMoves
<1>4. CASE QueueSourceCleanup(w)
  BY <1>4, QueueSourceCleanupRests, CommandOrdinary DEF QueueSourceCleanup, RowMoves
<1>5. CASE CancelVideo(w)
  BY <1>5, CancelVideoRests, CommandOrdinary DEF CancelVideo, RowMoves
<1>6. CASE ExitWithoutCleanup(w)
  <2>1. GivesBack(db, db', w) BY <1>6, ExitWithoutCleanupGivesBack
  <2>2. db.wf[w].kind = "video_archive" BY <1>6 DEF ExitWithoutCleanup, IsLocked
  <2> QED BY <1>6, <2>1, <2>2, CommandOrdinary DEF ExitWithoutCleanup, RowMoves, GoesBack
<1>7. CASE \E op \in OperationsOf("video_archive") : ReleaseExpiredVideo(w, op)
  BY <1>7, ReleaseExpiredVideoRests, CommandOrdinary DEF ReleaseExpiredVideo, RowMoves
<1> QED BY <1>1, <1>2, <1>3, <1>4, <1>5, <1>6, <1>7 DEF VideoCommand

LEMMA ComposingPlaces ==
  /\ DOMAIN Composing = { "extract", "convert", "pack" }
  /\ \A at \in DOMAIN Composing : Composing[at][2] \notin Hot
BY DEF Composing, Hot

LEMMA VideoPlaces ==
  \A at \in { "begin", "work", "added", "incomplete", "promote", "deleted" } :
    at \in Place \ { "idle" }
BY DEF Place

LEMMA VideoStepOrdinary ==
  ASSUME TypeInv, RowsIn(db), NEW p \in Proc, VideoStep(p) PROVE Ordinarily
<1>0. db \in Database /\ qbit \in QbitType BY DEF TypeInv
<1>1. CASE BeginVideo(p)
  BY <1>1, BeginVideoRests, GotoCools, HotNames, StaysOrdinary DEF BeginVideo
<1>2. CASE LoadTorrents(p)
  BY <1>2, LoadTorrentsRests, ExitsCool, StaysOrdinary DEF LoadTorrents
<1>3. CASE AddTorrent(p)
  <2>1. Rests(db, db') /\ Cool
    BY <1>0, <1>3, RestsReflexive, GotoCools, HotNames DEF AddTorrent
  <2>2. NextRole(p) # Torrent BY DEF NextRole, Torrent
  <2>3. qbit' = [ qbit EXCEPT ![TheManga(Video(p))] = @ \cup { NextRole(p) } ]
    BY <1>3 DEF AddTorrent
  <2>4. \A m \in Manga : Torrent \in qbit'[m] => Torrent \in qbit[m]
    BY <1>0, <2>2, <2>3 DEF QbitType
  <2> QED BY <2>1, <2>4 DEF Ordinarily, RowMoves
<1>4. CASE RecordTorrent(p)
  BY <1>4, RecordTorrentRests, GotoCools, HotNames, StaysOrdinary DEF RecordTorrent
<1>5. CASE TorrentsSubmitted(p)
  BY <1>5, TorrentsSubmittedRests, ExitsCool, StaysOrdinary DEF TorrentsSubmitted
<1>6. CASE \E complete \in BOOLEAN : CheckDownloads(p, complete)
  BY <1>6, CheckRests, GotoCools, HotNames, StaysOrdinary DEF CheckDownloads
<1>7. CASE StillDownloading(p)
  BY <1>7, StillDownloadingRests, ExitsCool, StaysOrdinary DEF StillDownloading
<1>8. CASE CompleteVideo(p)
  <2>1. Busy(p) /\ proc[p].w \in Workflow
    BY <1>8, AtVideoRuns, VideoPlaces DEF CompleteVideo
  <2> QED BY <1>8, <2>1, CompleteVideoGivesBack, GivenBackOrdinary DEF CompleteVideo
<1>9. CASE \E at \in DOMAIN Composing : Compose(p, at)
  BY <1>9, CheckRests, GotoCools, ComposingPlaces, StaysOrdinary DEF Compose
<1>10. CASE DeleteTorrents(p)
  <2>1. Rests(db, db') /\ Cool
    BY <1>0, <1>10, RestsReflexive, GotoCools, HotNames DEF DeleteTorrents
  <2>2. qbit' = [ qbit EXCEPT ![TheManga(Video(p))] = @ \ VideoData(p).torrents ]
    BY <1>10 DEF DeleteTorrents
  <2>3. \A m \in Manga : Torrent \in qbit'[m] => Torrent \in qbit[m]
    BY <1>0, <2>2 DEF QbitType
  <2> QED BY <2>1, <2>3 DEF Ordinarily, RowMoves
<1>11. CASE VideoCancelled(p)
  <2>1. Busy(p) /\ proc[p].w \in Workflow
    BY <1>11, AtVideoRuns, VideoPlaces DEF VideoCancelled
  <2> QED BY <1>11, <2>1, VideoCancelledGivesBack, GivenBackOrdinary DEF VideoCancelled
<1>12. CASE SourcesCleaned(p)
  BY <1>12, SourcesCleanedRests, ExitsCool, StaysOrdinary DEF SourcesCleaned
<1> QED BY <1>1, <1>2, <1>3, <1>4, <1>5, <1>6, <1>7, <1>8, <1>9, <1>10, <1>11, <1>12
        DEF VideoStep

LEMMA ManualCommandOrdinary ==
  ASSUME TypeInv, RowsIn(db), NEW w \in Workflow, ManualCommand(w) PROVE Ordinarily
<1>1. CASE \E m \in Manga : StartManual(w, m)
  BY <1>1, StartManualBegins, CommandOrdinary DEF StartManual, RowMoves
<1>2. CASE LoadManual(w) \/ ChooseManual(w) \/ RetryManual(w) \/ VerifyManual(w)
  BY <1>2, ManualCommandRests, CommandOrdinary
     DEF LoadManual, ChooseManual, RetryManual, VerifyManual, QueueManual, RowMoves
<1>3. CASE \E direct \in BOOLEAN : ExitManual(w, direct)
  <2>1. GivesBack(db, db', w) BY <1>3, ExitManualGivesBack
  <2>2. ~db.wf[w].data.submission /\ UNCHANGED << proc, qbit >> BY <1>3 DEF ExitManual
  <2> QED BY <2>1, <2>2, CommandOrdinary DEF RowMoves, GoesBack
<1>4. CASE \E op \in OperationsOf("manual_torrent") : ReleaseExpiredManual(w, op)
  BY <1>4, ReleaseExpiredManualRests, CommandOrdinary DEF ReleaseExpiredManual, RowMoves
<1> QED BY <1>1, <1>2, <1>3, <1>4 DEF ManualCommand

LEMMA ManualPlaces ==
  "begin" \in Place \ { "idle" } /\ "submitted" \in Place \ { "idle" }
BY DEF Place

LEMMA VerifyForgets ==
  ASSUME TypeInv, NEW p \in Proc, VerifyFindsNothing(p)
  PROVE  Ordinarily
<1> DEFINE w == proc[p].w
           z == InitialData["manual_torrent"]
           d == DataPut(db, w, z)
<1>1. /\ AtManual(p, "begin") /\ "begin" \in Place \ { "idle" } /\ ~InQbit(p)
      /\ db' = Succeed(d, proc[p], "awaiting_load", "active")
      /\ Exits(p) /\ qbit' = qbit
  BY ManualPlaces DEF VerifyFindsNothing, FinishManual, DataPut
<1>2. /\ w \in Workflow /\ db \in Database /\ db.wf[w].kind = "manual_torrent"
      /\ db.wf[w].kind # "none" /\ Plain(db.wf[w]) /\ db.wf[w].status = "active"
      /\ Busy(p) /\ proc[p].op \in OperationsOf("manual_torrent")
  BY <1>1, AtManualRuns DEF Plain
<1>3. z \in DataOf("manual_torrent") BY InitialDataIsTyped, ManualIsKind
<1> HIDE DEF z, w
<1>4. /\ d \in Database /\ d.wf[w].kind = db.wf[w].kind /\ d.wf[w].status = "active"
  BY <1>2, <1>3, DataPutFields
<1> HIDE DEF d
<1>5. Rests(d, db')
  <2>1. d.wf[w].kind = "manual_torrent" /\ d.wf[w].kind # "none" /\ Plain(d.wf[w])
    BY <1>2, <1>4 DEF Plain
  <2> QED BY <1>1, <1>2, <1>4, <2>1, SucceedRests, PhaseNames DEF w
<1>6. Forgets(db, db', w) BY <1>2, <1>3, <1>5 DEF Forgets, Writes, d, z
<1>7. Torrent \notin qbit[TheManga(db.wf[w])] BY <1>1 DEF InQbit, Manual, w
<1>8. Cool /\ Leaves(p, w) BY <1>1, <1>2, ExitsCool DEF Leaves, w
<1>9. FindsNothing(w) BY <1>6, <1>7, <1>8 DEF FindsNothing
<1> QED BY <1>1, <1>2, <1>8, <1>9 DEF Ordinarily, RowMoves

\* What a process does that is about to submit a torrent, or submits it.
LEMMA ManualStepOrdinary ==
  ASSUME TypeInv, NEW p \in Proc, ManualStep(p)
  PROVE  Ordinarily \/ RecordIntent(p) \/ SubmitTorrent(p)
<1>1. CASE FindSubmitted(p) \/ HandOver(p)
  <2>1. PICK at \in { "begin", "submitted" } : AtManual(p, at)
    BY <1>1 DEF FindSubmitted, HandOver
  <2>2. Busy(p) /\ proc[p].w \in Workflow BY <2>1, AtManualRuns, ManualPlaces
  <2> QED BY <1>1, <2>2, HandOverGivesBack, GivenBackOrdinary
          DEF FindSubmitted, HandOver, FinishManual
<1>2. CASE LoadChoices(p) \/ ChoiceGone(p)
  BY <1>2, LoadChoicesRests, ExitsCool, StaysOrdinary
     DEF LoadChoices, ChoiceGone, FinishManual
<1> QED BY <1>1, <1>2, VerifyForgets DEF ManualStep

LEMMA SubmissionRests ==
  ASSUME TypeInv, NEW p \in Proc, RecordIntent(p) \/ SubmitTorrent(p)
  PROVE  Rests(db, db')
<1>1. db \in Database BY DEF TypeInv
<1> QED BY <1>1, RecordIntentRests, RestsReflexive DEF SubmitTorrent

----------------------------------------------------------------------------
\* The steps of a metadata update, taken apart: most of what they are composed
\* of leaves the rows where they are and opens no operation.

Fades(d, e, w) ==
  LET x == d.wf[w]
      y == e.wf[w]
  IN /\ e \in Database /\ RowsLike(d, e) /\ OthersAlike(d, e, w)
     /\ y.kind = x.kind /\ y.bind = x.bind
     /\ \A o \in { "scan", "apply" } : Open(y, o) => Open(x, o)
     /\ y.status = "active" =>
          x.status = "active" /\ Ready(y) \subseteq Ready(x)
          /\ y.data.reserved = x.data.reserved

LEMMA FadesTransitive ==
  ASSUME NEW d, NEW e, NEW f, NEW w \in Workflow, Fades(d, e, w), Fades(e, f, w)
  PROVE  Fades(d, f, w)
<1>1. RowsLike(d, f) BY DEF Fades, RowsLike, RowLike
<1>2. OthersAlike(d, f, w) BY OthersAlikeTransitive DEF Fades
<1> QED BY <1>1, <1>2 DEF Fades

LEMMA RestFades ==
  ASSUME NEW d, NEW e, NEW w \in Workflow, Rests(d, e), d.wf[w].kind = "lanraragi_metadata"
  PROVE  Fades(d, e, w)
<1>1. Alike(d.wf[w], e.wf[w]) /\ OthersAlike(d, e, w) BY DEF Rests, OthersAlike
<1>2. e.wf[w].status = d.wf[w].status /\ UpdateLike(d.wf[w], e.wf[w])
  BY <1>1, HolderNames DEF Alike
<1> QED BY <1>1, <1>2 DEF Rests, Fades, Alike, UpdateLike, Open, Ready

LEMMA QuietFades ==
  ASSUME NEW d, NEW e, NEW w \in Workflow, Quiet(d, e, w),
         \A o \in { "scan", "apply" } : Open(e.wf[w], o) => Open(d.wf[w], o)
  PROVE  Fades(d, e, w)
<1>1. RowsLike(d, e) BY DEF Quiet, RowsLike, RowLike
<1>2. OthersAlike(d, e, w) BY AlikeReflexive DEF Quiet, OthersAlike
<1> QED BY <1>1, <1>2 DEF Quiet, Bare, Fades, Ready

LEMMA UpdateOperations ==
  /\ OperationsOf("lanraragi_metadata") = { "scan", "apply" }
  /\ "lanraragi_metadata" \in Kind /\ "lanraragi_metadata" \notin Takers
  /\ "lanraragi_metadata" \in Holders
BY OperationNames, MetadataIsKind, HolderNames

LEMMA EndJobFades ==
  ASSUME NEW d \in Database, NEW w \in Workflow, d.wf[w].kind = "lanraragi_metadata",
         NEW o \in { "scan", "apply" },
         NEW st \in { "succeeded", "failed", "abandoned", "cancelled" }
  PROVE  LET e == EndJob(d, w, o, st) IN
         /\ Fades(d, e, w) /\ Quiet(d, e, w) /\ ~Open(e.wf[w], o)
<1> DEFINE e == EndJob(d, w, o, st)
<1>1. /\ Quiet(d, e, w)
      /\ \A n \in { "scan", "apply" } :
           StatusOf(e, w, n) = IF n = o THEN st ELSE StatusOf(d, w, n)
  BY EndJobStatuses, UpdateOperations
<1> HIDE DEF e
<1> QED BY <1>1, QuietFades DEF StatusOf, Open, e

LEMMA SetPhaseFades ==
  ASSUME NEW d \in Database, NEW w \in Workflow, d.wf[w].kind = "lanraragi_metadata",
         NEW o \in { "scan", "apply" }, NEW ph \in Phase
  PROVE  LET e == SetPhase(d, w, o, ph) IN Fades(d, e, w) /\ Quiet(d, e, w)
<1> DEFINE e == SetPhase(d, w, o, ph)
<1>1. Quiet(d, e, w) /\ e.wf[w].job = d.wf[w].job
  BY SetPhaseStatuses, UpdateOperations
<1> HIDE DEF e
<1> QED BY <1>1, QuietFades DEF Open, e

LEMMA CancelQueuedFades ==
  ASSUME NEW d \in Database, NEW w \in Workflow, d.wf[w].kind = "lanraragi_metadata"
  PROVE  LET e == CancelQueued(d, w) IN
         /\ Fades(d, e, w) /\ Quiet(d, e, w)
         /\ \A o \in { "scan", "apply" } :
              StatusOf(e, w, o) = IF StatusOf(d, w, o) = "queued" THEN "cancelled"
                                  ELSE StatusOf(d, w, o)
<1> DEFINE e == CancelQueued(d, w)
<1>1. /\ Quiet(d, e, w)
      /\ \A o \in { "scan", "apply" } :
           StatusOf(e, w, o) = IF StatusOf(d, w, o) = "queued" THEN "cancelled"
                               ELSE StatusOf(d, w, o)
  BY CancelQueuedStatuses, UpdateOperations
<1> HIDE DEF e
<1> QED BY <1>1, QuietFades DEF StatusOf, Open, e

LEMMA StatusPutFades ==
  ASSUME NEW d \in Database, NEW w \in Workflow, d.wf[w].kind = "lanraragi_metadata",
         NEW st \in { "active", "completed", "cancelled" }, st = "active" => d.wf[w].status = "active"
  PROVE  Fades(d, StatusPut(d, w, st), w)
<1> DEFINE e == StatusPut(d, w, st)
<1>1. /\ e \in Database /\ e.row = d.row
      /\ e.wf[w].kind = d.wf[w].kind /\ e.wf[w].bind = d.wf[w].bind
      /\ e.wf[w].status = st
      /\ e.wf[w].data = d.wf[w].data /\ e.wf[w].job = d.wf[w].job
      /\ \A v \in Workflow \ {w} : e.wf[v] = d.wf[v]
  BY StatusPutFields, MetadataIsKind
<1> HIDE DEF e
<1>2. RowsLike(d, e) BY <1>1 DEF RowsLike, RowLike
<1>3. OthersAlike(d, e, w) BY <1>1, AlikeReflexive DEF OthersAlike
<1>4. Fades(d, e, w) BY <1>1, <1>2, <1>3 DEF Fades, Open, Ready
<1> QED BY <1>4 DEF e

\* The rows of an update are given back when its last operation is over.
LEMMA RestoreUpdates ==
  ASSUME NEW d \in Database, NEW w \in Workflow, d.wf[w].kind = "lanraragi_metadata",
         RowsIn(d), d.wf[w].status = "active",
         NEW d1 \in Database, Fades(d, d1, w), d1.wf[w].data.reserved = d.wf[w].data.reserved,
         NEW ms, ms = Bound(d1.wf[w]),
         NEW e, Fades(Restore(d1, w, ms), e, w), \A o \in { "scan", "apply" } : ~Open(e.wf[w], o)
  PROVE  Updates(d, e, w)
<1> DEFINE x == d.wf[w]
           y == e.wf[w]
           x1 == d1.wf[w]
           d2 == Restore(d1, w, ms)
           back == Given(d1, w, ms)
           z == [ x1.data EXCEPT !.reserved = x1.data.reserved \ back,
                                 !.stale = x1.data.stale \cup back ]
<1>1. x1.kind = "lanraragi_metadata" /\ x1.bind = x.bind BY DEF Fades
<1>2. /\ d2.row = RestoredRow(d1, w, ms) /\ RestoredRow(d1, w, ms) \in [Manga -> Row]
      /\ \A v \in Workflow \ {w} : d2.wf[v] = d1.wf[v]
      /\ d2.wf[w] = [ x1 EXCEPT !.data = z ]
  <2>1. ms \in SUBSET Bound(d1.wf[w]) OBVIOUS
  <2> HIDE DEF x1
  <2> QED BY <1>1, <2>1, RestoreRemarks DEF x1
<1>3. x1 \in WorkflowOf("lanraragi_metadata")
  BY <1>1, DatabaseFields, RecordKind, MetadataIsKind
<1>4. /\ d2.wf[w].kind = x1.kind /\ d2.wf[w].bind = x1.bind /\ d2.wf[w].job = x1.job
      /\ d2.wf[w].status = x1.status /\ d2.wf[w].data = z
  <2> HIDE DEF z, d2
  <2> QED BY <1>2, <1>3 DEF WorkflowOf
<1>5. z.reserved = x1.data.reserved \ back /\ z.ready = x1.data.ready
  <2>1. x1.data \in [ ready : SUBSET (Manga \X Archive), reserved : SUBSET Manga,
                      done : SUBSET Manga, stale : SUBSET Manga ]
    BY <1>3, WorkflowFields, MetadataDataFields, MetadataIsKind
  <2> HIDE DEF back
  <2> QED BY <2>1
<1> HIDE DEF z, d2
<1>6. e \in Database /\ RowsLike(d2, e) /\ y.kind = x.kind /\ y.bind = x.bind
  BY <1>1, <1>4 DEF Fades, d2
<1>7. OthersAlike(d, e, w)
  <2>1. OthersAlike(d1, d2, w) BY <1>2, AlikeReflexive DEF OthersAlike
  <2>2. OthersAlike(d, d1, w) /\ OthersAlike(d2, e, w) BY DEF Fades, d2
  <2> QED BY <2>1, <2>2, OthersAlikeTransitive
<1>8. UpdateInOrder(x) \/ ~(x.status = "active")
  BY DEF RowsIn, AllInOrder, InOrder
<1>9. InOrder(y)
  <2>1. CASE y.status = "active"
    <3>1. /\ d2.wf[w].status = "active" /\ Ready(y) \subseteq Ready(d2.wf[w])
          /\ y.data.reserved = d2.wf[w].data.reserved
      BY <2>1 DEF Fades, d2
    <3>2. Ready(x1) \subseteq Ready(x) BY <1>4, <3>1 DEF Fades
    <3>3. Ready(d2.wf[w]) = Ready(x1) BY <1>4, <1>5 DEF Ready
    <3>4. Ready(y) \subseteq Bound(y) /\ y.data.reserved \subseteq Bound(y)
      BY <1>4, <1>5, <1>6, <1>8, <3>1, <3>2, <3>3 DEF UpdateInOrder, Bound
    <3> QED BY <3>4, <2>1 DEF InOrder, UpdateInOrder, Open
  <2> QED BY <2>1 DEF InOrder
<1>10. ASSUME NEW m \in Manga
       PROVE  /\ RowSound(e.row[m]) /\ e.row[m].external = d.row[m].external
              /\ \/ e.row[m].status = d.row[m].status
                 \/ x.status = "active" /\ m \in Bound(x)
              /\ e.row[m].status = "special_processing" =>
                   \/ Keeps(y, m)
                   \/ d.row[m].status = "special_processing" /\ ~Keeps(x, m)
  <2>1. RowSound(d.row[m]) /\ RowLike(d.row[m], d1.row[m]) /\ RowLike(d2.row[m], e.row[m])
    BY <1>6 DEF RowsIn, RowsSound, Fades, RowsLike
  <2>2. d2.row[m] = RestoredRow(d1, w, ms)[m] BY <1>2
  <2>3. CASE m \in back
    <3>1. d2.row[m] = [ d1.row[m] EXCEPT !.status = x1.bind[m].status ]
      BY <2>2, <2>3 DEF RestoredRow
    <3>2. d1.row[m] \in Row BY DatabaseFields
    <3>3. m \in Bound(x) BY <1>1, <2>3 DEF Given, Bound
    <3>4. x1.bind[m].status \in RowStatus \ { "special_processing" }
      <4>1. x1.bind[m] \in Entry BY <1>1, <1>3, <3>3, BoundRows, MetadataIsKind DEF Bound
      <4> QED BY <4>1 DEF Entry
    <3>5. /\ d2.row[m].status = x1.bind[m].status /\ d2.row[m].busy = d1.row[m].busy
          /\ d2.row[m].external = d1.row[m].external /\ d2.row[m].method = d1.row[m].method
      BY <3>1, <3>2 DEF Row
    <3>6. d.row[m].status = "special_processing" BY <2>1, <2>3 DEF Given, RowLike
    <3>7. ~d.row[m].external BY <2>1, <3>6 DEF RowSound
    <3> QED BY <2>1, <3>3, <3>4, <3>5, <3>7 DEF RowLike, RowSound
  <2>4. CASE m \notin back
    <3>1. d2.row[m] = d1.row[m] BY <2>2, <2>4 DEF RestoredRow
    <3>2. RowLike(d.row[m], e.row[m]) BY <2>1, <3>1 DEF RowLike
    <3>3. d.row[m].status = "special_processing" => ~Keeps(x, m)
      <4> SUFFICES ASSUME d.row[m].status = "special_processing", Keeps(x, m) PROVE FALSE
        OBVIOUS
      <4>1. d1.row[m].status = "special_processing" /\ ~d1.row[m].busy
        BY <2>1 DEF RowLike, RowSound
      <4>2. m \in Bound(x) /\ m \in x.data.reserved BY DEF Keeps
      <4> QED BY <1>1, <2>4, <4>1, <4>2 DEF Given, Bound
    <3> QED BY <2>1, <3>2, <3>3, RowLikeSound DEF RowLike
  <2> QED BY <2>3, <2>4
<1> QED BY <1>6, <1>7, <1>9, <1>10 DEF Updates

LEMMA FadeUpdates ==
  ASSUME NEW d \in Database, NEW w \in Workflow, d.wf[w].kind = "lanraragi_metadata",
         RowsIn(d), ~Open(d.wf[w], "apply"),
         NEW e, Fades(d, e, w), \A o \in { "scan", "apply" } : ~Open(e.wf[w], o)
  PROVE  Updates(d, e, w)
<1> DEFINE x == d.wf[w]
           y == e.wf[w]
<1>1. InOrder(x) BY DEF RowsIn, AllInOrder
<1>2. InOrder(y)
  <2>1. CASE y.status = "active"
    <3>1. x.status = "active" /\ Ready(y) \subseteq Ready(x)
          /\ y.data.reserved = x.data.reserved /\ Bound(y) = Bound(x)
      BY <2>1 DEF Fades, Bound
    <3>2. UpdateInOrder(x) BY <1>1, <3>1 DEF InOrder
    <3> QED BY <2>1, <3>1, <3>2 DEF InOrder, UpdateInOrder, Open
  <2> QED BY <2>1 DEF InOrder
<1>3. \A m \in Manga : RowSound(e.row[m]) /\ RowLike(d.row[m], e.row[m])
  BY RowLikeSound DEF RowsIn, RowsSound, Fades, RowsLike
<1>4. \A m \in Manga : ~Keeps(x, m) BY DEF Keeps
<1> QED BY <1>2, <1>3, <1>4 DEF Updates, Fades, RowLike

LEMMA EndWorkflowFades ==
  ASSUME NEW d \in Database, NEW w \in Workflow, d.wf[w].kind = "lanraragi_metadata",
         NEW st \in { "completed", "cancelled" }, NEW ph \in Phase
  PROVE  LET e == EndWorkflow(d, w, st, ph) IN
         Fades(d, e, w) /\ e.wf[w].data = d.wf[w].data
<1> DEFINE s == StatusPut(d, w, st)
           e == EndWorkflow(d, w, st, ph)
<1>1. Fades(d, s, w) BY StatusPutFades
<1>2. s \in Database /\ s.wf[w].kind = d.wf[w].kind /\ s.wf[w].data = d.wf[w].data
  BY StatusPutFields, MetadataIsKind
<1>3. e = PhasePut(s, w, ph) BY DEF EndWorkflow, PhasePut, StatusPut
<1> HIDE DEF s, e
<1>4. Quiet(s, e, w) /\ e.wf[w].job = s.wf[w].job
  BY <1>2, <1>3, PhasePutIsQuiet, MetadataIsKind
<1>5. Fades(s, e, w) BY <1>4, QuietFades DEF Open
<1>6. e.wf[w].data = d.wf[w].data BY <1>2, <1>4 DEF Quiet, Bare
<1> QED BY <1>1, <1>5, <1>6, FadesTransitive DEF e

LEMMA OneOpen ==
  ASSUME NEW x, UpdateInOrder(x), Open(x, "scan") PROVE ~Open(x, "apply")
BY DEF UpdateInOrder, Open

LEMMA ChangedKeepsUpdate ==
  ASSUME NEW d \in Database, NEW w \in Workflow, d.wf[w].kind = "lanraragi_metadata",
         NEW o \in { "scan", "apply" }, NEW event
  PROVE  LET e == Changed(d, w, o, event) IN
         /\ e \in Database /\ e.wf[w].kind = "lanraragi_metadata"
         /\ e.wf[w].job = d.wf[w].job /\ e.wf[w].status = d.wf[w].status
<1>1. Remarks(d, Changed(d, w, o, event))
  BY ChangedRemarks, UpdateOperations, MetadataIsKind
<1> QED BY <1>1 DEF Remarks, Kept

\* An operation of an update that ends gives its rows back.
LEMMA ChangedUpdates ==
  ASSUME NEW d \in Database, NEW w \in Workflow, d.wf[w].kind = "lanraragi_metadata",
         RowsIn(d), d.wf[w].status = "active",
         NEW o \in { "scan", "apply" }, Open(d.wf[w], o),
         NEW d1 \in Database, Fades(d, d1, w), d1.wf[w].data.reserved = d.wf[w].data.reserved,
         ~Open(d1.wf[w], o), NEW event \in { "failed", "cancelled", "succeeded" },
         NEW e, Fades(Changed(d1, w, o, event), e, w)
  PROVE  Updates(d, e, w)
<1> DEFINE d2 == Changed(d1, w, o, event)
<1>1. d1.wf[w].kind = "lanraragi_metadata" BY DEF Fades
<1>2. d2 \in Database /\ d2.wf[w].job = d1.wf[w].job BY <1>1, ChangedKeepsUpdate
<1>3. d2 = IF o = "apply" THEN Restore(d1, w, Bound(d1.wf[w])) ELSE d1
  BY <1>1 DEF Changed, MetadataChanged
<1> HIDE DEF d2
<1>4. UpdateInOrder(d.wf[w]) BY DEF RowsIn, AllInOrder, InOrder
<1>5. \A n \in { "scan", "apply" } : n # o => ~Open(d.wf[w], n) BY <1>4, OneOpen
<1>6. Fades(d2, e, w) BY DEF d2
<1>7. \A n \in { "scan", "apply" } : ~Open(e.wf[w], n)
  <2> SUFFICES ASSUME NEW n \in { "scan", "apply" }, Open(e.wf[w], n) PROVE FALSE
    OBVIOUS
  <2>1. Open(d2.wf[w], n) BY <1>6 DEF Fades
  <2>2. Open(d1.wf[w], n) BY <1>2, <2>1 DEF Open
  <2>3. Open(d.wf[w], n) BY <2>2 DEF Fades
  <2> QED BY <1>5, <2>2, <2>3
<1>8. CASE o = "apply"
  <2>1. Fades(Restore(d1, w, Bound(d1.wf[w])), e, w) BY <1>3, <1>6, <1>8
  <2> QED BY <1>7, <2>1, RestoreUpdates
<1>9. CASE o = "scan"
  <2>1. Fades(d1, e, w) BY <1>3, <1>6, <1>9
  <2>2. Fades(d, e, w) BY <2>1, FadesTransitive
  <2>3. ~Open(d.wf[w], "apply") BY <1>5, <1>9
  <2> QED BY <1>7, <2>2, <2>3, FadeUpdates
<1> QED BY <1>8, <1>9

LEMMA FailUpdates ==
  ASSUME NEW d \in Database, NEW c, c.w \in Workflow, d.wf[c.w].kind = "lanraragi_metadata",
         RowsIn(d), d.wf[c.w].status = "active", c.op \in { "scan", "apply" },
         Open(d.wf[c.w], c.op)
  PROVE  Updates(d, Fail(d, c), c.w)
<1> DEFINE w == c.w
           ph == Def(d, w, c.op).failure
           e1 == EndJob(d, w, c.op, "failed")
           e2 == SetPhase(e1, w, c.op, ph)
           e3 == Changed(e2, w, c.op, "failed")
           e4 == Release(e3, w, c.op)
<1>1. Fail(d, c) = e4 BY DEF Fail
<1>2. ph \in Phase BY PhasesOfOperations, UpdateOperations DEF Def
<1> HIDE DEF ph
<1>3. Fades(d, e1, w) /\ Quiet(d, e1, w) /\ ~Open(e1.wf[w], c.op) BY EndJobFades
<1> HIDE DEF e1
<1>4. e1 \in Database /\ e1.wf[w].kind = "lanraragi_metadata" BY <1>3 DEF Fades
<1>5. Fades(e1, e2, w) /\ Quiet(e1, e2, w) BY <1>2, <1>4, SetPhaseFades
<1> HIDE DEF e2
<1>6. /\ e2 \in Database /\ Fades(d, e2, w) /\ e2.wf[w].kind = "lanraragi_metadata"
      /\ e2.wf[w].data.reserved = d.wf[w].data.reserved /\ ~Open(e2.wf[w], c.op)
  <2>1. Fades(d, e2, w) BY <1>3, <1>5, FadesTransitive
  <2>2. ~Open(e2.wf[w], c.op) BY <1>3, <1>5 DEF Fades
  <2>3. e2.wf[w].data = d.wf[w].data BY <1>3, <1>5 DEF Quiet, Bare
  <2> QED BY <1>4, <1>5, <2>1, <2>2, <2>3 DEF Fades
<1>7. e3 \in Database /\ e3.wf[w].kind = "lanraragi_metadata" BY <1>6, ChangedKeepsUpdate
<1>8. Fades(e3, e4, w)
  <2> HIDE DEF e3
  <2>1. Rests(e3, e4) BY <1>7, ReleaseRests, UpdateOperations, MetadataIsKind
  <2> QED BY <1>7, <2>1, RestFades
<1> HIDE DEF e4
<1> QED BY <1>1, <1>6, <1>8, ChangedUpdates

LEMMA AbandonUpdates ==
  ASSUME NEW d \in Database, NEW w \in Workflow, d.wf[w].kind = "lanraragi_metadata",
         RowsIn(d), d.wf[w].status = "active", NEW o \in { "scan", "apply" },
         Open(d.wf[w], o), NEW ph \in Phase
  PROVE  Updates(d, Changed(SetPhase(EndJob(Release(d, w, o), w, o, "abandoned"), w, o, ph),
                            w, o, "failed"), w)
<1> DEFINE e0 == Release(d, w, o)
           e1 == EndJob(e0, w, o, "abandoned")
           e2 == SetPhase(e1, w, o, ph)
           e3 == Changed(e2, w, o, "failed")
<1>1. Rests(d, e0) /\ Quiet(d, e0, w)
  BY ReleaseRests, UpdateOperations, MetadataIsKind
<1> HIDE DEF e0
<1>2. Fades(d, e0, w) BY <1>1, RestFades
<1>3. e0 \in Database /\ e0.wf[w].kind = "lanraragi_metadata" BY <1>2 DEF Fades
<1>4. Fades(e0, e1, w) /\ Quiet(e0, e1, w) /\ ~Open(e1.wf[w], o) BY <1>3, EndJobFades
<1> HIDE DEF e1
<1>5. e1 \in Database /\ e1.wf[w].kind = "lanraragi_metadata" BY <1>3, <1>4 DEF Fades
<1>6. Fades(e1, e2, w) /\ Quiet(e1, e2, w) BY <1>5, SetPhaseFades
<1> HIDE DEF e2
<1>7. /\ e2 \in Database /\ Fades(d, e2, w) /\ e2.wf[w].kind = "lanraragi_metadata"
      /\ e2.wf[w].data.reserved = d.wf[w].data.reserved /\ ~Open(e2.wf[w], o)
  <2>1. Fades(d, e2, w) BY <1>2, <1>4, <1>6, FadesTransitive
  <2>2. ~Open(e2.wf[w], o) BY <1>4, <1>6 DEF Fades
  <2>3. e2.wf[w].data = d.wf[w].data BY <1>1, <1>4, <1>6 DEF Quiet, Bare
  <2> QED BY <1>5, <1>6, <2>1, <2>2, <2>3 DEF Fades
<1>8. e3 \in Database /\ e3.wf[w].kind = "lanraragi_metadata" BY <1>7, ChangedKeepsUpdate
<1>9. Fades(e3, e3, w)
  <2> HIDE DEF e3
  <2> QED BY <1>8, RestsReflexive, RestFades
<1>10. Updates(d, e3, w) BY <1>7, <1>9, ChangedUpdates
<1> QED BY <1>10 DEF e2, e1, e0

LEMMA SucceedUpdates ==
  ASSUME NEW d \in Database, NEW c, c.w \in Workflow, d.wf[c.w].kind = "lanraragi_metadata",
         RowsIn(d), d.wf[c.w].status = "active", c.op \in { "scan", "apply" },
         Open(d.wf[c.w], c.op),
         NEW e0 \in Database, Fades(d, e0, c.w), e0.wf[c.w].status = "active",
         e0.wf[c.w].data.reserved = d.wf[c.w].data.reserved,
         NEW ph \in Phase, NEW st \in { "active", "completed" }
  PROVE  Updates(d, Succeed(e0, c, ph, st), c.w)
<1> DEFINE w == c.w
           e1 == Update(e0, c, ph)
           e2 == EndJob(e1, w, c.op, "succeeded")
           e3 == StatusPut(e2, w, st)
           e4 == Changed(e3, w, c.op, "succeeded")
           e5 == Release(e4, w, c.op)
           e6 == Over(e5, w)
<1>1. Succeed(e0, c, ph, st) = e6 BY DEF Succeed, StatusPut
<1>2. e0.wf[w].kind = "lanraragi_metadata" BY DEF Fades
<1>3. Fades(e0, e1, w) /\ Quiet(e0, e1, w)
  <2> DEFINE s == SetPhase(e0, w, c.op, ph)
  <2>1. Fades(e0, s, w) /\ Quiet(e0, s, w) BY <1>2, SetPhaseFades
  <2>2. e1 = Changed(s, w, c.op, "updated") BY DEF Update
  <2> HIDE DEF s
  <2>3. e1 = s BY <1>2, <2>1, <2>2 DEF Changed, MetadataChanged, Fades
  <2> QED BY <2>1, <2>3
<1> HIDE DEF e1
<1>4. e1 \in Database /\ e1.wf[w].kind = "lanraragi_metadata" BY <1>2, <1>3 DEF Fades
<1>5. Fades(e1, e2, w) /\ Quiet(e1, e2, w) /\ ~Open(e2.wf[w], c.op) BY <1>4, EndJobFades
<1> HIDE DEF e2
<1>6. e2 \in Database /\ e2.wf[w].kind = "lanraragi_metadata" /\ e2.wf[w].status = "active"
  BY <1>3, <1>4, <1>5 DEF Fades, Quiet, Bare
<1>7. Fades(e2, e3, w) /\ e3.wf[w].data = e2.wf[w].data
  BY <1>6, StatusPutFades, StatusPutFields, MetadataIsKind
<1> HIDE DEF e3
<1>8. /\ e3 \in Database /\ Fades(d, e3, w) /\ e3.wf[w].kind = "lanraragi_metadata"
      /\ e3.wf[w].data.reserved = d.wf[w].data.reserved /\ ~Open(e3.wf[w], c.op)
  <2>1. Fades(d, e3, w) BY <1>3, <1>5, <1>7, FadesTransitive
  <2>2. ~Open(e3.wf[w], c.op) BY <1>5, <1>7 DEF Fades
  <2>3. e3.wf[w].data = e0.wf[w].data BY <1>3, <1>5, <1>7 DEF Quiet, Bare
  <2> QED BY <1>6, <1>7, <2>1, <2>2, <2>3 DEF Fades
<1>9. e4 \in Database /\ e4.wf[w].kind = "lanraragi_metadata" BY <1>8, ChangedKeepsUpdate
<1>10. Fades(e4, e6, w)
  <2> HIDE DEF e4
  <2>1. Rests(e4, e5) BY <1>9, ReleaseRests, UpdateOperations, MetadataIsKind
  <2>2. e5 \in Database /\ e5.wf[w].kind = "lanraragi_metadata"
    BY <1>9, <2>1, RestsFields, MetadataIsKind
  <2> HIDE DEF e5
  <2>3. Rests(e5, e6) BY <2>2, OverRests, MetadataIsKind
  <2> QED BY <1>9, <2>1, <2>3, RestsTransitive, RestFades
<1> HIDE DEF e6
<1> QED BY <1>1, <1>8, <1>10, ChangedUpdates

LEMMA CancelUpdates ==
  ASSUME NEW d \in Database, NEW c, c.w \in Workflow, d.wf[c.w].kind = "lanraragi_metadata",
         RowsIn(d), d.wf[c.w].status = "active", c.op \in { "scan", "apply" },
         Open(d.wf[c.w], c.op)
  PROVE  Updates(d, CancelComplete(d, c), c.w)
<1> DEFINE w == c.w
           st == IF Def(d, c.w, c.op).cancellation THEN "succeeded" ELSE "cancelled"
           e1 == EndJob(d, w, c.op, st)
           e2 == EndWorkflow(e1, w, "cancelled", "cancelled")
           e3 == Changed(e2, w, c.op, "cancelled")
           e4 == Release(e3, w, c.op)
           e5 == Over(e4, w)
<1>1. CancelComplete(d, c) = e5 BY DEF CancelComplete
<1>2. st \in { "succeeded", "failed", "abandoned", "cancelled" } OBVIOUS
<1> HIDE DEF st
<1>3. Fades(d, e1, w) /\ Quiet(d, e1, w) /\ ~Open(e1.wf[w], c.op) BY <1>2, EndJobFades
<1> HIDE DEF e1
<1>4. e1 \in Database /\ e1.wf[w].kind = "lanraragi_metadata" BY <1>3 DEF Fades
<1>5. Fades(e1, e2, w) /\ e2.wf[w].data = e1.wf[w].data
  BY <1>4, EndWorkflowFades, PhaseNames
<1> HIDE DEF e2
<1>6. /\ e2 \in Database /\ Fades(d, e2, w) /\ e2.wf[w].kind = "lanraragi_metadata"
      /\ e2.wf[w].data.reserved = d.wf[w].data.reserved /\ ~Open(e2.wf[w], c.op)
  <2>1. Fades(d, e2, w) BY <1>3, <1>5, FadesTransitive
  <2>2. ~Open(e2.wf[w], c.op) BY <1>3, <1>5 DEF Fades
  <2>3. e2.wf[w].data = d.wf[w].data BY <1>3, <1>5 DEF Quiet, Bare
  <2> QED BY <1>4, <1>5, <2>1, <2>2, <2>3 DEF Fades
<1>7. e3 \in Database /\ e3.wf[w].kind = "lanraragi_metadata" BY <1>6, ChangedKeepsUpdate
<1>8. Fades(e3, e5, w)
  <2> HIDE DEF e3
  <2>1. Rests(e3, e4) BY <1>7, ReleaseRests, UpdateOperations, MetadataIsKind
  <2>2. e4 \in Database /\ e4.wf[w].kind = "lanraragi_metadata"
    BY <1>7, <2>1, RestsFields, MetadataIsKind
  <2> HIDE DEF e4
  <2>3. Rests(e4, e5) BY <2>2, OverRests, MetadataIsKind
  <2> QED BY <1>7, <2>1, <2>3, RestsTransitive, RestFades
<1> HIDE DEF e5
<1> QED BY <1>1, <1>6, <1>8, ChangedUpdates

\* A step of an update that moves no row.
LEMMA StandsUpdates ==
  ASSUME NEW d \in Database, NEW w \in Workflow, d.wf[w].kind = "lanraragi_metadata",
         RowsIn(d), NEW e \in Database, RowsLike(d, e), OthersAlike(d, e, w),
         e.wf[w].kind = d.wf[w].kind, e.wf[w].bind = d.wf[w].bind, InOrder(e.wf[w]),
         \A m \in Manga : Keeps(d.wf[w], m) => Keeps(e.wf[w], m)
  PROVE  Updates(d, e, w)
<1>1. \A m \in Manga : RowSound(e.row[m]) /\ RowLike(d.row[m], e.row[m])
  BY RowLikeSound DEF RowsIn, RowsSound, RowsLike
<1> QED BY <1>1 DEF Updates, RowLike

LEMMA UpdateOrdinary ==
  ASSUME NEW w \in Workflow, Updates(db, db', w), Cool, qbit' = qbit PROVE Ordinarily
BY DEF Ordinarily, RowMoves

LEMMA RunningIsOpen ==
  ASSUME TypeInv, NEW p \in Proc, Busy(p), Valid(db, proc[p])
  PROVE  Open(db.wf[proc[p].w], proc[p].op)
BY ValidRuns DEF Open

LEMMA PassItemOrdinary ==
  ASSUME TypeInv, NEW p \in Proc,
         BeginBatch(p) \/ AbandonItem(p) \/ \E m \in Manga : SkipItem(p, m)
  PROVE  Ordinarily
<1>1. PICK todo : Left(p, todo) /\ db' = db /\ qbit' = qbit
  BY DEF BeginBatch, AbandonItem, SkipItem
<1>2. Rests(db, db') BY <1>1, RestsReflexive DEF TypeInv
<1> QED BY <1>1, <1>2, LeftCools, StaysOrdinary

LEMMA WriteItemOrdinary ==
  ASSUME TypeInv, NEW p \in Proc, NEW m \in Manga, WriteItem(p, m) PROVE Ordinarily
<1> DEFINE w == proc[p].w
           b == [ proc[p] EXCEPT !.todo = proc[p].todo \ {m}, !.item = m, !.at = "write" ]
<1>1. /\ AtMetadata(p, "apply", "items") /\ db' = EffectPut(db, w, "apply") /\ qbit' = qbit
      /\ proc' = [ proc EXCEPT ![p].todo = proc[p].todo \ {m}, ![p].item = m, ![p].at = "write" ]
  BY DEF WriteItem, EffectPut
<1>2. /\ db \in Database /\ w \in Workflow /\ db.wf[w].kind = "lanraragi_metadata"
      /\ db.wf[w].kind # "none" /\ "apply" \in OperationsOf("lanraragi_metadata")
  BY <1>1, ItemPlaces, AtMetadataRuns
<1>3. proc \in [Proc -> Process] /\ proc[p] \in Process BY DEF TypeInv
<1>4. proc' = [ proc EXCEPT ![p] = b ] BY <1>1
<1>5. b.at = "write" BY <1>3 DEF Process
<1> HIDE DEF b
<1>6. Cool BY <1>3, <1>4, <1>5, HotNames DEF Cool
<1> HIDE DEF w
<1>7. Rests(db, db') BY <1>1, <1>2, FlagsRest
<1> QED BY <1>1, <1>6, <1>7, StaysOrdinary

LEMMA PreviewItemUpdates ==
  ASSUME TypeInv, RowsIn(db), NEW p \in Proc, NEW m \in Manga, NEW a \in Archive,
         PreviewItem(p, m, a)
  PROVE  Ordinarily
<1> DEFINE w == proc[p].w
           x == db.wf[w]
           keys == { ArchiveKey(a) }
           e == Acquire(db, w, keys, ByWorkflow, 0)
           z == [ e.wf[w].data EXCEPT !.ready = e.wf[w].data.ready \cup { << m, a >> } ]
           f == DataPut(e, w, z)
<1>1. /\ AtMetadata(p, "scan", "items") /\ m \in proc[p].todo
      /\ db' = f /\ Left(p, proc[p].todo \ {m}) /\ qbit' = qbit
  BY DEF PreviewItem, DataPut
<1>2. /\ Busy(p) /\ Valid(db, proc[p]) /\ db \in Database /\ w \in Workflow
      /\ x.kind = "lanraragi_metadata" /\ x.kind # "none"
      /\ x.data \in DataOf("lanraragi_metadata") /\ x.status = "active"
      /\ proc[p].todo \subseteq Bound(x) /\ proc[p].op = "scan"
  BY <1>1, ItemPlaces, AtMetadataRuns
<1>3. keys \in SUBSET Key BY ArchiveKeyIsKey
<1>4. Open(x, "scan") BY <1>2, RunningIsOpen
<1>5. UpdateInOrder(x) BY <1>2 DEF RowsIn, AllInOrder, InOrder
<1> HIDE DEF w, x, keys
<1>6. Quiet(db, e, w) /\ SameButClaims(x, e.wf[w])
  <2>1. ByWorkflow \in OpName \cup { ByWorkflow } /\ 0 \in Nat OBVIOUS
  <2> QED BY <1>2, <1>3, <2>1, AcquireRests DEF x
<1> HIDE DEF e
<1>7. /\ e \in Database /\ e.row = db.row /\ e.wf[w].kind = "lanraragi_metadata"
      /\ e.wf[w].bind = x.bind /\ e.wf[w].status = "active" /\ e.wf[w].data = x.data
      /\ e.wf[w].phase = x.phase
      /\ \A o \in { "scan", "apply" } : e.wf[w].job[o].status = x.job[o].status
      /\ \A v \in Workflow \ {w} : e.wf[v] = db.wf[v]
  BY <1>2, <1>6, UpdateOperations DEF Quiet, Bare, SameButClaims, x
<1>8. /\ z \in DataOf("lanraragi_metadata") /\ z.reserved = x.data.reserved
      /\ z.ready = x.data.ready \cup { << m, a >> }
  <2>1. << m, a >> \in Manga \X Archive OBVIOUS
  <2> QED BY <1>2, <1>7, <2>1, MetadataDataFields DEF DataOf
<1> HIDE DEF z
<1>9. /\ f \in Database /\ f.row = e.row /\ f.wf[w].kind = "lanraragi_metadata"
      /\ f.wf[w].bind = x.bind /\ f.wf[w].status = "active" /\ f.wf[w].data = z
      /\ f.wf[w].phase = x.phase /\ f.wf[w].job = e.wf[w].job
      /\ \A v \in Workflow \ {w} : f.wf[v] = e.wf[v]
  BY <1>2, <1>7, <1>8, DataPutFields, MetadataIsKind
<1> HIDE DEF f
<1>10. Ready(f.wf[w]) \subseteq Bound(f.wf[w])
  <2>1. m \in Bound(x) BY <1>1, <1>2
  <2>2. Ready(x) \subseteq Bound(x) BY <1>5 DEF UpdateInOrder
  <2>3. f.wf[w].data.ready = x.data.ready \cup { << m, a >> } BY <1>8, <1>9
  <2>4. << m, a >>[1] = m OBVIOUS
  <2>5. SUFFICES ASSUME NEW r \in f.wf[w].data.ready PROVE r[1] \in Bound(x)
    BY <1>9, <2>5 DEF Ready, Bound
  <2>6. CASE r \in x.data.ready BY <2>2, <2>6 DEF Ready
  <2>7. CASE r = << m, a >> BY <2>1, <2>4, <2>7
  <2> QED BY <2>3, <2>6, <2>7
<1>11. InOrder(f.wf[w])
  BY <1>5, <1>7, <1>8, <1>9, <1>10 DEF InOrder, UpdateInOrder, Bound
<1>12. ~Open(x, "apply") BY <1>4, <1>5, OneOpen
<1>13. RowsLike(db, f) /\ OthersAlike(db, f, w)
  BY <1>7, <1>9, AlikeReflexive DEF RowsLike, RowLike, OthersAlike
<1>14. Updates(db, f, w)
  BY <1>2, <1>9, <1>11, <1>12, <1>13, StandsUpdates DEF Keeps, x
<1> QED BY <1>1, <1>2, <1>14, LeftCools, UpdateOrdinary

LEMMA EndedUpdates ==
  ASSUME TypeInv, RowsIn(db), NEW p \in Proc, BatchApplied(p) \/ BatchCancelled(p)
  PROVE  Ordinarily
<1>1. PICK op \in { "scan", "apply" }, at \in { "begin", "items" } : AtMetadata(p, op, at)
  BY DEF BatchApplied, BatchCancelled
<1>2. /\ Busy(p) /\ Valid(db, proc[p]) /\ db \in Database /\ proc[p].w \in Workflow
      /\ db.wf[proc[p].w].kind = "lanraragi_metadata" /\ proc[p].op \in { "scan", "apply" }
      /\ db.wf[proc[p].w].status = "active"
  BY <1>1, ItemPlaces, AtMetadataRuns
<1>3. Open(db.wf[proc[p].w], proc[p].op) BY <1>2, RunningIsOpen
<1>4. Exits(p) /\ qbit' = qbit BY DEF BatchApplied, BatchCancelled
<1>5. CASE BatchCancelled(p)
  <2>1. db' = CancelComplete(db, proc[p]) BY <1>5 DEF BatchCancelled
  <2>2. Updates(db, db', proc[p].w) BY <1>2, <1>3, <2>1, CancelUpdates
  <2> QED BY <1>2, <1>4, <2>2, ExitsCool, UpdateOrdinary
<1>6. CASE BatchApplied(p)
  <2>1. PICK ph \in { "completed", "completed_with_errors" } :
          db' = Succeed(db, proc[p], ph, "completed")
    BY <1>6 DEF BatchApplied
  <2>2. Fades(db, db, proc[p].w) BY <1>2, RestsReflexive, RestFades
  <2>3. Updates(db, db', proc[p].w)
    BY <1>2, <1>3, <2>1, <2>2, SucceedUpdates, PhaseNames
  <2> QED BY <1>2, <1>4, <2>3, ExitsCool, UpdateOrdinary
<1> QED BY <1>5, <1>6

LEMMA PreviewReadyUpdates ==
  ASSUME TypeInv, RowsIn(db), NEW p \in Proc, PreviewReady(p)
  PROVE  Ordinarily
<1> DEFINE w == proc[p].w
           ready == Distinct(db.wf[w].data.ready)
           z == [ db.wf[w].data EXCEPT !.ready = ready ]
           d == DataPut(db, w, z)
<1>1. /\ AtMetadata(p, "scan", "items") /\ Exits(p) /\ qbit' = qbit
      /\ \/ db' = Succeed(d, proc[p], "awaiting_confirmation", "active")
         \/ db' = Succeed(d, proc[p], "completed_with_errors", "completed")
  BY DEF PreviewReady, Metadata, DataPut
<1>2. /\ Busy(p) /\ Valid(db, proc[p]) /\ db \in Database /\ w \in Workflow
      /\ db.wf[w].kind = "lanraragi_metadata" /\ db.wf[w].kind # "none"
      /\ db.wf[w].data \in DataOf("lanraragi_metadata") /\ db.wf[w].status = "active"
      /\ proc[p].op = "scan"
  BY <1>1, ItemPlaces, AtMetadataRuns
<1>3. Open(db.wf[w], "scan") BY <1>2, RunningIsOpen
<1>4. ready \subseteq db.wf[w].data.ready BY DEF Distinct
<1> HIDE DEF ready, w
<1>5. z \in DataOf("lanraragi_metadata") /\ z.reserved = db.wf[w].data.reserved /\ z.ready = ready
  BY <1>2, <1>4, MetadataDataFields DEF DataOf
<1> HIDE DEF z
<1>6. /\ d \in Database /\ d.row = db.row /\ d.wf[w].kind = "lanraragi_metadata"
      /\ d.wf[w].bind = db.wf[w].bind /\ d.wf[w].status = "active" /\ d.wf[w].data = z
      /\ d.wf[w].job = db.wf[w].job /\ \A v \in Workflow \ {w} : d.wf[v] = db.wf[v]
  BY <1>2, <1>5, DataPutFields
<1> HIDE DEF d
<1>7. RowsLike(db, d) /\ OthersAlike(db, d, w)
  BY <1>6, AlikeReflexive DEF RowsLike, RowLike, OthersAlike
<1>8. Ready(d.wf[w]) \subseteq Ready(db.wf[w]) BY <1>4, <1>5, <1>6 DEF Ready
<1>9. Fades(db, d, w) BY <1>2, <1>5, <1>6, <1>7, <1>8 DEF Fades, Open
<1>10. Updates(db, db', w)
  BY <1>1, <1>2, <1>3, <1>5, <1>6, <1>9, SucceedUpdates, PhaseNames DEF w
<1> QED BY <1>1, <1>2, <1>10, ExitsCool, UpdateOrdinary

LEMMA RestedUpdate ==
  ASSUME NEW d \in Database, NEW e, NEW w \in Workflow, Rests(d, e),
         d.wf[w].kind = "lanraragi_metadata", d.wf[w].status = "active"
  PROVE  /\ e \in Database /\ e.wf[w].kind = "lanraragi_metadata"
         /\ e.wf[w].bind = d.wf[w].bind /\ e.wf[w].status = "active"
         /\ e.wf[w].phase = d.wf[w].phase /\ e.wf[w].data.ready = d.wf[w].data.ready
         /\ e.wf[w].data.reserved = d.wf[w].data.reserved
         /\ \A o \in { "scan", "apply" } : e.wf[w].job[o].status = d.wf[w].job[o].status
         /\ OthersAlike(d, e, w) /\ RowsLike(d, e)
<1>1. Alike(d.wf[w], e.wf[w]) /\ OthersAlike(d, e, w) BY DEF Rests, OthersAlike
<1>2. e.wf[w].status = d.wf[w].status /\ UpdateLike(d.wf[w], e.wf[w])
  BY <1>1, HolderNames DEF Alike
<1> QED BY <1>1, <1>2 DEF Rests, Alike, UpdateLike

LEMMA RecordItemUpdates ==
  ASSUME TypeInv, RowsIn(db), NEW p \in Proc, RecordItem(p) PROVE Ordinarily
<1> DEFINE w == proc[p].w
           x == db.wf[w]
           m == proc[p].item
           d == Restore(db, w, {m})
           t == Touch(d, m)
           r == [ t.row[m] EXCEPT !.status = "completed", !.error = "none" ]
           e == [ t EXCEPT !.row[m] = r ]
           z == [ e.wf[w].data EXCEPT !.done = e.wf[w].data.done \cup {m} ]
           f == [ t EXCEPT !.row[m].status = "completed", !.row[m].error = "none",
                           !.wf[w].data.done = @ \cup {m} ]
<1>1. /\ AtMetadata(p, "apply", "write")
      /\ db.row[m].status = "special_processing" /\ ~db.row[m].busy
      /\ db' = f /\ Left(p, proc[p].todo) /\ qbit' = qbit
  BY DEF RecordItem
<1>2. /\ Busy(p) /\ Valid(db, proc[p]) /\ db \in Database /\ w \in Workflow
      /\ x.kind = "lanraragi_metadata" /\ x.kind # "none"
      /\ x \in WorkflowOf("lanraragi_metadata") /\ x.status = "active"
      /\ m \in Bound(x) /\ proc[p].op = "apply"
  BY <1>1, ItemPlaces, AtMetadataRuns
<1>3. m \in Manga BY <1>2, BoundRows, MetadataIsKind
<1>4. f = DataPut(e, w, z)
  <2> HIDE DEF t
  <2>1. e.wf = t.wf OBVIOUS
  <2>2. f = [ e EXCEPT !.wf[w].data.done = e.wf[w].data.done \cup {m} ]
    BY <2>1, ZenonT(60)
  <2> HIDE DEF e, f
  <2> QED BY <2>2 DEF DataPut
<1>5. Open(x, "apply") BY <1>2, RunningIsOpen
<1>6. UpdateInOrder(x) BY <1>2 DEF RowsIn, AllInOrder, InOrder
<1> HIDE DEF w, m, f, x
<1> DEFINE ms == {m}
           back == Given(db, w, ms)
           zz == [ x.data EXCEPT !.reserved = x.data.reserved \ back,
                                 !.stale = x.data.stale \cup back ]
<1>7. /\ d \in Database /\ d.row = RestoredRow(db, w, ms)
      /\ \A v \in Workflow \ {w} : d.wf[v] = db.wf[v]
      /\ d.wf[w] = [ x EXCEPT !.data = zz ]
  <2>1. ms \in SUBSET Bound(db.wf[w]) BY <1>2 DEF x
  <2> HIDE DEF ms
  <2>2. Remarks(db, d) BY <1>2, <2>1, RestoreRemarks DEF x, ms
  <2> QED BY <1>2, <2>1, <2>2, RestoreRemarks, ZenonT(60) DEF x, ms, Remarks
<1>8. /\ d.wf[w].kind = "lanraragi_metadata" /\ d.wf[w].bind = x.bind
      /\ d.wf[w].job = x.job /\ d.wf[w].status = "active" /\ d.wf[w].phase = x.phase
      /\ d.wf[w].data = zz
  <2> HIDE DEF zz, d
  <2> QED BY <1>2, <1>7 DEF WorkflowOf
<1>9. zz.reserved = x.data.reserved \ back /\ zz.ready = x.data.ready
  <2>1. x.data \in [ ready : SUBSET (Manga \X Archive), reserved : SUBSET Manga,
                     done : SUBSET Manga, stale : SUBSET Manga ]
    BY <1>2, WorkflowFields, MetadataDataFields, MetadataIsKind
  <2> HIDE DEF back
  <2> QED BY <2>1
<1>10. \A n \in Manga : n # m => d.row[n] = db.row[n] /\ n \notin back
  BY <1>7 DEF RestoredRow, Given
<1> HIDE DEF d, zz, back
<1>11. Rests(d, t) /\ t \in Database BY <1>7, TouchRests
<1> HIDE DEF t
<1>12. r \in Row /\ r.status = "completed" /\ r.external = t.row[m].external
  <2>1. t.row[m] \in Row BY <1>3, <1>11, DatabaseFields
  <2> HIDE DEF r
  <2>2. r = [ t.row[m] EXCEPT !.status = "completed", !.error = "none" ] BY DEF r
  <2>3. r \in Row BY <2>1, <2>2, RowFields DEF RowStatus, RowError
  <2>4. r.status = "completed" /\ r.external = t.row[m].external BY <2>1, <2>2 DEF Row
  <2> QED BY <2>3, <2>4
<1> HIDE DEF r
<1>13. e \in Database /\ e.wf = t.wf /\ e.row = [ t.row EXCEPT ![m] = r ]
  BY <1>3, <1>11, <1>12, PutRow
<1>14. e.row[m] = r /\ \A n \in Manga : n # m => e.row[n] = t.row[n]
  BY <1>3, <1>11, <1>13, DatabaseFields
<1> HIDE DEF e
<1>15. /\ t.wf[w].kind = "lanraragi_metadata" /\ t.wf[w].bind = x.bind
       /\ t.wf[w].status = "active" /\ t.wf[w].phase = x.phase
       /\ t.wf[w].data.ready = x.data.ready
       /\ t.wf[w].data.reserved = x.data.reserved \ back
       /\ \A o \in { "scan", "apply" } : t.wf[w].job[o].status = x.job[o].status
       /\ OthersAlike(d, t, w) /\ RowsLike(d, t)
  <2>1. /\ t.wf[w].kind = "lanraragi_metadata"
        /\ t.wf[w].bind = d.wf[w].bind /\ t.wf[w].status = "active"
        /\ t.wf[w].phase = d.wf[w].phase /\ t.wf[w].data.ready = d.wf[w].data.ready
        /\ t.wf[w].data.reserved = d.wf[w].data.reserved
        /\ \A o \in { "scan", "apply" } : t.wf[w].job[o].status = d.wf[w].job[o].status
        /\ OthersAlike(d, t, w) /\ RowsLike(d, t)
    <3>1. /\ d \in Database /\ w \in Workflow /\ Rests(d, t)
          /\ d.wf[w].kind = "lanraragi_metadata" /\ d.wf[w].status = "active"
      BY <1>2, <1>7, <1>8, <1>11
    <3> QED BY <3>1, RestedUpdate
  <2> QED BY <1>8, <1>9, <2>1
<1>16. /\ z \in DataOf("lanraragi_metadata") /\ z.ready = x.data.ready
       /\ z.reserved = x.data.reserved \ back
  <2>1. e.wf[w].data \in DataOf("lanraragi_metadata")
    BY <1>2, <1>13, <1>15, DatabaseFields, RecordKind, WorkflowFields, MetadataIsKind
  <2> QED BY <1>3, <1>13, <1>15, <2>1, MetadataDataFields DEF DataOf
<1> HIDE DEF z
<1>17. /\ f \in Database /\ f.row = e.row /\ f.wf[w].kind = "lanraragi_metadata"
       /\ f.wf[w].bind = x.bind /\ f.wf[w].status = "active" /\ f.wf[w].data = z
       /\ f.wf[w].phase = x.phase
       /\ \A o \in { "scan", "apply" } : f.wf[w].job[o].status = x.job[o].status
       /\ \A v \in Workflow \ {w} : f.wf[v] = t.wf[v]
  BY <1>2, <1>4, <1>13, <1>15, <1>16, DataPutFields, MetadataIsKind
<1>18. OthersAlike(db, f, w)
  BY <1>7, <1>15, <1>17 DEF OthersAlike
<1>19. InOrder(f.wf[w])
  BY <1>6, <1>16, <1>17 DEF InOrder, UpdateInOrder, Ready, Bound
<1>20. \A n \in Manga : n # m => RowLike(db.row[n], f.row[n])
  BY <1>10, <1>14, <1>15, <1>17 DEF RowsLike
<1>21. /\ f.row[m].status = "completed" /\ ~db.row[m].external
       /\ f.row[m].external = db.row[m].external
  <2>1. ~db.row[m].external BY <1>1, <1>3 DEF RowsIn, RowsSound, RowSound, m
  <2>2. d.row[m].external = db.row[m].external
    <3>1. db.row[m] \in Row BY <1>2, <1>3, DatabaseFields
    <3>2. d.row[m] = db.row[m] \/ d.row[m] = [ db.row[m] EXCEPT !.status = x.bind[m].status ]
      BY <1>3, <1>7 DEF RestoredRow, x
    <3> QED BY <3>1, <3>2 DEF Row
  <2>3. t.row[m].external = d.row[m].external BY <1>3, <1>15 DEF RowsLike, RowLike
  <2> QED BY <1>12, <1>14, <1>17, <2>1, <2>2, <2>3
<1>22. \A n \in Manga : n # m => (Keeps(x, n) => Keeps(f.wf[w], n))
  <2> SUFFICES ASSUME NEW n \in Manga, n # m, Keeps(x, n) PROVE Keeps(f.wf[w], n)
    OBVIOUS
  <2>1. n \in x.data.reserved \ back /\ Open(x, "apply") /\ n \in Bound(x)
    BY <1>2, <1>10 DEF Keeps
  <2> QED BY <1>16, <1>17, <2>1, UpdateOperations DEF Keeps, Open, Bound
<1>23. ASSUME NEW n \in Manga
       PROVE  /\ RowSound(f.row[n]) /\ f.row[n].external = db.row[n].external
              /\ \/ f.row[n].status = db.row[n].status
                 \/ x.status = "active" /\ n \in Bound(x)
              /\ f.row[n].status = "special_processing" =>
                   \/ Keeps(f.wf[w], n)
                   \/ db.row[n].status = "special_processing" /\ ~Keeps(x, n)
  <2>1. CASE n = m BY <1>2, <1>21, <2>1 DEF RowSound
  <2>2. CASE n # m
    <3>1. RowLike(db.row[n], f.row[n]) /\ RowSound(db.row[n])
      BY <1>20, <2>2 DEF RowsIn, RowsSound
    <3> QED BY <1>22, <2>2, <3>1, RowLikeSound DEF RowLike
  <2> QED BY <2>1, <2>2
<1>24. Updates(db, f, w)
  BY <1>2, <1>17, <1>18, <1>19, <1>23 DEF Updates, x
<1> QED BY <1>1, <1>2, <1>24, LeftCools, UpdateOrdinary

LEMMA ActivePhases ==
  ASSUME NEW x, InOrder(x), x.kind = "lanraragi_metadata", NEW o \in { "scan", "apply" },
         Open(x, o)
  PROVE  /\ x.status = "active" /\ UpdateInOrder(x)
         /\ x.phase \in { "queued", "scanning", "awaiting_confirmation", "applying" }
BY DEF InOrder, UpdateInOrder, Open

LEMMA MayQueueIsActive ==
  ASSUME NEW d, NEW w, NEW o \in { "scan", "apply" },
         MayQueue(d, w, o), d.wf[w].kind = "lanraragi_metadata"
  PROVE  Open(d.wf[w], o) \/ d.wf[w].status = "active"
<1>1. Definition["lanraragi_metadata"][o].statuses = { "active" }
  BY DEF Definition, Operation
<1> QED BY <1>1 DEF MayQueue, Open, Def

LEMMA ConfirmUpdates ==
  ASSUME TypeInv, RowsIn(db), NEW w \in Workflow, ConfirmUpdate(w)
  PROVE  Updates(db, db', w)
<1> DEFINE x == db.wf[w]
           ms == Ready(x)
           t == TouchAll(db, ms)
           z == [ x.data EXCEPT !.reserved = x.data.reserved \cup ms ]
           y == [ x EXCEPT !.data.reserved = x.data.reserved \cup ms ]
           e == [ t EXCEPT !.wf[w] = y ]
           r == [m \in Manga |-> IF m \in ms
                    THEN [ db.row[m] EXCEPT !.status = "special_processing" ] ELSE db.row[m]]
           taken == [ t EXCEPT !.wf[w] = y, !.row = r ]
           f == Queue(taken, w, "apply")
<1>1. /\ x.kind = "lanraragi_metadata" /\ x.phase = "awaiting_confirmation"
      /\ \A m \in ms : EligibleRow(db.row[m])
      /\ MayQueue(taken, w, "apply") /\ db' = f
  BY DEF ConfirmUpdate
<1>2. db \in Database /\ x \in WorkflowOf("lanraragi_metadata") /\ x.kind # "none"
      /\ x.data \in DataOf("lanraragi_metadata")
  BY <1>1, MetadataIsKind, TypedWorkflow
<1>3. ms \subseteq Manga BY <1>2, ReadyRows
<1>4. InOrder(x) /\ RowsSound(db) BY DEF RowsIn, AllInOrder
<1>5. z \in DataOf("lanraragi_metadata") /\ z.ready = x.data.ready
      /\ z.reserved = x.data.reserved \cup ms
  <2> HIDE DEF ms
  <2> QED BY <1>2, <1>3, MetadataDataFields DEF DataOf
<1>6. y = [ x EXCEPT !.data = z ] OBVIOUS
<1>7. /\ r \in [Manga -> Row]
      /\ \A m \in ms : r[m].status = "special_processing" /\ r[m].busy = db.row[m].busy
                       /\ r[m].external = db.row[m].external
      /\ \A m \in Manga \ ms : r[m] = db.row[m]
  <2>1. \A m \in Manga : db.row[m] \in Row BY <1>2, DatabaseFields
  <2> HIDE DEF ms
  <2>2. r \in [Manga -> Row] BY <2>1, RowFields DEF RowStatus
  <2>3. ASSUME NEW m \in ms
        PROVE  r[m].status = "special_processing" /\ r[m].busy = db.row[m].busy
               /\ r[m].external = db.row[m].external
    <3>1. m \in Manga /\ db.row[m] \in Row BY <1>3, <2>1
    <3>2. r[m] = [ db.row[m] EXCEPT !.status = "special_processing" ] BY <3>1
    <3> HIDE DEF r
    <3> QED BY <3>1, <3>2 DEF Row
  <2> QED BY <2>2, <2>3
<1> HIDE DEF ms, z, y, r
<1>8. /\ y \in WorkflowOf("lanraragi_metadata") /\ y.kind = x.kind /\ y.bind = x.bind
      /\ y.status = x.status /\ y.phase = x.phase /\ y.job = x.job /\ y.data = z
  <2>1. y \in WorkflowOf("lanraragi_metadata") BY <1>2, <1>5, <1>6, PutData, MetadataIsKind
  <2> HIDE DEF x
  <2> QED BY <1>2, <1>6, <2>1 DEF WorkflowOf
<1>9. Rests(db, t) /\ t \in Database BY <1>2, TouchAllRests
<1> HIDE DEF t
<1>10. /\ taken \in Database /\ taken.row = r /\ taken.wf[w] = y
       /\ \A v \in Workflow \ {w} : taken.wf[v] = t.wf[v]
  <2>1. Rewrites(t, e, w, y) BY <1>8, <1>9, PutWorkflow, WorkflowIsRecord, MetadataIsKind
  <2>2. taken = [ e EXCEPT !.row = r ] OBVIOUS
  <2> HIDE DEF e, taken
  <2> QED BY <1>7, <2>1, <2>2, DatabaseFields DEF Rewrites, Database
<1> HIDE DEF taken
<1>11. x.status = "active" /\ UpdateInOrder(x) /\ x.job["apply"].status # "running"
       /\ ~Open(x, "scan")
  <2>1. Open(x, "apply") \/ x.status = "active"
    <3>1. taken.wf[w].kind = "lanraragi_metadata" BY <1>1, <1>8, <1>10
    <3>2. Open(taken.wf[w], "apply") \/ taken.wf[w].status = "active"
      BY <1>1, <3>1, MayQueueIsActive
    <3> QED BY <1>8, <1>10, <3>2 DEF Open
  <2>2. x.status = "active" /\ UpdateInOrder(x)
    BY <1>1, <1>4, <2>1, ActivePhases DEF InOrder
  <2> QED BY <1>1, <2>2 DEF UpdateInOrder, Open
<1>12. /\ Quiet(taken, f, w) /\ f.wf[w].phase = x.phase
       /\ StatusOf(f, w, "scan") = x.job["scan"].status
       /\ StatusOf(f, w, "apply") = "queued"
  <2> DEFINE g == Queue(taken, w, "apply")
  <2>1. /\ Quiet(taken, g, w) /\ g.wf[w].phase = taken.wf[w].phase
        /\ \A n \in { "scan", "apply" } :
             StatusOf(g, w, n) = IF n = "apply" /\ ~Open(taken.wf[w], "apply") THEN "queued"
                                 ELSE StatusOf(taken, w, n)
    BY <1>1, <1>2, <1>8, <1>10, QueueStatuses, UpdateOperations
  <2> HIDE DEF g
  <2>2. g.wf[w].phase = x.phase BY <1>8, <1>10, <2>1
  <2>3. StatusOf(g, w, "scan") = x.job["scan"].status BY <1>8, <1>10, <2>1 DEF StatusOf
  <2>4. StatusOf(g, w, "apply") = "queued"
    <3>1. CASE Open(x, "apply")
      <4>1. x.job["apply"].status = "queued" BY <1>11, <3>1 DEF Open
      <4> QED BY <1>8, <1>10, <2>1, <3>1, <4>1 DEF StatusOf, Open
    <3>2. CASE ~Open(x, "apply") BY <1>8, <1>10, <2>1, <3>2 DEF Open
    <3> QED BY <3>1, <3>2
  <2> QED BY <2>1, <2>2, <2>3, <2>4 DEF g
<1> HIDE DEF f
<1>13. /\ f \in Database /\ f.row = r /\ f.wf[w].kind = "lanraragi_metadata"
       /\ f.wf[w].bind = x.bind /\ f.wf[w].status = "active" /\ f.wf[w].data = z
       /\ \A v \in Workflow \ {w} : f.wf[v] = t.wf[v]
  BY <1>1, <1>8, <1>10, <1>11, <1>12 DEF Quiet, Bare
<1>14. OthersAlike(db, f, w) BY <1>9, <1>13 DEF Rests, OthersAlike
<1>15. ms \subseteq Bound(x) BY <1>11 DEF UpdateInOrder, ms
<1>16. InOrder(f.wf[w])
  <2>1. Ready(f.wf[w]) = Ready(x) /\ Bound(f.wf[w]) = Bound(x) BY <1>5, <1>13 DEF Ready, Bound
  <2>2. Ready(x) \subseteq Bound(x) /\ x.data.reserved \subseteq Bound(x)
    BY <1>11 DEF UpdateInOrder
  <2>3. f.wf[w].data.reserved \subseteq Bound(f.wf[w])
    BY <1>5, <1>13, <1>15, <2>1, <2>2
  <2> QED BY <1>1, <1>11, <1>12, <1>13, <2>1, <2>2, <2>3
          DEF InOrder, UpdateInOrder, StatusOf, Open
<1>17. \A m \in Manga : m \in Bound(x) /\ m \in x.data.reserved \cup ms => Keeps(f.wf[w], m)
  BY <1>5, <1>12, <1>13, UpdateOperations DEF Keeps, StatusOf, Open, Bound
<1>18. ASSUME NEW m \in Manga
       PROVE  /\ RowSound(f.row[m]) /\ f.row[m].external = db.row[m].external
              /\ \/ f.row[m].status = db.row[m].status
                 \/ x.status = "active" /\ m \in Bound(x)
              /\ f.row[m].status = "special_processing" =>
                   \/ Keeps(f.wf[w], m)
                   \/ db.row[m].status = "special_processing" /\ ~Keeps(x, m)
  <2>1. CASE m \in ms
    <3>1. ~db.row[m].busy /\ ~db.row[m].external
      BY <1>1, <1>4, <2>1 DEF EligibleRow, RowsSound, RowSound
    <3> QED BY <1>7, <1>11, <1>13, <1>15, <1>17, <2>1, <3>1 DEF RowSound
  <2>2. CASE m \notin ms
    <3>1. f.row[m] = db.row[m] BY <1>7, <1>13, <2>2
    <3>2. Keeps(x, m) => m \in Bound(x) /\ m \in x.data.reserved BY <1>1 DEF Keeps
    <3> QED BY <1>4, <1>17, <3>1, <3>2 DEF RowsSound
  <2> QED BY <2>1, <2>2
<1> QED BY <1>1, <1>13, <1>14, <1>16, <1>18 DEF Updates

LEMMA RetryUpdates ==
  ASSUME TypeInv, RowsIn(db), NEW w \in Workflow, RetryMetadata(w)
  PROVE  Updates(db, db', w)
<1> DEFINE x == db.wf[w]
           left == Bound(x) \ x.data.done
           fit == { m \in left : EligibleRow(db.row[m]) }
           z == [ x.data EXCEPT !.ready = { r \in x.data.ready : r[1] \notin left },
                                !.reserved = x.data.reserved \ left,
                                !.stale = (x.data.stale \cup left) \ fit ]
           d1 == DataPut(db, w, z)
           d == [ db EXCEPT !.wf[w].phase = "queued", !.wf[w].data = z ]
           f == Queue(d, w, "scan")
<1>1. /\ x.kind = "lanraragi_metadata" /\ x.phase = "failed" /\ ~Open(x, "scan")
      /\ MayQueue(d, w, "scan") /\ db' = f
  BY DEF RetryMetadata, Open
<1>2. db \in Database /\ x \in WorkflowOf("lanraragi_metadata") /\ x.kind # "none"
      /\ x.data \in DataOf("lanraragi_metadata")
  BY <1>1, MetadataIsKind, TypedWorkflow
<1>3. left \subseteq Manga BY <1>2, BoundRows, MetadataIsKind
<1>4. d = PhasePut(d1, w, "queued")
  <2> HIDE DEF z
  <2> QED BY DEF PhasePut, DataPut
<1>5. InOrder(x) BY DEF RowsIn, AllInOrder
<1> HIDE DEF left, fit, d
<1>6. z \in DataOf("lanraragi_metadata") /\ z.ready \subseteq x.data.ready
      /\ z.reserved \subseteq x.data.reserved
  BY <1>2, <1>3, MetadataDataFields DEF DataOf
<1> HIDE DEF z
<1>7. /\ d1 \in Database /\ d1.row = db.row /\ d1.wf[w].kind = "lanraragi_metadata"
      /\ d1.wf[w].bind = x.bind /\ d1.wf[w].status = x.status /\ d1.wf[w].data = z
      /\ d1.wf[w].job = x.job /\ \A v \in Workflow \ {w} : d1.wf[v] = db.wf[v]
  BY <1>1, <1>2, <1>6, DataPutFields
<1> HIDE DEF d1
<1>8. /\ d \in Database /\ d.row = db.row /\ d.wf[w].kind = "lanraragi_metadata"
      /\ d.wf[w].bind = x.bind /\ d.wf[w].status = x.status /\ d.wf[w].data = z
      /\ d.wf[w].job = x.job /\ d.wf[w].phase = "queued"
      /\ \A v \in Workflow \ {w} : d.wf[v] = db.wf[v]
  <2>1. Quiet(d1, d, w) /\ d.wf[w].job = d1.wf[w].job
    BY <1>4, <1>7, PhasePutIsQuiet, PhaseNames, MetadataIsKind
  <2>2. d.wf[w].phase = "queued"
    <3>1. d1.wf[w] \in WorkflowOf("lanraragi_metadata")
      BY <1>7, DatabaseFields, RecordKind, MetadataIsKind
    <3>2. Rewrites(d1, d, w, [ d1.wf[w] EXCEPT !.phase = "queued" ])
      BY <1>4, <1>7, <3>1, PutWorkflow, PutPhase, PhaseNames, WorkflowIsRecord, MetadataIsKind
         DEF PhasePut
    <3> QED BY <3>1, <3>2 DEF Rewrites, WorkflowOf
  <2> QED BY <1>7, <2>1, <2>2 DEF Quiet, Bare
<1>9. x.status = "active" /\ UpdateInOrder(x) /\ ~Open(x, "apply")
  <2>1. Open(d.wf[w], "scan") \/ d.wf[w].status = "active" BY <1>1, <1>8, MayQueueIsActive
  <2>2. x.status = "active" /\ UpdateInOrder(x)
    BY <1>1, <1>5, <1>8, <2>1 DEF Open, InOrder
  <2> QED BY <1>1, <2>2 DEF UpdateInOrder, Open
<1>10. /\ Quiet(d, f, w) /\ f.wf[w].phase = "queued"
       /\ StatusOf(f, w, "scan") = "queued"
       /\ StatusOf(f, w, "apply") = x.job["apply"].status
  <2> DEFINE g == Queue(d, w, "scan")
  <2>1. /\ Quiet(d, g, w) /\ g.wf[w].phase = d.wf[w].phase
        /\ \A n \in { "scan", "apply" } :
             StatusOf(g, w, n) = IF n = "scan" /\ ~Open(d.wf[w], "scan") THEN "queued"
                                 ELSE StatusOf(d, w, n)
    BY <1>8, QueueStatuses, UpdateOperations, MetadataIsKind
  <2> HIDE DEF g
  <2>2. ~Open(d.wf[w], "scan") BY <1>1, <1>8 DEF Open
  <2>3. StatusOf(g, w, "apply") = x.job["apply"].status BY <1>8, <2>1 DEF StatusOf
  <2> QED BY <1>8, <2>1, <2>2, <2>3 DEF g
<1> HIDE DEF f
<1>11. /\ f \in Database /\ f.row = db.row /\ f.wf[w].kind = "lanraragi_metadata"
       /\ f.wf[w].bind = x.bind /\ f.wf[w].status = "active" /\ f.wf[w].data = z
       /\ \A v \in Workflow \ {w} : f.wf[v] = db.wf[v]
  BY <1>8, <1>9, <1>10 DEF Quiet, Bare
<1>12. RowsLike(db, f) /\ OthersAlike(db, f, w)
  BY <1>11, AlikeReflexive DEF RowsLike, RowLike, OthersAlike
<1>13. InOrder(f.wf[w])
  <2>1. Ready(f.wf[w]) \subseteq Ready(x) /\ Bound(f.wf[w]) = Bound(x)
    BY <1>6, <1>11 DEF Ready, Bound
  <2>2. f.wf[w].data.reserved \subseteq Bound(x) BY <1>6, <1>9, <1>11 DEF UpdateInOrder
  <2> QED BY <1>9, <1>10, <1>11, <2>1, <2>2 DEF InOrder, UpdateInOrder, StatusOf, Open
<1>14. \A m \in Manga : ~Keeps(x, m) BY <1>1, <1>9 DEF Keeps
<1> QED BY <1>1, <1>2, <1>11, <1>12, <1>13, <1>14, StandsUpdates

LEMMA MetadataCommandOrdinary ==
  ASSUME TypeInv, RowsIn(db), NEW w \in Workflow, MetadataCommand(w) PROVE Ordinarily
<1>1. CASE \E ms \in SUBSET Manga : StartMetadata(w, ms)
  BY <1>1, StartMetadataBegins, CommandOrdinary DEF StartMetadata, RowMoves
<1>2. CASE ConfirmUpdate(w)
  BY <1>2, ConfirmUpdates, CommandOrdinary DEF ConfirmUpdate, RowMoves
<1>3. CASE RetryMetadata(w)
  BY <1>3, RetryUpdates, CommandOrdinary DEF RetryMetadata, RowMoves
<1> QED BY <1>1, <1>2, <1>3 DEF MetadataCommand

LEMMA MetadataStepOrdinary ==
  ASSUME TypeInv, RowsIn(db), NEW p \in Proc, MetadataStep(p) PROVE Ordinarily
BY PassItemOrdinary, PreviewReadyUpdates, RecordItemUpdates, EndedUpdates,
   WriteItemOrdinary, PreviewItemUpdates DEF MetadataStep

----------------------------------------------------------------------------
\* The scans of the library hold no row.

LEMMA ScansArePlain ==
  ASSUME NEW x, x.kind \in { "lanraragi_compare", "download_cleanup", "full_collect" }
  PROVE  Plain(x) /\ x.kind \notin Holders
BY HolderNames, KindNames DEF Plain, Kind

LEMMA QueueScanRests ==
  ASSUME TypeInv, NEW w \in Workflow, ConfirmCleanup(w) \/ RetryCompare(w) \/ RetryCleanup(w)
  PROVE  Rests(db, db')
<1>1. db.wf[w].kind \in { "lanraragi_compare", "download_cleanup" } /\ db \in Database
  BY DEF ConfirmCleanup, RetryCompare, RetryCleanup, TypeInv
<1>2. db.wf[w].kind # "none" /\ Plain(db.wf[w]) BY <1>1, ScanKinds, ScansArePlain
<1>3. \E o \in OperationsOf(db.wf[w].kind) : db' = Queue(db, w, o)
  BY OperationNames DEF ConfirmCleanup, RetryCompare, RetryCleanup
<1> QED BY <1>1, <1>2, <1>3, QueueRests

LEMMA ScanCommandOrdinary ==
  ASSUME TypeInv, NEW w \in Workflow, ScanCommand(w) PROVE Ordinarily
<1>1. CASE StartCompare(w) \/ StartCleanup(w)
  BY <1>1, StartLibraryBegins, CommandOrdinary DEF StartCompare, StartCleanup, RowMoves
<1>2. CASE ConfirmCleanup(w) \/ RetryCompare(w) \/ RetryCleanup(w)
  BY <1>2, QueueScanRests, CommandOrdinary
     DEF ConfirmCleanup, RetryCompare, RetryCleanup, RowMoves
<1> QED BY <1>1, <1>2 DEF ScanCommand

LEMMA CompareOrdinary ==
  ASSUME TypeInv, NEW p \in Proc, NEW at \in DOMAIN Comparing, CompareGoesOn(p, at)
  PROVE  Ordinarily
<1> DEFINE to == Comparing[at]
<1>1. /\ AtScan(p, "lanraragi_compare", at) /\ db' = Update(db, proc[p], to)
      /\ Goto(p, to) /\ sup' = sup /\ qbit' = qbit
  BY DEF CompareGoesOn
<1>2. at \in Place \ { "idle" } /\ to \in Phase /\ to \notin Hot
  BY ComparePlaces, HotNames DEF Comparing
<1>3. /\ proc[p].w \in Workflow /\ db \in Database
      /\ db.wf[proc[p].w].kind = "lanraragi_compare" /\ db.wf[proc[p].w].kind # "none"
      /\ proc[p].op \in OperationsOf(db.wf[proc[p].w].kind)
  BY <1>1, <1>2, AtScanRuns
<1> HIDE DEF to
<1>4. Rests(db, db') BY <1>1, <1>2, <1>3, ScansArePlain, UpdateRests
<1> QED BY <1>1, <1>2, <1>4, GotoCools, StaysOrdinary

LEMMA ScanSucceeds ==
  ASSUME TypeInv, NEW p \in Proc, NEW d \in Database, Rests(db, d),
         NEW k \in { "lanraragi_compare", "download_cleanup" },
         proc[p].w \in Workflow, db.wf[proc[p].w].kind = k,
         proc[p].op \in OperationsOf(k), d.wf[proc[p].w].status = "active",
         NEW ph \in Phase, NEW st \in { "active", "completed" },
         db' = Succeed(d, proc[p], ph, st), Exits(p), qbit' = qbit
  PROVE  Ordinarily
<1>1. db \in Database /\ db.wf[proc[p].w].kind # "none" BY ScanKinds DEF TypeInv
<1>2. d.wf[proc[p].w].kind = k /\ d.wf[proc[p].w].kind # "none"
  BY <1>1, RestsFields
<1>3. Rests(d, db') BY <1>2, ScansArePlain, SucceedRests
<1> QED BY <1>3, RestsTransitive, ExitsCool, StaysOrdinary

LEMMA ScanEndsOrdinary ==
  ASSUME TypeInv, NEW p \in Proc, ComparePublished(p) \/ CleanupApplied(p)
  PROVE  Ordinarily
<1>1. PICK k \in { "lanraragi_compare", "download_cleanup" }, at \in { "publishing_report", "work" } :
         AtScan(p, k, at)
  BY DEF ComparePublished, CleanupApplied
<1>2. /\ Exits(p) /\ qbit' = qbit
      /\ \E ph \in { "completed", "completed_with_errors" } :
           db' = Succeed(db, proc[p], ph, "completed")
  BY DEF ComparePublished, CleanupApplied
<1>3. at \in Place \ { "idle" } BY ComparePlaces
<1>4. /\ db \in Database /\ proc[p].w \in Workflow /\ db.wf[proc[p].w].kind = k
      /\ proc[p].op \in OperationsOf(k) /\ db.wf[proc[p].w].status = "active"
  BY <1>1, <1>3, AtScanRuns
<1>5. Rests(db, db) BY <1>4, RestsReflexive
<1>6. "completed" \in Phase /\ "completed_with_errors" \in Phase BY PhaseNames
<1> QED BY <1>2, <1>4, <1>5, <1>6, ScanSucceeds

LEMMA BeginCleanupOrdinary ==
  ASSUME TypeInv, NEW p \in Proc, BeginCleanup(p) PROVE Ordinarily
<1> DEFINE w == proc[p].w
<1>1. /\ AtScan(p, "download_cleanup", "begin") /\ "begin" \in Place \ { "idle" }
      /\ Goto(p, "work") /\ qbit' = qbit
      /\ db' = IF proc[p].op = "apply"
               THEN [ db EXCEPT !.wf[w].job["apply"].effect = TRUE ] ELSE db
      /\ "apply" \in OperationsOf("download_cleanup")
  BY OperationNames DEF BeginCleanup, Place
<1>2. /\ db \in Database /\ w \in Workflow
      /\ db.wf[w].kind = "download_cleanup" /\ db.wf[w].kind # "none"
  BY <1>1, AtScanRuns
<1>3. Rests(db, EffectPut(db, w, "apply")) BY <1>1, <1>2, FlagsRest
<1>4. Rests(db, db') BY <1>1, <1>2, <1>3, RestsReflexive DEF EffectPut
<1> QED BY <1>1, <1>4, HotNames, GotoCools, StaysOrdinary

LEMMA CleanupScannedOrdinary ==
  ASSUME TypeInv, NEW p \in Proc, NEW found \in BOOLEAN, CleanupScanned(p, found)
  PROVE  Ordinarily
<1> DEFINE w == proc[p].w
           d == [ db EXCEPT !.wf[w].data.found = found ]
           z == [ db.wf[w].data EXCEPT !.found = found ]
<1>1. /\ AtScan(p, "download_cleanup", "work") /\ "work" \in Place \ { "idle" }
      /\ Going(p) /\ Exits(p) /\ qbit' = qbit
      /\ db' = IF found THEN Succeed(d, proc[p], "awaiting_confirmation", "active")
               ELSE Succeed(d, proc[p], "nothing_to_clean", "completed")
  BY DEF CleanupScanned, Place
<1>2. /\ db \in Database /\ w \in Workflow /\ proc[p].op \in OperationsOf("download_cleanup")
      /\ db.wf[w].kind = "download_cleanup" /\ db.wf[w].data \in DataOf("download_cleanup")
      /\ db.wf[w].status = "active" /\ db.wf[w].kind # "none"
  BY <1>1, AtScanRuns
<1>3. d = DataPut(db, w, z) BY DEF DataPut
<1>4. z \in DataOf("download_cleanup") BY <1>2, CleanupDataFields DEF DataOf
<1> HIDE DEF d, z, w
<1>5. PayloadRests(db.wf[w], z) BY <1>2, KindNames DEF PayloadRests
<1>6. Rests(db, d) BY <1>2, <1>3, <1>4, <1>5, DataPutRests
<1>7. d \in Database /\ d.wf[w].status = "active"
  BY <1>2, <1>3, <1>4, DataPutFields
<1>8. "awaiting_confirmation" \in Phase /\ "nothing_to_clean" \in Phase BY PhaseNames
<1>9. CASE found
  <2>1. db' = Succeed(d, proc[p], "awaiting_confirmation", "active") BY <1>1, <1>9
  <2> QED BY <1>1, <1>2, <1>6, <1>7, <1>8, <2>1, ScanSucceeds DEF w
<1>10. CASE ~found
  <2>1. db' = Succeed(d, proc[p], "nothing_to_clean", "completed") BY <1>1, <1>10
  <2> QED BY <1>1, <1>2, <1>6, <1>7, <1>8, <2>1, ScanSucceeds DEF w
<1> QED BY <1>9, <1>10

LEMMA ScanCancelledOrdinary ==
  ASSUME TypeInv, NEW p \in Proc, ScanCancelled(p) PROVE Ordinarily
<1>1. PICK k \in { "lanraragi_compare", "download_cleanup" },
           at \in DOMAIN Comparing \cup { "publishing_report", "work" } : AtScan(p, k, at)
  BY DEF ScanCancelled
<1>2. at \in Place \ { "idle" } BY ComparePlaces
<1>3. /\ db \in Database /\ proc[p].w \in Workflow /\ db.wf[proc[p].w].kind = k
      /\ db.wf[proc[p].w].kind # "none" /\ proc[p].op \in OperationsOf(k)
  BY <1>1, <1>2, AtScanRuns
<1>4. db' = CancelComplete(db, proc[p]) /\ Exits(p) /\ qbit' = qbit
  BY DEF ScanCancelled
<1>5. Rests(db, db') BY <1>3, <1>4, ScansArePlain, CancelCompleteRests
<1> QED BY <1>4, <1>5, ExitsCool, StaysOrdinary

LEMMA ScanStepOrdinary ==
  ASSUME TypeInv, NEW p \in Proc, ScanStep(p) PROVE Ordinarily
BY CompareOrdinary, ScanEndsOrdinary, BeginCleanupOrdinary, CleanupScannedOrdinary,
   ScanCancelledOrdinary DEF ScanStep

----------------------------------------------------------------------------
\* The rounds hold no row; only a committed page moves the cursor.

LEMMA RoundFields ==
  ASSUME TypeInv, NEW w \in Workflow, Round(w)
  PROVE  /\ db \in Database /\ db.wf[w].kind = "full_collect" /\ db.wf[w].kind # "none"
         /\ db.wf[w].data \in DataOf("full_collect") /\ db.wf[w].status = "active"
         /\ Plain(db.wf[w]) /\ Batch \in OperationsOf(db.wf[w].kind)
         /\ Stays(db, db, w)
<1>1. /\ db \in Database /\ db.wf[w].kind = "full_collect" /\ db.wf[w].kind # "none"
      /\ db.wf[w].data \in DataOf("full_collect") /\ db.wf[w].status = "active"
  BY TypedRound
<1>2. Plain(db.wf[w]) /\ Batch \in OperationsOf(db.wf[w].kind)
  BY <1>1, ScansArePlain, RoundIsKind
<1> QED BY <1>1, <1>2, StaysAtOnce

LEMMA RoundPayloadRests ==
  ASSUME NEW x, x.kind = "full_collect", NEW z, z.cursor = x.data.cursor, z.end = x.data.end
  PROVE  PayloadRests(x, z)
BY KindNames DEF PayloadRests, Kind

LEMMA PauseRoundRests ==
  ASSUME TypeInv, NEW w \in Workflow, PauseRound(w) PROVE Rests(db, db')
<1> DEFINE c == CancelQueued(db, w)
           z == [ c.wf[w].data EXCEPT !.intent = "pause" ]
           ph == IF Running(db, w) # {} THEN "pausing" ELSE "paused"
           d == [ c EXCEPT !.wf[w].data.intent = "pause", !.wf[w].phase = ph ]
<1>1. Round(w) /\ db' = d BY DEF PauseRound
<1>2. /\ db \in Database /\ db.wf[w].kind = "full_collect" /\ db.wf[w].kind # "none"
      /\ Stays(db, db, w)
  BY <1>1, RoundFields
<1>3. Stays(db, c, w) BY <1>2, StaysCancelled
<1> HIDE DEF c
<1>4. c.wf[w].kind = "full_collect" /\ c.wf[w].data \in DataOf("full_collect")
  BY <1>2, <1>3, StaysFields
<1>5. /\ z \in DataOf("full_collect") /\ z.cursor = c.wf[w].data.cursor
      /\ z.end = c.wf[w].data.end
  BY <1>4, RoundDataFields DEF DataOf
<1>6. ph \in Phase BY PhaseNames
<1> HIDE DEF ph
<1>7. d = PhasePut(DataPut(c, w, z), w, ph) BY DEF PhasePut, DataPut
<1> HIDE DEF z, d
<1>8. PayloadRests(c.wf[w], z) BY <1>4, <1>5, RoundPayloadRests
<1>9. Stays(db, DataPut(c, w, z), w) BY <1>2, <1>3, <1>5, <1>8, StaysData
<1>10. Stays(db, PhasePut(DataPut(c, w, z), w, ph), w) BY <1>6, <1>9, StaysPhase
<1> QED BY <1>1, <1>7, <1>10 DEF Stays

LEMMA ResumeRoundRests ==
  ASSUME TypeInv, NEW w \in Workflow, ResumeRound(w) PROVE Rests(db, db')
<1> DEFINE z == [ db.wf[w].data EXCEPT !.intent = "run", !.failures = 0 ]
           d == [ db EXCEPT !.wf[w].data.intent = "run", !.wf[w].data.failures = 0,
                            !.wf[w].phase = "queued" ]
<1>1. Round(w) /\ db' = Queue(d, w, Batch)
  BY DEF ResumeRound
<1>2. /\ db \in Database /\ db.wf[w].kind = "full_collect" /\ db.wf[w].kind # "none"
      /\ db.wf[w].data \in DataOf("full_collect") /\ Stays(db, db, w)
      /\ Batch \in OperationsOf(db.wf[w].kind)
  BY <1>1, RoundFields
<1>3. /\ z \in DataOf("full_collect") /\ z.cursor = db.wf[w].data.cursor
      /\ z.end = db.wf[w].data.end
  BY <1>2, RoundDataFields DEF DataOf
<1>4. d = PhasePut(DataPut(db, w, z), w, "queued")
  <2> DEFINE z1 == [ db.wf[w].data EXCEPT !.intent = "run" ]
             d1 == [ db EXCEPT !.wf[w].data.intent = "run" ]
             d2 == [ d1 EXCEPT !.wf[w].data.failures = 0 ]
             z2 == [ d1.wf[w].data EXCEPT !.failures = 0 ]
  <2>1. d = [ d2 EXCEPT !.wf[w].phase = "queued" ] OBVIOUS
  <2>2. d1 = DataPut(db, w, z1) BY DEF DataPut
  <2>3. z1 \in DataOf("full_collect") BY <1>2, RoundDataFields DEF DataOf
  <2>4. z = [ z1 EXCEPT !.failures = 0 ] OBVIOUS
  <2> HIDE DEF d1, z1, z, d
  <2>5. d2 = DataPut(d1, w, z2) BY DEF DataPut
  <2>6. d1.wf[w].data = z1 BY <1>2, <2>2, <2>3, DataPutTwice
  <2>7. z2 = z BY <2>4, <2>6
  <2> HIDE DEF d2, z2
  <2>8. d2 = DataPut(db, w, z) BY <1>2, <2>2, <2>3, <2>5, <2>7, DataPutTwice
  <2> QED BY <2>1, <2>8 DEF PhasePut
<1> HIDE DEF z, d
<1>5. PayloadRests(db.wf[w], z) BY <1>2, <1>3, RoundPayloadRests
<1>6. Stays(db, DataPut(db, w, z), w) BY <1>2, <1>3, <1>5, StaysData
<1>7. Stays(db, d, w) BY <1>4, <1>6, StaysPhase, PhaseNames
<1>8. Stays(db, Queue(d, w, Batch), w) BY <1>2, <1>7, StaysQueue
<1> QED BY <1>1, <1>8 DEF Stays

LEMMA RoundIsOver ==
  ASSUME NEW d \in Database, NEW w \in Workflow, d.wf[w].kind \in Kind \ Holders,
         d.wf[w].kind # "none",
         NEW st \in { "completed", "cancelled" }, NEW ph \in Phase
  PROVE  Rests(d, Over(ReleaseAll(EndWorkflow(d, w, st, ph), w), w))
<1> DEFINE e == EndWorkflow(d, w, st, ph)
           f == ReleaseAll(e, w)
<1>1. MayEnd(d.wf[w], st) BY DEF MayEnd
<1>2. Rests(d, e) BY <1>1, EndWorkflowRests
<1> HIDE DEF e
<1>3. e \in Database /\ e.wf[w].kind # "none" BY <1>2, RestsFields
<1>4. Rests(e, f) BY <1>3, ReleaseAllRests
<1> HIDE DEF f
<1>5. f \in Database /\ f.wf[w].kind # "none" BY <1>3, <1>4, RestsFields
<1>6. Rests(f, Over(f, w)) BY <1>5, OverRests
<1>7. Rests(d, f) BY <1>2, <1>4, RestsTransitive
<1> QED BY <1>6, <1>7, RestsTransitive DEF f, e

LEMMA RoundCommandOrdinary ==
  ASSUME TypeInv, NEW w \in Workflow, RoundCommand(w) PROVE Ordinarily
<1>1. CASE StartRound(w)
  BY <1>1, StartLibraryBegins, CommandOrdinary DEF StartRound, RowMoves
<1>2. CASE PauseRound(w)
  BY <1>2, PauseRoundRests, CommandOrdinary DEF PauseRound, RowMoves
<1>3. CASE ResumeRound(w)
  BY <1>3, ResumeRoundRests, CommandOrdinary DEF ResumeRound, RowMoves
<1>4. CASE TerminateRound(w)
  <2>1. Round(w) BY <1>4 DEF TerminateRound
  <2>2. db \in Database /\ db.wf[w].kind \in Kind \ Holders /\ db.wf[w].kind # "none"
    BY <2>1, RoundFields, RoundIsKind, HolderNames
  <2>3. db' = Over(ReleaseAll(EndWorkflow(db, w, "cancelled", "cancelled"), w), w)
    BY <1>4 DEF TerminateRound
  <2>4. Rests(db, db') BY <2>2, <2>3, RoundIsOver, PhaseNames
  <2> QED BY <1>4, <2>4, CommandOrdinary DEF TerminateRound, RowMoves
<1> QED BY <1>1, <1>2, <1>3, <1>4 DEF RoundCommand

LEMMA EndBatchOrdinary ==
  ASSUME TypeInv, NEW p \in Proc, NEW at \in Place \ { "idle" }, AtBatch(p, at),
         NEW wanted \in BatchEnd, EndBatch(p, wanted)
  PROVE  Ordinarily
<1> DEFINE w == proc[p].w
           ph == CASE RoundData(p).end -> "completed"
                   [] RoundData(p).intent # "run" -> "paused"
                   [] OTHER -> wanted
           st == IF ph = "completed" THEN "completed" ELSE "active"
           d == Succeed(db, proc[p], ph, st)
           next == ph \in { "queued", "cooling" }
<1>1. db' = (IF next THEN Queue(d, w, Batch) ELSE d) /\ Exits(p) /\ qbit' = qbit
  BY DEF EndBatch
<1>2. /\ db \in Database /\ w \in Workflow
      /\ db.wf[w].kind = "full_collect" /\ db.wf[w].kind # "none"
      /\ db.wf[w].status = "active" /\ proc[p].op = Batch
      /\ Batch \in OperationsOf(db.wf[w].kind)
      /\ Plain(db.wf[w]) /\ db.wf[w].kind \notin Holders
  BY AtBatchRuns, RoundIsKind, ScansArePlain
<1>3. ph \in BatchEnd
  BY DEF BatchEnd
<1> HIDE DEF ph, w
<1>4. ph \in Phase /\ st \in { "active", "completed" }
  BY <1>3, PhaseNames DEF BatchEnd
<1> HIDE DEF st
<1>5. Rests(db, d) BY <1>2, <1>4, SucceedRests DEF w
<1> HIDE DEF d
<1>6. Stays(db, d, w)
  <2>1. Stays(db, db, w) BY <1>2, StaysAtOnce
  <2> QED BY <1>2, <1>5, <2>1, StaysOn
<1>7. Stays(db, Queue(d, w, Batch), w) BY <1>2, <1>6, StaysQueue
<1>8. Rests(db, db') BY <1>1, <1>6, <1>7 DEF Stays
<1> QED BY <1>1, <1>8, ExitsCool, StaysOrdinary

\* A process that turns to the site; the round is not at its end then.
Asks(p) ==
  /\ Rests(db, db') /\ qbit' = qbit /\ Busy(p) /\ Valid(db, proc[p])
  /\ proc[p].at = "request" \/ ~db.wf[proc[p].w].data.end
  /\ \A q \in Proc \ {p} : proc'[q] = proc[q]
  /\ proc'[p].w = proc[p].w /\ proc'[p].op = proc[p].op /\ proc'[p].no = proc[p].no
  /\ proc'[p].owner = proc[p].owner /\ proc'[p].at \in { "request", "received" }

LEMMA NextPageOrdinary ==
  ASSUME TypeInv, NEW p \in Proc, NextPage(p) PROVE Ordinarily \/ Asks(p)
<1> DEFINE b == [ proc[p] EXCEPT !.page = proc[p].page + 1, !.at = "request" ]
<1>1. AtBatch(p, "begin") BY DEF NextPage
<1>2. \/ \E wanted \in BatchEnd : EndBatch(p, wanted)
      \/ /\ ~db.wf[proc[p].w].data.end
         /\ proc' = [ proc EXCEPT ![p].page = proc[p].page + 1, ![p].at = "request" ]
         /\ UNCHANGED << db, sup, qbit >>
  BY DEF NextPage, BatchEnd, RoundData
<1>3. ASSUME NEW wanted \in BatchEnd, EndBatch(p, wanted) PROVE Ordinarily
  BY <1>1, <1>3, BatchPlaces, EndBatchOrdinary
<1>4. CASE /\ ~db.wf[proc[p].w].data.end
           /\ proc' = [ proc EXCEPT ![p].page = proc[p].page + 1, ![p].at = "request" ]
           /\ UNCHANGED << db, sup, qbit >>
  <2>1. proc[p] \in Process /\ Busy(p) /\ Valid(db, proc[p]) /\ db \in Database
    BY <1>1, BatchPlaces, AtBatchRuns
  <2>2. proc' = [ proc EXCEPT ![p] = b ] /\ proc \in [Proc -> Process] BY <1>4 DEF TypeInv
  <2>3. b.w = proc[p].w /\ b.op = proc[p].op /\ b.no = proc[p].no /\ b.owner = proc[p].owner
        /\ b.at = "request"
    BY <2>1 DEF Process
  <2> HIDE DEF b
  <2>4. proc'[p] = b /\ \A q \in Proc \ {p} : proc'[q] = proc[q] BY <2>2
  <2>5. Rests(db, db') BY <1>4, <2>1, RestsReflexive
  <2> QED BY <1>4, <2>1, <2>3, <2>4, <2>5 DEF Asks
<1> QED BY <1>2, <1>3, <1>4

LEMMA BatchUpdateRests ==
  ASSUME TypeInv, NEW p \in Proc, NEW at \in Place \ { "idle" }, AtBatch(p, at),
         NEW d \in Database, Rests(db, d), NEW ph \in Phase
  PROVE  Rests(d, Update(d, proc[p], ph)) /\ Rests(db, Update(d, proc[p], ph))
<1>1. /\ db \in Database /\ proc[p].w \in Workflow
      /\ db.wf[proc[p].w].kind = "full_collect" /\ db.wf[proc[p].w].kind # "none"
      /\ proc[p].op = Batch /\ Batch \in OperationsOf("full_collect")
  BY AtBatchRuns, RoundIsKind
<1>2. d.wf[proc[p].w].kind = "full_collect" /\ d.wf[proc[p].w].kind # "none"
  BY <1>1, RestsFields
<1>3. Rests(d, Update(d, proc[p], ph)) BY <1>1, <1>2, ScansArePlain, UpdateRests
<1> QED BY <1>3, RestsTransitive

LEMMA BeginRequestOrdinary ==
  ASSUME TypeInv, NEW p \in Proc, BeginRequest(p) PROVE Ordinarily \/ Asks(p)
<1> DEFINE ph == db.wf[proc[p].w].phase
<1>1. AtBatch(p, "request") BY DEF BeginRequest
<1>2. /\ Busy(p) /\ Valid(db, proc[p]) /\ proc[p].w \in Workflow /\ db \in Database
      /\ proc[p] \in Process
  BY <1>1, BatchPlaces, AtBatchRuns
<1>3. ph \in Phase BY <1>2, OwnPhase
<1>8. Rests(db, db) BY <1>2, RestsReflexive
<1>4. \/ EndBatch(p, "paused")
      \/ db' = Update(db, proc[p], ph) /\ Goto(p, "received") /\ qbit' = qbit
  BY DEF BeginRequest
<1>5. "paused" \in BatchEnd BY DEF BatchEnd
<1> HIDE DEF ph
<1>6. CASE EndBatch(p, "paused")
  BY <1>1, <1>5, <1>6, BatchPlaces, EndBatchOrdinary
<1>7. CASE db' = Update(db, proc[p], ph) /\ Goto(p, "received") /\ qbit' = qbit
  <2> DEFINE b == [ proc[p] EXCEPT !.at = "received" ]
  <2>1. Rests(db, db') BY <1>1, <1>2, <1>3, <1>7, <1>8, BatchPlaces, BatchUpdateRests
  <2>2. proc' = [ proc EXCEPT ![p] = b ] /\ proc \in [Proc -> Process]
    BY <1>7 DEF Goto, TypeInv
  <2>3. b.w = proc[p].w /\ b.op = proc[p].op /\ b.no = proc[p].no /\ b.owner = proc[p].owner
        /\ b.at = "received"
    BY <1>2 DEF Process
  <2> HIDE DEF b
  <2>4. proc'[p] = b /\ \A q \in Proc \ {p} : proc'[q] = proc[q] BY <2>2
  <2>5. proc[p].at = "request" BY <1>1 DEF AtBatch
  <2> QED BY <1>2, <1>7, <2>1, <2>3, <2>4, <2>5 DEF Asks
<1> QED BY <1>4, <1>6, <1>7

LEMMA RequestFailsOrdinary ==
  ASSUME TypeInv, NEW p \in Proc, RequestFails(p) PROVE Ordinarily
<1> DEFINE w == proc[p].w
           ph == db.wf[w].phase
           n == db.wf[w].data.failures + 1
           d == [ db EXCEPT !.wf[w].data.failures = n ]
           z == [ db.wf[w].data EXCEPT !.failures = n ]
<1>1. AtBatch(p, "received") BY DEF RequestFails
<1>2. /\ Busy(p) /\ w \in Workflow /\ db \in Database
      /\ db.wf[w].kind = "full_collect" /\ db.wf[w].kind # "none"
      /\ db.wf[w].data \in DataOf("full_collect")
  BY <1>1, BatchPlaces, AtBatchRuns
<1>3. ph \in Phase /\ Rests(db, db) BY <1>2, OwnPhase, RestsReflexive
<1>4. /\ \/ db' = Update(db, proc[p], ph)
         \/ db' = Update(d, proc[p], ph)
      /\ \E to \in { "begin", "cool", "repair" } : Goto(p, to)
      /\ qbit' = qbit
  BY DEF RequestFails, RoundData
<1>5. n \in Nat BY <1>2, RoundDataFields
<1> HIDE DEF n, ph, w
<1>6. d = DataPut(db, w, z) BY DEF DataPut
<1>7. /\ z \in DataOf("full_collect") /\ z.cursor = db.wf[w].data.cursor
      /\ z.end = db.wf[w].data.end
  BY <1>2, <1>5, RoundDataFields DEF DataOf
<1> HIDE DEF d, z
<1>8. PayloadRests(db.wf[w], z) BY <1>2, <1>7, RoundPayloadRests
<1>9. Rests(db, d) /\ d \in Database BY <1>2, <1>6, <1>7, <1>8, DataPutRests DEF Rests
<1>10. Rests(db, db')
  BY <1>1, <1>2, <1>3, <1>4, <1>9, BatchPlaces, BatchUpdateRests
<1>11. Cool BY <1>4, HotNames, GotoCools
<1> QED BY <1>4, <1>10, <1>11, StaysOrdinary

LEMMA CommitPageOrdinary ==
  ASSUME TypeInv, NEW p \in Proc, CommitPage(p) PROVE Ordinarily
<1> DEFINE w == proc[p].w
           n == db.wf[w].data.cursor + 1
           last == n = LastPage
           d == [ db EXCEPT !.wf[w].data.cursor = n, !.wf[w].data.failures = 0,
                            !.wf[w].data.end = last ]
           z == [ db.wf[w].data EXCEPT !.cursor = n, !.failures = 0, !.end = last ]
<1>1. AtBatch(p, "received") BY DEF CommitPage
<1>2. /\ Busy(p) /\ Valid(db, proc[p]) /\ w \in Workflow /\ db \in Database
      /\ db.wf[w].kind = "full_collect" /\ db.wf[w].kind # "none"
      /\ db.wf[w].data \in DataOf("full_collect") /\ db.wf[w].status = "active"
      /\ proc[p] \in Process
  BY <1>1, BatchPlaces, AtBatchRuns
<1>3. \/ EndBatch(p, "interrupted") \/ EndBatch(p, "paused")
      \/ db' = Update(d, proc[p], "collecting") /\ Goto(p, "begin") /\ qbit' = qbit
  BY DEF CommitPage, RoundData
<1>4. "interrupted" \in BatchEnd /\ "paused" \in BatchEnd BY DEF BatchEnd
<1>5. CASE db' = Update(d, proc[p], "collecting") /\ Goto(p, "begin") /\ qbit' = qbit
  <2>1. n \in Nat /\ last \in BOOLEAN BY <1>2, RoundDataFields
  <2>2. n = db.wf[w].data.cursor + 1 /\ last = (db.wf[w].data.cursor + 1 = LastPage)
    OBVIOUS
  <2> HIDE DEF n, last, w
  <2>3. d = DataPut(db, w, z)
    <3> DEFINE z1 == [ db.wf[w].data EXCEPT !.cursor = n ]
               d1 == [ db EXCEPT !.wf[w].data.cursor = n ]
               z2 == [ z1 EXCEPT !.failures = 0 ]
               d2 == [ d1 EXCEPT !.wf[w].data.failures = 0 ]
               y2 == [ d1.wf[w].data EXCEPT !.failures = 0 ]
               d3 == [ d2 EXCEPT !.wf[w].data.end = last ]
               y3 == [ d2.wf[w].data EXCEPT !.end = last ]
    <3>1. d = d3 OBVIOUS
    <3>2. d1 = DataPut(db, w, z1) BY DEF DataPut
    <3>3. z1 \in DataOf("full_collect") BY <1>2, <2>1, RoundDataFields DEF DataOf
    <3>4. z2 \in DataOf("full_collect") BY <3>3, RoundDataFields DEF DataOf
    <3>5. z = [ z2 EXCEPT !.end = last ] OBVIOUS
    <3> HIDE DEF d1, z1, z, d
    <3>6. d2 = DataPut(d1, w, y2) BY DEF DataPut
    <3>7. d1.wf[w].data = z1 BY <1>2, <3>2, <3>3, DataPutTwice
    <3>8. y2 = z2 BY <3>7
    <3> HIDE DEF d2, y2, z2
    <3>9. d2 = DataPut(db, w, z2) BY <1>2, <3>2, <3>3, <3>6, <3>8, DataPutTwice
    <3>10. d3 = DataPut(d2, w, y3) BY DEF DataPut
    <3>11. d2.wf[w].data = z2 BY <1>2, <3>4, <3>9, DataPutTwice
    <3>12. y3 = z BY <3>5, <3>11
    <3> HIDE DEF d3, y3
    <3> QED BY <1>2, <3>1, <3>4, <3>9, <3>10, <3>12, DataPutTwice
  <2>4. /\ z \in DataOf("full_collect") /\ z.cursor = n /\ z.end = last
    BY <1>2, <2>1, RoundDataFields DEF DataOf
  <2> HIDE DEF d, z
  <2>5. Advanced(db.wf[w], z) BY <2>2, <2>4 DEF Advanced
  <2>6. d \in Database /\ d.wf[w].kind = "full_collect"
    BY <1>2, <2>3, <2>4, DataPutFields
  <2>7. Rests(d, db')
    <3>1. proc[p].op = Batch /\ Batch \in OperationsOf("full_collect") /\ "collecting" \in Phase
      BY <1>1, BatchPlaces, AtBatchRuns, RoundIsKind, PhaseNames
    <3> QED BY <1>2, <1>5, <2>6, <3>1, ScansArePlain, UpdateRests DEF w
  <2>8. Plain(db.wf[w]) BY <1>2, ScansArePlain
  <2>9. Writes(db, db', w, z) BY <1>2, <2>3, <2>4, <2>7, <2>8 DEF Writes
  <2>10. Commits(db, db', w) BY <1>2, <2>4, <2>5, <2>9 DEF Commits
  <2>11. RunsItsAttempt(p) BY <1>2, ValidRuns DEF RunsItsAttempt, Runs, w
  <2>12. proc'[p].at = "begin"
    <3> DEFINE b == [ proc[p] EXCEPT !.at = "begin" ]
    <3>1. proc' = [ proc EXCEPT ![p] = b ] /\ proc \in [Proc -> Process]
      BY <1>5 DEF Goto, TypeInv
    <3>2. b.at = "begin" BY <1>2 DEF Process
    <3> HIDE DEF b
    <3> QED BY <3>1, <3>2
  <2>13. proc[p].at = "received" BY <1>1 DEF AtBatch
  <2>14. CommitsPage(p)
    BY <1>2, <2>10, <2>11, <2>12, <2>13 DEF CommitsPage, w
  <2>15. Cool BY <1>5, HotNames, GotoCools
  <2> QED BY <1>5, <2>14, <2>15 DEF Ordinarily, RowMoves
<1> QED BY <1>1, <1>3, <1>4, <1>5, BatchPlaces, EndBatchOrdinary

LEMMA BatchStepOrdinary ==
  ASSUME TypeInv, NEW p \in Proc, BatchStep(p) PROVE Ordinarily \/ Asks(p)
<1>1. CASE EndFailedBatch(p)
  <2>1. "cooling" \in BatchEnd /\ "waiting_repair" \in BatchEnd BY DEF BatchEnd
  <2> QED BY <1>1, <2>1, BatchPlaces, EndBatchOrdinary DEF EndFailedBatch
<1> QED BY <1>1, NextPageOrdinary, BeginRequestOrdinary, RequestFailsOrdinary,
           CommitPageOrdinary DEF BatchStep

----------------------------------------------------------------------------
\* The commands of the core.

LEMMA UpdateDefinition ==
  /\ \A o \in { "scan", "apply" } :
       /\ Definition["lanraragi_metadata"][o].statuses = { "active" }
       /\ Definition["lanraragi_metadata"][o].affects = TRUE
       /\ Definition["lanraragi_metadata"][o].cancellation = FALSE
  /\ Definition["lanraragi_metadata"]["scan"].phases = { "queued" }
  /\ Definition["lanraragi_metadata"]["scan"].running = "scanning"
  /\ Definition["lanraragi_metadata"]["apply"].phases = { "awaiting_confirmation" }
  /\ Definition["lanraragi_metadata"]["apply"].running = "applying"
<1>1. \A o \in { "scan", "apply" } :
       /\ Definition["lanraragi_metadata"][o].statuses = { "active" }
       /\ Definition["lanraragi_metadata"][o].affects = TRUE
       /\ Definition["lanraragi_metadata"][o].cancellation = FALSE
  BY DEF Definition, Operation
<1>2. /\ Definition["lanraragi_metadata"]["scan"].phases = { "queued" }
      /\ Definition["lanraragi_metadata"]["scan"].running = "scanning"
      /\ Definition["lanraragi_metadata"]["apply"].phases = { "awaiting_confirmation" }
      /\ Definition["lanraragi_metadata"]["apply"].running = "applying"
  BY DEF Definition, Operation
<1> QED BY <1>1, <1>2

LEMMA QueueOperationOrdinary ==
  ASSUME TypeInv, RowsIn(db), NEW w \in Workflow, NEW o \in DOMAIN db.wf[w].job,
         QueueOperation(w, o)
  PROVE  Ordinarily
<1> DEFINE x == db.wf[w]
           f == Queue(db, w, o)
<1>1. /\ x.kind # "none" /\ x.kind \in Kind /\ o \in OperationsOf(x.kind) /\ db \in Database
  BY OnlyThoseHaveJobs DEF TypeInv
<1>2. /\ o # "apply" /\ ~Open(x, o) /\ MayQueue(db, w, o) /\ db' = f
      /\ UNCHANGED << sup, proc, qbit >>
  BY DEF QueueOperation, Open
<1>3. CASE Plain(x)
  BY <1>1, <1>2, <1>3, QueueRests, CommandOrdinary DEF RowMoves
<1>4. CASE ~Plain(x)
  <2>1. x.kind = "lanraragi_metadata" /\ o = "scan"
    BY <1>1, <1>2, <1>4, UpdateOperations DEF Plain
  <2>2. x.status = "active" /\ x.phase = "queued"
    BY <1>2, <2>1, UpdateDefinition DEF MayQueue, Open, Def
  <2>3. InOrder(x) BY DEF RowsIn, AllInOrder
  <2>4. UpdateInOrder(x) /\ ~Open(x, "apply")
    BY <2>1, <2>2, <2>3 DEF InOrder, UpdateInOrder, Open
  <2>5. /\ Quiet(db, f, w) /\ f.wf[w].phase = x.phase
        /\ \A n \in { "scan", "apply" } :
             StatusOf(f, w, n) = IF n = o /\ ~Open(x, o) THEN "queued" ELSE StatusOf(db, w, n)
    BY <1>1, <2>1, QueueStatuses, UpdateOperations
  <2> HIDE DEF f
  <2>6. StatusOf(f, w, "scan") = "queued" /\ StatusOf(f, w, "apply") = StatusOf(db, w, "apply")
    BY <1>2, <2>1, <2>5
  <2>7. /\ f \in Database /\ f.row = db.row /\ f.wf[w].kind = x.kind /\ f.wf[w].bind = x.bind
        /\ f.wf[w].status = x.status /\ f.wf[w].data = x.data
        /\ \A v \in Workflow \ {w} : f.wf[v] = db.wf[v]
    BY <2>5 DEF Quiet, Bare
  <2>8. InOrder(f.wf[w])
    <3>1. Ready(f.wf[w]) = Ready(x) /\ Bound(f.wf[w]) = Bound(x) BY <2>7 DEF Ready, Bound
    <3> QED BY <2>1, <2>2, <2>4, <2>5, <2>6, <2>7, <3>1
            DEF InOrder, UpdateInOrder, StatusOf, Open
  <2>9. \A m \in Manga : ~Keeps(x, m) BY <2>1, <2>4 DEF Keeps
  <2>10. RowsLike(db, f) /\ OthersAlike(db, f, w)
    BY <2>7, AlikeReflexive DEF RowsLike, RowLike, OthersAlike
  <2>11. Updates(db, f, w) BY <1>1, <2>1, <2>7, <2>8, <2>9, <2>10, StandsUpdates
  <2> QED BY <1>2, <2>11, CommandOrdinary DEF RowMoves
<1> QED BY <1>3, <1>4

\* The end of a job that its process does not write, of a kind that is no update.
LEMMA AbandonRests ==
  ASSUME NEW d \in Database, NEW e, NEW w \in Workflow, d.wf[w].kind # "none",
         Rests(d, e), Plain(d.wf[w]), NEW o \in OperationsOf(d.wf[w].kind), NEW ph \in Phase
  PROVE  Rests(d, Changed(SetPhase(e, w, o, ph), w, o, "failed"))
<1> DEFINE e2 == SetPhase(e, w, o, ph)
           e3 == Changed(e2, w, o, "failed")
<1>1. e \in Database /\ e.wf[w].kind = d.wf[w].kind /\ e.wf[w].kind # "none"
      /\ Plain(e.wf[w]) /\ d.wf[w].kind \in Kind
  BY RestsFields
<1>2. Rests(e, e2) BY <1>1, SetPhaseIsQuiet, QuietRests
<1>3. e2 \in Database /\ e2.wf[w].kind = d.wf[w].kind /\ Plain(e2.wf[w])
  BY <1>1, <1>2, RestsFields
<1> HIDE DEF e2
<1>4. Unmoved(e2.wf[w], "failed") BY <1>3 DEF Unmoved
<1>5. Rests(e2, e3) BY <1>1, <1>3, <1>4, ChangedRests
<1> QED BY <1>2, <1>5, RestsTransitive DEF e2

LEMMA ReleaseExpiredOrdinary ==
  ASSUME TypeInv, RowsIn(db), NEW w \in Workflow, NEW o \in DOMAIN db.wf[w].job,
         ReleaseExpired(w, o)
  PROVE  Ordinarily
<1> DEFINE x == db.wf[w]
           ph == Def(db, w, o).failure
           f == EndJob(Release(db, w, o), w, o, "abandoned")
<1>1. /\ x.kind # "none" /\ x.kind \in Kind /\ o \in OperationsOf(x.kind) /\ db \in Database
  BY OnlyThoseHaveJobs DEF TypeInv
<1>2. /\ Open(x, o) /\ db' = Changed(SetPhase(f, w, o, ph), w, o, "failed")
      /\ UNCHANGED << sup, proc, qbit >>
  BY DEF ReleaseExpired, Open
<1>3. ph \in Phase BY <1>1, PhasesOfOperations DEF Def
<1> HIDE DEF ph
<1>4. CASE Plain(x)
  <2>1. Rests(db, f) BY <1>1, <1>4, GivenUpRests
  <2> HIDE DEF f
  <2>2. Rests(db, db') BY <1>1, <1>2, <1>3, <1>4, <2>1, AbandonRests
  <2> QED BY <1>2, <2>2, CommandOrdinary DEF RowMoves
<1>5. CASE ~Plain(x)
  <2>1. x.kind = "lanraragi_metadata" /\ o \in { "scan", "apply" } /\ InOrder(x)
    BY <1>1, <1>5, UpdateOperations DEF Plain, RowsIn, AllInOrder
  <2>2. x.status = "active" BY <1>2, <2>1, ActivePhases
  <2>3. Updates(db, db', w) BY <1>1, <1>2, <1>3, <2>1, <2>2, AbandonUpdates
  <2> QED BY <1>2, <2>3, CommandOrdinary DEF RowMoves
<1> QED BY <1>4, <1>5

LEMMA FailMisplacedOrdinary ==
  ASSUME TypeInv, RowsIn(db), NEW w \in Workflow, NEW o \in DOMAIN db.wf[w].job,
         FailMisplacedJob(w, o)
  PROVE  Ordinarily
<1> DEFINE x == db.wf[w]
           ph == Def(db, w, o).failure
           f == EndJob(db, w, o, "failed")
<1>1. /\ x.kind # "none" /\ x.kind \in Kind /\ o \in OperationsOf(x.kind) /\ db \in Database
  BY OnlyThoseHaveJobs DEF TypeInv
<1>2. /\ x.job[o].status = "queued" /\ x.phase \notin Def(db, w, o).phases
      /\ db' = Changed(SetPhase(f, w, o, ph), w, o, "failed")
      /\ UNCHANGED << sup, proc, qbit >>
  BY DEF FailMisplacedJob, Eligible
<1>3. ph \in Phase BY <1>1, PhasesOfOperations DEF Def
<1> HIDE DEF ph
<1>4. Plain(x)
  <2> SUFFICES ASSUME ~Plain(x) PROVE FALSE OBVIOUS
  <2>1. x.kind = "lanraragi_metadata" /\ o \in { "scan", "apply" } /\ InOrder(x)
    BY <1>1, UpdateOperations DEF Plain, RowsIn, AllInOrder
  <2>2. UpdateInOrder(x) BY <1>2, <2>1, ActivePhases DEF Open
  <2> QED BY <1>2, <2>1, <2>2, UpdateDefinition DEF UpdateInOrder, Def
<1>5. Rests(db, f) BY <1>1, <1>4, EndJobRests
<1> HIDE DEF f
<1>6. Rests(db, db') BY <1>1, <1>2, <1>3, <1>4, <1>5, AbandonRests
<1> QED BY <1>2, <1>6, CommandOrdinary DEF RowMoves

LEMMA AskedFades ==
  ASSUME NEW d \in Database, NEW w \in Workflow, d.wf[w].kind = "lanraragi_metadata"
  PROVE  LET e == CancelPut(CancelQueued(d, w), w) IN
         /\ Fades(d, e, w) /\ Quiet(d, e, w) /\ e.wf[w].phase = d.wf[w].phase
         /\ \A o \in { "scan", "apply" } :
              StatusOf(e, w, o) = IF StatusOf(d, w, o) = "queued" THEN "cancelled"
                                  ELSE StatusOf(d, w, o)
<1> DEFINE c == CancelQueued(d, w)
           e == CancelPut(c, w)
<1>1. d.wf[w].kind # "none" BY MetadataIsKind
<1>2. /\ Fades(d, c, w) /\ Quiet(d, c, w) /\ c.wf[w].phase = d.wf[w].phase
      /\ \A o \in { "scan", "apply" } :
           StatusOf(c, w, o) = IF StatusOf(d, w, o) = "queued" THEN "cancelled"
                               ELSE StatusOf(d, w, o)
  BY <1>1, CancelQueuedFades, CancelQueuedStatuses
<1> HIDE DEF c
<1>3. c \in Database /\ c.wf[w].kind = "lanraragi_metadata" /\ c.wf[w].kind # "none"
  BY <1>1, <1>2 DEF Quiet, Bare
<1>4. /\ Rests(c, e) /\ Quiet(c, e, w) /\ e.wf[w].job = c.wf[w].job
      /\ e.wf[w].phase = c.wf[w].phase
  BY <1>3, CancelPutRests
<1> HIDE DEF e
<1>5. Fades(c, e, w) BY <1>3, <1>4, RestFades
<1>6. Fades(d, e, w) /\ Quiet(d, e, w) BY <1>2, <1>4, <1>5, FadesTransitive, QuietTransitive
<1>7. \A o \in { "scan", "apply" } : StatusOf(e, w, o) = StatusOf(c, w, o)
  BY <1>4 DEF StatusOf
<1> QED BY <1>2, <1>4, <1>6, <1>7 DEF e, c

LEMMA CancelUpdateStands ==
  ASSUME TypeInv, RowsIn(db), NEW w \in Workflow, db.wf[w].kind = "lanraragi_metadata",
         db.wf[w].status = "active", Running(db, w) # {}
  PROVE  Updates(db, CancelPut(CancelQueued(db, w), w), w)
<1> DEFINE x == db.wf[w]
           e == CancelPut(CancelQueued(db, w), w)
<1>1. db \in Database /\ UpdateInOrder(x) BY DEF RowsIn, AllInOrder, InOrder, TypeInv
<1>2. \E o \in { "scan", "apply" } : StatusOf(db, w, o) = "running"
  <2>1. DOMAIN x.job = { "scan", "apply" }
    BY TypedWorkflow, MetadataIsKind, UpdateOperations
  <2> QED BY <2>1 DEF Running, StatusOf
<1>3. /\ Quiet(db, e, w) /\ e.wf[w].phase = x.phase
      /\ \A o \in { "scan", "apply" } :
           StatusOf(e, w, o) = IF StatusOf(db, w, o) = "queued" THEN "cancelled"
                               ELSE StatusOf(db, w, o)
  BY <1>1, AskedFades
<1> HIDE DEF e
<1>4. /\ e \in Database /\ e.row = db.row /\ e.wf[w].kind = x.kind /\ e.wf[w].bind = x.bind
      /\ e.wf[w].status = x.status /\ e.wf[w].data = x.data
      /\ \A v \in Workflow \ {w} : e.wf[v] = db.wf[v]
  BY <1>3 DEF Quiet, Bare
<1>5. InOrder(e.wf[w])
  <2>1. Ready(e.wf[w]) = Ready(x) /\ Bound(e.wf[w]) = Bound(x) BY <1>4 DEF Ready, Bound
  <2> QED BY <1>1, <1>3, <1>4, <2>1 DEF InOrder, UpdateInOrder, StatusOf
<1>6. Open(x, "apply") => Open(e.wf[w], "apply")
  BY <1>1, <1>2, <1>3 DEF UpdateInOrder, StatusOf, Open
<1>7. \A m \in Manga : Keeps(x, m) => Keeps(e.wf[w], m)
  BY <1>4, <1>6 DEF Keeps, Bound
<1>8. RowsLike(db, e) /\ OthersAlike(db, e, w)
  BY <1>4, AlikeReflexive DEF RowsLike, RowLike, OthersAlike
<1> QED BY <1>1, <1>4, <1>5, <1>7, <1>8, StandsUpdates DEF e

LEMMA CancelUpdateEnds ==
  ASSUME TypeInv, RowsIn(db), NEW w \in Workflow, db.wf[w].kind = "lanraragi_metadata",
         db.wf[w].status = "active", Running(db, w) = {},
         NEW back, back = Restore(CancelPut(CancelQueued(db, w), w), w, Bound(db.wf[w]))
  PROVE  Updates(db, Over(ReleaseAll(EndWorkflow(back, w, "cancelled", "cancelled"), w), w), w)
<1> DEFINE x == db.wf[w]
           asked == CancelPut(CancelQueued(db, w), w)
           e1 == EndWorkflow(back, w, "cancelled", "cancelled")
           e2 == ReleaseAll(e1, w)
           e3 == Over(e2, w)
<1>1. db \in Database BY DEF TypeInv
<1>2. /\ Fades(db, asked, w) /\ Quiet(db, asked, w)
      /\ \A o \in { "scan", "apply" } :
           StatusOf(asked, w, o) = IF StatusOf(db, w, o) = "queued" THEN "cancelled"
                                   ELSE StatusOf(db, w, o)
  BY <1>1, AskedFades
<1>3. back = Restore(asked, w, Bound(x)) OBVIOUS
<1> HIDE DEF asked
<1>4. /\ asked \in Database /\ asked.wf[w].kind = "lanraragi_metadata"
      /\ asked.wf[w].data.reserved = x.data.reserved /\ Bound(asked.wf[w]) = Bound(x)
  BY <1>2 DEF Quiet, Bare, Bound
<1>5. \A o \in { "scan", "apply" } : ~Open(asked.wf[w], o)
  <2>1. \A o \in { "scan", "apply" } : StatusOf(db, w, o) # "running"
    BY <1>1, MetadataIsKind, UpdateOperations, RunsNone DEF StatusOf
  <2> QED BY <1>2, <2>1 DEF StatusOf, Open
<1>6. /\ back \in Database /\ back.wf[w].kind = "lanraragi_metadata"
      /\ back.wf[w].job = asked.wf[w].job
  <2>1. back = Restore(asked, w, Bound(asked.wf[w])) BY <1>3, <1>4
  <2>2. Bound(asked.wf[w]) \in SUBSET Bound(asked.wf[w]) OBVIOUS
  <2>3. Remarks(asked, Restore(asked, w, Bound(asked.wf[w])))
    BY <1>4, <2>2, RestoreRemarks
  <2>4. Remarks(asked, back) BY <2>1, <2>3
  <2> QED BY <1>4, <2>4 DEF Remarks, Kept
<1>7. Fades(back, e1, w) BY <1>6, EndWorkflowFades, PhaseNames
<1> HIDE DEF e1
<1>8. e1 \in Database /\ e1.wf[w].kind = "lanraragi_metadata" /\ e1.wf[w].kind # "none"
  BY <1>6, <1>7, MetadataIsKind DEF Fades
<1>9. Fades(e1, e2, w) BY <1>8, ReleaseAllRests, RestFades
<1> HIDE DEF e2
<1>10. e2 \in Database /\ e2.wf[w].kind = "lanraragi_metadata" /\ e2.wf[w].kind # "none"
  BY <1>8, <1>9 DEF Fades
<1>11. Fades(e2, e3, w) BY <1>10, OverRests, RestFades
<1> HIDE DEF e3
<1>12. Fades(back, e3, w) BY <1>7, <1>9, <1>11, FadesTransitive
<1>13. \A o \in { "scan", "apply" } : ~Open(e3.wf[w], o)
  BY <1>5, <1>6, <1>12 DEF Fades, Open
<1>14. Fades(Restore(asked, w, Bound(x)), e3, w) BY <1>3, <1>12
<1>15. Updates(db, e3, w)
  BY <1>1, <1>2, <1>4, <1>13, <1>14, RestoreUpdates
<1> QED BY <1>15 DEF e3, e2, e1

LEMMA CancelWorkflowOrdinary ==
  ASSUME TypeInv, RowsIn(db), NEW w \in Workflow, CancelWorkflow(w) PROVE Ordinarily
<1> DEFINE asked == CancelPut(CancelQueued(db, w), w)
           back == IF db.wf[w].kind = "lanraragi_metadata"
                   THEN Restore(asked, w, Bound(db.wf[w])) ELSE asked
           f == Over(ReleaseAll(EndWorkflow(back, w, "cancelled", "cancelled"), w), w)
<1>1. /\ db.wf[w].kind \in { "lanraragi_metadata", "lanraragi_compare", "download_cleanup" }
      /\ db.wf[w].status = "active" /\ UNCHANGED << sup, proc, qbit >>
      /\ db' = IF Running(db, w) # {} THEN asked ELSE f
  BY DEF CancelWorkflow, Active, CancelPut
<1>2. db \in Database BY DEF TypeInv
<1>3. CASE db.wf[w].kind = "lanraragi_metadata"
  <2>1. CASE Running(db, w) # {}
    <3>1. Updates(db, db', w) BY <1>1, <1>3, <2>1, CancelUpdateStands
    <3> QED BY <1>1, <3>1, CommandOrdinary DEF RowMoves
  <2>2. CASE Running(db, w) = {}
    <3>1. back = Restore(asked, w, Bound(db.wf[w])) /\ db' = f BY <1>1, <1>3, <2>2
    <3> HIDE DEF back
    <3>2. Updates(db, f, w) BY <1>1, <1>3, <2>2, <3>1, CancelUpdateEnds
    <3> QED BY <1>1, <3>1, <3>2, CommandOrdinary DEF RowMoves
  <2> QED BY <2>1, <2>2
<1>4. CASE db.wf[w].kind # "lanraragi_metadata"
  <2>1. /\ db.wf[w].kind # "none" /\ Plain(db.wf[w]) /\ db.wf[w].kind \in Kind \ Holders
    BY <1>1, <1>4, ScanKinds, ScansArePlain
  <2>2. Stays(db, db, w) BY <1>2, <2>1, StaysAtOnce
  <2>3. Stays(db, CancelQueued(db, w), w) BY <2>2, StaysCancelled
  <2>4. Stays(db, asked, w) BY <2>3, StaysCancelled
  <2>5. back = asked BY <1>4
  <2> HIDE DEF asked
  <2>6. asked \in Database /\ asked.wf[w].kind \in Kind \ Holders /\ asked.wf[w].kind # "none"
    BY <2>1, <2>4, StaysFields
  <2>7. Rests(asked, f) BY <2>5, <2>6, RoundIsOver, PhaseNames
  <2>8. Rests(db, asked) BY <2>4 DEF Stays
  <2>9. Rests(db, db') BY <1>1, <2>7, <2>8, RestsTransitive
  <2> QED BY <1>1, <2>9, CommandOrdinary DEF RowMoves
<1> QED BY <1>3, <1>4

----------------------------------------------------------------------------
\* A job is claimed.

LEMMA RunPutStatuses ==
  ASSUME NEW d \in Database, NEW w \in Workflow, d.wf[w].kind # "none",
         NEW o \in OperationsOf(d.wf[w].kind), NEW owner \in 0 .. MaxOwner
  PROVE  LET f == RunPut(d, w, o, owner) IN
         /\ Quiet(d, f, w) /\ f.wf[w].phase = d.wf[w].phase
         /\ \A n \in OperationsOf(d.wf[w].kind) :
              StatusOf(f, w, n) = IF n = o THEN "running" ELSE StatusOf(d, w, n)
<1> DEFINE x == d.wf[w]
           j0 == x.job[o]
           j == [ j0 EXCEPT !.status = "running", !.owner = owner, !.lease = "live" ]
           y == [ x EXCEPT !.job[o] = j ]
           f == RunPut(d, w, o, owner)
<1>1. x \in WorkflowOf(x.kind) /\ x.kind \in Kind BY DatabaseFields, RecordKind
<1>2. x.job \in [OperationsOf(x.kind) -> Job] BY <1>1, WorkflowFields
<1>3. j0 \in Job BY <1>2
<1>4. f = [ d EXCEPT !.wf[w] = y ] BY DEF RunPut
<1> HIDE DEF j0, f
<1>5. j \in Job /\ j.status = "running" BY <1>3 DEF Job
<1> HIDE DEF j
<1>6. Bare(x, y) /\ y.phase = x.phase /\ y.job = [ x.job EXCEPT ![o] = j ]
  BY <1>1 DEF Bare, WorkflowOf
<1>7. y \in Record BY <1>1, <1>5, PutJob, WorkflowIsRecord
<1> HIDE DEF y
<1>8. Rewrites(d, f, w, y) BY <1>4, <1>7, PutWorkflow
<1>9. f.wf[w] = y /\ Quiet(d, f, w) BY <1>6, <1>8 DEF Rewrites, Quiet
<1>10. \A n \in OperationsOf(x.kind) : y.job[n] = IF n = o THEN j ELSE x.job[n]
  BY <1>2, <1>6
<1> QED BY <1>5, <1>6, <1>9, <1>10 DEF StatusOf, f

LEMMA NotedRests ==
  ASSUME NEW d \in Database, NEW w \in Workflow, d.wf[w].kind = "full_collect",
         NEW owner \in 0 .. MaxOwner
  PROVE  Rests(d, NotedPut(d, w, owner))
<1> DEFINE z1 == [ d.wf[w].data EXCEPT !.owner = owner ]
           f1 == [ d EXCEPT !.wf[w].data.owner = owner ]
           z2 == [ f1.wf[w].data EXCEPT !.started = TRUE ]
           f == [ f1 EXCEPT !.wf[w].data.started = TRUE ]
<1>1. d.wf[w].kind # "none" /\ d.wf[w].data \in DataOf("full_collect")
  BY DatabaseFields, RecordKind, WorkflowFields, CollectionIsKind
<1>2. /\ z1 \in DataOf("full_collect") /\ z1.cursor = d.wf[w].data.cursor
      /\ z1.end = d.wf[w].data.end
  BY <1>1, RoundDataFields DEF DataOf
<1>3. f1 = DataPut(d, w, z1) BY DEF DataPut
<1> HIDE DEF z1, f1
<1>4. PayloadRests(d.wf[w], z1) BY <1>2, RoundPayloadRests
<1>5. Rests(d, f1) BY <1>1, <1>2, <1>3, <1>4, DataPutRests
<1>6. /\ f1 \in Database /\ f1.wf[w].kind = "full_collect" /\ f1.wf[w].kind # "none"
      /\ f1.wf[w].data = z1
  BY <1>1, <1>2, <1>3, DataPutFields
<1>7. /\ z2 \in DataOf("full_collect") /\ z2.cursor = f1.wf[w].data.cursor
      /\ z2.end = f1.wf[w].data.end
  BY <1>2, <1>6, RoundDataFields DEF DataOf
<1>8. f = DataPut(f1, w, z2) BY DEF DataPut
<1> HIDE DEF z2, f
<1>9. PayloadRests(f1.wf[w], z2) BY <1>6, <1>7, RoundPayloadRests
<1>10. Rests(f1, f) BY <1>6, <1>7, <1>8, <1>9, DataPutRests
<1>11. f = NotedPut(d, w, owner) BY DEF NotedPut, f, f1
<1> QED BY <1>5, <1>10, <1>11, RestsTransitive

LEMMA ClaimedRests ==
  ASSUME TypeInv, NEW w \in Workflow, NEW o \in OperationsOf(db.wf[w].kind),
         db.wf[w].kind # "none", Plain(db.wf[w]), NEW ph \in Phase,
         NEW kept, kept = Acquire(db, w, ResourcesOf(db, w), o, db.wf[w].job[o].no),
         NEW owned, owned = IF db.wf[w].kind \in Recoverable
                            THEN NotedPut(kept, w, sup.owner) ELSE kept,
         db' = Changed(SetPhase(RunPut(owned, w, o, sup.owner), w, o, ph), w, o, "claimed")
  PROVE  Rests(db, db')
<1> DEFINE x == db.wf[w]
           no == x.job[o].no
           run == RunPut(owned, w, o, sup.owner)
           f == SetPhase(run, w, o, ph)
<1>1. /\ db \in Database /\ x.kind \in Kind /\ sup.owner \in 0 .. MaxOwner
      /\ x \in WorkflowOf(x.kind)
  BY DatabaseFields, RecordKind DEF TypeInv, SupervisorRow
<1>2. o \in OpName \cup { ByWorkflow } /\ no \in Nat /\ ResourcesOf(db, w) \in SUBSET Key
  BY <1>1, OperationIsName, WorkflowFields, JobFields, ResourcesAreKeys
<1> HIDE DEF no
<1>3. kept = Acquire(db, w, ResourcesOf(db, w), o, no) BY DEF no
<1>4. Rests(db, kept) BY <1>1, <1>2, <1>3, AcquireRests
<1>5. kept \in Database /\ kept.wf[w].kind = x.kind BY <1>1, <1>4, RestsFields
<1>6. Rests(db, owned)
  <2>1. CASE x.kind \in Recoverable
    <3>1. x.kind = "full_collect" BY <2>1 DEF Recoverable
    <3>2. Rests(kept, NotedPut(kept, w, sup.owner)) BY <1>1, <1>5, <3>1, NotedRests
    <3> QED BY <1>4, <2>1, <3>2, RestsTransitive
  <2>2. CASE x.kind \notin Recoverable BY <1>4, <2>2
  <2> QED BY <2>1, <2>2
<1>7. owned \in Database /\ owned.wf[w].kind = x.kind /\ Plain(owned.wf[w])
  <2>1. owned \in Database /\ Alike(db.wf[w], owned.wf[w]) BY <1>6 DEF Rests
  <2> QED BY <2>1 DEF Alike, Plain
<1>8. Quiet(owned, run, w) BY <1>1, <1>7, RunPutStatuses
<1>9. Rests(owned, run) BY <1>7, <1>8, QuietRests
<1> HIDE DEF run
<1>10. run \in Database /\ run.wf[w].kind = x.kind /\ Plain(run.wf[w])
  BY <1>7, <1>9, RestsFields
<1>11. Rests(run, f) BY <1>10, SetPhaseIsQuiet, QuietRests
<1> HIDE DEF f
<1>12. f \in Database /\ f.wf[w].kind = x.kind /\ Plain(f.wf[w])
  BY <1>10, <1>11, RestsFields
<1>13. Unmoved(f.wf[w], "claimed") BY <1>12 DEF Unmoved
<1>14. Rests(f, Changed(f, w, o, "claimed")) BY <1>12, <1>13, ChangedRests
<1>15. db' = Changed(f, w, o, "claimed") BY DEF f, run
<1> QED BY <1>6, <1>9, <1>11, <1>14, <1>15, RestsTransitive

LEMMA ClaimedUpdates ==
  ASSUME TypeInv, RowsIn(db), NEW w \in Workflow, db.wf[w].kind = "lanraragi_metadata",
         NEW o \in { "scan", "apply" }, db.wf[w].job[o].status = "queued",
         NEW kept, kept = Acquire(db, w, ResourcesOf(db, w), o, db.wf[w].job[o].no),
         NEW ph, ph = Definition["lanraragi_metadata"][o].running,
         db' = Changed(SetPhase(RunPut(kept, w, o, sup.owner), w, o, ph), w, o, "claimed")
  PROVE  Updates(db, db', w)
<1> DEFINE x == db.wf[w]
           no == x.job[o].no
           run == RunPut(kept, w, o, sup.owner)
           f == SetPhase(run, w, o, ph)
<1>1. /\ db \in Database /\ x.kind \in Kind /\ sup.owner \in 0 .. MaxOwner
      /\ x \in WorkflowOf(x.kind) /\ o \in OperationsOf(x.kind) /\ x.kind # "none"
  BY DatabaseFields, RecordKind, UpdateOperations, MetadataIsKind DEF TypeInv, SupervisorRow
<1>2. o \in OpName \cup { ByWorkflow } /\ no \in Nat /\ ResourcesOf(db, w) \in SUBSET Key
  BY <1>1, OperationIsName, WorkflowFields, JobFields, ResourcesAreKeys
<1> HIDE DEF no
<1>3. kept = Acquire(db, w, ResourcesOf(db, w), o, no) BY DEF no
<1>4. Quiet(db, kept, w) /\ SameButClaims(x, kept.wf[w]) BY <1>1, <1>2, <1>3, AcquireRests
<1>5. kept \in Database /\ kept.wf[w].kind = x.kind BY <1>4 DEF Quiet, Bare
<1>6. /\ Quiet(kept, run, w)
      /\ \A n \in OperationsOf(kept.wf[w].kind) :
           StatusOf(run, w, n) = IF n = o THEN "running" ELSE StatusOf(kept, w, n)
  BY <1>1, <1>5, RunPutStatuses
<1> HIDE DEF run
<1>7. run \in Database /\ run.wf[w].kind = x.kind BY <1>5, <1>6 DEF Quiet, Bare
<1>8. ph \in Phase BY <1>1, PhasesOfOperations
<1>9. /\ Quiet(run, f, w) /\ f.wf[w].job = run.wf[w].job
      /\ f.wf[w].phase = IF Def(run, w, o).affects THEN ph ELSE run.wf[w].phase
  BY <1>1, <1>7, <1>8, SetPhaseStatuses
<1> HIDE DEF f
<1>10. f.wf[w].phase = ph BY <1>7, <1>9, UpdateDefinition DEF Def
<1>11. \A n \in { "scan", "apply" } :
         StatusOf(f, w, n) = IF n = o THEN "running" ELSE StatusOf(db, w, n)
  <2>1. \A n \in { "scan", "apply" } : StatusOf(kept, w, n) = StatusOf(db, w, n)
    BY <1>1, <1>4, UpdateOperations DEF SameButClaims, StatusOf
  <2>2. \A n \in { "scan", "apply" } : StatusOf(f, w, n) = StatusOf(run, w, n)
    BY <1>9 DEF StatusOf
  <2> QED BY <1>5, <1>6, <2>1, <2>2, UpdateOperations
<1>12. Quiet(db, f, w) BY <1>4, <1>6, <1>9, QuietTransitive
<1>13. /\ f \in Database /\ f.row = db.row /\ f.wf[w].kind = x.kind /\ f.wf[w].bind = x.bind
       /\ f.wf[w].status = x.status /\ f.wf[w].data = x.data
       /\ \A v \in Workflow \ {w} : f.wf[v] = db.wf[v]
  BY <1>12 DEF Quiet, Bare
<1>14. db' = f
  <2>1. db' = Changed(f, w, o, "claimed") BY DEF f, run
  <2>2. Changed(f, w, o, "claimed") = MetadataChanged(f, w, o, "claimed")
    BY <1>13 DEF Changed
  <2>3. MetadataChanged(f, w, o, "claimed") = f BY DEF MetadataChanged
  <2> QED BY <2>1, <2>2, <2>3
<1>15. x.status = "active" /\ UpdateInOrder(x)
  <2>1. InOrder(x) BY DEF RowsIn, AllInOrder
  <2> QED BY <2>1, ActivePhases DEF Open
<1>16. InOrder(f.wf[w])
  <2>1. Ready(f.wf[w]) = Ready(x) /\ Bound(f.wf[w]) = Bound(x) BY <1>13 DEF Ready, Bound
  <2>2. Ready(f.wf[w]) \subseteq Bound(f.wf[w]) /\ f.wf[w].data.reserved \subseteq Bound(f.wf[w])
    BY <1>13, <1>15, <2>1 DEF UpdateInOrder
  <2>3. CASE o = "scan"
    <3>1. ph = "scanning" /\ f.wf[w].job["scan"].status = "running"
          /\ f.wf[w].job["apply"].status = x.job["apply"].status
      BY <1>11, <2>3, UpdateDefinition DEF StatusOf
    <3>2. x.job["apply"].status \notin { "queued", "running" }
      BY <1>15, <2>3 DEF UpdateInOrder
    <3> QED BY <1>10, <1>13, <1>15, <2>2, <3>1, <3>2 DEF InOrder, UpdateInOrder
  <2>4. CASE o = "apply"
    <3>1. ph = "applying" /\ f.wf[w].job["apply"].status = "running"
          /\ f.wf[w].job["scan"].status = x.job["scan"].status
      BY <1>11, <2>4, UpdateDefinition DEF StatusOf
    <3>2. x.job["scan"].status \notin { "queued", "running" }
      BY <1>15, <2>4 DEF UpdateInOrder
    <3> QED BY <1>10, <1>13, <1>15, <2>2, <3>1, <3>2 DEF InOrder, UpdateInOrder
  <2> QED BY <2>3, <2>4
<1>17. Open(x, "apply") => Open(f.wf[w], "apply") BY <1>11 DEF StatusOf, Open
<1>18. \A m \in Manga : Keeps(x, m) => Keeps(f.wf[w], m) BY <1>13, <1>17 DEF Keeps, Bound
<1>19. RowsLike(db, f) /\ OthersAlike(db, f, w)
  BY <1>13, AlikeReflexive DEF RowsLike, RowLike, OthersAlike
<1>20. Updates(db, f, w) BY <1>1, <1>13, <1>16, <1>18, <1>19, StandsUpdates
<1> QED BY <1>14, <1>20

LEMMA ClaimJobOrdinary ==
  ASSUME TypeInv, RowsIn(db), NEW w \in Workflow, NEW o \in DOMAIN db.wf[w].job,
         NEW p \in Proc, ClaimJob(w, o, p)
  PROVE  Ordinarily
<1> DEFINE kept == Acquire(db, w, ResourcesOf(db, w), o, db.wf[w].job[o].no)
           owned == IF db.wf[w].kind \in Recoverable
                    THEN NotedPut(kept, w, sup.owner) ELSE kept
           ph == Def(db, w, o).running
<1>1. /\ db.wf[w].job[o].status = "queued"
      /\ db' = Changed(SetPhase(RunPut(owned, w, o, sup.owner), w, o, ph), w, o, "claimed")
      /\ proc' = [ proc EXCEPT ![p] = Started(w, o) ] /\ qbit' = qbit
  BY DEF ClaimJob, NotedPut, RunPut, Eligible
<1>2. db.wf[w].kind # "none" /\ db.wf[w].kind \in Kind /\ o \in OperationsOf(db.wf[w].kind)
  BY OnlyThoseHaveJobs
<1>3. Cool
  <2>1. Started(w, o).at = "begin" BY DEF Started, NoClaim
  <2>2. proc'[p] = Started(w, o) /\ \A q \in Proc \ {p} : proc'[q] = proc[q]
    BY <1>1 DEF TypeInv
  <2> HIDE DEF kept, owned, ph
  <2> QED BY <2>1, <2>2, HotNames DEF Cool
<1>4. ph \in Phase /\ ph = Definition[db.wf[w].kind][o].running
  BY <1>2, PhasesOfOperations DEF Def
<1> HIDE DEF ph
<1>5. kept = Acquire(db, w, ResourcesOf(db, w), o, db.wf[w].job[o].no) OBVIOUS
<1> HIDE DEF kept
<1>6. owned = IF db.wf[w].kind \in Recoverable THEN NotedPut(kept, w, sup.owner) ELSE kept
  OBVIOUS
<1> HIDE DEF owned
<1>7. CASE Plain(db.wf[w])
  <2>1. Rests(db, db') BY <1>1, <1>2, <1>4, <1>5, <1>6, <1>7, ClaimedRests
  <2> QED BY <1>1, <1>3, <2>1, StaysOrdinary
<1>8. CASE ~Plain(db.wf[w])
  <2>1. db.wf[w].kind = "lanraragi_metadata" /\ o \in { "scan", "apply" } /\ owned = kept
    BY <1>2, <1>6, <1>8, UpdateOperations DEF Plain, Recoverable
  <2>2. ph = Definition["lanraragi_metadata"][o].running BY <1>4, <2>1
  <2>3. db' = Changed(SetPhase(RunPut(kept, w, o, sup.owner), w, o, ph), w, o, "claimed")
    BY <1>1, <2>1
  <2>4. Updates(db, db', w) BY <1>1, <1>5, <2>1, <2>2, <2>3, ClaimedUpdates
  <2> QED BY <1>1, <1>3, <2>4, UpdateOrdinary
<1> QED BY <1>7, <1>8

----------------------------------------------------------------------------
\* The worker that fails or dies, the flags of a job, and the ordinary pipeline.

LEMMA WorkerFailsOrdinary ==
  ASSUME TypeInv, RowsIn(db), NEW p \in Proc, WorkerFails(p) PROVE Ordinarily
<1> DEFINE c == proc[p]
<1>1. /\ Busy(p) /\ Exits(p) /\ qbit' = qbit
      /\ db' = IF Valid(db, c) THEN Fail(db, c) ELSE db
  BY DEF WorkerFails
<1>2. /\ c.w \in Workflow /\ db.wf[c.w].kind # "none" /\ db.wf[c.w].kind \in Kind
      /\ c.op \in OperationsOf(db.wf[c.w].kind) /\ db \in Database
  BY <1>1, TypedProcess DEF TypeInv
<1>3. Cool BY <1>1, ExitsCool
<1>4. CASE ~Valid(db, c)
  <2>1. Rests(db, db') BY <1>1, <1>2, <1>4, RestsReflexive
  <2> QED BY <1>1, <1>3, <2>1, StaysOrdinary
<1>5. CASE Valid(db, c) /\ Plain(db.wf[c.w])
  <2> HIDE DEF c
  <2>1. Rests(db, db') BY <1>1, <1>2, <1>5, FailRests
  <2> QED BY <1>1, <1>3, <2>1, StaysOrdinary
<1>6. CASE Valid(db, c) /\ ~Plain(db.wf[c.w])
  <2>1. Open(db.wf[c.w], c.op) BY <1>1, <1>6, RunningIsOpen
  <2> HIDE DEF c
  <2>2. db.wf[c.w].kind = "lanraragi_metadata" /\ c.op \in { "scan", "apply" }
    BY <1>2, <1>6, UpdateOperations DEF Plain
  <2>3. InOrder(db.wf[c.w]) BY <1>2 DEF RowsIn, AllInOrder
  <2>4. db.wf[c.w].status = "active" BY <2>1, <2>2, <2>3, ActivePhases
  <2>5. Updates(db, db', c.w) BY <1>1, <1>2, <1>6, <2>1, <2>2, <2>4, FailUpdates
  <2> QED BY <1>1, <1>2, <1>3, <2>5, UpdateOrdinary
<1> QED BY <1>4, <1>5, <1>6

LEMMA WorkerDiesOrdinary ==
  ASSUME TypeInv, NEW p \in Proc, WorkerDies(p) PROVE Ordinarily
<1>1. db' = db /\ qbit' = qbit /\ Exits(p) BY DEF WorkerDies
<1>2. Rests(db, db') BY <1>1, RestsReflexive DEF TypeInv
<1> QED BY <1>1, <1>2, ExitsCool, StaysOrdinary

LEMMA FlagOrdinary ==
  ASSUME TypeInv, NEW w \in Workflow, NEW o \in DOMAIN db.wf[w].job,
         JobLeaseExpires(w, o) \/ RequestStop(w, o)
  PROVE  Ordinarily
<1>1. UNCHANGED << proc, qbit >> BY DEF JobLeaseExpires, RequestStop
<1>2. db' = LeasePut(db, w, o) \/ db' = StopPut(db, w, o)
  BY DEF JobLeaseExpires, RequestStop, LeasePut, StopPut
<1>3. db \in Database /\ db.wf[w].kind # "none" /\ o \in OperationsOf(db.wf[w].kind)
  BY OnlyThoseHaveJobs DEF TypeInv
<1>4. Rests(db, db') BY <1>2, <1>3, FlagsRest
<1> QED BY <1>1, <1>4, CommandOrdinary DEF RowMoves

LEMMA EditRowOrdinary ==
  ASSUME TypeInv, NEW m \in Manga, EditRow(m) PROVE Ordinarily
<1>1. db' = Touch(db, m) /\ UNCHANGED << proc, qbit >> BY DEF EditRow
<1>2. Rests(db, db') BY <1>1, TouchRests DEF TypeInv
<1> QED BY <1>1, <1>2, CommandOrdinary DEF RowMoves

LEMMA OrdinaryRowsSound ==
  ASSUME NEW r \in OrdinaryRow
  PROVE  r \in Row /\ RowSound(r) /\ r.status # "special_processing" /\ ~r.external
BY OrdinaryRows DEF OrdinaryRow, RowSound

LEMMA PipelineOrdinary ==
  ASSUME TypeInv, NEW m \in Manga, PipelineMoves(m) PROVE Ordinarily
<1> DEFINE e == Touch(db, m)
<1>1. PICK r \in OrdinaryRow : db' = [ e EXCEPT !.row[m] = r ] BY DEF PipelineMoves
<1>2. /\ db.row[m].status # "special_processing" /\ proc' = proc
      /\ qbit' = [ qbit EXCEPT ![m] = IF db.row[m].external THEN @ \ { "manual" } ELSE @ ]
  BY DEF PipelineMoves
<1>3. r \in Row /\ RowSound(r) /\ r.status # "special_processing" BY OrdinaryRowsSound
<1>4. e \in Database /\ Rests(db, e) BY TouchRests DEF TypeInv
<1> HIDE DEF e
<1>5. db' \in Database /\ db'.wf = e.wf /\ db'.row = [ e.row EXCEPT ![m] = r ]
  BY <1>1, <1>3, <1>4, PutRow
<1>6. e.row \in [Manga -> Row] BY <1>4, DatabaseFields
<1>7. db'.row[m] = r /\ \A n \in Manga \ {m} : db'.row[n] = e.row[n] BY <1>5, <1>6
<1>8. Pipes(db, db', m)
  BY <1>2, <1>3, <1>4, <1>5, <1>7 DEF Pipes, Rests, RowsLike
<1>9. qbit \in QbitType BY DEF TypeInv
<1>10. /\ db.row[m].external => Torrent \notin qbit'[m]
       /\ \A n \in Manga : Torrent \in qbit'[n] => Torrent \in qbit[n]
  BY <1>2, <1>9 DEF QbitType, Torrent
<1> QED BY <1>2, <1>8, <1>10 DEF Ordinarily, RowMoves, Cool

----------------------------------------------------------------------------
\* The scan of the rounds.

LEMMA SettledRests ==
  ASSUME TypeInv, NEW e \in Database, NEW w \in Workflow, e.wf[w].kind = "full_collect"
  PROVE  Rests(e, Settled(e, w))
<1> DEFINE z == SettledData(e, w)
<1>1. /\ Settled(e, w) = DataPut(e, w, z) /\ z \in DataOf("full_collect")
      /\ z.cursor = e.wf[w].data.cursor
  BY SettledPuts
<1>2. e.wf[w].kind # "none" /\ e.wf[w].data \in DataOf("full_collect")
  BY DatabaseFields, RecordKind, WorkflowFields, RoundIsKind
<1>3. z.end = e.wf[w].data.end
  BY <1>2, RoundDataFields DEF SettledData
<1> HIDE DEF z
<1>4. PayloadRests(e.wf[w], z) BY <1>1, <1>3, RoundPayloadRests
<1> QED BY <1>1, <1>2, <1>4, DataPutRests

LEMMA RecoveredRests ==
  ASSUME TypeInv, NEW w \in Workflow, Round(w) PROVE Rests(db, Recovered(w))
<1> DEFINE verdict == Verdict(db.wf[w])
           running == Job_(w).status = "running"
           d1 == IF running THEN EndJob(Release(db, w, Batch), w, Batch, "abandoned") ELSE db
           d2 == CancelQueued(d1, w)
           st == IF verdict = "completed" THEN "completed" ELSE "active"
           d3 == EndWorkflow(d2, w, st, verdict)
           dp == [ d3 EXCEPT !.wf[w].data.intent = "pause" ]
           dq == Queue(d3, w, Batch)
           dc == Over(ReleaseAll(d3, w), w)
           d4 == IF verdict = "completed" THEN dc
                 ELSE IF verdict = "interrupted" THEN dp
                 ELSE IF verdict = "queued" THEN dq ELSE d3
<1>1. /\ db \in Database /\ db.wf[w].kind = "full_collect" /\ db.wf[w].kind # "none"
      /\ db.wf[w].status = "active" /\ Plain(db.wf[w])
      /\ Batch \in OperationsOf(db.wf[w].kind) /\ Rests(db, db)
  BY RoundFields, RestsReflexive
<1>2. Recovered(w) = IF verdict = "leave" THEN IF running THEN db ELSE Settled(db, w)
                     ELSE Settled(d4, w)
  BY DEF Recovered
<1>3. verdict \in { "completed", "paused", "leave", "interrupted", "queued" } BY DEF Verdict
<1>4. CASE verdict = "leave" BY <1>1, <1>2, <1>4, SettledRests
<1>5. CASE verdict # "leave"
  <2>1. verdict \in Phase BY <1>3, <1>5, PhaseNames
  <2> HIDE DEF verdict
  <2>2. Stays(db, db, w) BY <1>1, StaysAtOnce
  <2>3. d1 \in Database /\ Rests(db, d1) /\ d1.wf[w].status = "active"
    BY <1>1, GivenUpRests
  <2> HIDE DEF d1
  <2>4. Stays(db, d1, w) BY <2>2, <2>3, StaysOn
  <2>5. d1.wf[w].kind # "none" /\ Plain(d1.wf[w]) BY <2>4, StaysFields
  <2>6. Rests(d1, d2) /\ d2.wf[w].status = "active" BY <2>3, <2>5, CancelQueuedRests
  <2> HIDE DEF d2
  <2>7. Stays(db, d2, w) BY <2>4, <2>6, StaysOn
  <2>8. d2 \in Database /\ d2.wf[w].kind = "full_collect" /\ d2.wf[w].kind # "none"
    BY <1>1, <2>7, StaysFields
  <2>9. CASE verdict = "completed"
    <3>1. dc = Over(ReleaseAll(EndWorkflow(d2, w, "completed", verdict), w), w)
      BY <2>9
    <3>2. d2.wf[w].kind \in Kind \ Holders BY <2>8, RoundIsKind, HolderNames
    <3> HIDE DEF dc
    <3>3. Rests(d2, dc) BY <2>1, <2>8, <3>1, <3>2, RoundIsOver
    <3>4. Stays(db, dc, w) BY <2>7, <3>3, StaysOn
    <3>5. dc \in Database /\ dc.wf[w].kind = "full_collect" BY <1>1, <3>4, StaysFields
    <3>6. Rests(dc, Settled(dc, w)) BY <3>5, SettledRests
    <3>7. Rests(db, dc) BY <3>4 DEF Stays
    <3>8. Recovered(w) = Settled(dc, w) BY <1>2, <2>9
    <3> QED BY <3>6, <3>7, <3>8, RestsTransitive
  <2>10. CASE verdict # "completed"
    <3>1. d3 = EndWorkflow(d2, w, "active", verdict) BY <2>10
    <3>2. MayEnd(d2.wf[w], "active") BY <2>6, <2>8, HolderNames, RoundIsKind DEF MayEnd
    <3> HIDE DEF d3
    <3>3. Rests(d2, d3) BY <2>1, <2>8, <3>1, <3>2, EndWorkflowRests
    <3>4. Stays(db, d3, w) BY <2>7, <3>3, StaysOn
    <3>5. Stays(db, dq, w) BY <1>1, <3>4, StaysQueue
    <3> HIDE DEF dq
    <3>6. Stays(db, dp, w)
      <4> DEFINE z == [ d3.wf[w].data EXCEPT !.intent = "pause" ]
      <4>1. d3.wf[w].data \in DataOf("full_collect") /\ d3.wf[w].kind = "full_collect"
        BY <1>1, <3>4, StaysFields
      <4>2. /\ z \in DataOf("full_collect") /\ z.cursor = d3.wf[w].data.cursor
            /\ z.end = d3.wf[w].data.end
        BY <4>1, RoundDataFields DEF DataOf
      <4>3. dp = DataPut(d3, w, z) BY DEF DataPut
      <4> HIDE DEF z, dp
      <4>4. PayloadRests(d3.wf[w], z) BY <4>1, <4>2, RoundPayloadRests
      <4> QED BY <1>1, <3>4, <4>2, <4>3, <4>4, StaysData
    <3> HIDE DEF dp
    <3>7. Stays(db, d4, w) BY <2>10, <3>4, <3>5, <3>6
    <3>8. Recovered(w) = Settled(d4, w) BY <1>2, <1>5
    <3> HIDE DEF d4
    <3>9. d4 \in Database /\ d4.wf[w].kind = "full_collect" BY <1>1, <3>7, StaysFields
    <3>10. Rests(d4, Settled(d4, w)) BY <3>9, SettledRests
    <3>11. Rests(db, d4) BY <3>7 DEF Stays
    <3> QED BY <3>8, <3>10, <3>11, RestsTransitive
  <2> QED BY <2>9, <2>10
<1> QED BY <1>4, <1>5

LEMMA InspectedAlike ==
  ASSUME TypeInv, NEW w \in Workflow PROVE Alike(db.wf[w], Inspected(w))
<1>1. CASE ~Round(w) BY <1>1, AlikeReflexive DEF Inspected
<1>2. CASE Round(w) /\ ~db.wf[w].data.started
  <2>1. Inspected(w) = Settled(db, w).wf[w] BY <1>2 DEF Inspected
  <2>2. db \in Database /\ db.wf[w].kind = "full_collect" BY <1>2, RoundFields
  <2>3. Rests(db, Settled(db, w)) BY <2>2, SettledRests
  <2> QED BY <2>1, <2>3 DEF Rests
<1>3. CASE Round(w) /\ db.wf[w].data.started
  <2>1. Inspected(w) = Recovered(w).wf[w] \/ Inspected(w) = db.wf[w]
    BY <1>3 DEF Inspected
  <2>2. Rests(db, Recovered(w)) BY <1>3, RecoveredRests
  <2> QED BY <2>1, <2>2, AlikeReflexive DEF Rests
<1> QED BY <1>1, <1>2, <1>3

LEMMA RecoverRoundsOrdinary ==
  ASSUME TypeInv, RecoverRounds PROVE Ordinarily
<1> DEFINE f == [w \in Workflow |-> Inspected(w)]
<1>1. db' = [ db EXCEPT !.wf = f ] BY DEF RecoverRounds
<1>2. /\ proc' = proc /\ qbit' = qbit /\ db' \in Database /\ db'.row = db.row
  BY RecoverRoundsStep DEF RecoverStep
<1>3. \A w \in Workflow : f[w] = Inspected(w) OBVIOUS
<1> HIDE DEF f
<1>4. db'.wf = f BY <1>1 DEF TypeInv, Database
<1>5. \A w \in Workflow : Alike(db.wf[w], db'.wf[w]) BY <1>3, <1>4, InspectedAlike
<1>6. Rests(db, db') BY <1>2, <1>5 DEF Rests, RowsLike, RowLike
<1> QED BY <1>2, <1>6, CommandOrdinary DEF RowMoves

LEMMA NothingOrdinary ==
  ASSUME TypeInv, UNCHANGED << db, proc, qbit >> PROVE Ordinarily
<1>1. Rests(db, db') BY RestsReflexive DEF TypeInv
<1> QED BY <1>1, CommandOrdinary DEF RowMoves

----------------------------------------------------------------------------
\* Every step moves the rows as it may; three of them concern what is asked for.

LEMMA CommandIsOrdinary ==
  ASSUME TypeInv, RowsIn(db), NEW w \in Workflow, Command(w) PROVE Ordinarily
BY VideoCommandOrdinary, ManualCommandOrdinary, MetadataCommandOrdinary,
   ScanCommandOrdinary, RoundCommandOrdinary, CancelWorkflowOrdinary,
   QueueOperationOrdinary, ReleaseExpiredOrdinary DEF Command

LEMMA StepIsOrdinary ==
  ASSUME TypeInv, RowsIn(db), NEW p \in Proc, Step(p) \/ WorkerFails(p) \/ WorkerDies(p)
  PROVE  Ordinarily \/ RecordIntent(p) \/ SubmitTorrent(p) \/ Asks(p)
BY VideoStepOrdinary, ManualStepOrdinary, MetadataStepOrdinary, ScanStepOrdinary,
   BatchStepOrdinary, WorkerFailsOrdinary, WorkerDiesOrdinary DEF Step

LEMMA NextIsOrdinary ==
  ASSUME TypeInv, RowsIn(db), [Next]_vars
  PROVE  Ordinarily \/ \E p \in Proc : RecordIntent(p) \/ SubmitTorrent(p) \/ Asks(p)
<1>1. CASE \E w \in Workflow : Command(w) BY <1>1, CommandIsOrdinary
<1>2. CASE \E p \in Proc : Step(p) \/ WorkerFails(p) \/ WorkerDies(p)
  BY <1>2, StepIsOrdinary
<1>3. CASE Schedules
  BY <1>3, FailMisplacedOrdinary, ClaimJobOrdinary, RecoverRoundsOrdinary DEF Schedules
<1>4. CASE SupervisorStarts \/ SupervisorDies \/ SupervisorDrains \/ SupervisorExits
  BY <1>4, NothingOrdinary DEF SupervisorStarts, SupervisorDies, SupervisorDrains,
                               SupervisorExits
<1>5. CASE \E w \in Workflow : \E o \in DOMAIN db.wf[w].job :
             JobLeaseExpires(w, o) \/ RequestStop(w, o)
  BY <1>5, FlagOrdinary
<1>6. CASE \E m \in Manga : PipelineMoves(m) \/ EditRow(m)
  BY <1>6, PipelineOrdinary, EditRowOrdinary
<1>7. CASE UNCHANGED vars BY <1>7, NothingOrdinary DEF vars
<1> QED BY <1>1, <1>2, <1>3, <1>4, <1>5, <1>6, <1>7 DEF Next

LEMMA NextMovesRows ==
  ASSUME TypeInv, RowsIn(db), [Next]_vars PROVE RowMoves
<1>1. CASE Ordinarily BY <1>1 DEF Ordinarily
<1>2. CASE \E p \in Proc : RecordIntent(p) \/ SubmitTorrent(p)
  BY <1>2, SubmissionRests DEF RowMoves
<1>3. CASE \E p \in Proc : Asks(p) BY <1>3 DEF Asks, RowMoves
<1> QED BY <1>1, <1>2, <1>3, NextIsOrdinary

----------------------------------------------------------------------------
(***************************************************************************)
(* What is asked for.  The submission a process has recorded stays on      *)
(* record until the process ends, for no other runs of its workflow; and   *)
(* the round of a process that requests a page does not come to its end,   *)
(* for no other process runs the same attempt.                             *)
(***************************************************************************)
Submitting ==
  \A p \in Proc :
    proc[p].at \in { "intended", "submitted" } => Recorded(db.wf[proc[p].w])

AllOnRecord == \A m \in Manga : Torrent \in qbit[m] => OnRecord(db, m)

\* A process that goes on to submit has taken its own step.
LEMMA GotoPlaces ==
  ASSUME TypeInv, NEW p \in Proc, NEW at, Goto(p, at)
  PROVE  /\ proc'[p].at = at /\ proc'[p].w = proc[p].w
         /\ \A q \in Proc \ {p} : proc'[q] = proc[q]
<1>1. proc \in [Proc -> Process] BY DEF TypeInv
<1>2. proc[p] \in Process BY <1>1
<1>3. proc' = [ proc EXCEPT ![p] = [ proc[p] EXCEPT !.at = at ] ] BY DEF Goto
<1>4. [ proc[p] EXCEPT !.at = at ].at = at /\ [ proc[p] EXCEPT !.at = at ].w = proc[p].w
  BY <1>2 DEF Process
<1>5. proc'[p] = [ proc[p] EXCEPT !.at = at ] /\ \A q \in Proc \ {p} : proc'[q] = proc[q]
  BY <1>1, <1>3
<1> QED BY <1>4, <1>5

LEMMA SubmittingStays ==
  ASSUME Sound, Alone, RowsIn(db), Submitting, [Next]_vars PROVE Submitting'
<1>1. TypeInv BY DEF Sound
<1> SUFFICES ASSUME NEW p \in Proc, proc'[p].at \in { "intended", "submitted" }
             PROVE  Recorded(db'.wf[proc'[p].w])
  BY DEF Submitting
<1> DEFINE w == proc[p].w
<1>2. ASSUME proc'[p] = proc[p]
      PROVE  Recorded(db.wf[w]) /\ w \in Workflow /\ Busy(p)
  <2>1. Busy(p) BY <1>2 DEF Busy
  <2> QED BY <1>1, <1>2, <2>1, TypedProcess DEF Submitting
<1>3. CASE Ordinarily
  <2>1. proc'[p] = proc[p] /\ RowMoves BY <1>3 DEF Ordinarily, Cool, Hot
  <2>2. CASE Recorded(db'.wf[w]) BY <2>1, <2>2
  <2>3. CASE \E q \in Proc : Leaves(q, w)
    <3>1. PICK q \in Proc : Leaves(q, w) BY <2>3
    <3>2. Busy(q) /\ proc[q].w = w /\ q # p
      BY <2>1, <3>1, NoClaimIsTyped DEF Leaves
    <3>3. db.wf[w].kind = "full_collect" BY <1>2, <2>1, <3>2 DEF Alone
    <3> QED BY <1>2, <2>1, <3>3 DEF Recorded
  <2> QED BY <1>2, <2>1, <2>2, <2>3, RecordedStays
<1>4. ASSUME NEW q \in Proc, RecordIntent(q) PROVE Recorded(db'.wf[proc'[p].w])
  <2>1. Rests(db, db') /\ db'.wf[proc[q].w].data.submission
    BY <1>1, <1>4, RecordIntentRests
  <2>2. AtManual(q, "begin") /\ Goto(q, "intended") BY <1>4 DEF RecordIntent
  <2>3. proc'[q].w = proc[q].w /\ \A r \in Proc \ {q} : proc'[r] = proc[r]
    BY <1>1, <2>2, GotoPlaces
  <2>4. /\ proc[q].w \in Workflow /\ db.wf[proc[q].w].kind = "manual_torrent"
        /\ db.wf[proc[q].w].status = "active"
    BY <1>1, <2>2, ManualPlaces, AtManualRuns
  <2>5. Alike(db.wf[proc[q].w], db'.wf[proc[q].w]) BY <2>1, <2>4 DEF Rests
  <2>6. Recorded(db'.wf[proc[q].w])
    BY <2>1, <2>4, <2>5, HolderNames DEF Alike, Recorded
  <2>7. CASE p = q BY <2>3, <2>6, <2>7
  <2>8. CASE p # q
    <3>1. proc'[p] = proc[p] BY <2>3, <2>8
    <3>2. Alike(db.wf[w], db'.wf[w]) BY <1>2, <2>1, <3>1 DEF Rests
    <3> QED BY <1>2, <3>1, <3>2, AlikeRecorded
  <2> QED BY <2>7, <2>8
<1>5. ASSUME NEW q \in Proc, SubmitTorrent(q) PROVE Recorded(db'.wf[proc'[p].w])
  <2>1. db' = db /\ proc[q].at = "intended" /\ Goto(q, "submitted")
    BY <1>5 DEF SubmitTorrent
  <2>2. proc'[q].w = proc[q].w /\ \A r \in Proc \ {q} : proc'[r] = proc[r]
    BY <1>1, <2>1, GotoPlaces
  <2>3. proc'[p].w = proc[p].w /\ proc[p].at \in { "intended", "submitted" }
    BY <2>1, <2>2
  <2> QED BY <2>1, <2>3 DEF Submitting
<1>6. ASSUME NEW q \in Proc, Asks(q) PROVE Recorded(db'.wf[proc'[p].w])
  <2>1. p # q BY <1>6 DEF Asks
  <2>2. proc'[p] = proc[p] BY <1>6, <2>1 DEF Asks
  <2>3. Alike(db.wf[w], db'.wf[w]) BY <1>2, <1>6, <2>2 DEF Asks, Rests
  <2> QED BY <1>2, <2>2, <2>3, AlikeRecorded
<1> QED BY <1>1, <1>3, <1>4, <1>5, <1>6, NextIsOrdinary

LEMMA AllStayOnRecord ==
  ASSUME TypeInv, RowsIn(db), Submitting, AllOnRecord, [Next]_vars PROVE AllOnRecord'
<1> SUFFICES ASSUME NEW m \in Manga, Torrent \in qbit'[m] PROVE OnRecord(db', m)
  BY DEF AllOnRecord
<1>1. CASE Ordinarily
  <2>1. RowMoves /\ Torrent \in qbit[m] BY <1>1 DEF Ordinarily
  <2> QED BY <2>1, MovesOnRecord DEF AllOnRecord
<1>2. CASE \E p \in Proc : RecordIntent(p) \/ Asks(p)
  <2>1. Rests(db, db') /\ qbit' = qbit
    BY <1>2, SubmissionRests DEF RecordIntent, Asks
  <2> QED BY <2>1, RestsOnRecord DEF AllOnRecord
<1>3. ASSUME NEW p \in Proc, SubmitTorrent(p) PROVE OnRecord(db', m)
  <2> DEFINE w == proc[p].w
             n == TheManga(db.wf[w])
  <2>1. /\ db' = db /\ proc[p].at = "intended" /\ db.wf[w].kind = "manual_torrent"
        /\ qbit' = [ qbit EXCEPT ![n] = qbit[n] \cup { Torrent } ]
    BY <1>3 DEF SubmitTorrent, Manual
  <2>2. Recorded(db.wf[w]) BY <2>1 DEF Submitting
  <2>3. Busy(p) BY <2>1 DEF Busy
  <2>4. w \in Workflow /\ db.wf[w] \in WorkflowOf("manual_torrent")
    BY <2>1, <2>3, TypedProcess
  <2>5. Bound(db.wf[w]) = {n} BY <2>4, BoundRows, ManualIsKind
  <2>6. CASE m = n
    <3>1. Remembers(db.wf[w], m) BY <2>2, <2>5, <2>6 DEF Recorded, Remembers
    <3> QED BY <2>1, <2>4, <3>1 DEF OnRecord
  <2>7. CASE m # n
    <3> HIDE DEF n
    <3>1. qbit'[m] = qbit[m] BY <2>1, <2>7 DEF TypeInv, QbitType
    <3> QED BY <2>1, <3>1 DEF AllOnRecord
  <2> QED BY <2>6, <2>7
<1> QED BY <1>1, <1>2, <1>3, NextIsOrdinary

\* An attempt of an open round that runs after a step ran before it, if its
\* process was there.
LEMMA RoundRanBefore ==
  ASSUME Sound, Moves, NEW p \in Proc, Busy(p), db.wf[proc[p].w].kind = "full_collect",
         db'.wf[proc[p].w].status = "active",
         Runs(db'.wf[proc[p].w], Batch), db'.wf[proc[p].w].job[Batch].no = proc[p].no
  PROVE  /\ Runs(db.wf[proc[p].w], Batch) /\ db.wf[proc[p].w].job[Batch].no = proc[p].no
         /\ db.wf[proc[p].w].status = "active"
<1> DEFINE w == proc[p].w
           x == db.wf[w]
           y == db'.wf[w]
           Same == Runs(x, Batch) /\ x.job[Batch].no = proc[p].no /\ x.status = "active"
<1>1. TypeInv /\ Spent(x, proc[p].no) BY DEF Sound, AttemptsSpent
<1>2. /\ w \in Workflow /\ x.kind # "none" /\ proc[p].no \in Nat
      /\ Batch \in OperationsOf(x.kind) /\ OperationsOf(x.kind) = {Batch}
  BY <1>1, TypedProcess, RoundIsKind
<1>3. ASSUME Kept(x, y) PROVE Same BY <1>3 DEF Kept, Runs
<1>4. ASSUME CalmOn(x, y) PROVE Same
  <2>1. y.status = x.status BY <1>4 DEF CalmOn
  <2> QED BY <1>2, <1>4, <2>1, RunningBefore
<1>5. ASSUME Finished(x, y, Batch) PROVE FALSE BY <1>5 DEF Finished, JobEnds, Runs
<1>6. ASSUME NEW v \in Workflow, NEW o \in OperationsOf(db.wf[v].kind), FinishIn(db, db', v, o)
      PROVE  Same
  <2>1. CASE v = w BY <1>2, <1>5, <1>6, <2>1 DEF FinishIn
  <2>2. CASE v # w BY <1>2, <1>3, <1>6, <2>2 DEF FinishIn
  <2> QED BY <2>1, <2>2
<1>7. CASE CalmStep
  <2>1. CASE Remarks(db, db') BY <1>2, <1>3, <2>1 DEF Remarks
  <2>2. ASSUME NEW v \in Workflow, CalmIn(db, db', v) PROVE Same
    BY <1>2, <1>3, <1>4, <2>2 DEF CalmIn
  <2>3. ASSUME NEW v \in Workflow, CloseIn(db, db', v) PROVE Same
    <3>1. v # w BY <2>3 DEF CloseIn, Closed
    <3> QED BY <1>2, <1>3, <2>3, <3>1 DEF CloseIn
  <2>4. ASSUME NEW v \in Workflow, BeginIn(db, db', v) PROVE Same
    <3>1. v # w BY <1>2, <2>4, NoFields DEF BeginIn, Begun
    <3> QED BY <1>2, <1>3, <2>4, <3>1 DEF BeginIn
  <2> QED BY <1>7, <2>1, <2>2, <2>3, <2>4 DEF CalmStep
<1>8. CASE \E q \in Proc : EndStep(q)
  <2>1. PICK q \in Proc : EndStep(q) BY <1>8
  <2>2. CASE db' = db BY <1>3, <2>2, KeptReflexive
  <2>3. CASE FinishIn(db, db', proc[q].w, proc[q].op)
    BY <1>1, <1>6, <2>1, <2>3, TypedProcess DEF EndStep
  <2> QED BY <2>1, <2>2, <2>3 DEF EndStep
<1>9. CASE \E v \in Workflow : \E o \in OpName : GiveUpStep(v, o)
  BY <1>6, <1>9 DEF GiveUpStep
<1>10. ASSUME NEW v \in Workflow, NEW o \in OpName, NEW q \in Proc, ClaimStep(v, o, q)
       PROVE  Same
  <2>1. CASE v # w BY <1>2, <1>3, <1>10, <2>1 DEF ClaimStep
  <2>2. CASE v = w
    <3>1. /\ o = Batch /\ x.job[Batch].status = "queued" /\ y.status = x.status
          /\ y.job[Batch].no = x.job[Batch].no
      BY <1>2, <1>10, <2>2 DEF ClaimStep
    <3>2. proc[p].no < x.job[Batch].no BY <1>1, <3>1 DEF Spent
    <3> QED BY <1>2, <3>1, <3>2
  <2> QED BY <2>1, <2>2
<1>11. CASE RecoverStep
  <2>1. y = x \/ RecoverOne(w) BY <1>2, <1>11 DEF RecoverStep
  <2>2. ~Closed(x, y) BY DEF Closed
  <2> QED BY <1>3, <1>4, <1>5, <2>1, <2>2, KeptReflexive DEF RecoverOne
<1>12. CASE SupervisorMoves BY <1>3, <1>12, KeptReflexive DEF SupervisorMoves
<1> QED BY <1>7, <1>8, <1>9, <1>10, <1>11, <1>12 DEF Moves

LEMMA RequestingStays ==
  ASSUME Sound, RowsIn(db), Requesting, [Next]_vars PROVE Requesting'
<1>1. TypeInv /\ WorkflowsSound /\ Moves BY NextMoves DEF Sound
<1> SUFFICES ASSUME NEW p \in Proc, proc'[p].at \in { "request", "received" },
                    RunsItsAttempt(p)', AtEnd(db'.wf[proc'[p].w])
             PROVE  FALSE
  BY DEF Requesting, AtEnd
<1> DEFINE w == proc[p].w
           x == db.wf[w]
\* The round was open and not at its end when its process went on.
<1>2. ASSUME Busy(p), proc'[p].w = w, proc'[p].op = proc[p].op, proc'[p].no = proc[p].no
      PROVE  /\ w \in Workflow /\ x.kind = "full_collect" /\ x.status = "active"
             /\ proc[p].op = Batch /\ RunsItsAttempt(p) /\ AtEnd(db'.wf[w])
  <2>1. w \in Workflow /\ db'.wf[w].kind = x.kind BY <1>1, <1>2, BusyIsTyped
  <2>2. x.kind = "full_collect" /\ AtEnd(db'.wf[w]) BY <1>2, <2>1 DEF AtEnd
  <2>3. proc[p].op = Batch BY <1>1, <1>2, <2>2, TypedProcess, RoundIsKind
  <2>4. /\ Runs(db'.wf[w], Batch) /\ db'.wf[w].job[Batch].no = proc[p].no
        /\ db'.wf[w].status = "active"
    BY <1>2, <2>2, <2>3 DEF RunsItsAttempt, AtEnd
  <2>5. Runs(x, Batch) /\ x.job[Batch].no = proc[p].no /\ x.status = "active"
    BY <1>1, <1>2, <2>2, <2>4, RoundRanBefore
  <2> QED BY <2>1, <2>2, <2>3, <2>5 DEF RunsItsAttempt
<1>3. ASSUME proc'[p] = proc[p]
      PROVE  /\ Busy(p) /\ ~AtEnd(x) /\ w \in Workflow /\ x.kind = "full_collect"
             /\ proc[p].op = Batch /\ RunsItsAttempt(p) /\ AtEnd(db'.wf[w])
  <2>1. Busy(p) BY <1>3 DEF Busy
  <2>2. /\ w \in Workflow /\ x.kind = "full_collect" /\ x.status = "active"
        /\ proc[p].op = Batch /\ RunsItsAttempt(p) /\ AtEnd(db'.wf[w])
    BY <1>2, <1>3, <2>1
  <2>3. ~x.data.end BY <1>3, <2>2 DEF Requesting
  <2> QED BY <2>1, <2>2, <2>3 DEF AtEnd
<1>4. ASSUME proc'[p] = proc[p], Rests(db, db') PROVE FALSE
  <2>1. Alike(x, db'.wf[w]) BY <1>3, <1>4 DEF Rests
  <2> QED BY <1>3, <1>4, <2>1, AlikeAtEnd
<1>5. CASE Ordinarily
  <2>1. proc'[p] = proc[p] /\ RowMoves BY <1>5 DEF Ordinarily, Cool, Hot
  <2>2. ~AtEnd(x) /\ AtEnd(db'.wf[w]) /\ w \in Workflow /\ x.kind # "none"
    BY <1>3, <2>1, RoundIsKind
  <2>3. PICK q \in Proc : CommitsPage(q) /\ proc[q].w = w BY <2>1, <2>2, EndsByCommit
  <2>4. q # p BY <2>1, <2>3 DEF CommitsPage
  <2>5. Busy(q) /\ RunsItsAttempt(q) BY <2>3 DEF CommitsPage
  <2>6. proc[q].op = Batch BY <1>1, <1>3, <2>1, <2>3, <2>5, TypedProcess, RoundIsKind
  <2>7. proc[q].no = proc[p].no
    BY <1>3, <2>1, <2>3, <2>5, <2>6 DEF RunsItsAttempt
  <2> QED BY <1>3, <2>1, <2>3, <2>4, <2>5, <2>7 DEF Sound, AttemptsApart
<1>6. ASSUME NEW q \in Proc, RecordIntent(q) \/ SubmitTorrent(q) PROVE FALSE
  <2>1. Rests(db, db') BY <1>1, <1>6, SubmissionRests
  <2>2. PICK at \in { "intended", "submitted" } : Goto(q, at)
    BY <1>6 DEF RecordIntent, SubmitTorrent
  <2>3. proc'[q].at = at /\ \A r \in Proc \ {q} : proc'[r] = proc[r]
    BY <1>1, <2>2, GotoPlaces
  <2>4. proc'[p] = proc[p] BY <2>2, <2>3
  <2> QED BY <1>4, <2>1, <2>4
<1>7. ASSUME NEW q \in Proc, Asks(q) PROVE FALSE
  <2>1. Rests(db, db') BY <1>7 DEF Asks
  <2>2. CASE p # q
    <3>1. proc'[p] = proc[p] BY <1>7, <2>2 DEF Asks
    <3> QED BY <1>4, <2>1, <3>1
  <2>3. CASE p = q
    <3>1. /\ Busy(p) /\ proc'[p].w = w /\ proc'[p].op = proc[p].op
          /\ proc'[p].no = proc[p].no
          /\ proc[p].at = "request" \/ ~x.data.end
      BY <1>7, <2>3 DEF Asks
    <3>2. /\ w \in Workflow /\ x.kind = "full_collect" /\ x.status = "active"
          /\ RunsItsAttempt(p) /\ AtEnd(db'.wf[w])
      BY <1>2, <3>1
    <3>3. ~x.data.end BY <3>1, <3>2 DEF Requesting
    <3>4. Alike(x, db'.wf[w]) BY <2>1, <3>2 DEF Rests
    <3>5. AtEnd(x) BY <3>2, <3>4, AlikeAtEnd
    <3> QED BY <3>3, <3>5 DEF AtEnd
  <2> QED BY <2>2, <2>3
<1> QED BY <1>1, <1>5, <1>6, <1>7, NextIsOrdinary

----------------------------------------------------------------------------
(***************************************************************************)
(* The invariant: what is sound of the workflows, who keeps each row, and  *)
(* where the rounds are.                                                   *)
(***************************************************************************)
AllKept == Sound /\ RowsIn(db) /\ CursorIn(db) /\ Requesting

LEMMA RowsAtFirst == Init => AllKept /\ Submitting /\ AllOnRecord
<1> SUFFICES ASSUME Init PROVE AllKept /\ Submitting /\ AllOnRecord OBVIOUS
<1>1. /\ Sound /\ TypeInv BY SoundAtFirst DEF Sound
<1>2. /\ \A w \in Workflow : db.wf[w] = NoWorkflow
      /\ \A m \in Manga : db.row[m] \in OrdinaryRow
      /\ \A p \in Proc : proc[p] = NoClaim
      /\ \A m \in Manga : qbit[m] = {}
  BY DEF Init
<1>3. \A w \in Workflow : db.wf[w].kind = "none" BY <1>2, NoFields
<1>4. \A p \in Proc : proc[p].at = "idle" BY <1>2, NoClaimIsTyped
<1>5. \A m \in Manga : RowSound(db.row[m]) /\ db.row[m].status # "special_processing"
  BY <1>2, OrdinaryRowsSound
<1>6. RowsIn(db)
  BY <1>3, <1>5, HolderNames
     DEF RowsIn, RowsSound, AllInOrder, InOrder, KeptBySome, TakersHold
<1>7. CursorIn(db) BY <1>3 DEF CursorIn, RoundInRange
<1>8. Requesting /\ Submitting BY <1>4 DEF Requesting, Submitting
<1>9. AllOnRecord BY <1>2 DEF AllOnRecord
<1> QED BY <1>1, <1>6, <1>7, <1>8, <1>9 DEF AllKept

LEMMA RowsStay == AllKept /\ [Next]_vars => AllKept'
<1> SUFFICES ASSUME AllKept, [Next]_vars PROVE AllKept' OBVIOUS
<1>1. /\ Sound /\ TypeInv /\ RowsIn(db) /\ CursorIn(db) /\ Requesting
  BY DEF AllKept, Sound
<1>2. Sound' BY <1>1, NextMoves, SoundStays
<1>3. RowMoves /\ BoundOnce(db) BY <1>1, NextMovesRows, SoundBoundOnce
<1>4. RowsIn(db') BY <1>1, <1>3, MovesKeepRows
<1>5. CursorIn(db') BY <1>1, <1>3, MovesInRange
<1>6. Requesting' BY <1>1, RequestingStays
<1> QED BY <1>2, <1>4, <1>5, <1>6 DEF AllKept

LEMMA AlwaysKept == Spec => []AllKept
BY RowsAtFirst, RowsStay, PTL DEF Spec

LEMMA KeptByOne == AllKept => RowIsKeptByOne
<1> SUFFICES ASSUME AllKept, NEW m \in Manga, db.row[m].status = "special_processing"
             PROVE  \E w \in Workflow :
                      /\ Active(db, w) /\ m \in Bound(db.wf[w])
                      /\ db.wf[w].kind = "lanraragi_metadata" => m \in db.wf[w].data.reserved
                      /\ \A v \in Workflow : Active(db, v) /\ m \in Bound(db.wf[v]) => v = w
  BY DEF RowIsKeptByOne
<1>1. RowsIn(db) /\ BoundOnce(db) BY SoundBoundOnce DEF AllKept
<1>2. PICK w \in Workflow : Keeps(db.wf[w], m) BY <1>1 DEF RowsIn, KeptBySome
<1>3. /\ Active(db, w) /\ m \in Bound(db.wf[w])
      /\ db.wf[w].kind = "lanraragi_metadata" => m \in db.wf[w].data.reserved
  BY <1>2 DEF Keeps, Active
<1>4. \A v \in Workflow : Active(db, v) /\ m \in Bound(db.wf[v]) => v = w
  BY <1>1, <1>3 DEF BoundOnce, Active
<1> QED BY <1>3, <1>4

(***************************************************************************)
(* A row that is kept from the ordinary pipeline is kept by exactly one    *)
(* workflow, which can give it back: however many workflows, processes and *)
(* rows there are, no way in which a workflow ends or a Supervisor takes   *)
(* over leaves its row behind.                                             *)
(***************************************************************************)
THEOREM EveryRowIsKeptByOne == Spec => []RowIsKeptByOne
BY AlwaysKept, KeptByOne, PTL

LEMMA TypesOfAll == AllKept => TypeOK
<1> SUFFICES ASSUME AllKept PROVE TypeOK OBVIOUS
<1>1. /\ Sound /\ TypeInv /\ WorkflowsSound /\ RowsIn(db) /\ CursorIn(db)
      /\ db \in Database /\ qbit \in QbitType /\ proc \in [Proc -> Process]
  BY DEF AllKept, Sound, TypeInv
<1>2. ASSUME NEW w \in Workflow
      PROVE  LET x == db.wf[w] IN
             /\ x.kind \in Kind \cup { "none" } /\ x.phase \in Phase \cup { "none" }
             /\ x.status \in { "none", "active", "completed", "cancelled" }
             /\ \A o \in DOMAIN x.job : x.job[o] \in Job
             /\ \A c \in x.claims : c.key \in Key /\ (c.op # ByWorkflow => c.no <= x.job[c.op].no)
             /\ Exists(db, w) => DOMAIN x.data = DOMAIN InitialData[x.kind]
             /\ x.kind = "full_collect" => x.data.cursor \in 0 .. LastPage
  <2> DEFINE x == db.wf[w]
  <2>1. x \in Record /\ WorkInv(x) BY <1>1, DatabaseFields DEF WorkflowsSound
  <2>2. CASE x.kind = "none"
    <3>1. x = NoWorkflow BY <2>1, <2>2, RecordKind
    <3> QED BY <2>2, <3>1, NoFields DEF Exists
  <2>3. CASE x.kind # "none"
    <3>1. x.kind \in Kind /\ x \in WorkflowOf(x.kind) BY <2>1, <2>3, RecordKind
    <3>2. /\ x.phase \in Phase /\ x.status \in { "active", "completed", "cancelled" }
          /\ x.job \in [OperationsOf(x.kind) -> Job] /\ x.claims \in SUBSET Claim
          /\ x.data \in DataOf(x.kind)
      BY <3>1, WorkflowFields
    <3>3. \A c \in x.claims : c.key \in Key /\ (c.op # ByWorkflow => c.no <= x.job[c.op].no)
      <4> SUFFICES ASSUME NEW c \in x.claims
                   PROVE  c.key \in Key /\ (c.op # ByWorkflow => c.no <= x.job[c.op].no)
        OBVIOUS
      <4>1. c.key \in Key /\ c.no \in Nat BY <3>2 DEF Claim
      <4>2. c.op # ByWorkflow => c.no = x.job[c.op].no BY <2>1, <2>3 DEF WorkInv, ClaimsOwned
      <4> QED BY <4>1, <4>2
    <3>4. DOMAIN x.data = DOMAIN InitialData[x.kind]
      <4>1. InitialData[x.kind] \in DataOf(x.kind) BY <3>1, InitialDataIsTyped
      <4> HIDE DEF x
      <4>2. \A k \in Kind : \A a \in DataOf(k), b \in DataOf(k) : DOMAIN a = DOMAIN b
        BY KindNames DEF DataOf
      <4> QED BY <3>1, <3>2, <4>1, <4>2
    <3>5. x.kind = "full_collect" => x.data.cursor \in 0 .. LastPage
      <4> SUFFICES ASSUME x.kind = "full_collect" PROVE x.data.cursor \in 0 .. LastPage OBVIOUS
      <4>1. x.data.cursor \in Nat BY <3>2, RoundDataFields
      <4>2. x.data.cursor <= LastPage BY <1>1 DEF CursorIn, RoundInRange
      <4> QED BY <4>1, <4>2, Limits
    <3> QED BY <2>3, <3>1, <3>2, <3>3, <3>4, <3>5
  <2> QED BY <2>2, <2>3
<1>3. db.row \in [Manga -> Row] BY <1>1, DatabaseFields
<1>4. \A m \in Manga : db.row[m].external => db.row[m].method = "torrent"
  BY <1>1 DEF RowsIn, RowsSound, RowSound
<1>5. \A p \in Proc : proc[p].w \in Workflow \cup { 0 } /\ proc[p].page <= BatchPages
  <2> SUFFICES ASSUME NEW p \in Proc
               PROVE  proc[p].w \in Workflow \cup { 0 } /\ proc[p].page <= BatchPages
    OBVIOUS
  <2>1. proc[p] \in Process BY <1>1
  <2>2. proc[p].w \in Workflow \cup { 0 } /\ proc[p].page \in 0 .. BatchPages
    BY <2>1 DEF Process
  <2> QED BY <2>2, Limits
<1>6. qbit \in [Manga -> SUBSET (Role \cup { Torrent })] BY <1>1 DEF QbitType, Torrent
<1> QED BY <1>2, <1>3, <1>4, <1>5, <1>6 DEF TypeOK

(***************************************************************************)
(* The types; among them that a round does not go past the end of its      *)
(* range: no second process of the attempt commits a page after the last.  *)
(***************************************************************************)
THEOREM TypeCorrect == Spec => []TypeOK
BY AlwaysKept, TypesOfAll, PTL

(***************************************************************************)
(* A torrent submitted by hand is never forgotten, whatever became of the  *)
(* submission's answer: provided, as for OneProcessWrites, that a job is   *)
(* released by hand only after its process has stopped.                    *)
(***************************************************************************)
THEOREM EverySubmissionIsRemembered ==
  ASSUME ReleaseOnlyStopped PROVE Spec => []SubmissionRemembered
<1> DEFINE I == AllKept /\ Alone /\ Submitting /\ AllOnRecord
<1>1. I /\ [Next]_vars => I'
  <2> SUFFICES ASSUME I, [Next]_vars PROVE I' OBVIOUS
  <2>1. Sound /\ TypeInv /\ RowsIn(db) BY DEF AllKept, Sound
  <2>2. AllKept' BY RowsStay
  <2>3. Alone' BY <2>1, NextMoves, AloneStays
  <2>4. Submitting' BY <2>1, SubmittingStays
  <2>5. AllOnRecord' BY <2>1, AllStayOnRecord
  <2> QED BY <2>2, <2>3, <2>4, <2>5
<1>2. Init => I
  <2>1. Init => \A p \in Proc : ~Busy(p) BY NoClaimIsTyped DEF Init, Busy
  <2>2. Init => Alone BY <2>1 DEF Alone
  <2> QED BY <2>2, RowsAtFirst
<1>3. I => SubmissionRemembered
  <2> SUFFICES ASSUME I, NEW m \in Manga, Torrent \in qbit[m]
               PROVE  \/ db.row[m].external
                      \/ \E w \in Workflow :
                           /\ db.wf[w].kind = "manual_torrent" /\ Active(db, w)
                           /\ m \in Bound(db.wf[w]) /\ db.wf[w].data.submission
    BY DEF SubmissionRemembered
  <2>1. OnRecord(db, m) BY DEF AllOnRecord
  <2> QED BY <2>1 DEF OnRecord, Remembers, Active
<1> HIDE DEF I
<1> QED BY <1>1, <1>2, <1>3, PTL DEF Spec
=============================================================================
