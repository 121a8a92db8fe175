-------------------------- MODULE Pipeline_proofs --------------------------
(***************************************************************************)
(* What is proved of Pipeline, for every list of torrents, every limit and *)
(* every bound: no finished file is ever written over, everything keeps    *)
(* its type, only whole copies come into the library, an archive counts as *)
(* uploaded only while it is there, a torrent is taken only with what it   *)
(* is objected to accepted, and no copy is lost.                           *)
(***************************************************************************)
EXTENDS Pipeline, ArchiveRow_proofs

\* The rows and processes are records of the fields the actions write.
Shaped ==
  /\ { "status", "method", "ext", "file", "gen", "sized", "hashed", "rename",
       "tries", "err", "lrr", "skipVideo", "review" } = DOMAIN row
  /\ { "pc", "op", "staged", "allowed", "chosen" } = DOMAIN proc

\* A name that was found free for a prepared archive is still free when the
\* archive gets it.
NameReserved == Working("prepare", "promote") => ~Has(PreparedFile)

\* H@H leaves a directory, and nothing else ever has its name.
HahInv == Has(HahDirectory) => disk[HahDirectory] = "dir"

\* The two names of a file hold the same, and no third name is one of them.
LinksInv ==
  /\ \A f \in links :
       /\ f \in DOMAIN disk /\ SecondName(f) \in DOMAIN disk
       /\ disk[SecondName(f)] = disk[f] /\ SecondName(f) # f
  /\ \A f, g \in links : SecondName(f) = SecondName(g) => f = g

FileInv == Shaped /\ NameReserved /\ HahInv /\ LinksInv

\* What a name holds stays the same.
KeepsFiles == \A f \in DOMAIN disk \cap DOMAIN disk' : disk'[f] = disk[f]
KeepsShare == \A n \in DOMAIN share \cap DOMAIN share' : share'[n] = share[n]

\* A new name on the disk changes no other.
LEMMA PutNew ==
  ASSUME LinksInv, NEW f, NEW c, f \notin DOMAIN disk, Put(f, c)
  PROVE  /\ KeepsFiles /\ LinksInv'
         /\ DOMAIN disk' = DOMAIN disk \cup { f }
         /\ disk'[f] = c
<1>1. /\ KeepsFiles /\ DOMAIN disk' = DOMAIN disk \cup { f } /\ disk'[f] = c
      /\ \A g \in DOMAIN disk : disk'[g] = disk[g]
      /\ links' = links
  BY DEF Put, With, KeepsFiles
<1> QED BY <1>1 DEF LinksInv, SecondName, NewName

\* Removing files changes none that is left.
LEMMA Dropped ==
  ASSUME LinksInv, NEW fs, Drop(fs)
  PROVE  KeepsFiles /\ LinksInv' /\ DOMAIN disk' = DOMAIN disk \ fs
<1>1. /\ DOMAIN disk' = DOMAIN disk \ fs
      /\ \A g \in DOMAIN disk' : disk'[g] = disk[g]
      /\ links' = links \ Linked(fs)
  BY DEF Drop, Without
<1>2. \A f \in links' : f \in links /\ f \notin fs /\ SecondName(f) \notin fs
  BY <1>1 DEF Linked
<1> QED BY <1>1, <1>2 DEF LinksInv, KeepsFiles, SecondName, NewName

\* A move to a free name changes no other.
LEMMA Moved ==
  ASSUME LinksInv, NEW f, NEW g, g \notin DOMAIN disk, Move(f, g)
  PROVE  /\ KeepsFiles /\ LinksInv'
         /\ DOMAIN disk' = (DOMAIN disk \ { f }) \cup { g }
<1>1. /\ DOMAIN disk' = (DOMAIN disk \ { f }) \cup { g }
      /\ \A h \in DOMAIN disk \ { f } : disk'[h] = disk[h]
      /\ links' = links \ Linked({ f })
  BY DEF Move, With, Without
<1>2. \A h \in links' : h \in links /\ h # f /\ SecondName(h) # f
  BY <1>1 DEF Linked
<1>3. LinksInv'
  BY <1>1, <1>2 DEF LinksInv, SecondName, NewName
<1> QED BY <1>1, <1>3 DEF KeepsFiles

\* The second name of a file has no second name of its own.
LEMMA NoThirdName == \A f : SecondName(SecondName(f)) = SecondName(f)
BY DEF SecondName

\* A second name that is free changes nothing else.
LEMMA LinkedNew ==
  ASSUME LinksInv, NEW f \in DOMAIN disk, SecondName(f) \notin DOMAIN disk,
         disk' = With(disk, SecondName(f), disk[f]), links' = links \cup { f }
  PROVE  /\ KeepsFiles /\ LinksInv'
         /\ DOMAIN disk' = DOMAIN disk \cup { SecondName(f) }
<1>1. /\ DOMAIN disk' = DOMAIN disk \cup { SecondName(f) }
      /\ \A g \in DOMAIN disk : disk'[g] = disk[g]
      /\ disk'[SecondName(f)] = disk[f]
  BY DEF With
<1>2. \A g \in links : SecondName(g) # SecondName(f)
  BY DEF LinksInv
<1>3. LinksInv'
  BY <1>1, <1>2 DEF LinksInv, SecondName, NewName
<1> QED BY <1>1, <1>3 DEF KeepsFiles

\* What is written into a file shows under both its names, and nowhere else.
LEMMA Rewritten ==
  ASSUME LinksInv, NEW f, NEW c, Rewrite(f, c)
  PROVE  /\ LinksInv'
         /\ DOMAIN disk' = DOMAIN disk \cup { f }
         /\ \A g \in DOMAIN disk : g \notin Names(f) => disk'[g] = disk[g]
<1>1. /\ DOMAIN disk' = DOMAIN disk \cup { f } /\ links' = links
      /\ \A g \in DOMAIN disk' : disk'[g] = IF g \in Names(f) THEN c ELSE disk[g]
  BY DEF Rewrite
<1>2. ASSUME NEW g \in links
      PROVE  g \in Names(f) <=> SecondName(g) \in Names(f)
  <2>1. SecondName(g) \notin links
    BY NoThirdName DEF LinksInv
  <2>2. \A h \in links : SecondName(h) # g
    BY <1>2, NoThirdName DEF LinksInv
  <2>3. g \in Names(f) <=> g = f \/ SecondName(g) = f
    BY <1>2, <2>2 DEF Names
  <2>4. SecondName(g) \in Names(f) <=> SecondName(g) = f \/ g = f
    BY <1>2, <2>1, <2>2 DEF Names, LinksInv
  <2> QED BY <2>3, <2>4
<1>3. LinksInv'
  <2>1. \A g \in links' : /\ g \in DOMAIN disk' /\ SecondName(g) \in DOMAIN disk'
                          /\ disk'[SecondName(g)] = disk'[g] /\ SecondName(g) # g
    BY <1>1, <1>2 DEF LinksInv
  <2> QED BY <1>1, <2>1 DEF LinksInv, SecondName, NewName
<1> QED BY <1>1, <1>3

\* Whatever ends an attempt frees the process and keeps the row's fields.
LEMMA Ends ==
  ASSUME NEW r, NEW event, NEW err, DOMAIN r = DOMAIN row, Finish(r, event, err)
  PROVE  proc' = Idle /\ DOMAIN row' = DOMAIN row
BY DEF Finish

\* A new name in the library's directory changes no other.
LEMMA Shared ==
  ASSUME NEW n, NEW c, n \notin DOMAIN share, share' = With(share, n, c)
  PROVE  KeepsShare
BY DEF With, KeepsShare

\* A step that leaves the disk alone, and does not start to promote.
LEMMA Quiet ==
  ASSUME FileInv, Shaped', UNCHANGED << disk, links >>,
         Working("prepare", "promote")' => Working("prepare", "promote") /\ row'.gen = row.gen
  PROVE  FileInv' /\ KeepsFiles
<1>1. NameReserved'
  BY DEF FileInv, NameReserved, PreparedFile, NextName, Has
<1>2. HahInv'
  BY DEF FileInv, HahInv, HahDirectory, Has
<1>3. KeepsFiles
  BY DEF KeepsFiles
<1>4. LinksInv'
  BY DEF FileInv, LinksInv, SecondName, NewName
<1> QED BY <1>1, <1>2, <1>3, <1>4 DEF FileInv

\* A step that adds no name to the disk but the given one, of another place than
\* H@H's, and leaves no process about to promote.
LEMMA Adds ==
  ASSUME FileInv, Shaped', LinksInv', KeepsFiles, NEW f, f # HahDirectory,
         DOMAIN disk' \subseteq DOMAIN disk \cup { f },
         ~Working("prepare", "promote")'
  PROVE  FileInv'
BY DEF FileInv, NameReserved, HahInv, HahDirectory, Has, KeepsFiles

\* A step that adds no name at all.
LEMMA Fewer ==
  ASSUME FileInv, Shaped', LinksInv', KeepsFiles, DOMAIN disk' \subseteq DOMAIN disk,
         ~Working("prepare", "promote")'
  PROVE  FileInv'
BY DEF FileInv, NameReserved, HahInv, HahDirectory, Has, KeepsFiles

\* An idle process does not promote.
LEMMA IdleWorksNot ==
  ASSUME proc' = Idle
  PROVE  ~Working("prepare", "promote")' /\ (Shaped => DOMAIN proc' = DOMAIN proc)
BY DEF Idle, Working, Shaped

\* A process that ends its attempt and leaves the disk alone.
LEMMA EndsQuietly ==
  ASSUME FileInv, NEW r, NEW event, NEW err, DOMAIN r = DOMAIN row,
         Finish(r, event, err), UNCHANGED << disk, links >>
  PROVE  FileInv' /\ KeepsFiles
<1>1. proc' = Idle /\ DOMAIN row' = DOMAIN row
  BY Ends
<1>2. Shaped' /\ ~Working("prepare", "promote")'
  BY <1>1, IdleWorksNot DEF FileInv, Shaped
<1> QED BY <1>2, Quiet

\* What every step does.
StepOK == FileInv' /\ (KeepsFiles \/ Damage \/ TorrentProgress) /\ KeepsShare

\* Collecting, screening and the Supervisor touch no file.
LEMMA DiscoveryStep ==
  ASSUME FileInv, Collect \/ Screen \/ CompleteCancellation
  PROVE  StepOK
<1>1. DOMAIN row' = DOMAIN row /\ UNCHANGED << proc, disk, links, share >> /\ row'.gen = row.gen
  BY DEF Collect, Screen, CompleteCancellation, FileInv, Shaped
<1>2. Shaped'
  BY <1>1 DEF FileInv, Shaped
<1>3. FileInv' /\ KeepsFiles
  BY <1>1, <1>2, Quiet DEF Working
<1> QED BY <1>1, <1>3 DEF StepOK, KeepsShare

\* The attempt ends, with a row that has all its fields.
Ended == \E r, event, err : DOMAIN r = DOMAIN row /\ Finish(r, event, err)

\* The error handler's ways out all end the attempt.
LEMMA WaysToEnd ==
  ASSUME NEW r, DOMAIN r = DOMAIN row, NEW fallback, Shaped,
         SystemRetry(r) \/ RetryOrReview(r) \/ LeaveTorrent(r, fallback)
  PROVE  Ended
BY DEF SystemRetry, RetryOrReview, LeaveTorrent, Ended

\* An attempt that ends without touching a file is harmless.
LEMMA EndedStep ==
  ASSUME FileInv, Ended, UNCHANGED << disk, links, share >>
  PROVE  StepOK
BY EndsQuietly DEF Ended, StepOK, KeepsShare

\* A process goes on to another step than the promotion of a prepared archive.
LEMMA GoesOnStep ==
  ASSUME FileInv, UNCHANGED << disk, links, share >>, DOMAIN row' = DOMAIN row,
         DOMAIN proc' = DOMAIN proc, ~Working("prepare", "promote")'
  PROVE  StepOK
<1>1. Shaped'
  BY DEF FileInv, Shaped
<1> QED BY <1>1, Quiet DEF StepOK, KeepsShare

\* Details, claims, pauses and crashes touch no file.
LEMMA StartStep ==
  ASSUME FileInv, FetchDetails \/ Claims \/ Pause \/ Crash
  PROVE  StepOK
<1> USE DEF FileInv, Shaped
<1>1. CASE FetchDetails
  <2>1. Ended /\ UNCHANGED << disk, links, share >>
    BY <1>1 DEF FetchDetails, Ended
  <2> QED BY <2>1, EndedStep
<1>2. CASE Claims
  BY <1>2, GoesOnStep DEF Claims, Claim, Idle, Working
<1>3. CASE Pause
  <2>1. Ended /\ UNCHANGED << disk, links, share >>
    BY <1>3 DEF Pause, SystemRetry, Ended
  <2> QED BY <2>1, EndedStep
<1>4. CASE Crash
  BY <1>4, GoesOnStep DEF Crash, Idle, Working
<1> QED BY <1>1, <1>2, <1>3, <1>4

(* Torrents.                                                               *)

\* What the torrent tasks do to the row; the files are qBittorrent's.
LEMMA TorrentStep ==
  ASSUME FileInv,
         \/ BeginTorrent \/ NoTorrentListed \/ SubmitFails \/ RecordTorrent
         \/ \E page \in Pages, missing \in SUBSET { "public", "private" } :
              Submit(page, missing)
         \/ CheckTorrent \/ FallbackTorrent
  PROVE  StepOK
<1> USE DEF FileInv, Shaped
<1>1. CASE BeginTorrent
  BY <1>1, GoesOnStep DEF BeginTorrent, Working
<1>2. CASE NoTorrentListed
  BY <1>2, EndedStep, WaysToEnd DEF NoTorrentListed
<1>3. CASE SubmitFails
  <2>1. Ended
    BY <1>3, WaysToEnd DEF SubmitFails, Ended
  <2> QED BY <1>3, <2>1, EndedStep DEF SubmitFails
<1>4. CASE RecordTorrent
  <2>1. Ended
    BY <1>4 DEF RecordTorrent, Ended
  <2> QED BY <1>4, <2>1, EndedStep DEF RecordTorrent
<1>5. ASSUME NEW page \in Pages, NEW missing \in SUBSET { "public", "private" },
             Submit(page, missing)
      PROVE  StepOK
  <2>1. UNCHANGED << disk, links, share >>
    BY <1>5 DEF Submit
  <2>2. \/ Ended
        \/ Working("torrent_download", "submit") /\ row' = row
           /\ DOMAIN proc' = DOMAIN proc /\ proc'.pc = "record"
    BY <1>5, WaysToEnd DEF Submit, Ended, Working
  <2>3. CASE Ended
    BY <2>1, <2>3, EndedStep
  <2>4. CASE /\ Working("torrent_download", "submit") /\ row' = row
             /\ DOMAIN proc' = DOMAIN proc /\ proc'.pc = "record"
    BY <2>1, <2>4, GoesOnStep DEF Working
  <2> QED BY <2>2, <2>3, <2>4
<1>6. CASE CheckTorrent
  <2>1. Ended /\ UNCHANGED << disk, links, share >>
    BY <1>6 DEF CheckTorrent, Ended, Registered
  <2> QED BY <2>1, EndedStep
<1>7. CASE FallbackTorrent
  BY <1>7, EndedStep, WaysToEnd DEF FallbackTorrent
<1> QED BY <1>1, <1>2, <1>3, <1>4, <1>5, <1>6, <1>7

\* A failed torrent takes its files with it.
LEMMA DropStep == ASSUME FileInv, DropTorrent PROVE StepOK
<1> USE DEF FileInv, Shaped
<1>1. CASE UNCHANGED << disk, links >>
  <2>1. Ended \/ (DOMAIN proc' = DOMAIN proc /\ proc'.pc = "fallback" /\ row' = row)
    BY DEF DropTorrent, Ended
  <2> QED BY <1>1, <2>1, EndedStep, GoesOnStep DEF DropTorrent, Working
<1>2. CASE ~UNCHANGED << disk, links >>
  <2>1. /\ Drop(Discarded)
        /\ DOMAIN proc' = DOMAIN proc /\ proc'.pc = "fallback"
        /\ UNCHANGED << row, share >>
    BY <1>2 DEF DropTorrent
  <2>2. KeepsFiles /\ LinksInv' /\ DOMAIN disk' \subseteq DOMAIN disk
    BY <2>1, Dropped
  <2>3. Shaped' /\ ~Working("prepare", "promote")'
    BY <2>1 DEF Working
  <2>4. FileInv'
    BY <2>2, <2>3, Fewer
  <2> QED BY <2>1, <2>2, <2>4 DEF StepOK, KeepsShare
<1> QED BY <1>1, <1>2

(* Direct and remote downloads.                                            *)

\* The steps of direct and remote downloads that promote nothing.
LEMMA DirectStep ==
  ASSUME FileInv,
         \/ RefuseDirect \/ TransferDirect \/ RegisterDirect \/ StartRemote
         \/ RecordRemote \/ PollHah \/ RegisterAria2 \/ ServiceDown \/ OrderUnanswered
  PROVE  StepOK
<1> USE DEF FileInv, Shaped
<1>1. CASE RefuseDirect \/ RegisterDirect \/ RecordRemote \/ PollHah \/ RegisterAria2
  <2>1. Ended /\ UNCHANGED << disk, links, share >>
    BY <1>1 DEF RefuseDirect, RegisterDirect, RecordRemote, PollHah, RegisterAria2,
                Registered, Ended
  <2> QED BY <2>1, EndedStep
<1>2. CASE ServiceDown \/ OrderUnanswered
  <2>1. Ended /\ UNCHANGED << disk, links, share >>
    BY <1>2, WaysToEnd DEF ServiceDown, OrderUnanswered
  <2> QED BY <2>1, EndedStep
<1>3. CASE TransferDirect \/ StartRemote
  <2>1. UNCHANGED << disk, links, share >>
    BY <1>3 DEF TransferDirect, StartRemote
  <2>2. \/ Ended
        \/ proc.op = "direct_download" /\ proc'.op = proc.op /\ DOMAIN proc' = DOMAIN proc
           /\ UNCHANGED row
    BY <1>3, WaysToEnd DEF TransferDirect, StartRemote, Ended, Working
  <2> QED BY <2>1, <2>2, EndedStep, GoesOnStep DEF Working
<1> QED BY <1>1, <1>2, <1>3

\* Files of other places than H@H's.
LEMMA OtherPlaces ==
  /\ FinalOfDirect # HahDirectory /\ FinalOfAria2 # HahDirectory
  /\ PreparedFile # HahDirectory
  /\ \A n : QuarantineFile(n) # HahDirectory
BY DEF FinalOfDirect, FinalOfAria2, PreparedFile, QuarantineFile, HahDirectory

\* Direct and aria2 downloads take a final name that is free.
LEMMA PromotionStep ==
  ASSUME FileInv, PromoteDirect \/ PollAria2
  PROVE  StepOK
<1> USE DEF FileInv, Shaped
<1>1. CASE UNCHANGED << disk, links >>
  <2>1. UNCHANGED share
    BY DEF PromoteDirect, PollAria2
  <2>2. Ended \/ (DOMAIN proc' = DOMAIN proc /\ proc'.pc = "register" /\ row' = row)
    BY DEF PromoteDirect, PollAria2, Ended
  <2> QED BY <1>1, <2>1, <2>2, EndedStep, GoesOnStep DEF Working
<1>2. CASE ~UNCHANGED << disk, links >>
  <2>1. \E f, c : /\ f \notin DOMAIN disk /\ f # HahDirectory /\ Put(f, c)
                  /\ DOMAIN proc' = DOMAIN proc /\ proc'.pc = "register"
                  /\ UNCHANGED << row, share >>
    BY <1>2, OtherPlaces DEF PromoteDirect, PollAria2, Has
  <2>2. PICK f, c : /\ f \notin DOMAIN disk /\ f # HahDirectory /\ Put(f, c)
                    /\ DOMAIN proc' = DOMAIN proc /\ proc'.pc = "register"
                    /\ UNCHANGED << row, share >>
    BY <2>1
  <2>3. KeepsFiles /\ LinksInv' /\ DOMAIN disk' \subseteq DOMAIN disk \cup { f }
    BY <2>2, PutNew
  <2>4. Shaped' /\ ~Working("prepare", "promote")'
    BY <2>2 DEF Working
  <2> QED BY <2>2, <2>3, <2>4, Adds DEF StepOK, KeepsShare
<1> QED BY <1>1, <1>2

\* Nothing is renamed to the name of H@H's directory ...
LEMMA RenamedElsewhere == \A f : SecondName(f) # HahDirectory
<1> SUFFICES ASSUME NEW f PROVE SecondName(f) # HahDirectory
  OBVIOUS
<1>1. NewName # GalleryName
  BY DEF NewName, GalleryName
<1>2. SecondName(f) = HahDirectory =>
        "name" \in DOMAIN SecondName(f) /\ SecondName(f).name = GalleryName
  BY DEF HahDirectory
<1>3. "name" \in DOMAIN SecondName(f) => SecondName(f).name = NewName
  BY DEF SecondName
<1> QED BY <1>1, <1>2, <1>3

\* ... and no file has it as a second name.
LEMMA HahHasOneName ==
  ASSUME FileInv, NEW f, f # HahDirectory, Held(f) # "dir"
  PROVE  HahDirectory \notin Names(f)
BY RenamedElsewhere DEF FileInv, HahInv, LinksInv, Names, Has, Held

\* qBittorrent may repair its own file; H@H's directory stays what it is.
LEMMA ServicesStep ==
  ASSUME FileInv, TorrentProgress \/ TorrentDisturbed \/ RemoteProgress
  PROVE  StepOK
<1> USE DEF FileInv, Shaped
<1>1. UNCHANGED << row, proc, share >>
  BY DEF TorrentProgress, TorrentDisturbed, RemoteProgress
<1>2. CASE UNCHANGED << disk, links >>
  BY <1>1, <1>2, Quiet DEF StepOK, KeepsShare, Working
<1>3. CASE ~UNCHANGED << disk, links >> /\ TorrentProgress
  <2>1. PICK c : Rewrite(TorrentFile, c) /\ ~Valid(TorrentFile)
    BY <1>3 DEF TorrentProgress
  <2>2. /\ LinksInv' /\ DOMAIN disk' = DOMAIN disk \cup { TorrentFile }
        /\ \A g \in DOMAIN disk : g \notin Names(TorrentFile) => disk'[g] = disk[g]
    BY <2>1, Rewritten
  <2>3. TorrentFile # HahDirectory /\ TorrentFile # PreparedFile
    BY DEF HahDirectory, PreparedFile, TorrentFile
  <2>4. NameReserved'
    BY <1>1, <2>2, <2>3 DEF NameReserved, Has, Working, PreparedFile, NextName
  <2>5. HahDirectory \notin Names(TorrentFile)
    BY <2>1, <2>3, HahHasOneName DEF Valid
  <2>6. HahInv'
    BY <2>2, <2>3, <2>5 DEF HahInv, Has, HahDirectory
  <2> QED BY <1>1, <1>3, <2>2, <2>4, <2>6 DEF StepOK, KeepsShare
<1>4. CASE ~UNCHANGED << disk, links >> /\ RemoteProgress
  <2>1. Put(HahDirectory, "dir")
    BY <1>4 DEF RemoteProgress
  <2>2. /\ DOMAIN disk' = DOMAIN disk \cup { HahDirectory }
        /\ disk'[HahDirectory] = "dir"
        /\ \A g \in DOMAIN disk : g # HahDirectory => disk'[g] = disk[g]
    BY <2>1 DEF Put, With
  <2>3. KeepsFiles
    BY <2>2 DEF HahInv, Has, KeepsFiles
  <2>4. NameReserved'
    BY <1>1, <2>2, OtherPlaces DEF NameReserved, Has, Working, PreparedFile, NextName
  <2>5. HahInv'
    BY <2>2 DEF HahInv, Has, HahDirectory
  <2>6. LinksInv'
    <3>1. links' = links /\ \A g \in DOMAIN disk : disk'[g] = disk[g]
      BY <2>1, <2>2 DEF Put, HahInv, Has
    <3> QED BY <2>2, <3>1 DEF LinksInv, SecondName, NewName
  <2> QED BY <1>1, <2>3, <2>4, <2>5, <2>6 DEF StepOK, KeepsShare
<1>5. CASE ~UNCHANGED << disk, links >> /\ TorrentDisturbed
  BY <1>5 DEF TorrentDisturbed
<1> QED BY <1>2, <1>3, <1>4, <1>5

(* Renaming, validation, quarantine, packing and cleanup.                  *)

\* A rename links a free name and unlinks the old one.
LEMMA RenamingStep ==
  ASSUME FileInv, BeginRename \/ UnlinkSource \/ BeginValidate \/ Validate \/ DiskDown
  PROVE  StepOK
<1> USE DEF FileInv, Shaped
<1>1. CASE BeginRename
  <2>1. CASE UNCHANGED << disk, links >>
    <3>1. \/ Ended
          \/ proc.op = "validate" /\ proc'.op = proc.op /\ DOMAIN proc' = DOMAIN proc
             /\ UNCHANGED row
      BY <1>1, <2>1 DEF BeginRename, Ended, Working
    <3> QED BY <1>1, <2>1, <3>1, EndedStep, GoesOnStep DEF BeginRename, Working
  <2>2. CASE ~UNCHANGED << disk, links >>
    <3>1. /\ row.file \in DOMAIN disk /\ Renamed \notin DOMAIN disk
          /\ disk' = With(disk, Renamed, disk[row.file]) /\ links' = links \cup { row.file }
          /\ DOMAIN proc' = DOMAIN proc /\ proc'.pc = "unlink" /\ UNCHANGED << row, share >>
      BY <1>1, <2>2 DEF BeginRename, IsFile, Held, Has
    <3>2. KeepsFiles /\ LinksInv' /\ DOMAIN disk' \subseteq DOMAIN disk \cup { Renamed }
      BY <3>1, LinkedNew DEF Renamed
    <3>3. Shaped' /\ ~Working("prepare", "promote")'
      BY <3>1 DEF Working
    <3>4. Renamed # HahDirectory
      BY RenamedElsewhere DEF Renamed
    <3> QED BY <3>1, <3>2, <3>3, <3>4, Adds DEF StepOK, KeepsShare
  <2> QED BY <2>1, <2>2
<1>2. CASE UnlinkSource
  <2>1. /\ KeepsFiles /\ LinksInv' /\ DOMAIN disk' \subseteq DOMAIN disk
        /\ DOMAIN proc' = DOMAIN proc /\ proc'.pc = "check" /\ UNCHANGED << row, share >>
    BY <1>2, Dropped DEF UnlinkSource
  <2>2. Shaped' /\ ~Working("prepare", "promote")'
    BY <2>1 DEF Working
  <2>3. FileInv'
    BY <2>1, <2>2, Fewer
  <2> QED BY <2>1, <2>3 DEF StepOK, KeepsShare
<1>3. CASE BeginValidate
  BY <1>3, GoesOnStep DEF BeginValidate, Working
<1>4. DOMAIN AfterRename = DOMAIN row
  BY DEF AfterRename
<1>5. CASE Validate
  <2>1. \/ Ended
        \/ proc'.pc = "quarantine" /\ DOMAIN proc' = DOMAIN proc /\ UNCHANGED row
    BY <1>4, <1>5 DEF Validate, Ended
  <2> QED BY <1>5, <2>1, EndedStep, GoesOnStep DEF Validate, Working
<1>6. CASE DiskDown
  <2>1. Ended
    BY <1>4, <1>6 DEF DiskDown, SystemRetry, Ended
  <2> QED BY <1>6, <2>1, EndedStep DEF DiskDown
<1> QED BY <1>1, <1>2, <1>3, <1>5, <1>6

\* Quarantine takes a number that is unused.
LEMMA QuarantineStep ==
  ASSUME FileInv, MoveToQuarantine \/ Quarantine
  PROVE  StepOK
<1> USE DEF FileInv, Shaped
<1>1. CASE MoveToQuarantine
  <2>1. PICK n :
             /\ Unused(n) /\ Move(AfterRename.file, QuarantineFile(n))
             /\ DOMAIN proc' = DOMAIN proc /\ proc'.pc = "quarantined"
             /\ UNCHANGED << row, share >>
    BY <1>1 DEF MoveToQuarantine
  <2>2. KeepsFiles /\ LinksInv' /\ DOMAIN disk' \subseteq DOMAIN disk \cup { QuarantineFile(n) }
    <3>1. QuarantineFile(n) \notin DOMAIN disk
      BY <2>1 DEF Unused, Has
    <3>2. /\ KeepsFiles /\ LinksInv'
          /\ DOMAIN disk' = (DOMAIN disk \ { AfterRename.file }) \cup { QuarantineFile(n) }
      BY <2>1, <3>1, Moved
    <3> QED BY <3>2
  <2>3. Shaped' /\ ~Working("prepare", "promote")'
    BY <2>1 DEF Working
  <2> QED BY <2>1, <2>2, <2>3, OtherPlaces, Adds DEF StepOK, KeepsShare
<1>2. CASE Quarantine
  <2>1. Ended /\ UNCHANGED << disk, links, share >>
    BY <1>2 DEF Quarantine, AfterRename, Ended
  <2> QED BY <2>1, EndedStep
<1> QED BY <1>1, <1>2

\* The name is found free before the archive is made, and reserved since.
LEMMA PackingStep ==
  ASSUME FileInv, Pack \/ PackFails \/ PromotePrepared \/ RegisterPrepared
  PROVE  StepOK
<1> USE DEF FileInv, Shaped
<1>1. CASE Pack
  <2>1. CASE Ended
    BY <1>1, <2>1, EndedStep DEF Pack
  <2>2. CASE ~Has(PreparedFile) /\ DOMAIN proc' = DOMAIN proc /\ UNCHANGED << row, disk, links, share >>
    <3>1. Shaped' /\ HahInv'
      BY <2>2 DEF HahInv, HahDirectory, Has
    <3>2. NameReserved'
      BY <2>2 DEF NameReserved, Has, PreparedFile, NextName
    <3>3. LinksInv'
      BY <2>2 DEF LinksInv, SecondName, NewName
    <3> QED BY <2>2, <3>1, <3>2, <3>3 DEF StepOK, KeepsFiles, KeepsShare
  <2> QED BY <1>1, <2>1, <2>2, WaysToEnd DEF Pack, Ended
<1>2. CASE PackFails \/ RegisterPrepared
  <2>1. Ended /\ UNCHANGED << disk, links, share >>
    BY <1>2, WaysToEnd DEF PackFails, RegisterPrepared, Ended
  <2> QED BY <2>1, EndedStep
<1>3. CASE PromotePrepared
  <2>1. /\ PreparedFile \notin DOMAIN disk /\ Put(PreparedFile, proc.staged)
        /\ DOMAIN proc' = DOMAIN proc /\ proc'.pc = "register" /\ UNCHANGED << row, share >>
    BY <1>3 DEF PromotePrepared, NameReserved, Has
  <2>2. KeepsFiles /\ LinksInv' /\ DOMAIN disk' \subseteq DOMAIN disk \cup { PreparedFile }
    BY <2>1, PutNew
  <2>3. Shaped' /\ ~Working("prepare", "promote")'
    BY <2>1 DEF Working
  <2> QED BY <2>1, <2>2, <2>3, OtherPlaces, Adds DEF StepOK, KeepsShare
<1> QED BY <1>1, <1>2, <1>3

\* Cleanup only removes.
LEMMA CleanupStep == ASSUME FileInv, Cleanup PROVE StepOK
<1> USE DEF FileInv, Shaped
<1>1. CASE CheckLibrary
  <2>1. Ended \/ (proc'.pc = "files" /\ DOMAIN proc' = DOMAIN proc /\ UNCHANGED row)
    BY <1>1 DEF CheckLibrary, Ended
  <2> QED BY <1>1, <2>1, EndedStep, GoesOnStep DEF CheckLibrary, Working
<1>2. CASE CleanupFails
  <2>1. Ended
    BY <1>2, WaysToEnd DEF CleanupFails
  <2> QED BY <1>2, <2>1, EndedStep DEF CleanupFails
<1>3. CASE RemoveFiles
  <2>1. DOMAIN proc' = DOMAIN proc /\ proc'.pc = "detach" /\ UNCHANGED << row, share >>
    BY <1>3 DEF RemoveFiles
  <2>2. (\E fs : Drop(fs)) \/ UNCHANGED << disk, links >>
    BY <1>3 DEF RemoveFiles
  <2>3. KeepsFiles /\ LinksInv' /\ DOMAIN disk' \subseteq DOMAIN disk
    <3>1. CASE \E fs : Drop(fs)
      BY <3>1, Dropped
    <3>2. CASE UNCHANGED << disk, links >>
      BY <3>2 DEF KeepsFiles, LinksInv, SecondName, NewName
    <3> QED BY <2>2, <3>1, <3>2
  <2>4. Shaped' /\ ~Working("prepare", "promote")'
    BY <2>1 DEF Working
  <2>5. FileInv'
    BY <2>3, <2>4, Fewer
  <2> QED BY <2>1, <2>3, <2>5 DEF StepOK, KeepsShare
<1>4. CASE EndCleanup
  <2>1. Ended /\ UNCHANGED << disk, links, share >>
    BY <1>4 DEF EndCleanup, Ended
  <2> QED BY <2>1, EndedStep
<1> QED BY <1>1, <1>2, <1>3, <1>4 DEF Cleanup

(* Uploading.                                                              *)

\* The steps of an upload that put nothing into the library's directory.
LEMMA UploadStep ==
  ASSUME FileInv,
         \/ \E backend \in Backends : BeginUpload(backend)
         \/ UploadFails \/ TransferFile \/ ShareDown \/ AwaitImport \/ Confirm
  PROVE  StepOK
<1> USE DEF FileInv, Shaped
<1>1. UNCHANGED << disk, links, share >>
  BY DEF BeginUpload, UploadFails, TransferFile, ShareDown, AwaitImport, Confirm
<1>2. \/ Ended
      \/ proc.op = "upload" /\ proc'.op = proc.op /\ DOMAIN proc' = DOMAIN proc
         /\ UNCHANGED row
  <2>1. ASSUME NEW backend \in Backends, BeginUpload(backend)
        PROVE  \/ Ended
               \/ proc.op = "upload" /\ proc'.op = proc.op /\ DOMAIN proc' = DOMAIN proc
                  /\ UNCHANGED row
    BY <2>1 DEF BeginUpload, Revalidate, RevalidateAfterError, Working, Ended
  <2>2. CASE UploadFails \/ ShareDown
    BY <2>2 DEF UploadFails, ShareDown, SystemRetry, Ended
  <2>3. CASE TransferFile \/ AwaitImport
    BY <2>3 DEF TransferFile, AwaitImport, Working, Ended
  <2>4. CASE Confirm
    BY <2>4 DEF Confirm, Ended
  <2> QED BY <2>1, <2>2, <2>3, <2>4
<1> QED BY <1>1, <1>2, EndedStep, GoesOnStep DEF Working

\* What is put into the library's directory gets a name that is free.
LEMMA PublishStep ==
  ASSUME FileInv, PutArchive \/ PutUnanswered \/ Publish
  PROVE  StepOK
<1> USE DEF FileInv, Shaped
<1>1. UNCHANGED << disk, links >>
  BY DEF PutArchive, PutUnanswered, Publish
<1>2. KeepsShare
  <2>1. \/ UNCHANGED share
        \/ \E c : OwnName \notin DOMAIN share /\ share' = With(share, OwnName, c)
    BY DEF PutArchive, PutUnanswered, Publish
  <2> QED BY <2>1, Shared DEF KeepsShare
<1>3. \/ Ended
      \/ proc.op = "upload" /\ proc'.op = proc.op /\ DOMAIN proc' = DOMAIN proc
         /\ UNCHANGED row
  BY DEF PutArchive, PutUnanswered, Publish, RevalidateAfterError, Working, Ended
<1>4. FileInv' /\ KeepsFiles
  <2>1. CASE Ended
    BY <1>1, <2>1, EndsQuietly DEF Ended
  <2>2. CASE proc.op = "upload" /\ proc'.op = proc.op /\ DOMAIN proc' = DOMAIN proc
             /\ UNCHANGED row
    BY <1>1, <2>2, Quiet DEF Working
  <2> QED BY <1>3, <2>1, <2>2
<1> QED BY <1>2, <1>4 DEF StepOK

\* The library, and others who use its directory.
LEMMA LibraryStep ==
  ASSUME FileInv, ShinobuImport \/ NameTaken \/ LibraryForgets
  PROVE  StepOK
<1> USE DEF FileInv, Shaped
<1>1. UNCHANGED << row, proc, disk, links >>
  BY DEF ShinobuImport, NameTaken, LibraryForgets
<1>2. KeepsShare
  BY Shared DEF ShinobuImport, NameTaken, LibraryForgets, Without, KeepsShare
<1> QED BY <1>1, <1>2, Quiet DEF StepOK, Working

(* Persons, and the damage the disk does.                                  *)

\* No decision of a person touches a file.
LEMMA PersonStep == ASSUME FileInv, Person PROVE StepOK
<1> USE DEF FileInv, Shaped
<1>1. CASE ReleaseExpiredLease
  BY <1>1, GoesOnStep, IdleWorksNot DEF ReleaseExpiredLease
<1>2. CASE /\ UNCHANGED << proc, disk, links, share >>
           /\ DOMAIN row' = DOMAIN row /\ row'.gen = row.gen
  BY <1>2, Quiet DEF StepOK, KeepsShare, Working
<1>3. ASSUME NEW action \in DOMAIN WebActionEvent, Act(action)
      PROVE  /\ UNCHANGED << proc, disk, links, share >>
             /\ DOMAIN row' = DOMAIN row /\ row'.gen = row.gen
  BY <1>3 DEF Act, Inside
<1>4. ASSUME NEW target, OverrideStatus(target)
      PROVE  /\ UNCHANGED << proc, disk, links, share >>
             /\ DOMAIN row' = DOMAIN row /\ row'.gen = row.gen
  BY <1>4 DEF OverrideStatus, Inside
<1>5. ASSUME NEW warnings, ConfirmWarnings(warnings)
      PROVE  /\ UNCHANGED << proc, disk, links, share >>
             /\ DOMAIN row' = DOMAIN row /\ row'.gen = row.gen
  BY <1>5 DEF ConfirmWarnings, Inside
<1>6. ASSUME NEW allow, SetPermission(allow)
      PROVE  /\ UNCHANGED << proc, disk, links, share >>
             /\ DOMAIN row' = DOMAIN row /\ row'.gen = row.gen
  BY <1>6 DEF SetPermission, Inside
<1>7. ASSUME RequestRename \/ SkipVideo \/ RevokeWarnings
      PROVE  /\ UNCHANGED << proc, disk, links, share >>
             /\ DOMAIN row' = DOMAIN row /\ row'.gen = row.gen
  BY <1>7 DEF RequestRename, SkipVideo, RevokeWarnings, Inside
<1> QED BY <1>1, <1>2, <1>3, <1>4, <1>5, <1>6, <1>7 DEF Person

\* Damage changes what a name holds, never the names.
LEMMA DamageStep == ASSUME FileInv, Damage PROVE StepOK
<1> USE DEF FileInv, Shaped
<1>1. PICK c : Rewrite(row.file, c) /\ Held(row.file) = "zip"
  BY DEF Damage
<1>2. UNCHANGED << row, proc, share >>
  BY DEF Damage
<1>3. row.file \in DOMAIN disk
  BY <1>1 DEF Held, Has
<1>4. /\ LinksInv' /\ DOMAIN disk' = DOMAIN disk
      /\ \A g \in DOMAIN disk : g \notin Names(row.file) => disk'[g] = disk[g]
  <2>1. /\ LinksInv' /\ DOMAIN disk' = DOMAIN disk \cup { row.file }
        /\ \A g \in DOMAIN disk : g \notin Names(row.file) => disk'[g] = disk[g]
    BY <1>1, Rewritten
  <2> QED BY <1>3, <2>1
<1>5. Shaped' /\ NameReserved'
  BY <1>2, <1>4 DEF NameReserved, Has, Working, PreparedFile, NextName
<1>6. HahInv'
  <2> SUFFICES ASSUME Has(HahDirectory)
               PROVE  disk'[HahDirectory] = "dir"
    BY <1>4 DEF HahInv, Has, HahDirectory
  <2>1. row.file # HahDirectory
    BY <1>1 DEF Held, HahInv
  <2>2. HahDirectory \notin Names(row.file)
    BY <1>1, <2>1, HahHasOneName
  <2> QED BY <1>4, <2>2 DEF HahInv, Has
<1> QED BY <1>2, <1>4, <1>5, <1>6 DEF StepOK, KeepsShare

(***************************************************************************)
(* Every step keeps the invariant, and what files hold.                    *)
(***************************************************************************)
LEMMA NextStep == ASSUME FileInv, [Next]_vars PROVE StepOK
<1>1. CASE UNCHANGED vars
  BY <1>1, Quiet DEF vars, FileInv, Shaped, StepOK, KeepsShare, Working
<1>2. CASE Next
  BY <1>2, DiscoveryStep, StartStep, TorrentStep, DropStep, DirectStep, PromotionStep,
     ServicesStep, RenamingStep, QuarantineStep, PackingStep, CleanupStep, UploadStep,
     PublishStep, LibraryStep, PersonStep, DamageStep
     DEF Next, Work, Download, Prepare, Upload, Outage, World
<1> QED BY <1>1, <1>2

(***************************************************************************)
(* The invariant behind WriteOnce: the name a prepared archive will get is *)
(* looked up when packing starts and used when it ends (zipper.py), and no *)
(* step of anybody takes it in between; H@H's directory has a name of its  *)
(* own.                                                                    *)
(***************************************************************************)
THEOREM FilesSound == Spec => []FileInv
<1>1. Init => FileInv
  BY DEF Init, FileInv, Shaped, NameReserved, HahInv, LinksInv, Idle, Working, Has
<1>2. FileInv /\ [Next]_vars => FileInv'
  BY NextStep DEF StepOK
<1> QED BY <1>1, <1>2, PTL DEF Spec

(***************************************************************************)
(* No operation writes over a finished file, on disk or in the library's   *)
(* directory, whatever crashes, outages and persons come between the look  *)
(* at a name and its use (the promotions of runner.py, zipper.py, the      *)
(* renames and quarantine of validator/artifact.py, and the uploaders).    *)
(***************************************************************************)
THEOREM NothingOverwritten == Spec => WriteOnce
<1>1. FileInv /\ [Next]_vars
        => [ /\ \A f \in DOMAIN disk \cap DOMAIN disk' :
                  disk'[f] = disk[f] \/ Damage \/ TorrentProgress
             /\ \A n \in DOMAIN share \cap DOMAIN share' : share'[n] = share[n] ]_vars
  BY NextStep DEF StepOK, KeepsFiles, KeepsShare
<1> QED BY <1>1, FilesSound, PTL DEF Spec, WriteOnce

----------------------------------------------------------------------------
(***************************************************************************)
(* The types.  What a process made of a download is a whole archive until  *)
(* it has its name, and who renames a file has one.                        *)
(***************************************************************************)
AtWork ==
  /\ proc.pc = "promote" => proc.staged = "zip"
  /\ proc.op = "validate" /\ proc.pc \in { "unlink", "check", "quarantine", "quarantined" }
       /\ row.rename => row.file \in File

DiskTyped == DOMAIN disk \subseteq File /\ \A f \in DOMAIN disk : disk[f] \in Content

\* Everything but the row and its process.
WorldTyped ==
  /\ DiskTyped
  /\ torrent \in { "absent", "downloading", "complete", "stalled", "failed", "error" }
  /\ remote \in { "none", "active", "done", "failed", "taken" }
  /\ DOMAIN share \subseteq Name
  /\ \A n \in DOMAIN share : share[n] \in { "zip", "cut", "rot", "other" }
  /\ index \in Name \cup { Unknown }
  /\ faults \in 0 .. MaxFault /\ visits \in 0 .. MaxVisit
  /\ witness \in Witness

TypesInv == row \in Row /\ proc \in Process /\ AtWork /\ WorldTyped

\* Names of every kind are names.
LEMMA NamesTyped ==
  /\ GalleryName \in Name /\ NewName \in Name /\ \A n \in Nat : n \in Name
  /\ \A f \in File : SecondName(f) \in File
  /\ SecondName(NoFile).name \in Name /\ \A f \in File \cup { NoFile } : f.name \in Name
BY DEF GalleryName, NewName, Name, File, NoFile, SecondName

\* The files of every place that the tasks use are files.
LEMMA PlacesTyped ==
  ASSUME row \in Row
  PROVE  /\ NextName \in Nat
         /\ TorrentFile \in File /\ FinalOfDirect \in File /\ HahDirectory \in File
         /\ FinalOfAria2 \in File /\ PreparedFile \in File
         /\ \A n \in Nat : QuarantineFile(n) \in File
BY NamesTyped DEF Row, NextName, TorrentFile, FinalOfDirect, HahDirectory, FinalOfAria2,
     PreparedFile, QuarantineFile, File, Location

\* An attempt ends with a row of the right shape.
EndsTyped ==
  \E r \in Row : \E event : \E err \in Error : Finish(r, event, err)

LEMMA IdleTyped == Idle \in Process
BY DEF Idle, Process, Step, NoChosen

LEMMA EndedTyped ==
  ASSUME EndsTyped
  PROVE  row' \in Row /\ proc' \in Process /\ AtWork'
<1>1. PICK r \in Row : \E event : \E err \in Error : Finish(r, event, err)
  BY DEF EndsTyped
<1>2. PICK event : \E err \in Error : Finish(r, event, err)
  BY <1>1
<1>3. PICK err \in Error : Finish(r, event, err)
  BY <1>2
<1>4. EndStatus(r, event) \in Status
  <2>1. r.status \in Status
    BY DEF Row
  <2> QED BY <2>1, TransitionTyped DEF EndStatus, Status
<1>5. PICK told \in Error :
        row' = [r EXCEPT !.status = EndStatus(r, event), !.err = told,
                         !.tries = IF told = "none" THEN 0 ELSE @]
  BY <1>3 DEF Finish, Error
<1>6. row' \in Row
  <2>1. PICK tries \in 0 .. RetryLimit :
          row' = [r EXCEPT !.status = EndStatus(r, event), !.err = told, !.tries = tries]
    <3>1. (IF told = "none" THEN 0 ELSE r.tries) \in 0 .. RetryLimit
      BY BoundAssumption DEF Row
    <3> QED BY <1>5, <3>1
  <2> QED BY <1>4, <2>1 DEF Row
<1>7. proc' = Idle
  BY <1>3 DEF Finish
<1>8. AtWork'
  BY <1>7 DEF AtWork, Idle
<1> QED BY <1>6, <1>7, <1>8, IdleTyped

\* The error handler's ways out.
LEMMA RetriesTyped ==
  ASSUME NEW r \in Row, SystemRetry(r) \/ RetryOrReview(r)
  PROVE  EndsTyped
BY DEF SystemRetry, RetryOrReview, EndsTyped, Error

LEMMA LeavesTyped ==
  ASSUME NEW r \in Row, NEW fallback \in Fallbacks, LeaveTorrent(r, fallback)
  PROVE  EndsTyped
<1>1. CASE fallback = "none"
  <2>1. [r EXCEPT !.method = "unset", !.ext = FALSE] \in Row
    BY DEF Row, Method
  <2> QED BY <1>1, <2>1 DEF LeaveTorrent, EndsTyped, Error
<1>2. CASE fallback # "none"
  <2>1. [r EXCEPT !.method = fallback] \in Row
    BY <1>2, FallbackAssumption DEF Row, Method
  <2> QED BY <1>2, <2>1 DEF LeaveTorrent, EndsTyped, Error
<1> QED BY <1>1, <1>2

\* An attempt that goes on.
GoesOnTyped == row' \in Row /\ proc' \in Process /\ AtWork'

LEMMA StepTyped ==
  ASSUME WorldTyped', EndsTyped \/ GoesOnTyped
  PROVE  TypesInv'
BY EndedTyped DEF GoesOnTyped, TypesInv

LEMMA FaultTyped ==
  ASSUME TypesInv, Fault
  PROVE  faults' \in 0 .. MaxFault
BY BoundAssumption DEF TypesInv, WorldTyped, Fault

LEMMA VisitTyped ==
  ASSUME TypesInv, Visit
  PROVE  visits' \in 0 .. MaxVisit
BY BoundAssumption DEF TypesInv, WorldTyped, Visit

\* A process that goes on to a step where it owes nothing.
LEMMA Proceeds ==
  ASSUME TypesInv, row' = row, NEW pc \in Step, proc' = [proc EXCEPT !.pc = pc],
         pc \notin { "promote", "unlink", "check", "quarantine", "quarantined" }
  PROVE  GoesOnTyped
<1>1. proc' \in Process /\ proc'.pc = pc
  BY DEF TypesInv, Process
<1> QED BY <1>1 DEF TypesInv, AtWork, GoesOnTyped

----------------------------------------------------------------------------
\* Collecting, screening, cancelling and claiming.
LEMMA QueueTyped ==
  ASSUME TypesInv, Collect \/ Screen \/ CompleteCancellation \/ Claims \/ FetchDetails
  PROVE  TypesInv'
<1> USE DEF TypesInv
<1>1. WorldTyped'
  BY DEF Collect, Screen, CompleteCancellation, Claims, Claim, FetchDetails, WorldTyped, DiskTyped
<1>2. CASE Collect \/ CompleteCancellation
  <2>1. [row EXCEPT !.status = "discovered"] \in Row
    BY DEF Row, Status
  <2>2. /\ [row EXCEPT !.status = "manual_review", !.err = "other"] \in Row
        /\ [row EXCEPT !.status = "cancelled"] \in Row
    BY DEF Row, Status, Error
  <2>3. row' \in Row /\ row'.rename = row.rename /\ row'.file = row.file
    BY <1>2, <2>1, <2>2 DEF Collect, CompleteCancellation, Row
  <2> QED BY <1>1, <1>2, <2>3 DEF Collect, CompleteCancellation, AtWork
<1>3. CASE Screen
  <2>1. \A own, rivals : \A action \in ScreenAction, named \in BOOLEAN :
          ScreenOutcome(action, named, own, rivals) \in Status
    BY DEF ScreenAction, ScreenOutcome, Status
  <2>2. PICK to \in Status : row' = [row EXCEPT !.status = to]
    BY <1>3, <2>1 DEF Screen
  <2>3. row' \in Row /\ row'.rename = row.rename /\ row'.file = row.file
    BY <2>2 DEF Row
  <2> QED BY <1>1, <1>3, <2>3 DEF Screen, AtWork
<1>4. ASSUME NEW op \in Operation, Claim(op) PROVE TypesInv'
  <2>1. PICK to \in Status, tries \in 0 .. RetryLimit :
          row' = [row EXCEPT !.status = to, !.tries = tries]
    <3>1. ExecutionState(op, row.status) \in Status
      BY ExecutionStateTyped DEF Row
    <3>2. (IF row.tries < RetryLimit THEN row.tries + 1 ELSE row.tries) \in 0 .. RetryLimit
      BY BoundAssumption DEF Row
    <3> QED BY <1>4, <3>1, <3>2 DEF Claim
  <2>2. row' \in Row
    BY <2>1 DEF Row
  <2>3. proc' \in Process /\ proc'.pc = "start"
    BY <1>4 DEF Claim, Idle, Process, Step, NoChosen
  <2> QED BY <1>1, <2>2, <2>3 DEF AtWork
<1>5. CASE FetchDetails
  <2>1. ASSUME NEW fallback \in Fallbacks
        PROVE  /\ [row EXCEPT !.method = "unset", !.ext = FALSE] \in Row
               /\ fallback # "none" => [row EXCEPT !.method = fallback] \in Row
    BY FallbackAssumption DEF Row, Method
  <2>2. EndsTyped
    BY <1>5, <2>1 DEF FetchDetails, EndsTyped, Error
  <2> QED BY <1>1, <2>2, StepTyped
<1> QED BY <1>2, <1>3, <1>4, <1>5 DEF Claims

\* Pauses and crashes.
LEMMA StopTyped ==
  ASSUME TypesInv, Pause \/ Crash
  PROVE  TypesInv'
<1> USE DEF TypesInv
<1>1. WorldTyped'
  BY FaultTyped DEF Pause, Crash, WorldTyped, DiskTyped
<1>2. CASE Pause
  <2>1. [row EXCEPT !.tries = IF @ = 0 THEN 0 ELSE @ - 1] \in Row
    <3>1. (IF row.tries = 0 THEN 0 ELSE row.tries - 1) \in 0 .. RetryLimit
      BY BoundAssumption DEF Row
    <3> QED BY <3>1 DEF Row
  <2>2. EndsTyped
    BY <1>2, <2>1, RetriesTyped DEF Pause, EndsTyped, Error
  <2> QED BY <1>1, <2>2, StepTyped
<1>3. CASE Crash
  <2>1. proc' \in Process /\ proc'.pc = "dead" /\ row' = row
    BY <1>3 DEF Crash, Idle, Process, Step, NoChosen
  <2> QED BY <1>1, <2>1 DEF AtWork
<1> QED BY <1>2, <1>3

\* What a finished download is registered as, and the warnings a list has.
LEMMA RegisteredTyped ==
  ASSUME row \in Row, NEW f \in File, NEW c
  PROVE  Registered(f, c) \in Row
BY PlacesTyped DEF Registered, Row, NextName

LEMMA KeptTyped ==
  ASSUME witness \in Witness, NEW f
  PROVE  Kept(f) \in Witness
BY DEF Kept, Witness, Valid

\* Torrents, once one is chosen.
LEMMA TorrentTyped ==
  ASSUME TypesInv,
         \/ BeginTorrent \/ NoTorrentListed \/ SubmitFails \/ RecordTorrent
         \/ CheckTorrent \/ FallbackTorrent
  PROVE  TypesInv'
<1> USE DEF TypesInv
<1>1. CASE BeginTorrent
  <2>1. row' \in Row /\ proc' \in Process /\ proc'.pc = "submit"
    BY <1>1 DEF BeginTorrent, Row, Process, Step
  <2>2. WorldTyped'
    BY <1>1 DEF BeginTorrent, WorldTyped, DiskTyped, Witness
  <2> QED BY <2>1, <2>2 DEF AtWork
<1>2. CASE NoTorrentListed \/ FallbackTorrent
  <2>1. WorldTyped'
    BY <1>2 DEF NoTorrentListed, FallbackTorrent, WorldTyped, DiskTyped
  <2>2. [row EXCEPT !.ext = FALSE] \in Row
    BY DEF Row
  <2>3. EndsTyped
    BY <1>2, <2>2, LeavesTyped DEF NoTorrentListed, FallbackTorrent
  <2> QED BY <2>1, <2>3, StepTyped
<1>3. CASE SubmitFails
  <2>1. WorldTyped'
    BY <1>3, FaultTyped DEF SubmitFails, WorldTyped, DiskTyped
  <2>2. EndsTyped
    BY <1>3, RetriesTyped DEF SubmitFails, EndsTyped, Error, TorrentError
  <2> QED BY <2>1, <2>2, StepTyped
<1>4. CASE RecordTorrent
  <2>1. WorldTyped'
    BY <1>4 DEF RecordTorrent, WorldTyped, DiskTyped
  <2>2. [row EXCEPT !.method = "torrent", !.ext = TRUE] \in Row
    BY DEF Row, Method
  <2>3. EndsTyped
    BY <1>4, <2>2 DEF RecordTorrent, EndsTyped, Error
  <2> QED BY <2>1, <2>3, StepTyped
<1>5. CASE CheckTorrent
  <2>1. WorldTyped'
    BY <1>5, KeptTyped DEF CheckTorrent, WorldTyped, DiskTyped
  <2>2. /\ [row EXCEPT !.ext = FALSE] \in Row
        /\ Registered(TorrentFile, disk[TorrentFile]) \in Row
    BY RegisteredTyped, PlacesTyped DEF Row
  <2>3. EndsTyped
    BY <1>5, <2>2 DEF CheckTorrent, EndsTyped, Error
  <2> QED BY <2>1, <2>3, StepTyped
<1> QED BY <1>1, <1>2, <1>3, <1>4, <1>5

----------------------------------------------------------------------------
\* What the helpers make of files are files.
LEMMA FilesTyped ==
  ASSUME DiskTyped, NEW f \in File, NEW c \in Content, Put(f, c) \/ Rewrite(f, c)
  PROVE  DiskTyped'
<1>1. CASE Put(f, c)
  BY <1>1 DEF DiskTyped, Put, With
<1>2. CASE Rewrite(f, c)
  <2>1. DOMAIN disk' = DOMAIN disk \cup { f }
    BY <1>2 DEF Rewrite
  <2>2. \A g \in DOMAIN disk' : disk'[g] = c \/ (g \in DOMAIN disk /\ disk'[g] = disk[g])
    <3>1. f \in Names(f)
      BY DEF Names
    <3> QED BY <1>2, <3>1 DEF Rewrite
  <2> QED BY <2>1, <2>2 DEF DiskTyped
<1> QED BY <1>1, <1>2

LEMMA FewerFilesTyped ==
  ASSUME DiskTyped, NEW fs, Drop(fs)
  PROVE  DiskTyped'
BY DEF DiskTyped, Without, Drop

LEMMA MovedTyped ==
  ASSUME DiskTyped, NEW f \in DOMAIN disk, NEW g \in File, Move(f, g)
  PROVE  DiskTyped'
BY DEF DiskTyped, With, Without, Move

\* A failed torrent takes its files with it.
LEMMA DropTorrentTyped == ASSUME TypesInv, DropTorrent PROVE TypesInv'
<1> USE DEF TypesInv
<1>1. WorldTyped'
  <2>1. DiskTyped'
    BY FewerFilesTyped DEF DropTorrent, WorldTyped, DiskTyped
  <2>2. witness' \in Witness
    BY DEF DropTorrent, WorldTyped, Witness
  <2>3. torrent' \in { "absent", "downloading", "complete", "stalled", "failed", "error" }
    BY DEF DropTorrent, WorldTyped
  <2> QED BY <2>1, <2>2, <2>3 DEF DropTorrent, WorldTyped
<1>2. \/ EndsTyped
      \/ row' = row /\ proc' = [proc EXCEPT !.pc = "fallback"]
  BY DEF DropTorrent, EndsTyped, Error
<1>3. CASE row' = row /\ proc' = [proc EXCEPT !.pc = "fallback"]
  <2>1. GoesOnTyped
    BY <1>3, Proceeds DEF Step
  <2> QED BY <1>1, <2>1, StepTyped
<1> QED BY <1>1, <1>2, <1>3, StepTyped

\* Direct and remote downloads.
LEMMA DirectTyped ==
  ASSUME TypesInv,
         \/ RefuseDirect \/ TransferDirect \/ RegisterDirect \/ StartRemote
         \/ RecordRemote \/ PollHah \/ RegisterAria2 \/ ServiceDown \/ OrderUnanswered
  PROVE  TypesInv'
<1> USE DEF TypesInv
<1>1. CASE RefuseDirect \/ RecordRemote
  <2>1. WorldTyped'
    BY <1>1 DEF RefuseDirect, RecordRemote, WorldTyped, DiskTyped
  <2>2. /\ [row EXCEPT !.method = "unset", !.ext = FALSE] \in Row
        /\ [row EXCEPT !.ext = TRUE] \in Row
    BY DEF Row, Method
  <2>3. EndsTyped
    BY <1>1, <2>2 DEF RefuseDirect, RecordRemote, EndsTyped, Error
  <2> QED BY <2>1, <2>3, StepTyped
<1>2. CASE RegisterDirect \/ PollHah \/ RegisterAria2
  <2>1. WorldTyped'
    BY <1>2, KeptTyped DEF RegisterDirect, PollHah, RegisterAria2, WorldTyped, DiskTyped
  <2>2. /\ Registered(FinalOfDirect, "zip") \in Row
        /\ Registered(HahDirectory, "dir") \in Row
        /\ Registered(FinalOfAria2, "zip") \in Row
    BY RegisteredTyped, PlacesTyped
  <2>3. EndsTyped
    BY <1>2, <2>2 DEF RegisterDirect, PollHah, RegisterAria2, EndsTyped, Error
  <2> QED BY <2>1, <2>3, StepTyped
<1>3. CASE ServiceDown \/ OrderUnanswered
  <2>1. WorldTyped'
    BY <1>3, FaultTyped DEF ServiceDown, OrderUnanswered, WorldTyped, DiskTyped
  <2>2. EndsTyped
    BY <1>3, RetriesTyped DEF ServiceDown, OrderUnanswered
  <2> QED BY <2>1, <2>2, StepTyped
<1>4. CASE TransferDirect
  <2>1. WorldTyped'
    BY <1>4 DEF TransferDirect, WorldTyped, DiskTyped
  <2>2. \/ EndsTyped
        \/ row' = row /\ proc' = [proc EXCEPT !.pc = "promote", !.staged = "zip"]
    BY <1>4, RetriesTyped DEF TransferDirect, EndsTyped, Error
  <2>3. ASSUME row' = row, proc' = [proc EXCEPT !.pc = "promote", !.staged = "zip"]
        PROVE  GoesOnTyped
    <3>1. proc' \in Process /\ proc'.pc = "promote" /\ proc'.staged = "zip"
      BY <2>3 DEF Process, Step, Content
    <3> QED BY <2>3, <3>1 DEF GoesOnTyped, AtWork
  <2> QED BY <2>1, <2>2, <2>3, StepTyped
<1>5. CASE StartRemote
  <2>1. WorldTyped'
    BY <1>5 DEF StartRemote, WorldTyped, DiskTyped
  <2>2. \/ EndsTyped
        \/ row' = row /\ proc' = [proc EXCEPT !.pc = "record"]
    BY <1>5, RetriesTyped DEF StartRemote, EndsTyped, Error
  <2> QED BY <2>1, <2>2, StepTyped, Proceeds DEF Step
<1> QED BY <1>1, <1>2, <1>3, <1>4, <1>5

\* Direct and aria2 downloads put an archive under its name.
LEMMA PromotionTyped ==
  ASSUME TypesInv, PromoteDirect \/ PollAria2 \/ PromotePrepared
  PROVE  TypesInv'
<1> USE DEF TypesInv
<1>1. CASE PromoteDirect
  <2>1. proc.staged = "zip"
    BY <1>1 DEF PromoteDirect, Working, AtWork
  <2>2. DiskTyped'
    BY <1>1, <2>1, FilesTyped, PlacesTyped DEF PromoteDirect, WorldTyped, Content, DiskTyped
  <2>3. WorldTyped'
    BY <1>1, <2>2 DEF PromoteDirect, WorldTyped, DiskTyped
  <2>4. \/ EndsTyped
        \/ row' = row /\ proc' = [proc EXCEPT !.pc = "register"]
    BY <1>1 DEF PromoteDirect, EndsTyped, Error
  <2> QED BY <2>3, <2>4, StepTyped, Proceeds DEF Step
<1>2. CASE PollAria2
  <2>1. DiskTyped'
    BY <1>2, FilesTyped, PlacesTyped DEF PollAria2, WorldTyped, Content, DiskTyped
  <2>2. WorldTyped'
    BY <1>2, <2>1 DEF PollAria2, WorldTyped, DiskTyped
  <2>3. \/ EndsTyped
        \/ row' = row /\ proc' = [proc EXCEPT !.pc = "register"]
    BY <1>2 DEF PollAria2, EndsTyped, Error
  <2> QED BY <2>2, <2>3, StepTyped, Proceeds DEF Step
<1>3. CASE PromotePrepared
  <2>1. proc.staged = "zip"
    BY <1>3 DEF PromotePrepared, Working, AtWork
  <2>2. DiskTyped'
    BY <1>3, <2>1, FilesTyped, PlacesTyped DEF PromotePrepared, WorldTyped, Content
  <2>3. WorldTyped'
    BY <1>3, <2>2 DEF PromotePrepared, WorldTyped, DiskTyped
  <2>4. row' = row /\ proc' = [proc EXCEPT !.pc = "register"]
    BY <1>3 DEF PromotePrepared
  <2> QED BY <2>3, <2>4, StepTyped, Proceeds DEF Step
<1> QED BY <1>1, <1>2, <1>3

\* What qBittorrent and the download services do.
LEMMA ServicesTyped ==
  ASSUME TypesInv, TorrentProgress \/ TorrentDisturbed \/ RemoteProgress \/ Damage
  PROVE  TypesInv'
<1> USE DEF TypesInv
<1>1. row' = row /\ proc' = proc
  BY DEF TorrentProgress, TorrentDisturbed, RemoteProgress, Damage
<1>2. DiskTyped'
  <2>1. CASE TorrentProgress
    BY <2>1, FilesTyped, PlacesTyped DEF TorrentProgress, WorldTyped, Content, DiskTyped
  <2>2. CASE TorrentDisturbed
    BY <2>2 DEF TorrentDisturbed, WorldTyped, DiskTyped
  <2>3. CASE RemoteProgress
    BY <2>3, FilesTyped, PlacesTyped DEF RemoteProgress, WorldTyped, Content, DiskTyped
  <2>4. CASE Damage
    <3>1. row.file \in File
      BY <2>4 DEF Damage, Held, Has, WorldTyped, DiskTyped
    <3> QED BY <2>4, <3>1, FilesTyped DEF Damage, WorldTyped, Content
  <2> QED BY <2>1, <2>2, <2>3, <2>4
<1>3. WorldTyped'
  <2>1. witness' \in Witness
    BY DEF TorrentProgress, TorrentDisturbed, RemoteProgress, Damage, WorldTyped, Witness
  <2>2. faults' \in 0 .. MaxFault
    BY FaultTyped DEF TorrentProgress, TorrentDisturbed, RemoteProgress, Damage, WorldTyped
  <2> QED BY <1>2, <2>1, <2>2 DEF TorrentProgress, TorrentDisturbed, RemoteProgress, Damage, WorldTyped
<1> QED BY <1>1, <1>3 DEF AtWork

----------------------------------------------------------------------------
(* Renaming, validation, quarantine, packing and cleanup.                  *)

\* A file that is being renamed is a file, and so is the row it leaves.
LEMMA RenamedTyped ==
  ASSUME TypesInv
  PROVE  /\ row.rename /\ row.file \in File => Renamed \in File
         /\ proc.op = "validate" /\ row.rename /\ row.file \in File
              => [row EXCEPT !.file = Renamed, !.sized = FALSE, !.hashed = FALSE] \in Row
         /\ proc.pc \in { "check", "quarantine", "quarantined" } => AfterRename \in Row
<1> USE DEF TypesInv
<1>1. row.file \in File => Renamed \in File
  BY NamesTyped DEF Renamed
<1>2. row.file \in File
        => [row EXCEPT !.file = Renamed, !.sized = FALSE, !.hashed = FALSE] \in Row
  BY <1>1 DEF Row
<1>3. proc.pc \in { "check", "quarantine", "quarantined" } => AfterRename \in Row
  BY <1>2 DEF AfterRename, AtWork, Row
<1> QED BY <1>1, <1>2, <1>3

LEMMA RenamingTyped ==
  ASSUME TypesInv, FileInv, BeginRename \/ UnlinkSource \/ BeginValidate
  PROVE  TypesInv'
<1> USE DEF TypesInv
<1>1. DiskTyped'
  <2>1. CASE BeginRename /\ ~UNCHANGED disk
    <3>1. /\ IsFile(row.file) /\ disk' = With(disk, Renamed, disk[row.file])
      BY <2>1 DEF BeginRename
    <3>2. row.file \in DOMAIN disk
      BY <3>1 DEF IsFile, Held, Has
    <3>3. Renamed \in File
      BY <3>2, NamesTyped DEF Renamed, WorldTyped, DiskTyped
    <3> QED BY <3>1, <3>2, <3>3 DEF With, WorldTyped, DiskTyped
  <2>2. CASE UnlinkSource
    BY <2>2, FewerFilesTyped DEF UnlinkSource, WorldTyped
  <2>3. CASE UNCHANGED disk
    BY <2>3 DEF WorldTyped, DiskTyped
  <2> QED BY <2>1, <2>2, <2>3 DEF BeginValidate
<1>2. WorldTyped'
  BY <1>1 DEF BeginRename, UnlinkSource, BeginValidate, WorldTyped
<1>3. ASSUME NEW pc \in { "unlink", "check" }, row' = row, proc' = [proc EXCEPT !.pc = pc],
             proc.op = "validate" /\ row.rename => row.file \in File
      PROVE  GoesOnTyped
  <2>1. proc' \in Process /\ proc'.pc = pc /\ proc'.op = proc.op
    BY <1>3 DEF Process, Step
  <2> QED BY <1>3, <2>1 DEF GoesOnTyped, AtWork
<1>4. CASE BeginRename
  <2>1. \/ EndsTyped
        \/ /\ \/ IsFile(row.file) \/ row.file \in links \/ IsFile(Renamed)
           /\ row' = row
           /\ \E pc \in { "unlink", "check" } : proc' = [proc EXCEPT !.pc = pc]
    BY <1>4 DEF BeginRename, EndsTyped, Error
  <2>2. ASSUME IsFile(row.file) \/ row.file \in links \/ IsFile(Renamed)
        PROVE  row.file \in File
    <3>1. row.file # NoFile
      <4>1. SecondName(NoFile) \notin File /\ NoFile \notin File
        BY DEF SecondName, NoFile, File, Location
      <4>2. NoFile \notin DOMAIN disk /\ SecondName(NoFile) \notin DOMAIN disk
        BY <4>1 DEF WorldTyped, DiskTyped
      <4>3. links \subseteq DOMAIN disk
        BY DEF FileInv, LinksInv
      <4> QED BY <2>2, <4>2, <4>3 DEF IsFile, Held, Has, Renamed
    <3> QED BY <3>1 DEF Row
  <2> QED BY <1>2, <1>3, <2>1, <2>2, StepTyped
<1>5. CASE UnlinkSource
  BY <1>2, <1>3, <1>5, StepTyped DEF UnlinkSource, Working, AtWork
<1>6. CASE BeginValidate
  BY <1>2, <1>3, <1>6, StepTyped DEF BeginValidate
<1> QED BY <1>4, <1>5, <1>6

LEMMA ValidationTyped ==
  ASSUME TypesInv, Validate \/ DiskDown \/ Quarantine
  PROVE  TypesInv'
<1> USE DEF TypesInv
<1>1. WorldTyped'
  BY FaultTyped DEF Validate, DiskDown, Quarantine, WorldTyped, DiskTyped
<1>2. CASE Validate
  <2> DEFINE ended == [AfterRename EXCEPT !.rename = FALSE]
  <2>1. AfterRename \in Row
    BY <1>2, RenamedTyped DEF Validate, Working
  <2>2. ended \in Row
    BY <2>1 DEF Row
  <2>3. /\ [ended EXCEPT !.sized = TRUE, !.hashed = TRUE] \in Row
        /\ [ended EXCEPT !.sized = TRUE] \in Row
    <3> HIDE DEF ended
    <3> QED BY <2>2 DEF Row
  <2>4. \/ EndsTyped
        \/ row' = row /\ proc' = [proc EXCEPT !.pc = "quarantine"]
    BY <1>2, <2>2, <2>3 DEF Validate, EndsTyped, Error
  <2>5. ASSUME row' = row, proc' = [proc EXCEPT !.pc = "quarantine"]
        PROVE  GoesOnTyped
    <3>1. proc' \in Process /\ proc'.pc = "quarantine" /\ proc'.op = proc.op
      BY <2>5 DEF Process, Step
    <3> QED BY <1>2, <2>5, <3>1 DEF GoesOnTyped, AtWork, Validate, Working
  <2> QED BY <1>1, <2>4, <2>5, StepTyped
<1>3. CASE DiskDown
  <2>1. proc.pc \in { "check", "quarantine" } =>
          AfterRename \in Row /\ [AfterRename EXCEPT !.rename = FALSE] \in Row
    BY RenamedTyped DEF Row
  <2>2. \E r \in Row : SystemRetry(r)
    <3>1. CASE proc.pc = "check"
      BY <1>3, <2>1, <3>1 DEF DiskDown
    <3>2. CASE proc.pc = "quarantine" /\ proc.op = "validate"
      BY <1>3, <2>1, <3>2 DEF DiskDown
    <3>3. CASE ~(proc.pc = "check") /\ ~(proc.pc = "quarantine" /\ proc.op = "validate")
      BY <1>3, <3>3 DEF DiskDown
    <3> QED BY <3>1, <3>2, <3>3
  <2> QED BY <1>1, <2>2, RetriesTyped, StepTyped
<1>4. CASE Quarantine
  <2> DEFINE moved == [AfterRename EXCEPT !.file = QuarantineFile(proc.chosen.id), !.gen = NextName]
  <2>1. AfterRename \in Row
    BY <1>4, RenamedTyped DEF Quarantine
  <2>2. proc.chosen.id \in Nat
    BY DEF Process
  <2>3. moved \in Row
    BY <2>1, <2>2, PlacesTyped DEF Row
  <2>4. [moved EXCEPT !.sized = FALSE, !.hashed = FALSE, !.rename = FALSE] \in Row
    <3> HIDE DEF moved
    <3> QED BY <2>3 DEF Row
  <2>5. EndsTyped
    BY <1>4, <2>3, <2>4 DEF Quarantine, EndsTyped, Error
  <2> QED BY <1>1, <2>5, StepTyped
<1> QED BY <1>2, <1>3, <1>4

LEMMA MoveTyped == ASSUME TypesInv, MoveToQuarantine PROVE TypesInv'
<1> USE DEF TypesInv
<1>1. PICK n : /\ n \in 0 .. Cardinality(DOMAIN disk)
               /\ Move(AfterRename.file, QuarantineFile(n))
               /\ proc' = [proc EXCEPT !.pc = "quarantined", !.chosen.id = n]
  BY DEF MoveToQuarantine
<1>2. n \in Nat
  BY <1>1
<1>3. DiskTyped'
  BY <1>1, <1>2, MovedTyped, PlacesTyped DEF MoveToQuarantine, Has, WorldTyped
<1>4. WorldTyped'
  BY <1>3 DEF MoveToQuarantine, WorldTyped
<1>5. proc' \in Process /\ proc'.pc = "quarantined" /\ proc'.op = proc.op
  BY <1>1, <1>2 DEF Process, Step
<1>6. AtWork'
  BY <1>5 DEF MoveToQuarantine, AtWork
<1> QED BY <1>4, <1>5, <1>6 DEF MoveToQuarantine

LEMMA PackingTyped ==
  ASSUME TypesInv, Pack \/ PackFails \/ RegisterPrepared
  PROVE  TypesInv'
<1> USE DEF TypesInv
<1>1. WorldTyped'
  <2>1. witness' \in Witness
    BY DEF Pack, PackFails, RegisterPrepared, WorldTyped, Witness, Valid
  <2> QED BY <2>1, FaultTyped DEF Pack, PackFails, RegisterPrepared, WorldTyped, DiskTyped
<1>2. CASE Pack
  <2>1. \/ EndsTyped
        \/ row' = row /\ proc' = [proc EXCEPT !.pc = "promote", !.staged = "zip"]
    BY <1>2, RetriesTyped DEF Pack, EndsTyped, Error
  <2>2. ASSUME row' = row, proc' = [proc EXCEPT !.pc = "promote", !.staged = "zip"]
        PROVE  GoesOnTyped
    <3>1. proc' \in Process /\ proc'.pc = "promote" /\ proc'.staged = "zip"
      BY <2>2 DEF Process, Step, Content
    <3> QED BY <2>2, <3>1 DEF GoesOnTyped, AtWork
  <2> QED BY <1>1, <2>1, <2>2, StepTyped
<1>3. CASE PackFails
  BY <1>1, <1>3, RetriesTyped, StepTyped DEF PackFails
<1>4. CASE RegisterPrepared
  <2>1. [row EXCEPT !.file = PreparedFile, !.gen = NextName, !.sized = TRUE,
                    !.hashed = TRUE] \in Row
    BY PlacesTyped DEF Row
  <2>2. EndsTyped
    BY <1>4, <2>1 DEF RegisterPrepared, EndsTyped, Error
  <2> QED BY <1>1, <2>2, StepTyped
<1> QED BY <1>2, <1>3, <1>4

LEMMA CleanupTyped ==
  ASSUME TypesInv, Cleanup
  PROVE  TypesInv'
<1> USE DEF TypesInv
<1>1. DiskTyped'
  BY FewerFilesTyped DEF Cleanup, CheckLibrary, CleanupFails, RemoveFiles, EndCleanup,
                         WorldTyped, DiskTyped
<1>2. WorldTyped'
  <2>1. faults' \in 0 .. MaxFault
    BY FaultTyped DEF Cleanup, CheckLibrary, CleanupFails, RemoveFiles, EndCleanup, WorldTyped
  <2> QED BY <1>1, <2>1 DEF Cleanup, CheckLibrary, CleanupFails, RemoveFiles, EndCleanup,
                            WorldTyped
<1>3. CASE CheckLibrary
  <2>1. \/ EndsTyped
        \/ row' = row /\ proc' = [proc EXCEPT !.pc = "files"]
    BY <1>3 DEF CheckLibrary, EndsTyped, Error
  <2> QED BY <1>2, <2>1, StepTyped, Proceeds DEF Step
<1>4. CASE CleanupFails
  BY <1>2, <1>4, RetriesTyped, StepTyped DEF CleanupFails
<1>5. CASE RemoveFiles
  BY <1>2, <1>5, StepTyped, Proceeds DEF RemoveFiles, Step
<1>6. CASE EndCleanup
  <2>1. EndsTyped
    BY <1>6 DEF EndCleanup, EndsTyped, Error
  <2> QED BY <1>2, <2>1, StepTyped
<1> QED BY <1>3, <1>4, <1>5, <1>6 DEF Cleanup

----------------------------------------------------------------------------
(* Uploading, and the library.                                             *)

\* A transfer goes on with what it has written, all of it or less.
LEMMA UploadTyped ==
  ASSUME TypesInv,
         \/ \E backend \in Backends : BeginUpload(backend)
         \/ UploadFails \/ TransferFile \/ ShareDown \/ AwaitImport \/ Confirm
  PROVE  TypesInv'
<1> USE DEF TypesInv
<1>1. WorldTyped'
  <2>1. faults' \in 0 .. MaxFault
    BY FaultTyped DEF BeginUpload, UploadFails, TransferFile, ShareDown, AwaitImport, Confirm,
                      WorldTyped
  <2> QED BY <2>1 DEF BeginUpload, UploadFails, TransferFile, ShareDown, AwaitImport, Confirm,
                      WorldTyped, DiskTyped
<1>2. [row EXCEPT !.hashed = FALSE] \in Row /\ [row EXCEPT !.lrr = TRUE] \in Row
  BY DEF Row
<1>3. ASSUME NEW backend \in Backends, BeginUpload(backend) PROVE TypesInv'
  <2>1. \/ EndsTyped
        \/ /\ row' = row
           /\ \E pc \in { "metadata", "put", "transfer" } : proc' = [proc EXCEPT !.pc = pc]
    BY <1>2, <1>3 DEF BeginUpload, Revalidate, RevalidateAfterError, EndsTyped, Error
  <2> QED BY <1>1, <2>1, StepTyped, Proceeds DEF Step
<1>4. CASE UploadFails \/ ShareDown
  <2>1. EndsTyped
    BY <1>4, RetriesTyped DEF UploadFails, ShareDown, EndsTyped, Error
  <2> QED BY <1>1, <2>1, StepTyped
<1>5. CASE TransferFile
  <2>1. \/ EndsTyped
        \/ row' = row /\ proc' = [proc EXCEPT !.pc = "wait"]
        \/ /\ row' = row
           /\ \E c \in Transferred : proc' = [proc EXCEPT !.pc = "staged", !.staged = c]
    BY <1>5 DEF TransferFile, EndsTyped, Error
  <2>2. ASSUME NEW c \in Transferred, row' = row,
               proc' = [proc EXCEPT !.pc = "staged", !.staged = c]
        PROVE  GoesOnTyped
    <3>1. c \in Content \cup { "none" }
      BY DEF Transferred, Held, Has, WorldTyped, DiskTyped, Content
    <3>2. proc' \in Process /\ proc'.pc = "staged"
      BY <2>2, <3>1 DEF Process, Step
    <3> QED BY <2>2, <3>2 DEF GoesOnTyped, AtWork
  <2> QED BY <1>1, <2>1, <2>2, StepTyped, Proceeds DEF Step
<1>6. CASE AwaitImport
  <2>1. \/ EndsTyped
        \/ row' = row /\ proc' = [proc EXCEPT !.pc = "metadata"]
    BY <1>6 DEF AwaitImport, EndsTyped, Error
  <2> QED BY <1>1, <2>1, StepTyped, Proceeds DEF Step
<1>7. CASE Confirm
  <2>1. EndsTyped
    BY <1>2, <1>7 DEF Confirm, EndsTyped, Error
  <2> QED BY <1>1, <2>1, StepTyped
<1> QED BY <1>3, <1>4, <1>5, <1>6, <1>7

\* The library's directory holds archives under names.
ShareTyped ==
  DOMAIN share \subseteq Name /\ \A n \in DOMAIN share : share[n] \in { "zip", "cut", "rot", "other" }

LEMMA SharedTyped ==
  ASSUME ShareTyped, NEW n \in Name, NEW c \in { "zip", "other" }, share' = With(share, n, c)
  PROVE  ShareTyped'
BY DEF ShareTyped, With

LEMMA LibraryTyped ==
  ASSUME TypesInv,
         \/ PutArchive \/ PutUnanswered \/ Publish
         \/ ShinobuImport \/ NameTaken \/ LibraryForgets
  PROVE  TypesInv'
<1> USE DEF TypesInv
<1>1. OwnName \in Name
  BY NamesTyped DEF OwnName, Row
<1>2. ShareTyped
  BY DEF ShareTyped, WorldTyped
<1>3. ShareTyped'
  <2>1. CASE PutArchive \/ PutUnanswered \/ Publish \/ ShinobuImport \/ NameTaken
    <3>1. \/ share' = share
          \/ share' = With(share, OwnName, "zip") \/ share' = With(share, OwnName, "other")
      BY <2>1 DEF PutArchive, PutUnanswered, Publish, SameBytes, ShinobuImport, NameTaken
    <3>2. CASE share' = share
      BY <1>2, <3>2 DEF ShareTyped
    <3> QED BY <1>1, <1>2, <3>1, <3>2, SharedTyped
  <2>2. CASE LibraryForgets
    BY <1>2, <2>2 DEF LibraryForgets, Without, ShareTyped
  <2> QED BY <2>1, <2>2
<1>4. index' \in Name \cup { Unknown }
  <2>1. index \in Name \cup { Unknown } /\ DOMAIN share \subseteq Name
    BY DEF WorldTyped
  <2>2. CASE PutArchive \/ PutUnanswered \/ Publish \/ NameTaken
    <3>1. index' = index \/ index' = OwnName
      BY <2>2 DEF PutArchive, PutUnanswered, Publish, NameTaken
    <3> QED BY <1>1, <2>1, <3>1
  <2>3. CASE ShinobuImport \/ LibraryForgets
    BY <2>1, <2>3 DEF ShinobuImport, LibraryForgets
  <2> QED BY <2>2, <2>3
<1>5. faults' \in 0 .. MaxFault
  BY FaultTyped DEF PutArchive, PutUnanswered, Publish, ShinobuImport, NameTaken,
                    LibraryForgets, WorldTyped
<1>6. witness' \in Witness
  <2>1. CASE LibraryForgets
    <3>1. Valid(row.file) \in BOOLEAN
      BY DEF Valid
    <3> QED BY <2>1, <3>1 DEF LibraryForgets, WorldTyped, Witness
  <2>2. CASE witness' = witness
    BY <2>2 DEF WorldTyped
  <2> QED BY <2>1, <2>2 DEF PutArchive, PutUnanswered, Publish, ShinobuImport, NameTaken
<1>7. WorldTyped'
  BY <1>3, <1>4, <1>5, <1>6
     DEF PutArchive, PutUnanswered, Publish, ShinobuImport, NameTaken, LibraryForgets,
         WorldTyped, DiskTyped, ShareTyped
<1>8. [row EXCEPT !.hashed = FALSE] \in Row
  BY DEF Row
<1>9. CASE PutArchive
  <2>1. \/ EndsTyped
        \/ row' = row /\ proc' = [proc EXCEPT !.pc = "metadata"]
        \/ row' = row /\ proc' = [proc EXCEPT !.pc = "quarantine"] /\ proc.op = "upload"
    BY <1>8, <1>9 DEF PutArchive, RevalidateAfterError, EndsTyped, Error, Working
  <2>2. ASSUME row' = row, proc' = [proc EXCEPT !.pc = "quarantine"], proc.op = "upload"
        PROVE  GoesOnTyped
    <3>1. proc' \in Process /\ proc'.pc = "quarantine" /\ proc'.op = "upload"
      BY <2>2 DEF Process, Step
    <3> QED BY <2>2, <3>1 DEF GoesOnTyped, AtWork
  <2> QED BY <1>7, <2>1, <2>2, StepTyped, Proceeds DEF Step
<1>10. CASE PutUnanswered
  <2>1. EndsTyped
    BY <1>10 DEF PutUnanswered, EndsTyped, Error
  <2> QED BY <1>7, <2>1, StepTyped
<1>11. CASE Publish
  <2>1. \/ EndsTyped
        \/ row' = row /\ proc' = [proc EXCEPT !.pc = "wait"]
    BY <1>11 DEF Publish, EndsTyped, Error
  <2> QED BY <1>7, <2>1, StepTyped, Proceeds DEF Step
<1>12. CASE ShinobuImport \/ NameTaken \/ LibraryForgets
  BY <1>7, <1>12 DEF ShinobuImport, NameTaken, LibraryForgets, AtWork
<1> QED BY <1>9, <1>10, <1>11, <1>12

----------------------------------------------------------------------------
(* Persons.                                                                *)

ReviewType ==
  [ scope : { NoScope } \cup { Scope(p) : p \in Pages }, warnings : SUBSET Warning,
    accepted : SUBSET Warning, choice : Nat, next : BOOLEAN ]

LEMMA ReviewTyped ==
  /\ \A r \in Row : r.review \in ReviewType
  /\ \A r \in Row, review \in ReviewType : [r EXCEPT !.review = review] \in Row
BY DEF Row, ReviewType

\* A person's decision leaves the process alone, which is idle or keeps its file.
LEMMA DecisionTyped ==
  ASSUME TypesInv, WorldTyped', row' \in Row, proc' = proc,
         Unclaimed \/ (row'.rename = row.rename /\ row'.file = row.file)
  PROVE  TypesInv'
BY DEF TypesInv, AtWork, Unclaimed

LEMMA ActTyped ==
  ASSUME TypesInv, NEW action \in DOMAIN WebActionEvent, Act(action)
  PROVE  TypesInv'
<1> USE DEF TypesInv
<1>1. WorldTyped'
  BY VisitTyped DEF Act, Inside, WorldTyped, DiskTyped
<1>2. TransitionTarget(row.status, WebActionEvent[action][row.status]) \in Status
  BY TransitionTyped DEF Act, Row
<1>3. row' \in Row /\ row'.rename = row.rename /\ row'.file = row.file
  <2>1. PICK to \in Status, lrr \in BOOLEAN :
          row' = [row EXCEPT !.status = to, !.lrr = lrr]
    <3>1. (row.lrr \/ action = "confirm_uploaded") \in BOOLEAN
      BY DEF Row
    <3> QED BY <1>2, <3>1 DEF Act
  <2> QED BY <2>1 DEF Row
<1> QED BY <1>1, <1>3, DecisionTyped DEF Act, Inside

LEMMA OverrideTyped ==
  ASSUME TypesInv, NEW target, OverrideStatus(target)
  PROVE  TypesInv'
<1> USE DEF TypesInv
<1>1. WorldTyped'
  BY VisitTyped DEF OverrideStatus, Inside, WorldTyped, DiskTyped
<1>2. \A m \in DOMAIN LocationOf : m \in Method
  BY DEF LocationOf, Method
<1>3. target \in Status
  BY DEF OverrideStatus, Parked, Status
<1>4. row' \in Row
  <2>1. CASE target = "download_blocked"
    <3>1. row' = [row EXCEPT !.status = target, !.method = "unset", !.ext = FALSE,
                             !.rename = FALSE]
      BY <2>1 DEF OverrideStatus, Parked
    <3> QED BY <1>3, <3>1 DEF Row, Method
  <2>2. CASE target = "details_pending"
    <3>1. PICK m \in Method :
            row' = [row EXCEPT !.status = target, !.method = m, !.rename = FALSE]
      BY <1>2, <2>2 DEF OverrideStatus, Parked
    <3> QED BY <1>3, <3>1 DEF Row
  <2>3. CASE target = "downloaded"
    <3>1. DOMAIN disk \subseteq File
      BY DEF WorldTyped, DiskTyped
    <3>2. PICK m \in DOMAIN LocationOf, f \in DOMAIN disk :
            row' = [row EXCEPT !.status = target, !.method = m,
                               !.ext = @ /\ m = row.method, !.file = f,
                               !.sized = FALSE, !.hashed = FALSE, !.rename = FALSE]
      BY <2>3 DEF OverrideStatus, Parked
    <3>3. PICK ext \in BOOLEAN : ext = (row.ext /\ m = row.method)
      OBVIOUS
    <3>4. row' = [row EXCEPT !.status = target, !.method = m, !.ext = ext, !.file = f,
                             !.sized = FALSE, !.hashed = FALSE, !.rename = FALSE]
      BY <3>2, <3>3
    <3>5. m \in Method /\ f \in File
      BY <1>2, <3>1
    <3> QED BY <1>3, <3>4, <3>5 DEF Row
  <2>4. CASE target \in Parked \cup { "discovered" }
    <3>1. row' = [row EXCEPT !.status = target, !.rename = FALSE]
      BY <2>4 DEF OverrideStatus, Parked
    <3> QED BY <1>3, <3>1 DEF Row
  <2>5. CASE target = "completed"
    <3>1. row' = [row EXCEPT !.status = target, !.lrr = TRUE, !.rename = FALSE]
      BY <2>5 DEF OverrideStatus, Parked
    <3> QED BY <1>3, <3>1 DEF Row
  <2> QED BY <2>1, <2>2, <2>3, <2>4, <2>5 DEF OverrideStatus
<1> QED BY <1>1, <1>4, DecisionTyped DEF OverrideStatus, Inside

\* The decisions about one archive, and a lease that is released.
LEMMA ByHandTyped ==
  ASSUME TypesInv, ReleaseExpiredLease \/ RequestRename \/ SkipVideo
  PROVE  TypesInv'
<1> USE DEF TypesInv
<1>1. WorldTyped'
  BY VisitTyped DEF ReleaseExpiredLease, RequestRename, SkipVideo, Inside, WorldTyped, DiskTyped
<1>2. CASE ReleaseExpiredLease
  <2>1. [row EXCEPT !.status = "manual_review"] \in Row
    BY DEF Row, Status
  <2> QED BY <1>1, <1>2, <2>1, IdleTyped DEF ReleaseExpiredLease, AtWork, Idle
<1>3. CASE RequestRename
  <2>1. [row EXCEPT !.status = "rename_pending", !.rename = TRUE, !.sized = FALSE,
                    !.hashed = FALSE] \in Row
    BY DEF Row, Status
  <2> QED BY <1>1, <1>3, <2>1, DecisionTyped DEF RequestRename, Inside
<1>4. CASE SkipVideo
  <2>1. [row EXCEPT !.status = "details_pending", !.skipVideo = TRUE, !.err = "none"] \in Row
    BY DEF Row, Status, Error
  <2> QED BY <1>1, <1>4, <2>1, DecisionTyped DEF SkipVideo, Inside
<1> QED BY <1>2, <1>3, <1>4

\* What a person accepts is a decision about a list that was shown.
LEMMA DecisionsTyped ==
  ASSUME TypesInv,
         \/ RevokeWarnings
         \/ \E warnings \in SUBSET Warning : ConfirmWarnings(warnings)
         \/ \E allow \in BOOLEAN : SetPermission(allow)
  PROVE  TypesInv'
<1> USE DEF TypesInv
<1>1. row.review \in ReviewType /\ witness \in Witness
  BY ReviewTyped DEF WorldTyped
<1>2. CASE RevokeWarnings
  <2>1. [row.review EXCEPT !.accepted = {}, !.next = FALSE] \in ReviewType
    BY <1>1 DEF ReviewType
  <2>2. row' = [row EXCEPT !.review = [row.review EXCEPT !.accepted = {}, !.next = FALSE]]
    BY <1>2 DEF RevokeWarnings
  <2>3. witness' \in Witness
    BY <1>1, <1>2 DEF RevokeWarnings, Witness
  <2>4. WorldTyped'
    BY <1>2, <2>3 DEF RevokeWarnings, Inside, WorldTyped, DiskTyped
  <2> QED BY <1>2, <2>1, <2>2, <2>4, ReviewTyped, DecisionTyped DEF RevokeWarnings, Inside
<1>3. ASSUME NEW warnings \in SUBSET Warning, ConfirmWarnings(warnings) PROVE TypesInv'
  <2>1. [row.review EXCEPT !.accepted = warnings] \in ReviewType
    BY <1>1 DEF ReviewType
  <2>2. row' \in Row
    <3>1. [row EXCEPT !.review = [row.review EXCEPT !.accepted = warnings]] \in Row
      BY <2>1, ReviewTyped
    <3>2. row' = [[row EXCEPT !.review = [row.review EXCEPT !.accepted = warnings]]
                    EXCEPT !.status = "details_pending", !.method = "torrent", !.err = "none"]
      BY <1>3 DEF ConfirmWarnings, Row
    <3> DEFINE decided == [row EXCEPT !.review = [row.review EXCEPT !.accepted = warnings]]
    <3> HIDE DEF decided
    <3>3. decided \in Row
           => [decided EXCEPT !.status = "details_pending", !.method = "torrent",
                              !.err = "none"] \in Row
      BY DEF Row, Status, Method, Error
    <3> QED BY <3>1, <3>2, <3>3 DEF decided
  <2>3. witness' \in Witness
    <3>1. \A w \in warnings : [ scope |-> row.review.scope, choice |-> row.review.choice,
                                warning |-> w ] \in Decision
      BY <1>1, <1>3 DEF ConfirmWarnings, ReviewType, Decision
    <3>2. PICK more \in SUBSET Decision :
            witness' = [witness EXCEPT !.granted = @ \cup more]
      BY <1>3, <3>1 DEF ConfirmWarnings
    <3> QED BY <1>1, <3>2 DEF Witness
  <2>4. WorldTyped'
    BY <1>3, <2>3, VisitTyped DEF ConfirmWarnings, Inside, WorldTyped, DiskTyped
  <2> QED BY <1>3, <2>2, <2>4, DecisionTyped DEF ConfirmWarnings, Inside
<1>4. ASSUME NEW allow \in BOOLEAN, SetPermission(allow) PROVE TypesInv'
  <2> DEFINE link == "torrent_personalized_link_required"
             review == [row.review EXCEPT !.accepted = @ \ { link }, !.next = allow]
  <2>1. review \in ReviewType
    BY <1>1 DEF ReviewType
  <2>2. row' = [row EXCEPT !.review = review]
    BY <1>4 DEF SetPermission
  <2>3. witness' \in Witness
    <3>1. PICK fewer \in SUBSET Decision, permit \in { "none", "given" } :
            witness' = [witness EXCEPT !.permit = permit, !.granted = fewer]
      BY <1>1, <1>4 DEF SetPermission, Witness
    <3> QED BY <1>1, <3>1 DEF Witness
  <2>4. WorldTyped'
    BY <1>4, <2>3, VisitTyped DEF SetPermission, Inside, WorldTyped, DiskTyped
  <2> HIDE DEF review
  <2>5. row' \in Row
    BY <2>1, <2>2, ReviewTyped
  <2>6. proc' = proc /\ Unclaimed
    BY <1>4 DEF SetPermission, Inside
  <2> QED BY <2>4, <2>5, <2>6, DecisionTyped
<1> QED BY <1>2, <1>3, <1>4

----------------------------------------------------------------------------
(* The choice of a torrent.                                                *)

\* What is recorded of a choice is a review of a list that was shown.
LEMMA ChoiceTyped ==
  ASSUME NEW page \in Pages, NEW review \in ReviewType, NEW skipVideo,
         Choose(page, review, skipVideo).code \in { "chosen", "review" }
  PROVE  Choose(page, review, skipVideo).review \in ReviewType
<1> DEFINE made == Choose(page, review, skipVideo).review
           accepted == Accepted(page, review)
           link == "torrent_personalized_link_required"
           pick == Select(page)
           bound == (IF review.choice = pick.id THEN accepted ELSE accepted \ { link })
                      \cup (IF review.next THEN { link } ELSE {})
<1>1. accepted \subseteq Warning /\ link \in Warning /\ Warnings(page, skipVideo) \subseteq Warning
  BY DEF Accepted, ReviewType, Warning, Warnings
<1>2. Scope(page) \in { NoScope } \cup { Scope(p) : p \in Pages }
  OBVIOUS
<1>3. page # {} /\ Active(page) # {} /\ pick.code # "latest_torrent_no_seeder"
  BY DEF Choose, Active
<1>4. CASE pick.code = "chosen"
  <2>1. made = [ scope |-> Scope(page), warnings |-> Warnings(page, skipVideo),
                 accepted |-> bound, choice |-> pick.id, next |-> FALSE ]
    BY <1>3, <1>4 DEF Choose
  <2>2. pick.id \in Nat
    <3>1. Page(page)
      BY PagesAssumption
    <3>2. PICK c \in Usable(page) : c.id = pick.id
      BY <1>4, <3>1, ChosenIsUsable
    <3>3. c \in Option
      BY <3>1 DEF Usable, Active, Page
    <3> QED BY <3>2, <3>3 DEF Option
  <2>3. bound \subseteq Warning
    BY <1>1
  <2> HIDE DEF bound, pick
  <2>4. made \in ReviewType
    <3> HIDE DEF made
    <3> QED BY <1>1, <1>2, <2>1, <2>2, <2>3 DEF ReviewType
  <2> QED BY <2>4
<1>5. CASE pick.code # "chosen"
  <2>1. made = [ scope |-> Scope(page), warnings |-> Warnings(page, skipVideo),
                 accepted |-> accepted, choice |-> 0, next |-> FALSE ]
    BY <1>3, <1>5 DEF Choose
  <2>2. made \in ReviewType
    <3> HIDE DEF made, accepted
    <3> QED BY <1>1, <1>2, <2>1 DEF ReviewType
  <2> QED BY <2>2
<1> QED BY <1>4, <1>5

LEMMA FetchTyped ==
  ASSUME NEW page, NEW decided \in ReviewType, NEW missing
  PROVE  /\ Fetch(page, decided, missing).review \in ReviewType
         /\ Fetch(page, decided, missing).personal \in BOOLEAN
<1>1. [decided EXCEPT !.warnings = @ \cup { "torrent_personalized_link_required" }] \in ReviewType
  BY DEF ReviewType, Warning
<1> QED BY <1>1 DEF Fetch

LEMMA SubmitTyped ==
  ASSUME TypesInv, NEW page \in Pages, NEW missing \in SUBSET { "public", "private" },
         Submit(page, missing)
  PROVE  TypesInv'
<1> DEFINE choice == Choose(page, ReviewSeen, row.skipVideo)
           got == IF choice.code = "chosen" THEN Fetch(page, choice.review, missing)
                  ELSE [ code |-> choice.code, review |-> choice.review, personal |-> FALSE ]
           asked == [row EXCEPT !.review = got.review]
           open == got.review.warnings \ got.review.accepted
           more == IF got.code \in { "chosen", "review" } THEN Bound(got.review) ELSE {}
<1> USE DEF TypesInv
<1>1. ReviewSeen \in ReviewType
  BY ReviewTyped DEF ReviewSeen, ReviewType, Process
<1>2. got.code \in { "chosen", "review" }
        => got.review \in ReviewType /\ got.personal \in BOOLEAN
           /\ got.review.scope = Scope(page)
  <2>1. choice.code \in { "chosen", "review" } => choice.review \in ReviewType
    BY <1>1, ChoiceTyped
  <2>2. choice.code \in { "chosen", "review" } => choice.review.scope = Scope(page)
    BY ReviewMade
  <2>3. CASE choice.code = "chosen"
    <3>1. got = Fetch(page, choice.review, missing)
      BY <2>3
    <3> HIDE DEF got, choice
    <3> QED BY <2>1, <2>2, <2>3, <3>1, FetchTyped, FetchKeeps
  <2>4. CASE choice.code # "chosen"
    <3>1. /\ got.code = choice.code /\ got.review = choice.review /\ got.personal = FALSE
      BY <2>4
    <3> HIDE DEF got, choice
    <3> QED BY <2>1, <2>2, <2>4, <3>1
  <2> QED BY <2>3, <2>4
<1>3. more \in SUBSET Decision
  <2> HIDE DEF got, choice
  <2> QED BY <1>2 DEF Bound, ReviewType, Decision, Warning
<1>4. WorldTyped'
  <2>1. witness' = [witness EXCEPT !.granted = @ \cup more]
    BY DEF Submit
  <2> HIDE DEF more
  <2>2. witness' \in Witness
    BY <1>3, <2>1 DEF WorldTyped, Witness
  <2>3. torrent' \in { torrent, "downloading" }
    BY DEF Submit
  <2> QED BY <2>2, <2>3 DEF Submit, WorldTyped, DiskTyped
<1>5. \/ got.code = "chosen" /\ row' = row
         /\ proc' = [proc EXCEPT !.pc = "record",
                       !.chosen = [ page |-> page, id |-> got.review.choice,
                                    personal |-> got.personal ]]
      \/ /\ got.code = "review"
         /\ Finish(asked, "review",
                   IF "video_torrent" \in open THEN "video_torrent" ELSE "warning")
      \/ Finish([row EXCEPT !.method = "direct"], "fallback", "other")
      \/ \E fallback \in Fallbacks : LeaveTorrent(row, fallback)
      \/ Finish(row, "review", "other")
  BY DEF Submit
<1> HIDE DEF got, choice, open
<1>6. ASSUME got.code = "chosen", row' = row,
             proc' = [proc EXCEPT !.pc = "record",
                        !.chosen = [ page |-> page, id |-> got.review.choice,
                                     personal |-> got.personal ]]
      PROVE  GoesOnTyped
  <2>1. got.review.choice \in Nat /\ got.personal \in BOOLEAN
    BY <1>2, <1>6 DEF ReviewType
  <2>2. proc' \in Process /\ proc'.pc = "record"
    BY <1>6, <2>1 DEF Process, Step
  <2> QED BY <1>6, <2>2 DEF GoesOnTyped, AtWork
<1>7. got.code = "review" => asked \in Row
  BY <1>2, ReviewTyped
<1> HIDE DEF asked
<1>8. [row EXCEPT !.method = "direct"] \in Row
  BY DEF Row, Method
<1>9. EndsTyped \/ GoesOnTyped
  BY <1>5, <1>6, <1>7, <1>8, LeavesTyped DEF EndsTyped, Error, TorrentError
<1> QED BY <1>4, <1>9, StepTyped

(***************************************************************************)
(* The row, its process, its files and the services keep their types,      *)
(* whatever lists the site shows and whichever route is configured.        *)
(***************************************************************************)
THEOREM TypesCorrect == Spec => []TypeOK
<1>1. Init => TypesInv
  <2> SUFFICES ASSUME Init PROVE TypesInv
    OBVIOUS
  <2>1. row \in Row
    BY BoundAssumption DEF Init, Row, Status, Method, NoReview, Error
  <2>2. proc \in Process /\ AtWork
    BY IdleTyped DEF Init, AtWork, Idle
  <2>3. WorldTyped
    BY BoundAssumption DEF Init, WorldTyped, DiskTyped, Witness
  <2> QED BY <2>1, <2>2, <2>3 DEF TypesInv
<1>2. TypesInv /\ FileInv /\ [Next]_vars => TypesInv'
  <2> SUFFICES ASSUME TypesInv, FileInv, [Next]_vars PROVE TypesInv'
    OBVIOUS
  <2>1. CASE UNCHANGED vars
    BY <2>1 DEF vars, TypesInv, AtWork, WorldTyped, DiskTyped
  <2>2. CASE Collect \/ Screen \/ Claims \/ CompleteCancellation
    BY <2>2, QueueTyped
  <2>3. CASE Work
    <3>1. CASE FetchDetails \/ Cleanup
      BY <3>1, QueueTyped, CleanupTyped
    <3>2. CASE Download
      BY <3>2, TorrentTyped, SubmitTyped, DropTorrentTyped, DirectTyped, PromotionTyped
         DEF Download
    <3>3. CASE Prepare
      BY <3>3, RenamingTyped, ValidationTyped, MoveTyped, PackingTyped, PromotionTyped DEF Prepare
    <3>4. CASE Upload
      BY <3>4, UploadTyped, LibraryTyped DEF Upload
    <3> QED BY <2>3, <3>1, <3>2, <3>3, <3>4 DEF Work
  <2>4. CASE Outage
    BY <2>4, DirectTyped, ValidationTyped, PackingTyped, UploadTyped, LibraryTyped, StopTyped
       DEF Outage
  <2>5. CASE TorrentProgress \/ RemoteProgress \/ World
    BY <2>5, ServicesTyped, LibraryTyped DEF World
  <2>6. CASE Person
    BY <2>6, ByHandTyped, DecisionsTyped, ActTyped, OverrideTyped DEF Person
  <2> QED BY <2>1, <2>2, <2>3, <2>4, <2>5, <2>6 DEF Next
<1>3. TypesInv /\ FileInv => TypeOK
  BY DEF TypesInv, FileInv, LinksInv, WorldTyped, DiskTyped, TypeOK
<1> QED BY <1>1, <1>2, <1>3, FilesSound, PTL DEF Spec

---------------------------------------------------------------------------

\* Where an archive counts as uploaded, and the events that bring it there from
\* elsewhere.
Uploaded == { "uploaded", "completed" }
Confirming == { "uploaded", "confirm_uploaded", "resume_uploaded" }

Recorded ==
  /\ row.status \in Status
  /\ { "good", "purged", "permit", "granted" } = DOMAIN witness
  /\ { "scope", "warnings", "accepted", "choice", "next" } = DOMAIN row.review

\* The library's directory holds whole copies of this archive and other files;
\* what the library knows is one of the former.
ShareInv ==
  /\ \A n \in DOMAIN share : share[n] \in { "zip", "other" }
  /\ index # Unknown => index \in DOMAIN share /\ share[index] = "zip"

UploadedInv ==
  row.status \in Uploaded /\ ~witness.purged => index # Unknown

\* What a review counts as accepted was granted by a person for its list, the
\* account's link for its torrent.
GrantedFor(review, granted) ==
  /\ \A w \in review.accepted :
       \E d \in granted : d.scope = review.scope /\ d.warning = w
  /\ Link \in review.accepted /\ review.choice # 0 =>
       [ scope |-> review.scope, choice |-> review.choice, warning |-> Link ] \in granted

\* A one-shot permission is on the row, or with the process that consumed it.
DecisionInv ==
  /\ GrantedFor(row.review, witness.granted)
  /\ row.review.next => witness.permit = "given"
  /\ Working("torrent_download", "submit") /\ proc.allowed => witness.permit = "held"
  /\ AcceptedOnly

PromiseInv == Recorded /\ ShareInv /\ UploadedInv /\ DecisionInv

----------------------------------------------------------------------------
\* No event brings an archive among the uploaded, except those named for it.
LEMMA OnlyConfirming ==
  ASSUME NEW s \in Status, NEW e, CanTransition(s, e), e \notin Confirming
  PROVE  /\ TransitionTarget(s, e) \in Status
         /\ TransitionTarget(s, e) \in Uploaded => s \in Uploaded
<1> USE DEF Status, CanTransition, TransitionTarget, TRANSITIONS, Confirming, Uploaded
<1>1. CASE s \in { "discovered", "deferred", "details_pending" } BY <1>1
<1>2. CASE s \in { "download_pending", "download_blocked", "downloading" } BY <1>2
<1>3. CASE s \in { "downloaded", "validating", "preparing" } BY <1>3
<1>4. CASE s \in { "upload_pending", "uploading", "uploaded" } BY <1>4
<1>5. CASE s \in { "completed", "quarantined", "manual_review" } BY <1>5
<1>6. CASE s \in { "special_processing", "filtered_out", "skipped" } BY <1>6
<1>7. CASE s \in { "unavailable", "outdated", "force_delete_pending" } BY <1>7
<1>8. CASE s \in { "rename_pending", "deleted", "cancel_requested", "cancelled" } BY <1>8
<1> QED BY <1>1, <1>2, <1>3, <1>4, <1>5, <1>6, <1>7, <1>8 DEF Status

\* No button but one confirms an upload.
LEMMA OnlyOneButton ==
  ASSUME NEW action \in DOMAIN WebActionEvent, NEW s \in DOMAIN WebActionEvent[action],
         WebActionEvent[action][s] \in Confirming
  PROVE  action = "confirm_uploaded"
BY DEF WebActionEvent, Confirming

\* The status an attempt ends with.
LEMMA EndsPlainly ==
  ASSUME NEW r, r.status \in Status, NEW event, event \notin Confirming
  PROVE  /\ EndStatus(r, event) \in Status
         /\ EndStatus(r, event) \in Uploaded => r.status \in Uploaded
<1>1. CASE event = "none" \/ r.status = "cancel_requested" \/ ~CanTransition(r.status, event)
  BY <1>1 DEF EndStatus, Status, Uploaded
<1>2. CASE event # "none" /\ r.status # "cancel_requested" /\ CanTransition(r.status, event)
  BY <1>2, OnlyConfirming DEF EndStatus
<1> QED BY <1>1, <1>2

\* What most steps leave alone, beside the row and the process.
KeepsWitness ==
  /\ DOMAIN witness' = DOMAIN witness /\ witness'.purged = witness.purged
  /\ witness'.permit = witness.permit /\ witness'.granted = witness.granted

KeepsLibrary == UNCHANGED << share, index >> /\ KeepsWitness

\* What the library knew it still knows, and it took up whole copies only.
LibraryGrows == ShareInv' /\ (index # Unknown => index' # Unknown) /\ KeepsWitness

\* The row keeps its review and does not get among the uploaded.
KeepsRow ==
  /\ row'.review = row.review
  /\ row'.status \in Status
  /\ row'.status \in Uploaded => row.status \in Uploaded

\* A torrent that is about to be chosen or recorded.
Choosing == Working("torrent_download", "submit") \/ Working("torrent_download", "record")

\* A step that leaves the review and all decisions alone, and continues no
\* choice of a torrent on another ground.
LEMMA GrowingStep ==
  ASSUME PromiseInv, LibraryGrows, KeepsRow,
         Choosing' => proc' = proc /\ row'.skipVideo = row.skipVideo
  PROVE  PromiseInv'
<1>1. Recorded' /\ ShareInv'
  BY DEF PromiseInv, Recorded, LibraryGrows, KeepsWitness, KeepsRow
<1>2. UploadedInv'
  BY DEF PromiseInv, UploadedInv, LibraryGrows, KeepsWitness, KeepsRow
<1>3. AcceptedOnly'
  <2>1. CASE Choosing'
    <3>1. proc' = proc /\ row'.skipVideo = row.skipVideo /\ witness'.granted = witness.granted
      BY <2>1 DEF LibraryGrows, KeepsWitness
    <3> QED BY <3>1 DEF PromiseInv, DecisionInv, AcceptedOnly, Working
  <2>2. CASE ~Choosing'
    BY <2>2 DEF Choosing, AcceptedOnly, Working
  <2> QED BY <2>1, <2>2
<1>4. DecisionInv'
  BY <1>3 DEF PromiseInv, DecisionInv, LibraryGrows, KeepsWitness, KeepsRow, Choosing, Working
<1> QED BY <1>1, <1>2, <1>4 DEF PromiseInv

\* The same for a step that leaves the library alone, too.
LEMMA PlainStep ==
  ASSUME PromiseInv, KeepsLibrary, KeepsRow,
         Choosing' => proc' = proc /\ row'.skipVideo = row.skipVideo
  PROVE  PromiseInv'
<1>1. LibraryGrows
  BY DEF PromiseInv, ShareInv, KeepsLibrary, LibraryGrows
<1> QED BY <1>1, GrowingStep

\* An attempt that ends without a decision, and confirms nothing.
EndsPlain ==
  \E r, event, err :
    /\ DOMAIN r = DOMAIN row /\ r.status = row.status /\ r.review = row.review
    /\ event \notin Confirming
    /\ Finish(r, event, err)

\* An attempt that ends so leaves the decisions alone and frees the process.
LEMMA EndsPlainKeeps ==
  ASSUME PromiseInv, Shaped, EndsPlain
  PROVE  KeepsRow /\ proc' = Idle /\ ~Choosing'
<1>1. PICK r, event, err :
        /\ DOMAIN r = DOMAIN row /\ r.status = row.status /\ r.review = row.review
        /\ event \notin Confirming
        /\ Finish(r, event, err)
  BY DEF EndsPlain
<1>2. r.status \in Status /\ "status" \in DOMAIN r
  BY <1>1 DEF PromiseInv, Recorded, Shaped
<1>3. row'.status = EndStatus(r, event) /\ row'.review = r.review /\ proc' = Idle
  BY <1>1, <1>2 DEF Finish
<1>4. KeepsRow
  BY <1>1, <1>2, <1>3, EndsPlainly DEF KeepsRow
<1> QED BY <1>3, <1>4 DEF Choosing, Working, Idle

\* A process that goes on and chooses no torrent.
GoesOn == row' = row /\ ~Choosing'

\* An upload's step that adds to the library, and ends plainly or goes on.
LEMMA UploadingStep ==
  ASSUME PromiseInv, Shaped, LibraryGrows, EndsPlain \/ GoesOn
  PROVE  PromiseInv'
<1>1. CASE EndsPlain
  BY <1>1, EndsPlainKeeps, GrowingStep
<1>2. CASE GoesOn
  BY <1>2, GrowingStep DEF GoesOn, KeepsRow, PromiseInv, Recorded
<1> QED BY <1>1, <1>2

\* The same for a step that leaves the library alone.
LEMMA WorkStep ==
  ASSUME PromiseInv, Shaped, KeepsLibrary, EndsPlain \/ GoesOn
  PROVE  PromiseInv'
<1>1. LibraryGrows
  BY DEF PromiseInv, ShareInv, KeepsLibrary, LibraryGrows
<1> QED BY <1>1, UploadingStep

\* The error handler's ways out end an attempt plainly.
LEMMA WaysOut ==
  ASSUME Shaped, NEW r, DOMAIN r = DOMAIN row, r.status = row.status,
         r.review = row.review, NEW fallback,
         SystemRetry(r) \/ RetryOrReview(r) \/ LeaveTorrent(r, fallback)
  PROVE  EndsPlain
<1>1. \A op, x : RetryOf(op, x) \notin Confirming
  BY DEF RetryOf, Confirming
<1>2. CASE SystemRetry(r) \/ RetryOrReview(r)
  <2>1. \E event, err : event \notin Confirming /\ Finish(r, event, err)
    BY <1>1, <1>2 DEF SystemRetry, RetryOrReview, Confirming
  <2> QED BY <2>1 DEF EndsPlain
<1>3. CASE LeaveTorrent(r, fallback)
  BY <1>3 DEF LeaveTorrent, EndsPlain, Confirming, Shaped
<1> QED BY <1>2, <1>3

----------------------------------------------------------------------------
(* Steps that are plain.                                                   *)

\* Collecting, screening, cancelling and claiming decide nothing for a person.
LEMMA QueueStep ==
  ASSUME PromiseInv, Shaped, Collect \/ Screen \/ CompleteCancellation \/ Claims
  PROVE  PromiseInv'
<1> USE DEF PromiseInv, Recorded, Shaped
<1>1. KeepsLibrary
  BY DEF Collect, Screen, CompleteCancellation, Claims, Claim, KeepsLibrary, KeepsWitness
<1>2. CASE Collect \/ CompleteCancellation
  <2>1. KeepsRow /\ proc' = proc /\ row'.skipVideo = row.skipVideo
    BY <1>2 DEF Collect, CompleteCancellation, KeepsRow, Status, Uploaded
  <2> QED BY <1>1, <2>1, PlainStep
<1>3. CASE Screen
  <2>1. \A own, rivals : \A action \in ScreenAction, named \in BOOLEAN :
          ScreenOutcome(action, named, own, rivals) \in Status \ Uploaded
    BY DEF ScreenAction, ScreenOutcome, Status, Uploaded
  <2>2. KeepsRow /\ proc' = proc /\ row'.skipVideo = row.skipVideo
    BY <1>3, <2>1 DEF Screen, KeepsRow
  <2> QED BY <1>1, <2>2, PlainStep
<1>4. ASSUME NEW op \in Operation, Claim(op) PROVE PromiseInv'
  <2>1. /\ ExecutionState(op, row.status) \in Status
        /\ ExecutionState(op, row.status) \in Uploaded => row.status \in Uploaded
    BY <1>4 DEF Claim, Operation, ExecutionState, ClaimableStates, Status, Uploaded
  <2>2. KeepsRow /\ ~Choosing'
    BY <1>4, <2>1 DEF Claim, KeepsRow, Choosing, Working, Idle
  <2> QED BY <1>1, <2>2, PlainStep
<1> QED BY <1>2, <1>3, <1>4 DEF Claims

\* Details, pauses and crashes end an attempt and accept nothing.
LEMMA StopStep ==
  ASSUME PromiseInv, Shaped, FetchDetails \/ Pause \/ Crash
  PROVE  PromiseInv'
<1> USE DEF Shaped
<1>1. KeepsLibrary
  BY DEF FetchDetails, Pause, Crash, KeepsLibrary, KeepsWitness
<1>2. CASE FetchDetails
  BY <1>1, <1>2, WorkStep DEF FetchDetails, EndsPlain, Confirming
<1>3. CASE Pause
  <2>1. EndsPlain
    BY <1>3, WaysOut DEF Pause, EndsPlain, Confirming
  <2> QED BY <1>1, <2>1, WorkStep
<1>4. CASE Crash
  BY <1>1, <1>4, WorkStep DEF Crash, GoesOn, Choosing, Working, Idle
<1> QED BY <1>2, <1>3, <1>4

\* Torrents, once one is chosen.
LEMMA TorrentRowStep ==
  ASSUME PromiseInv, Shaped,
         \/ NoTorrentListed \/ SubmitFails \/ RecordTorrent
         \/ CheckTorrent \/ DropTorrent \/ FallbackTorrent
  PROVE  PromiseInv'
<1> USE DEF Shaped, PromiseInv, Recorded
<1>1. KeepsLibrary
  BY DEF NoTorrentListed, SubmitFails, RecordTorrent, CheckTorrent, DropTorrent,
         FallbackTorrent, KeepsLibrary, KeepsWitness, Kept
<1>2. CASE NoTorrentListed \/ FallbackTorrent
  BY <1>1, <1>2, WorkStep, WaysOut DEF NoTorrentListed, FallbackTorrent
<1>3. CASE SubmitFails
  <2>1. EndsPlain
    BY <1>3, WaysOut DEF SubmitFails, EndsPlain, Confirming
  <2> QED BY <1>1, <2>1, WorkStep
<1>4. CASE RecordTorrent \/ CheckTorrent
  <2>1. EndsPlain
    BY <1>4 DEF RecordTorrent, CheckTorrent, Registered, EndsPlain, Confirming
  <2> QED BY <1>1, <2>1, WorkStep
<1>5. CASE DropTorrent
  <2>1. EndsPlain \/ GoesOn
    BY <1>5 DEF DropTorrent, EndsPlain, Confirming, GoesOn, Choosing, Working
  <2> QED BY <1>1, <2>1, WorkStep
<1> QED BY <1>2, <1>3, <1>4, <1>5

\* Direct and remote downloads.
LEMMA DirectRowStep ==
  ASSUME PromiseInv, Shaped,
         \/ RefuseDirect \/ TransferDirect \/ PromoteDirect \/ RegisterDirect
         \/ StartRemote \/ RecordRemote \/ PollHah \/ PollAria2 \/ RegisterAria2
         \/ ServiceDown \/ OrderUnanswered
  PROVE  PromiseInv'
<1> USE DEF Shaped, PromiseInv, Recorded
<1>1. KeepsLibrary
  BY DEF RefuseDirect, TransferDirect, PromoteDirect, RegisterDirect, StartRemote,
         RecordRemote, PollHah, PollAria2, RegisterAria2, ServiceDown, OrderUnanswered,
         KeepsLibrary, KeepsWitness, Kept
<1>2. CASE RefuseDirect \/ RegisterDirect \/ RecordRemote \/ PollHah \/ RegisterAria2
  <2>1. EndsPlain
    BY <1>2 DEF RefuseDirect, RegisterDirect, RecordRemote, PollHah, RegisterAria2,
                Registered, EndsPlain, Confirming
  <2> QED BY <1>1, <2>1, WorkStep
<1>3. CASE ServiceDown \/ OrderUnanswered
  BY <1>1, <1>3, WorkStep, WaysOut DEF ServiceDown, OrderUnanswered
<1>4. CASE TransferDirect \/ StartRemote
  <2>1. EndsPlain \/ GoesOn
    BY <1>4, WaysOut DEF TransferDirect, StartRemote, EndsPlain, Confirming, GoesOn,
                         Choosing, Working
  <2> QED BY <1>1, <2>1, WorkStep
<1>5. CASE PromoteDirect \/ PollAria2
  <2>1. EndsPlain \/ GoesOn
    BY <1>5 DEF PromoteDirect, PollAria2, EndsPlain, Confirming, GoesOn, Choosing, Working
  <2> QED BY <1>1, <2>1, WorkStep
<1> QED BY <1>2, <1>3, <1>4, <1>5

\* Renaming, validation, quarantine, packing and cleanup.
LEMMA FileRowStep ==
  ASSUME PromiseInv, Shaped,
         Prepare \/ DiskDown \/ PackFails \/ Cleanup
  PROVE  PromiseInv'
<1> USE DEF Shaped, PromiseInv, Recorded
<1>1. KeepsLibrary
  BY DEF Prepare, BeginRename, UnlinkSource, BeginValidate, Validate, MoveToQuarantine,
         Quarantine, Pack, PromotePrepared, RegisterPrepared, DiskDown, PackFails,
         Cleanup, CheckLibrary, CleanupFails, RemoveFiles, EndCleanup, KeepsLibrary, KeepsWitness
<1>2. /\ DOMAIN AfterRename = DOMAIN row /\ AfterRename.status = row.status
      /\ AfterRename.review = row.review
  BY DEF AfterRename
<1>3. CASE BeginRename \/ UnlinkSource \/ BeginValidate
  <2>1. EndsPlain \/ GoesOn
    BY <1>3 DEF BeginRename, UnlinkSource, BeginValidate, EndsPlain, Confirming, GoesOn,
                Choosing, Working
  <2> QED BY <1>1, <2>1, WorkStep
<1>4. CASE Validate
  <2>1. EndsPlain \/ GoesOn
    BY <1>2, <1>4 DEF Validate, EndsPlain, Confirming, GoesOn, Choosing, Working
  <2> QED BY <1>1, <2>1, WorkStep
<1>5. CASE DiskDown
  <2>1. \E r : /\ DOMAIN r = DOMAIN row /\ r.status = row.status /\ r.review = row.review
               /\ SystemRetry(r)
    BY <1>2, <1>5 DEF DiskDown
  <2> QED BY <1>1, <2>1, WorkStep, WaysOut
<1>6. CASE MoveToQuarantine
  BY <1>1, <1>6, WorkStep DEF MoveToQuarantine, GoesOn, Choosing, Working
<1>7. CASE Quarantine
  <2>1. EndsPlain
    BY <1>2, <1>7 DEF Quarantine, EndsPlain, Confirming
  <2> QED BY <1>1, <2>1, WorkStep
<1>8. CASE Pack \/ PackFails
  <2>1. EndsPlain \/ GoesOn
    BY <1>8, WaysOut DEF Pack, PackFails, EndsPlain, Confirming, GoesOn, Choosing, Working
  <2> QED BY <1>1, <2>1, WorkStep
<1>9. CASE PromotePrepared \/ RegisterPrepared
  <2>1. EndsPlain \/ GoesOn
    BY <1>9 DEF PromotePrepared, RegisterPrepared, EndsPlain, Confirming, GoesOn,
                Choosing, Working
  <2> QED BY <1>1, <2>1, WorkStep
<1>10. CASE CleanupFails
  BY <1>1, <1>10, WorkStep, WaysOut DEF CleanupFails
<1>11. CASE CheckLibrary \/ RemoveFiles \/ EndCleanup
  <2>1. EndsPlain \/ GoesOn
    BY <1>11 DEF CheckLibrary, RemoveFiles, EndCleanup, EndsPlain, Confirming, GoesOn,
                 Choosing, Working
  <2> QED BY <1>1, <2>1, WorkStep
<1> QED BY <1>3, <1>4, <1>5, <1>6, <1>7, <1>8, <1>9, <1>10, <1>11 DEF Prepare, Cleanup

----------------------------------------------------------------------------
(* The choice of a torrent.                                                *)

\* The row keeps its status, and a permission that is consumed is held.
LEMMA BeginTorrentStep ==
  ASSUME PromiseInv, Shaped, BeginTorrent
  PROVE  PromiseInv'
<1> USE DEF Shaped, PromiseInv
<1>1. /\ row'.status = row.status /\ row'.review.accepted = row.review.accepted
      /\ row'.review.scope = row.review.scope /\ row'.review.choice = row.review.choice
      /\ ~row'.review.next /\ DOMAIN row'.review = DOMAIN row.review
  BY DEF BeginTorrent, Recorded
<1>2. /\ DOMAIN witness' = DOMAIN witness /\ witness'.purged = witness.purged
      /\ witness'.granted = witness.granted
      /\ witness.permit = "given" => witness'.permit = "held"
  BY DEF BeginTorrent, Recorded
<1>3. proc'.allowed = row.review.next /\ proc'.pc = "submit"
  BY DEF BeginTorrent
<1>4. Recorded' /\ ShareInv' /\ UploadedInv'
  BY <1>1, <1>2 DEF BeginTorrent, Recorded, ShareInv, UploadedInv
<1>5. GrantedFor(row'.review, witness'.granted)
  BY <1>1, <1>2 DEF DecisionInv, GrantedFor
<1>6. DecisionInv'
  BY <1>1, <1>2, <1>3, <1>5 DEF DecisionInv, AcceptedOnly, Working
<1> QED BY <1>4, <1>6

\* What is recorded as accepted was granted: before, for this very list, or by
\* the permission that this attempt consumed.
LEMMA ChoiceGranted ==
  ASSUME NEW p, Page(p), NEW review, NEW skipVideo, NEW granted, NEW bound,
         GrantedFor(review, granted),
         Choose(p, review, skipVideo).code \in { "chosen", "review" },
         LET made == Choose(p, review, skipVideo).review
         IN  review.next /\ made.choice # 0 =>
               [ scope |-> made.scope, choice |-> made.choice, warning |-> Link ] \in bound
  PROVE  GrantedFor(Choose(p, review, skipVideo).review, granted \cup bound)
<1> DEFINE made == Choose(p, review, skipVideo).review
           grant == [ scope |-> made.scope, choice |-> made.choice, warning |-> Link ]
<1>1. made.scope = Scope(p)
  BY ReviewMade
<1>2. \A w \in Accepted(p, review) :
        review.scope = made.scope /\ w \in review.accepted
  BY <1>1 DEF Accepted
<1>3. ASSUME made.choice = 0, made.accepted = Accepted(p, review)
      PROVE  GrantedFor(made, granted \cup bound)
  <2> HIDE DEF made
  <2> QED BY <1>2, <1>3 DEF GrantedFor
<1>4. ASSUME Select(p).code = "chosen", made.choice = Select(p).id,
             made.accepted \subseteq Accepted(p, review) \cup { Link },
             Link \in made.accepted /\ ~review.next =>
               review.choice = made.choice /\ Link \in Accepted(p, review)
      PROVE  GrantedFor(made, granted \cup bound)
  <2>1. made.choice # 0
    BY <1>4, ChosenIsUsable DEF Usable, Active, Page, Option
  <2>2. review.next => grant \in bound
    BY <2>1
  <2> HIDE DEF made
  <2>3. Link \in made.accepted => grant \in granted \cup bound
    BY <1>2, <1>4, <2>1, <2>2 DEF GrantedFor
  <2>4. grant.scope = made.scope /\ grant.warning = Link
    OBVIOUS
  <2>5. \A w \in made.accepted :
          \E d \in granted \cup bound : d.scope = made.scope /\ d.warning = w
    BY <1>2, <1>4, <2>3, <2>4 DEF GrantedFor
  <2> QED BY <2>3, <2>5 DEF GrantedFor
<1> QED BY <1>3, <1>4, ReviewMade DEF Link

\* The torrent of the page that a choice names is the usable one it found.
LEMMA TakenIsUsable ==
  ASSUME NEW p, Page(p), Select(p).code = "chosen"
  PROVE  /\ OptionOf(p, Select(p).id) \in Usable(p)
         /\ OptionOf(p, Select(p).id).seeds > 0
<1>1. PICK c \in Usable(p) : c.id = Select(p).id /\ c.seeds > 0
  BY ChosenIsUsable
<1>2. c \in p /\ \A d \in p : d.id = c.id => d = c
  BY DEF Usable, Active, Page
<1>3. OptionOf(p, c.id) = c
  BY <1>2 DEF OptionOf
<1> QED BY <1>1, <1>3

\* What was granted stays granted when more is.
LEMMA MoreGranted ==
  ASSUME NEW review, NEW granted, NEW more, GrantedFor(review, granted)
  PROVE  GrantedFor(review, granted \cup more)
BY DEF GrantedFor

\* The attempt that asks for a torrent hands it over only with every warning
\* accepted, and records no more as accepted than was granted or permitted.
LEMMA SubmitStep ==
  ASSUME PromiseInv, Shaped,
         NEW page \in Pages, NEW missing \in SUBSET { "public", "private" },
         Submit(page, missing)
  PROVE  PromiseInv'
<1> DEFINE choice == Choose(page, ReviewSeen, row.skipVideo)
           got == IF choice.code = "chosen" THEN Fetch(page, choice.review, missing)
                  ELSE [ code |-> choice.code, review |-> choice.review, personal |-> FALSE ]
           asked == [row EXCEPT !.review = got.review]
           open == got.review.warnings \ got.review.accepted
           more == IF got.code \in { "chosen", "review" } THEN Bound(got.review) ELSE {}
<1> USE DEF Shaped
<1>1. Page(page) /\ Working("torrent_download", "submit")
  BY PagesAssumption DEF Submit
<1>2. /\ ReviewSeen.accepted = row.review.accepted /\ ReviewSeen.scope = row.review.scope
      /\ ReviewSeen.choice = row.review.choice /\ ReviewSeen.next = proc.allowed
  BY DEF ReviewSeen, PromiseInv, Recorded
<1>3. GrantedFor(ReviewSeen, witness.granted)
  BY <1>2 DEF PromiseInv, DecisionInv, GrantedFor
<1>4. /\ DOMAIN witness' = DOMAIN witness /\ witness'.purged = witness.purged
      /\ witness'.permit = witness.permit /\ witness'.granted = witness.granted \cup more
      /\ UNCHANGED << share, index >>
  BY DEF Submit, PromiseInv, Recorded
<1>5. \/ got.code = "chosen" /\ UNCHANGED row
         /\ proc' = [proc EXCEPT !.pc = "record",
                       !.chosen = [ page |-> page, id |-> got.review.choice,
                                    personal |-> got.personal ]]
      \/ /\ got.code = "review"
         /\ Finish(asked, "review",
                   IF "video_torrent" \in open THEN "video_torrent" ELSE "warning")
      \/ got.code \notin { "chosen", "review" } /\ EndsPlain
  <2>1. \/ got.code = "chosen" /\ UNCHANGED row
           /\ proc' = [proc EXCEPT !.pc = "record",
                         !.chosen = [ page |-> page, id |-> got.review.choice,
                                      personal |-> got.personal ]]
        \/ /\ got.code = "review"
           /\ Finish(asked, "review",
                     IF "video_torrent" \in open THEN "video_torrent" ELSE "warning")
        \/ /\ got.code \notin { "chosen", "review" }
           /\ \/ Finish([row EXCEPT !.method = "direct"], "fallback", "other")
              \/ \E fallback \in Fallbacks : LeaveTorrent(row, fallback)
              \/ Finish(row, "review", "other")
    BY DEF Submit, FallbackCode
  <2> HIDE DEF got
  <2>2. ASSUME \/ Finish([row EXCEPT !.method = "direct"], "fallback", "other")
               \/ \E fallback \in Fallbacks : LeaveTorrent(row, fallback)
               \/ Finish(row, "review", "other")
        PROVE  EndsPlain
    BY <2>2, WaysOut DEF EndsPlain, Confirming
  <2> QED BY <2>1, <2>2
<1>6. ASSUME got.code \in { "chosen", "review" }
      PROVE  /\ choice.code \in { "chosen", "review" }
             /\ DOMAIN got.review = DOMAIN NoReview
             /\ ~got.review.next
             /\ GrantedFor(got.review, witness'.granted)
  <2>1. choice.code \in { "chosen", "review" }
    BY <1>6
  <2>2. /\ DOMAIN choice.review = DOMAIN NoReview /\ ~choice.review.next
    BY <2>1, ReviewMade
  <2>3. /\ DOMAIN got.review = DOMAIN choice.review
        /\ got.review.scope = choice.review.scope
        /\ got.review.choice = choice.review.choice
        /\ got.review.accepted = choice.review.accepted
        /\ got.review.next = choice.review.next
    BY FetchKeeps
  <2> HIDE DEF got, choice
  <2>4. witness'.granted = witness.granted \cup Bound(got.review)
    BY <1>4, <1>6
  <2>5. proc.allowed => witness.permit = "held"
    BY <1>1 DEF PromiseInv, DecisionInv
  <2>6. ReviewSeen.next /\ choice.review.choice # 0 =>
          [ scope |-> choice.review.scope, choice |-> choice.review.choice,
            warning |-> Link ] \in Bound(got.review)
    BY <1>2, <2>3, <2>5 DEF Bound, Link
  <2>7. GrantedFor(choice.review, witness.granted \cup Bound(got.review))
    BY <1>1, <1>3, <2>1, <2>6, ChoiceGranted DEF choice
  <2>8. GrantedFor(got.review, witness'.granted)
    BY <2>3, <2>4, <2>7 DEF GrantedFor
  <2> QED BY <2>1, <2>2, <2>3, <2>8
<1>7. CASE /\ got.code = "chosen" /\ UNCHANGED row
           /\ proc' = [proc EXCEPT !.pc = "record",
                         !.chosen = [ page |-> page, id |-> got.review.choice,
                                      personal |-> got.personal ]]
  <2>1. choice.code = "chosen" /\ got = Fetch(page, choice.review, missing)
    BY <1>7
  <2>2. /\ Select(page).code = "chosen"
        /\ choice.review.scope = Scope(page) /\ choice.review.choice = Select(page).id
        /\ Warnings(page, row.skipVideo) \subseteq Accepted(page, ReviewSeen)
    BY <2>1, NothingIsOpen
  <2>3. /\ got.review.choice = Select(page).id /\ got.review.scope = Scope(page)
        /\ got.personal => Link \in got.review.accepted
    BY <1>7, <2>1, <2>2, FetchKeeps
  <2>4. GrantedFor(got.review, witness'.granted) /\ GrantedFor(row'.review, witness'.granted)
    BY <1>4, <1>6, <1>7, MoreGranted DEF PromiseInv, DecisionInv
  <2> HIDE DEF got, choice
  <2>5. /\ proc'.chosen.page = page /\ proc'.chosen.id = Select(page).id
        /\ proc'.chosen.personal = got.personal
    BY <1>7, <2>3
  <2>6. \A w \in Warnings(page, row.skipVideo) :
          \E d \in witness'.granted : d.scope = Scope(page) /\ d.warning = w
    BY <1>2, <1>4, <2>2 DEF Accepted, PromiseInv, DecisionInv, GrantedFor
  <2>7. Select(page).id # 0
    BY <1>1, <2>2, ChosenIsUsable DEF Usable, Active, Page, Option
  <2>8. got.personal =>
          [ scope |-> Scope(page), choice |-> Select(page).id, warning |-> Link ]
            \in witness'.granted
    BY <2>3, <2>4, <2>7 DEF GrantedFor
  <2>9. AcceptedOnly'
    BY <1>1, <1>7, <2>2, <2>5, <2>6, <2>8, TakenIsUsable DEF AcceptedOnly, Link
  <2>10. DecisionInv'
    BY <1>4, <1>7, <2>4, <2>9 DEF PromiseInv, DecisionInv, Working
  <2> QED BY <1>4, <1>7, <2>10 DEF PromiseInv, Recorded, ShareInv, UploadedInv
<1>8. CASE /\ got.code = "review"
           /\ Finish(asked, "review",
                     IF "video_torrent" \in open THEN "video_torrent" ELSE "warning")
  <2>1. /\ DOMAIN got.review = DOMAIN NoReview /\ ~got.review.next
        /\ GrantedFor(got.review, witness'.granted)
    BY <1>6, <1>8
  <2> HIDE DEF got, choice
  <2>2. asked.status = row.status /\ row.status \in Status
    BY DEF PromiseInv, Recorded
  <2>3. /\ row'.status = EndStatus(asked, "review") /\ row'.review = got.review
        /\ proc' = Idle
    BY <1>8 DEF Finish
  <2>4. row'.status \in Status /\ (row'.status \in Uploaded => row.status \in Uploaded)
    BY <2>2, <2>3, EndsPlainly DEF Confirming
  <2>5. Recorded' /\ ShareInv' /\ UploadedInv'
    BY <1>4, <2>1, <2>3, <2>4
       DEF PromiseInv, Recorded, ShareInv, UploadedInv, NoReview
  <2>6. DecisionInv'
    BY <2>1, <2>3 DEF DecisionInv, AcceptedOnly, Working, Idle
  <2> QED BY <2>5, <2>6 DEF PromiseInv
<1>9. CASE got.code \notin { "chosen", "review" } /\ EndsPlain
  <2> HIDE DEF got
  <2>1. KeepsLibrary
    BY <1>4, <1>9 DEF KeepsLibrary, KeepsWitness
  <2> QED BY <1>9, <2>1, WorkStep
<1> QED BY <1>5, <1>7, <1>8, <1>9

----------------------------------------------------------------------------
(* Uploading, and the library.                                             *)

\* The steps of an upload that put nothing into the library's directory.
LEMMA UploadRowStep ==
  ASSUME PromiseInv, Shaped,
         \/ \E backend \in Backends : BeginUpload(backend)
         \/ UploadFails \/ TransferFile \/ ShareDown \/ AwaitImport
  PROVE  PromiseInv'
<1> USE DEF Shaped
<1>1. KeepsLibrary
  BY DEF BeginUpload, UploadFails, TransferFile, ShareDown, AwaitImport,
         KeepsLibrary, KeepsWitness
<1>2. ASSUME NEW backend \in Backends, BeginUpload(backend)
      PROVE  EndsPlain \/ GoesOn
  BY <1>2 DEF BeginUpload, Revalidate, RevalidateAfterError, EndsPlain, Confirming,
              GoesOn, Choosing, Working
<1>3. CASE UploadFails \/ ShareDown
  <2>1. EndsPlain
    BY <1>3, WaysOut DEF UploadFails, ShareDown, EndsPlain, Confirming
  <2> QED BY <1>1, <2>1, WorkStep
<1>4. CASE TransferFile \/ AwaitImport
  <2>1. EndsPlain \/ GoesOn
    BY <1>4 DEF TransferFile, AwaitImport, EndsPlain, Confirming, GoesOn, Choosing, Working
  <2> QED BY <1>1, <2>1, WorkStep
<1> QED BY <1>1, <1>2, <1>3, <1>4, WorkStep

\* A whole copy under a name that was free.
LEMMA NewCopy ==
  ASSUME ShareInv, NEW n, n \notin DOMAIN share, NEW c \in { "zip", "other" },
         share' = With(share, n, c)
  PROVE  /\ DOMAIN share' = DOMAIN share \cup { n } /\ share'[n] = c
         /\ \A m \in DOMAIN share' : share'[m] \in { "zip", "other" }
         /\ \A m \in DOMAIN share : share'[m] = share[m]
BY DEF ShareInv, With

\* The steps that put the archive into the library, or its directory.
LEMMA PublishingStep ==
  ASSUME PromiseInv, Shaped, PutArchive \/ PutUnanswered \/ Publish
  PROVE  PromiseInv'
<1> USE DEF Shaped
<1>1. KeepsWitness
  BY DEF PutArchive, PutUnanswered, Publish, KeepsWitness
<1>2. \/ UNCHANGED << share, index >>
      \/ /\ OwnName \notin DOMAIN share /\ share' = With(share, OwnName, "zip")
         /\ index = Unknown /\ index' = OwnName
      \/ /\ OwnName \notin DOMAIN share /\ share' = With(share, OwnName, "zip")
         /\ UNCHANGED index
  BY DEF PutArchive, PutUnanswered, Publish, SameBytes
<1>3. LibraryGrows
  <2>1. CASE UNCHANGED << share, index >>
    BY <1>1, <2>1 DEF PromiseInv, ShareInv, LibraryGrows
  <2>2. CASE OwnName \notin DOMAIN share /\ share' = With(share, OwnName, "zip")
    <3>1. /\ DOMAIN share' = DOMAIN share \cup { OwnName } /\ share'[OwnName] = "zip"
          /\ \A m \in DOMAIN share' : share'[m] \in { "zip", "other" }
          /\ \A m \in DOMAIN share : share'[m] = share[m]
      BY <2>2, NewCopy DEF PromiseInv
    <3>2. ShareInv'
      BY <1>2, <3>1 DEF PromiseInv, ShareInv
    <3> QED BY <1>1, <1>2, <3>2 DEF LibraryGrows
  <2> QED BY <1>2, <2>1, <2>2
<1>4. EndsPlain \/ GoesOn
  BY DEF PutArchive, PutUnanswered, Publish, RevalidateAfterError, EndsPlain, Confirming,
         GoesOn, Choosing, Working
<1> QED BY <1>3, <1>4, UploadingStep

\* The library is asked once more before an archive counts as uploaded.
LEMMA ConfirmStep ==
  ASSUME PromiseInv, Shaped, Confirm
  PROVE  PromiseInv'
<1> USE DEF Shaped
<1>1. KeepsLibrary
  BY DEF Confirm, KeepsLibrary, KeepsWitness
<1>2. CASE EndsPlain
  BY <1>1, <1>2, WorkStep
<1>3. CASE Matches(OwnName) /\ Finish([row EXCEPT !.lrr = TRUE], "uploaded", "none")
  <2>1. /\ row'.status = EndStatus([row EXCEPT !.lrr = TRUE], "uploaded")
        /\ row'.review = row.review /\ proc' = Idle
    BY <1>3 DEF Finish
  <2>2. row'.status \in Status
    <3>1. [row EXCEPT !.lrr = TRUE].status = row.status /\ row.status \in Status
      BY DEF PromiseInv, Recorded
    <3> QED BY <2>1, <3>1, TransitionTyped DEF EndStatus, Status
  <2>3. index' # Unknown
    BY <1>1, <1>3 DEF Matches, KeepsLibrary
  <2>4. Recorded' /\ ShareInv' /\ UploadedInv'
    BY <1>1, <2>1, <2>2, <2>3
       DEF PromiseInv, Recorded, ShareInv, UploadedInv, KeepsLibrary, KeepsWitness
  <2>5. DecisionInv'
    BY <1>1, <2>1 DEF PromiseInv, DecisionInv, KeepsLibrary, KeepsWitness, AcceptedOnly,
                      Working, Idle
  <2> QED BY <2>4, <2>5 DEF PromiseInv
<1> QED BY <1>2, <1>3 DEF Confirm, EndsPlain, Confirming

\* The library's watcher, other archives, and who removes this one.
LEMMA LibraryChanges ==
  ASSUME PromiseInv, Shaped, ShinobuImport \/ NameTaken \/ LibraryForgets
  PROVE  PromiseInv'
<1> USE DEF PromiseInv
<1>1. UNCHANGED << row, proc >>
  BY DEF ShinobuImport, NameTaken, LibraryForgets
<1>2. KeepsRow
  BY <1>1 DEF KeepsRow, Recorded
<1>3. CASE ShinobuImport
  <2>1. LibraryGrows
    BY <1>3 DEF ShinobuImport, ShareInv, LibraryGrows, KeepsWitness
  <2> QED BY <1>1, <1>2, <2>1, GrowingStep
<1>4. CASE NameTaken
  <2>1. OwnName \notin DOMAIN share /\ share' = With(share, OwnName, "other")
        /\ UNCHANGED << index, witness >>
    BY <1>4 DEF NameTaken
  <2>2. /\ DOMAIN share' = DOMAIN share \cup { OwnName }
        /\ \A m \in DOMAIN share' : share'[m] \in { "zip", "other" }
        /\ \A m \in DOMAIN share : share'[m] = share[m]
    BY <2>1, NewCopy
  <2>3. LibraryGrows
    BY <2>1, <2>2 DEF ShareInv, LibraryGrows, KeepsWitness
  <2> QED BY <1>1, <1>2, <2>3, GrowingStep
<1>5. CASE LibraryForgets
  <2>1. /\ DOMAIN witness' = DOMAIN witness /\ witness'.purged
        /\ witness'.permit = witness.permit /\ witness'.granted = witness.granted
    BY <1>5 DEF LibraryForgets, Recorded
  <2>2. ShareInv'
    BY <1>5 DEF LibraryForgets, ShareInv, Without
  <2>3. Recorded' /\ UploadedInv'
    BY <1>1, <2>1 DEF Recorded, UploadedInv
  <2>4. DecisionInv'
    BY <1>1, <2>1 DEF DecisionInv, AcceptedOnly, Working
  <2> QED BY <2>2, <2>3, <2>4
<1> QED BY <1>3, <1>4, <1>5

\* qBittorrent, the remote downloads, and the damage the disk does.
LEMMA WorldStep ==
  ASSUME PromiseInv, TorrentProgress \/ TorrentDisturbed \/ RemoteProgress \/ Damage
  PROVE  PromiseInv'
<1>1. UNCHANGED << row, proc, share, index >>
  BY DEF TorrentProgress, TorrentDisturbed, RemoteProgress, Damage
<1>2. KeepsLibrary
  BY <1>1 DEF TorrentProgress, TorrentDisturbed, RemoteProgress, Damage,
              KeepsLibrary, KeepsWitness, PromiseInv, Recorded
<1>3. KeepsRow
  BY <1>1 DEF KeepsRow, PromiseInv, Recorded
<1> QED BY <1>1, <1>2, <1>3, PlainStep

----------------------------------------------------------------------------
(* Persons.                                                                *)

\* A button moves the row; the one that confirms an upload needs the library.
LEMMA ActStep ==
  ASSUME PromiseInv, Shaped, NEW action \in DOMAIN WebActionEvent, Act(action)
  PROVE  PromiseInv'
<1> DEFINE event == WebActionEvent[action][row.status]
<1> USE DEF Shaped
<1>1. /\ row.status \in DOMAIN WebActionEvent[action] /\ CanTransition(row.status, event)
      /\ row'.status = TransitionTarget(row.status, event)
      /\ row'.review = row.review /\ row'.skipVideo = row.skipVideo
      /\ UNCHANGED << proc, share, index, witness >>
      /\ action = "confirm_uploaded" => index # Unknown
  BY DEF Act, Inside
<1>2. row.status \in Status
  BY DEF PromiseInv, Recorded
<1> HIDE DEF event
<1>3. CASE event \notin Confirming
  <2>1. KeepsRow
    BY <1>1, <1>2, <1>3, OnlyConfirming DEF KeepsRow
  <2>2. KeepsLibrary
    BY <1>1 DEF KeepsLibrary, KeepsWitness
  <2> QED BY <1>1, <2>1, <2>2, PlainStep
<1>4. CASE event \in Confirming
  <2>1. index # Unknown
    BY <1>1, <1>4, OnlyOneButton DEF event
  <2>2. row'.status \in Status
    BY <1>1, <1>2, TransitionTyped
  <2>3. Recorded' /\ ShareInv' /\ UploadedInv'
    BY <1>1, <2>1, <2>2 DEF PromiseInv, Recorded, ShareInv, UploadedInv
  <2>4. DecisionInv'
    BY <1>1 DEF PromiseInv, DecisionInv, AcceptedOnly, Working
  <2> QED BY <2>3, <2>4 DEF PromiseInv
<1> QED BY <1>3, <1>4

\* What is set by hand while no process has the row.
LEMMA ByHandStep ==
  ASSUME PromiseInv, Shaped,
         \/ ReleaseExpiredLease \/ RequestRename \/ SkipVideo
         \/ \E target \in Parked \cup { "discovered", "details_pending", "download_blocked",
                                        "downloaded", "completed" } :
              OverrideStatus(target)
  PROVE  PromiseInv'
<1> USE DEF Shaped
<1>1. KeepsLibrary
  BY DEF ReleaseExpiredLease, RequestRename, SkipVideo, OverrideStatus, Inside,
         KeepsLibrary, KeepsWitness
<1>2. ~Choosing'
  <2>1. proc' = Idle \/ (proc.pc = "idle" /\ proc' = proc)
    BY DEF ReleaseExpiredLease, RequestRename, SkipVideo, OverrideStatus, Inside, Unclaimed
  <2> QED BY <2>1 DEF Choosing, Working, Idle
<1>3. CASE ReleaseExpiredLease \/ RequestRename \/ SkipVideo
  <2>1. KeepsRow
    BY <1>3 DEF ReleaseExpiredLease, RequestRename, SkipVideo, KeepsRow, Status, Uploaded
  <2> QED BY <1>1, <1>2, <2>1, PlainStep
<1>4. ASSUME NEW target \in Parked \cup { "discovered", "details_pending",
                       "download_blocked", "downloaded", "completed" },
             OverrideStatus(target)
      PROVE  PromiseInv'
  <2>1. row'.review = row.review /\ row'.status = target
    BY <1>4 DEF OverrideStatus
  <2>2. CASE target # "completed"
    <3>1. target \in Status \ Uploaded
      BY <2>2 DEF Parked, Status, Uploaded
    <3>2. KeepsRow
      BY <2>1, <3>1 DEF KeepsRow
    <3> QED BY <1>1, <1>2, <3>2, PlainStep
  <2>3. CASE target = "completed"
    <3>1. index # Unknown
      BY <1>4, <2>3 DEF OverrideStatus, Parked
    <3>2. Recorded' /\ ShareInv' /\ UploadedInv'
      BY <1>1, <2>1, <2>3, <3>1 DEF PromiseInv, Recorded, ShareInv, UploadedInv,
                                    KeepsLibrary, KeepsWitness, Status
    <3>3. DecisionInv'
      BY <1>1, <1>2, <2>1 DEF PromiseInv, DecisionInv, KeepsLibrary, KeepsWitness,
                              AcceptedOnly, Choosing, Working
    <3> QED BY <3>2, <3>3 DEF PromiseInv
  <2> QED BY <2>2, <2>3
<1> QED BY <1>3, <1>4

\* What a person accepts and takes back.
LEMMA DecidingStep ==
  ASSUME PromiseInv, Shaped,
         \/ RevokeWarnings
         \/ \E warnings \in SUBSET Warning : ConfirmWarnings(warnings)
         \/ \E allow \in BOOLEAN : SetPermission(allow)
  PROVE  PromiseInv'
<1> USE DEF Shaped
<1>1. /\ UNCHANGED << share, index >> /\ ~Choosing'
      /\ row'.status \in Status \ Uploaded \/ row'.status = row.status
      /\ DOMAIN row'.review = DOMAIN row.review
      /\ DOMAIN witness' = DOMAIN witness /\ witness'.purged = witness.purged
  BY DEF RevokeWarnings, ConfirmWarnings, SetPermission, Inside, Unclaimed, Choosing,
         Working, Status, Uploaded, PromiseInv, Recorded
<1>2. Recorded' /\ ShareInv' /\ UploadedInv'
  BY <1>1 DEF PromiseInv, Recorded, ShareInv, UploadedInv
<1>3. AcceptedOnly'
  BY <1>1 DEF Choosing, AcceptedOnly, Working
<1>4. CASE RevokeWarnings
  <2>1. row'.review.accepted = {} /\ ~row'.review.next
    BY <1>4 DEF RevokeWarnings, PromiseInv, Recorded
  <2> QED BY <1>1, <1>2, <1>3, <2>1 DEF PromiseInv, DecisionInv, GrantedFor, Choosing, Working
<1>5. ASSUME NEW warnings \in SUBSET Warning, ConfirmWarnings(warnings)
      PROVE  PromiseInv'
  <2> DEFINE Grant(w) == [ scope |-> row.review.scope, choice |-> row.review.choice,
                           warning |-> w ]
  <2>1. /\ row'.review.accepted = warnings /\ row'.review.scope = row.review.scope
        /\ row'.review.choice = row.review.choice /\ row'.review.next = row.review.next
        /\ witness'.permit = witness.permit
        /\ \A w \in warnings : Grant(w) \in witness'.granted
    BY <1>5 DEF ConfirmWarnings, PromiseInv, Recorded
  <2>2. \A w : Grant(w).scope = row.review.scope /\ Grant(w).warning = w
    OBVIOUS
  <2>3. GrantedFor(row'.review, witness'.granted)
    BY <2>1, <2>2 DEF GrantedFor
  <2> QED BY <1>1, <1>2, <1>3, <2>1, <2>3 DEF PromiseInv, DecisionInv, Choosing, Working
<1>6. ASSUME NEW allow \in BOOLEAN, SetPermission(allow)
      PROVE  PromiseInv'
  <2>1. /\ row'.review.accepted = row.review.accepted \ { Link }
        /\ row'.review.scope = row.review.scope /\ row'.review.next = allow
        /\ witness'.granted = { d \in witness.granted : d.warning # Link }
        /\ allow => witness'.permit = "given"
    BY <1>6 DEF SetPermission, PromiseInv, Recorded, Link
  <2>2. GrantedFor(row'.review, witness'.granted)
    BY <2>1 DEF PromiseInv, DecisionInv, GrantedFor
  <2> QED BY <1>1, <1>2, <1>3, <2>1, <2>2 DEF PromiseInv, DecisionInv, Choosing, Working
<1> QED BY <1>4, <1>5, <1>6

----------------------------------------------------------------------------
\* Every step keeps the promises.
LEMMA PromiseStep ==
  ASSUME PromiseInv, Shaped, [Next]_vars
  PROVE  PromiseInv'
<1>1. CASE UNCHANGED vars
  BY <1>1, PlainStep DEF vars, KeepsLibrary, KeepsWitness, KeepsRow, PromiseInv, Recorded
<1>2. CASE Next
  BY <1>2, QueueStep, StopStep, BeginTorrentStep, SubmitStep, TorrentRowStep,
     DirectRowStep, FileRowStep, UploadRowStep, PublishingStep, ConfirmStep,
     LibraryChanges, WorldStep, ActStep, ByHandStep, DecidingStep
     DEF Next, Work, Download, Upload, Outage, World, Person
<1> QED BY <1>1, <1>2

(***************************************************************************)
(* The inductive invariant: what the library knows is there and whole; an  *)
(* archive is uploaded only while the library knows it or somebody removed *)
(* it there; a row records nothing as accepted that no person granted for  *)
(* its list.                                                               *)
(***************************************************************************)
THEOREM PromisesKept == Spec => []PromiseInv
<1>1. Init => PromiseInv
  BY DEF Init, PromiseInv, Recorded, ShareInv, UploadedInv, DecisionInv, GrantedFor,
         AcceptedOnly, NoReview, Status, Uploaded, Working, Idle
<1>2. PromiseInv /\ FileInv /\ [Next]_vars => PromiseInv'
  BY PromiseStep DEF FileInv
<1> QED BY <1>1, <1>2, FilesSound, PTL DEF Spec

(***************************************************************************)
(* An archive counts as uploaded only while the library has it, unless     *)
(* somebody removed it there: the uploaders end with a check of the        *)
(* library's index, and no other way leads among the uploaded but the      *)
(* button that makes the same check (tasks/runner.py, web/services.py).    *)
(***************************************************************************)
THEOREM UploadedIsThere == Spec => []InLibrary
<1>1. PromiseInv => InLibrary
  BY DEF PromiseInv, ShareInv, UploadedInv, InLibrary, Uploaded
<1> QED BY <1>1, PromisesKept, PTL

(***************************************************************************)
(* A torrent is handed to qBittorrent only if each of its warnings was     *)
(* accepted by a person for this very list, or covered by the one-shot     *)
(* permission that the attempt consumed (_review_torrent_choice of the     *)
(* runner).                                                                *)
(***************************************************************************)
THEOREM DecisionsRespected == Spec => []AcceptedOnly
<1>1. PromiseInv => AcceptedOnly
  BY DEF PromiseInv, DecisionInv
<1> QED BY <1>1, PromisesKept, PTL

----------------------------------------------------------------------------
(***************************************************************************)
(* The copies of an archive: whatever fails, dies or is decided by a       *)
(* person, a whole copy that was registered is not destroyed by the        *)
(* program.                                                                *)
(***************************************************************************)
OnDisk == \E f \in DOMAIN disk : disk[f] \in { "zip", "dir" }
InShare == \E n \in DOMAIN share : share[n] = "zip"

\* An old name is taken away only while a second one exists, and local files are
\* removed only while the library knows the archive.
CopyInv ==
  /\ Working("validate", "unlink") => row.file \in links
  /\ Working("cleanup", "files") => index # Unknown
  /\ NeverLost

\* No process is about to remove anything.
Harmless == ~Working("validate", "unlink") /\ ~Working("cleanup", "files")

\* Whole files stay, under each of their names.
WholeStay ==
  /\ \A f \in DOMAIN disk : Valid(f) => f \in DOMAIN disk' /\ disk'[f] = disk[f]
  /\ \A n \in DOMAIN share : n \in DOMAIN share' /\ share'[n] = share[n]

\* What has been registered is there.
GoodIsThere == witness'.good => witness.good \/ (OnDisk \/ InShare)'

\* A step that removes nothing, and leaves no process about to.
LEMMA HarmlessStep ==
  ASSUME CopyInv, WholeStay, GoodIsThere, Harmless'
  PROVE  CopyInv'
<1>1. NeverLost'
  BY DEF CopyInv, NeverLost, WholeStay, GoodIsThere, OnDisk, InShare, Valid, Held, Has
<1> QED BY <1>1 DEF CopyInv, Harmless

\* The same for one that leaves the process where it was.
LEMMA OutsideStep ==
  ASSUME CopyInv, WholeStay, GoodIsThere, UNCHANGED proc,
         Working("validate", "unlink") => row'.file = row.file /\ UNCHANGED links,
         index # Unknown => index' # Unknown
  PROVE  CopyInv'
<1>1. NeverLost'
  BY DEF CopyInv, NeverLost, WholeStay, GoodIsThere, OnDisk, InShare, Valid, Held, Has
<1> QED BY <1>1 DEF CopyInv, Working

\* Nothing happens to files.
LEMMA FilesAlone ==
  ASSUME UNCHANGED << disk, share >>
  PROVE  WholeStay
BY DEF WholeStay

\* Who has ended an attempt removes nothing more.
LEMMA EndedIsHarmless ==
  ASSUME Ended
  PROVE  Harmless'
BY DEF Ended, Finish, Harmless, Working, Idle

\* No copy is registered as whole.
LEMMA WitnessAlone ==
  ASSUME witness'.good = witness.good
  PROVE  GoodIsThere
BY DEF GoodIsThere

\* A copy that is registered as whole is there.
LEMMA KeptIsThere ==
  ASSUME NEW f, UNCHANGED disk, "good" \in DOMAIN witness, witness' = Kept(f)
  PROVE  GoodIsThere
BY DEF Kept, GoodIsThere, OnDisk, Valid, Held, Has

----------------------------------------------------------------------------
(* Steps of a process that leave all files alone.                          *)

\* The Supervisor's claims, and a process that starts, pauses or dies.
LEMMA QueueIsHarmless ==
  ASSUME CopyInv, FetchDetails \/ Claims \/ Pause \/ Crash, Shaped
  PROVE  CopyInv'
<1>1. WholeStay /\ GoodIsThere
  BY DEF FetchDetails, Claims, Claim, Pause, Crash, WholeStay, GoodIsThere
<1>2. CASE FetchDetails \/ Pause
  <2>1. Ended
    BY <1>2 DEF FetchDetails, Pause, SystemRetry, Ended, Shaped
  <2> QED BY <1>1, <2>1, EndedIsHarmless, HarmlessStep
<1>3. CASE Claims \/ Crash
  <2>1. Harmless'
    BY <1>3 DEF Claims, Claim, Crash, Idle, Harmless, Working
  <2> QED BY <1>1, <2>1, HarmlessStep
<1> QED BY <1>2, <1>3

\* Downloads register what they found whole, and remove nothing.
LEMMA DownloadIsHarmless ==
  ASSUME CopyInv, Recorded, Shaped,
         \/ BeginTorrent \/ NoTorrentListed \/ SubmitFails \/ RecordTorrent
         \/ \E page \in Pages, missing \in SUBSET { "public", "private" } :
              Submit(page, missing)
         \/ FallbackTorrent
         \/ RefuseDirect \/ TransferDirect \/ StartRemote \/ RecordRemote
         \/ ServiceDown \/ OrderUnanswered
  PROVE  CopyInv'
<1> USE DEF Shaped
<1>1. WholeStay
  BY DEF BeginTorrent, NoTorrentListed, SubmitFails, RecordTorrent, Submit,
         FallbackTorrent, RefuseDirect, TransferDirect, StartRemote, RecordRemote,
         ServiceDown, OrderUnanswered, WholeStay
<1>2. GoodIsThere
  BY DEF BeginTorrent, NoTorrentListed, SubmitFails, RecordTorrent, Submit,
         FallbackTorrent, RefuseDirect, TransferDirect, StartRemote, RecordRemote,
         ServiceDown, OrderUnanswered, GoodIsThere, Recorded
<1>3. CASE BeginTorrent
  <2>1. Harmless'
    BY <1>3 DEF BeginTorrent, Harmless, Working
  <2> QED BY <1>1, <1>2, <2>1, HarmlessStep
<1>4. ASSUME NEW page \in Pages, NEW missing \in SUBSET { "public", "private" },
             Submit(page, missing)
      PROVE  CopyInv'
  <2>1. Ended \/ proc'.pc = "record"
    BY <1>4, WaysToEnd DEF Submit, Ended
  <2>2. Harmless'
    BY <2>1, EndedIsHarmless DEF Harmless, Working
  <2> QED BY <1>1, <1>2, <2>2, HarmlessStep
<1>5. CASE NoTorrentListed \/ SubmitFails \/ RecordTorrent \/ FallbackTorrent
             \/ RefuseDirect \/ RecordRemote \/ ServiceDown \/ OrderUnanswered
  <2>1. Ended
    BY <1>5, WaysToEnd DEF NoTorrentListed, SubmitFails, RecordTorrent, FallbackTorrent,
       RefuseDirect, RecordRemote, ServiceDown, OrderUnanswered, Ended
  <2> QED BY <1>1, <1>2, <2>1, EndedIsHarmless, HarmlessStep
<1>6. CASE TransferDirect \/ StartRemote
  <2>1. Ended \/ proc'.pc \in { "promote", "record" }
    BY <1>6, WaysToEnd DEF TransferDirect, StartRemote, Ended
  <2>2. Harmless'
    BY <2>1, EndedIsHarmless DEF Harmless, Working
  <2> QED BY <1>1, <1>2, <2>2, HarmlessStep
<1> QED BY <1>3, <1>4, <1>5, <1>6

\* Where a copy is registered, it is there.
LEMMA RegistrationIsHarmless ==
  ASSUME CopyInv, Recorded, Shaped,
         \/ CheckTorrent \/ RegisterDirect \/ PollHah \/ RegisterAria2 \/ RegisterPrepared
  PROVE  CopyInv'
<1> USE DEF Shaped
<1>1. WholeStay /\ UNCHANGED disk
  BY DEF CheckTorrent, RegisterDirect, PollHah, RegisterAria2, RegisterPrepared, WholeStay
<1>2. Ended
  BY DEF CheckTorrent, RegisterDirect, PollHah, RegisterAria2, RegisterPrepared,
         Registered, Ended
<1>3. UNCHANGED witness \/ \E f : witness' = Kept(f)
  BY DEF CheckTorrent, RegisterDirect, PollHah, RegisterAria2, RegisterPrepared, Kept
<1>4. GoodIsThere
  BY <1>1, <1>3, KeptIsThere, WitnessAlone DEF Recorded
<1> QED BY <1>1, <1>2, <1>4, EndedIsHarmless, HarmlessStep

\* Validation, packing, and the ends of quarantine and cleanup remove nothing.
LEMMA PreparingIsHarmless ==
  ASSUME CopyInv, Shaped,
         \/ BeginValidate \/ Validate \/ DiskDown \/ Quarantine \/ Pack \/ PackFails
         \/ CleanupFails \/ EndCleanup
  PROVE  CopyInv'
<1> USE DEF Shaped
<1>1. WholeStay /\ GoodIsThere
  BY DEF BeginValidate, Validate, DiskDown, Quarantine, Pack, PackFails, CleanupFails,
         EndCleanup, WholeStay, GoodIsThere
<1>2. DOMAIN AfterRename = DOMAIN row
  BY DEF AfterRename
<1>3. CASE BeginValidate
  <2>1. Harmless'
    BY <1>3 DEF BeginValidate, Harmless, Working
  <2> QED BY <1>1, <2>1, HarmlessStep
<1>4. CASE Validate \/ Pack
  <2>1. Ended \/ proc'.pc \in { "quarantine", "promote" }
    BY <1>2, <1>4 DEF Validate, Pack, SystemRetry, Ended
  <2>2. Harmless'
    BY <2>1, EndedIsHarmless DEF Harmless, Working
  <2> QED BY <1>1, <2>2, HarmlessStep
<1>5. CASE DiskDown \/ Quarantine
  <2>1. Ended
    BY <1>2, <1>5 DEF DiskDown, Quarantine, SystemRetry, Ended
  <2> QED BY <1>1, <2>1, EndedIsHarmless, HarmlessStep
<1>6. CASE PackFails \/ CleanupFails \/ EndCleanup
  <2>1. Ended
    BY <1>6, WaysToEnd DEF PackFails, CleanupFails, EndCleanup, Ended
  <2> QED BY <1>1, <2>1, EndedIsHarmless, HarmlessStep
<1> QED BY <1>3, <1>4, <1>5, <1>6

\* An upload adds copies only.
LEMMA UploadIsHarmless ==
  ASSUME CopyInv, Shaped,
         \/ \E backend \in Backends : BeginUpload(backend)
         \/ UploadFails \/ TransferFile \/ ShareDown \/ AwaitImport \/ Confirm
         \/ PutArchive \/ PutUnanswered \/ Publish
  PROVE  CopyInv'
<1> USE DEF Shaped
<1>1. GoodIsThere /\ UNCHANGED disk
  BY DEF BeginUpload, UploadFails, TransferFile, ShareDown, AwaitImport, Confirm,
         PutArchive, PutUnanswered, Publish, GoodIsThere
<1>2. \/ UNCHANGED share
      \/ \E c : OwnName \notin DOMAIN share /\ share' = With(share, OwnName, c)
  BY DEF BeginUpload, UploadFails, TransferFile, ShareDown, AwaitImport, Confirm,
         PutArchive, PutUnanswered, Publish
<1>3. WholeStay
  BY <1>1, <1>2 DEF WholeStay, With
<1>4. Ended \/ proc'.op = "upload"
  <2>1. ASSUME NEW backend \in Backends, BeginUpload(backend)
        PROVE  Ended \/ proc'.op = "upload"
    BY <2>1 DEF BeginUpload, Revalidate, RevalidateAfterError, Working, Ended
  <2>2. CASE UploadFails \/ ShareDown \/ Confirm
    BY <2>2 DEF UploadFails, ShareDown, SystemRetry, Confirm, Ended
  <2>3. CASE TransferFile \/ AwaitImport
    BY <2>3 DEF TransferFile, AwaitImport, Working, Ended
  <2>4. CASE PutArchive \/ PutUnanswered \/ Publish
    BY <2>4 DEF PutArchive, PutUnanswered, Publish, RevalidateAfterError, Working, Ended
  <2> QED BY <2>1, <2>2, <2>3, <2>4
<1>5. Harmless'
  BY <1>4, EndedIsHarmless DEF Harmless, Working
<1> QED BY <1>1, <1>3, <1>5, HarmlessStep

----------------------------------------------------------------------------
(* Steps that add, move or remove files.                                   *)

\* A file that is moved into its place is whole under its new name.
LEMMA PromotionIsHarmless ==
  ASSUME CopyInv, FileInv, PromoteDirect \/ PollAria2 \/ PromotePrepared
  PROVE  CopyInv'
<1> USE DEF FileInv, Shaped
<1>1. GoodIsThere /\ UNCHANGED share
  BY DEF PromoteDirect, PollAria2, PromotePrepared, GoodIsThere
<1>2. \/ UNCHANGED disk
      \/ \E f, c : f \notin DOMAIN disk /\ Put(f, c)
  BY DEF PromoteDirect, PollAria2, PromotePrepared, NameReserved, Has
<1>3. WholeStay
  BY <1>1, <1>2, PutNew DEF WholeStay, KeepsFiles
<1>4. Ended \/ proc'.pc = "register"
  BY DEF PromoteDirect, PollAria2, PromotePrepared, Ended
<1>5. Harmless'
  BY <1>4, EndedIsHarmless DEF Harmless, Working
<1> QED BY <1>1, <1>3, <1>5, HarmlessStep

\* The old name goes while the new one is the same file.
LEMMA RenamingIsHarmless ==
  ASSUME CopyInv, FileInv, BeginRename \/ UnlinkSource
  PROVE  CopyInv'
<1> USE DEF FileInv, Shaped
<1>1. GoodIsThere /\ UNCHANGED share
  BY DEF BeginRename, UnlinkSource, GoodIsThere
<1>2. CASE BeginRename
  <2>1. WholeStay
    <3>1. CASE UNCHANGED disk
      BY <1>1, <3>1 DEF WholeStay
    <3>2. CASE ~UNCHANGED disk
      <4>1. /\ row.file \in DOMAIN disk /\ Renamed \notin DOMAIN disk
            /\ disk' = With(disk, Renamed, disk[row.file]) /\ links' = links \cup { row.file }
        BY <1>2, <3>2 DEF BeginRename, IsFile, Held, Has
      <4> QED BY <1>1, <4>1 DEF With, WholeStay
    <3> QED BY <3>1, <3>2
  <2>2. \/ Harmless'
        \/ row'.file \in links' /\ proc'.pc = "unlink"
    BY <1>2, EndedIsHarmless DEF BeginRename, Harmless, Working, Ended
  <2>3. CASE Harmless'
    BY <1>1, <2>1, <2>3, HarmlessStep
  <2>4. CASE row'.file \in links' /\ proc'.pc = "unlink"
    <3>1. NeverLost'
      BY <1>1, <2>1 DEF CopyInv, NeverLost, WholeStay, GoodIsThere, OnDisk, InShare,
                        Valid, Held, Has
    <3> QED BY <2>4, <3>1 DEF CopyInv, Working
  <2> QED BY <2>2, <2>3, <2>4
<1>3. CASE UnlinkSource
  <2>1. row.file \in links /\ Drop({ row.file })
    BY <1>3 DEF UnlinkSource, CopyInv
  <2>2. /\ Renamed \in DOMAIN disk /\ Renamed # row.file /\ disk[Renamed] = disk[row.file]
        /\ row.file \in DOMAIN disk
    BY <2>1 DEF LinksInv, Renamed
  <2>3. /\ DOMAIN disk' = DOMAIN disk \ { row.file }
        /\ \A f \in DOMAIN disk' : disk'[f] = disk[f]
    BY <2>1 DEF Drop, Without
  <2>4. OnDisk => OnDisk'
    BY <2>2, <2>3 DEF OnDisk
  <2>5. NeverLost'
    BY <1>1, <2>4 DEF CopyInv, NeverLost, GoodIsThere, OnDisk, InShare
  <2>6. Harmless'
    BY <1>3 DEF UnlinkSource, Harmless, Working
  <2> QED BY <2>5, <2>6 DEF CopyInv, Harmless
<1> QED BY <1>2, <1>3

\* What goes into quarantine is kept there.
LEMMA QuarantineIsHarmless ==
  ASSUME CopyInv, FileInv, MoveToQuarantine
  PROVE  CopyInv'
<1> USE DEF FileInv, Shaped
<1>1. PICK n :
        /\ Unused(n) /\ Move(AfterRename.file, QuarantineFile(n))
        /\ proc'.pc = "quarantined" /\ UNCHANGED << share, witness >>
  BY DEF MoveToQuarantine
<1>2. AfterRename.file \in DOMAIN disk /\ QuarantineFile(n) \notin DOMAIN disk
  BY <1>1 DEF MoveToQuarantine, Unused, Has
<1>3. /\ DOMAIN disk' = (DOMAIN disk \ { AfterRename.file }) \cup { QuarantineFile(n) }
      /\ disk'[QuarantineFile(n)] = disk[AfterRename.file]
      /\ \A f \in DOMAIN disk \ { AfterRename.file } : disk'[f] = disk[f]
  BY <1>1, <1>2 DEF Move, With, Without
<1>4. OnDisk => OnDisk'
  BY <1>3 DEF OnDisk
<1>5. NeverLost'
  BY <1>1, <1>4 DEF CopyInv, NeverLost, OnDisk
<1>6. Harmless'
  BY <1>1 DEF Harmless, Working
<1> QED BY <1>5, <1>6 DEF CopyInv, Harmless

\* What qBittorrent removes with a stalled torrent was not whole; who gives a
\* torrent up gives up its files.
LEMMA DropIsHarmless ==
  ASSUME CopyInv, FileInv, Recorded, DropTorrent
  PROVE  CopyInv'
<1> USE DEF FileInv, Shaped
<1>1. UNCHANGED share
  BY DEF DropTorrent
<1>2. Harmless'
  <2>1. Ended \/ proc'.pc = "fallback"
    BY DEF DropTorrent, Ended
  <2> QED BY <2>1, EndedIsHarmless DEF Harmless, Working
<1>3. CASE UNCHANGED << disk, witness >>
  BY <1>1, <1>2, <1>3, HarmlessStep DEF WholeStay, GoodIsThere
<1>4. CASE /\ Drop(Discarded)
           /\ witness' = [witness EXCEPT !.good = @ /\ ~\E f \in Discarded : Valid(f)]
  <2>1. witness'.good => witness.good /\ \A f \in Discarded : ~Valid(f)
    BY <1>4 DEF Recorded
  <2>2. \A f \in DOMAIN disk \ Discarded : f \in DOMAIN disk' /\ disk'[f] = disk[f]
    BY <1>4 DEF Drop, Without
  <2>3. NeverLost'
    BY <1>1, <2>1, <2>2 DEF CopyInv, NeverLost, Valid, Held, Has
  <2> QED BY <1>2, <2>3 DEF CopyInv, Harmless
<1> QED BY <1>3, <1>4 DEF DropTorrent

\* The last local copy goes while the library has one.
LEMMA CleanupIsHarmless ==
  ASSUME CopyInv, ShareInv, Shaped, CheckLibrary \/ RemoveFiles
  PROVE  CopyInv'
<1> USE DEF Shaped
<1>1. CASE CheckLibrary
  <2>1. WholeStay /\ GoodIsThere
    BY <1>1 DEF CheckLibrary, WholeStay, GoodIsThere
  <2>2. Harmless' \/ (index' # Unknown /\ proc'.pc = "files")
    BY <1>1, EndedIsHarmless DEF CheckLibrary, Ended
  <2>3. CASE Harmless'
    BY <2>1, <2>3, HarmlessStep
  <2>4. CASE index' # Unknown /\ proc'.pc = "files"
    <3>1. NeverLost'
      BY <2>1 DEF CopyInv, NeverLost, WholeStay, GoodIsThere, OnDisk, InShare,
                  Valid, Held, Has
    <3> QED BY <2>4, <3>1 DEF CopyInv, Working
  <2> QED BY <2>2, <2>3, <2>4
<1>2. CASE RemoveFiles
  <2>1. index # Unknown /\ UNCHANGED share /\ proc'.pc = "detach"
    BY <1>2 DEF RemoveFiles, CopyInv
  <2>2. NeverLost'
    BY <2>1 DEF ShareInv, NeverLost
  <2> QED BY <2>1, <2>2 DEF CopyInv, Working
<1> QED BY <1>1, <1>2

----------------------------------------------------------------------------
(* The Supervisor, the library, the services, the disk, and persons.       *)

\* The services, the library and the disk: what they damage was not the
\* program's doing, and is recorded as such.
LEMMA WorldIsHarmless ==
  ASSUME CopyInv, FileInv, Recorded,
         \/ TorrentProgress \/ TorrentDisturbed \/ RemoteProgress
         \/ ShinobuImport \/ NameTaken \/ LibraryForgets \/ Damage
  PROVE  CopyInv'
<1> USE DEF FileInv
<1>1. UNCHANGED << row, proc >>
  BY DEF TorrentProgress, TorrentDisturbed, RemoteProgress, ShinobuImport, NameTaken,
         LibraryForgets, Damage
<1>2. UNCHANGED links
  BY DEF TorrentProgress, TorrentDisturbed, RemoteProgress, ShinobuImport, NameTaken,
         LibraryForgets, Damage, Put, Rewrite
<1>3. CASE TorrentProgress
  <2>1. UNCHANGED << share, index, witness >>
    BY <1>3 DEF TorrentProgress
  <2>2. WholeStay
    <3>1. CASE UNCHANGED disk
      BY <2>1, <3>1 DEF WholeStay
    <3>2. CASE ~UNCHANGED disk
      <4>1. PICK c : Rewrite(TorrentFile, c) /\ ~Valid(TorrentFile)
        BY <1>3, <3>2 DEF TorrentProgress
      <4>2. /\ DOMAIN disk' = DOMAIN disk \cup { TorrentFile }
            /\ \A f \in DOMAIN disk : f \notin Names(TorrentFile) => disk'[f] = disk[f]
        BY <4>1, Rewritten
      <4>3. \A f \in DOMAIN disk : f \in Names(TorrentFile) => ~Valid(f)
        BY <4>1 DEF Names, LinksInv, Valid, Held, Has
      <4> QED BY <2>1, <4>2, <4>3 DEF WholeStay
    <3> QED BY <3>1, <3>2
  <2> QED BY <1>1, <1>2, <2>1, <2>2, OutsideStep, WitnessAlone
<1>4. CASE RemoteProgress
  <2>1. UNCHANGED << share, index, witness >>
    BY <1>4 DEF RemoteProgress
  <2>2. \A f \in DOMAIN disk : f \in DOMAIN disk' /\ disk'[f] = disk[f]
    BY <1>4 DEF RemoteProgress, Put, With, HahInv, Has
  <2> QED BY <1>1, <1>2, <2>1, <2>2, OutsideStep, WitnessAlone DEF WholeStay
<1>5. CASE TorrentDisturbed \/ ShinobuImport
  <2>1. UNCHANGED << disk, share, witness >> /\ (index # Unknown => index' # Unknown)
    BY <1>5 DEF TorrentDisturbed, ShinobuImport
  <2> QED BY <1>1, <1>2, <2>1, FilesAlone, OutsideStep, WitnessAlone
<1>6. CASE NameTaken
  <2>1. /\ UNCHANGED << disk, index, witness >>
        /\ OwnName \notin DOMAIN share /\ share' = With(share, OwnName, "other")
    BY <1>6 DEF NameTaken
  <2>2. WholeStay
    BY <2>1 DEF WholeStay, With
  <2> QED BY <1>1, <1>2, <2>1, <2>2, OutsideStep, WitnessAlone
<1>7. CASE LibraryForgets
  <2>1. /\ witness'.good = Valid(row.file) /\ UNCHANGED disk /\ proc.op # "cleanup"
    BY <1>7 DEF LibraryForgets, Recorded
  <2>2. NeverLost'
    BY <2>1 DEF NeverLost, Valid, Held, Has
  <2> QED BY <1>1, <1>2, <2>1, <2>2 DEF CopyInv, Working
<1>8. CASE Damage
  <2>1. ~witness'.good /\ UNCHANGED index
    BY <1>8 DEF Damage, Recorded
  <2>2. NeverLost'
    BY <2>1 DEF NeverLost
  <2> QED BY <1>1, <1>2, <2>1, <2>2 DEF CopyInv, Working
<1> QED BY <1>3, <1>4, <1>5, <1>6, <1>7, <1>8

\* No decision of a person, and nothing in the queue, touches a file.
LEMMA DecisionsAreHarmless ==
  ASSUME CopyInv, FileInv, Recorded, Collect \/ Screen \/ CompleteCancellation \/ Person
  PROVE  CopyInv'
<1> USE DEF FileInv, Shaped
<1>1. CASE /\ UNCHANGED << proc, disk, links, share, index >> /\ witness'.good = witness.good
           /\ row'.file = row.file \/ proc.pc = "idle"
  BY <1>1, FilesAlone, WitnessAlone, OutsideStep DEF Working
<1>2. CASE ReleaseExpiredLease
  <2>1. UNCHANGED << disk, share, witness >> /\ Harmless'
    BY <1>2 DEF ReleaseExpiredLease, Harmless, Working, Idle
  <2> QED BY <2>1, FilesAlone, WitnessAlone, HarmlessStep
<1>3. CASE Collect \/ Screen \/ CompleteCancellation
  BY <1>1, <1>3 DEF Collect, Screen, CompleteCancellation
<1>4. CASE RequestRename \/ SkipVideo \/ RevokeWarnings
  BY <1>1, <1>4 DEF RequestRename, SkipVideo, RevokeWarnings, Inside, Recorded
<1>5. ASSUME NEW action \in DOMAIN WebActionEvent, Act(action)
      PROVE  CopyInv'
  BY <1>1, <1>5 DEF Act, Inside
<1>6. ASSUME NEW target, OverrideStatus(target)
      PROVE  CopyInv'
  BY <1>1, <1>6 DEF OverrideStatus, Inside, Unclaimed
<1>7. ASSUME NEW warnings, ConfirmWarnings(warnings)
      PROVE  CopyInv'
  BY <1>1, <1>7 DEF ConfirmWarnings, Inside, Recorded
<1>8. ASSUME NEW allow, SetPermission(allow)
      PROVE  CopyInv'
  BY <1>1, <1>8 DEF SetPermission, Inside, Recorded
<1> QED BY <1>2, <1>3, <1>4, <1>5, <1>6, <1>7, <1>8 DEF Person

----------------------------------------------------------------------------
\* Every step keeps the copies.
LEMMA CopyStep ==
  ASSUME CopyInv, FileInv, PromiseInv, [Next]_vars
  PROVE  CopyInv'
<1> USE DEF FileInv, PromiseInv
<1>1. CASE UNCHANGED vars
  BY <1>1, FilesAlone, WitnessAlone, OutsideStep DEF vars
<1>2. CASE Next
  BY <1>2, QueueIsHarmless, DownloadIsHarmless, RegistrationIsHarmless,
     PreparingIsHarmless, UploadIsHarmless, PromotionIsHarmless, RenamingIsHarmless,
     QuarantineIsHarmless, DropIsHarmless, CleanupIsHarmless, WorldIsHarmless,
     DecisionsAreHarmless
     DEF Next, Work, Download, Prepare, Upload, Cleanup, Outage, World
<1> QED BY <1>1, <1>2

(***************************************************************************)
(* A whole copy of an archive that was registered stays, on the disk or in *)
(* the library, whatever fails, dies or is decided, unless the disk or a   *)
(* person destroys it: renames link before they unlink, quarantine moves,  *)
(* and cleanup removes only what the library has (runner.py, zipper.py,    *)
(* validator/artifact.py).                                                 *)
(***************************************************************************)
THEOREM NothingLost == Spec => []NeverLost
<1>1. Init => CopyInv
  BY DEF Init, CopyInv, NeverLost, Working, Idle
<1>2. CopyInv /\ FileInv /\ PromiseInv /\ [Next]_vars => CopyInv'
  BY CopyStep
<1>3. CopyInv => NeverLost
  BY DEF CopyInv
<1> QED BY <1>1, <1>2, <1>3, FilesSound, PromisesKept, PTL DEF Spec

=============================================================================
