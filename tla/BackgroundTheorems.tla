------------------------- MODULE BackgroundTheorems -------------------------
(***************************************************************************)
(* What runs beside the editing: the file on disk, the reports of a language *)
(* server and the hunks of version control.                                *)
(***************************************************************************)
EXTENDS DiskFile, LspReports, VcsDiffer, TLAPS

(***************************************************************************)
(* Nothing of the file is lost, nothing untold is overwritten, and an      *)
(* unmodified document has the text of its file, however many times the    *)
(* file changes.                                                           *)
(***************************************************************************)

-----------------------------------------------------------------------------
(* The invariant                                                           *)

FileTexts == Nat \union {Torn}

\* A file is gone, or has a content and a stamp of the past.
FileTypes == [content : FileTexts \union {Absent}, stamp : Nat]
IsFile(f) == f = Gone \/ (f.content # Absent /\ f.stamp \in 1 .. clock)

SaveTypes ==
  [at : {"none", "checked", "ready", "written", "finished", "reloaded"},
   force : BOOLEAN, data : FileTexts \union {Absent}, backup : FileTypes,
   stamp : Nat, failed : BOOLEAN]
WatchTypes ==
  [queued : BOOLEAN, full : BOOLEAN, collected : BOOLEAN,
   at : {"waiting", "collecting", "delivered"}]

DiskStrongType ==
  /\ atomic \in BOOLEAN /\ watching \in BOOLEAN
  /\ clock \in Nat /\ fresh \in Nat
  /\ disk \in FileTypes /\ IsFile(disk) /\ backups \subseteq FileTexts
  /\ buffer \in FileTexts /\ saved \in FileTexts
  /\ snapshot \in 0 .. clock
  /\ save \in SaveTypes /\ IsFile(save.backup) /\ save.stamp <= clock
  /\ watch \in WatchTypes
  /\ last \in FileTexts \union {Absent}

\* What is saved is the text, which nobody can edit meanwhile.
SavesTheText ==
  save.at \in {"checked", "ready", "written", "finished"} => save.data = buffer

\* An atomic save never handles a partial content, and what it has written is
\* what was last completely under the name.
NothingPartial ==
  atomic =>
    /\ disk.content # Torn /\ buffer # Torn /\ saved # Torn
    /\ save.data # Torn /\ save.backup.content # Torn
    /\ save.at = "written" /\ save.failed = FALSE => disk.content = last

\* The snapshot is of a content that is known, and so is what a save without
\* force has checked, and what was written or read.
Raced == "race" \in slips
KnowsTheSnapshot ==
  /\ ~ Raced /\ save.at # "reloaded" => snapshot \in known
  /\ ~ Raced /\ save.at \in {"checked", "ready"} /\ save.force = FALSE =>
       save.stamp \in known
  /\ save.at \in {"finished", "reloaded"} => save.stamp \in known
  /\ save.at = "written" /\ save.failed = FALSE => save.stamp \in known

\* A change of the file is on its way to the UI thread.
Pending == watch.queued \/ watch.collected \/ "event" \in slips
ChangesArePending ==
  /\ watch.at = "waiting" => watch.collected = FALSE
  /\ watching =>
       disk.stamp = snapshot \/ save.at = "reloaded" \/ Pending

\* The stamp of the snapshot is that of the saved text, under the name or in the
\* backup; and so will be the stamp of what was written or read.
StampsTell ==
  /\ external = "clean" /\ ~ Raced /\ save.at # "reloaded" =>
       /\ snapshot # 0
       /\ disk.stamp = snapshot => disk.content = saved
       /\ save.backup.stamp = snapshot => save.backup.content = saved
  /\ save.at \in {"written", "finished"} /\ save.failed = FALSE =>
       /\ save.stamp # 0
       /\ disk.stamp = save.stamp => disk.content = save.data
  /\ save.at = "finished" => save.failed = FALSE
  /\ save.at = "reloaded" =>
       /\ save.stamp # 0
       /\ disk.stamp = save.stamp => disk.content = saved

FileInv ==
  /\ DiskStrongType /\ SavesTheText /\ NothingPartial /\ NothingIsLost
  /\ KnowsTheSnapshot /\ ChangesArePending /\ StampsTell

-----------------------------------------------------------------------------
(* Every step preserves it                                                 *)

LEMMA FirstTypes ==
  /\ NoSave \in SaveTypes /\ NoEvents \in WatchTypes /\ Gone \in FileTypes
  /\ IsFile(Gone)
<1>1. Gone \in FileTypes /\ IsFile(Gone)
  BY DEF Gone, FileTypes, IsFile
<1>2. NoSave \in SaveTypes
  BY <1>1 DEF NoSave, SaveTypes
<1>3. NoEvents \in WatchTypes
  BY DEF NoEvents, WatchTypes
<1>4. QED
  BY <1>1, <1>2, <1>3

LEMMA FileInitially ==
  FileInit => FileInv
<1> SUFFICES ASSUME FileInit
             PROVE  FileInv
  OBVIOUS
<1>1. DiskStrongType
  <2>1. /\ save \in SaveTypes /\ IsFile(save.backup) /\ save.stamp = 0
        /\ watch \in WatchTypes
    BY FirstTypes DEF FileInit, NoSave
  <2>2. disk \in FileTypes /\ disk.content # Absent /\ disk.stamp \in 1 .. clock
    BY DEF FileInit, FileTypes, FileTexts, Absent
  <2>3. QED
    BY <2>1, <2>2 DEF FileInit, DiskStrongType, IsFile, FileTexts
<1>2. SavesTheText /\ KnowsTheSnapshot /\ StampsTell
  BY DEF FileInit, SavesTheText, KnowsTheSnapshot, StampsTell, NoSave, Raced, Gone
<1>3. NothingPartial /\ NothingIsLost
  BY DEF FileInit, NothingPartial, NothingIsLost, NoSave, Torn, Gone, Absent
<1>4. ChangesArePending
  BY DEF FileInit, ChangesArePending, NoEvents
<1>5. QED
  BY <1>1, <1>2, <1>3, <1>4 DEF FileInv

\* A change of the file is queued or noted as dropped.
LEMMA NotifiedPends ==
  ASSUME DiskStrongType, watch' = Notified, slips' = Missing
  PROVE  /\ watch' \in WatchTypes
         /\ watch'.at = watch.at /\ watch'.collected = watch.collected
         /\ Raced' <=> Raced
         /\ watching => Pending'
<1>1. watch \in WatchTypes
  BY DEF DiskStrongType
<1>2. CASE watching /\ ~ watch.full
  BY <1>1, <1>2 DEF Notified, Missing, Dropped, WatchTypes, Raced, Pending
<1>3. CASE watching /\ watch.full
  BY <1>1, <1>3 DEF Notified, Missing, Dropped, WatchTypes, Raced, Pending
<1>4. CASE ~ watching
  BY <1>1, <1>4 DEF Notified, Missing, Dropped, WatchTypes, Raced, Pending
<1>5. QED
  BY <1>2, <1>3, <1>4

\* A file that was one stays one while the clock goes on.
LEMMA FilesStay ==
  ASSUME DiskStrongType, clock' \in Nat, clock' >= clock, NEW f \in FileTypes, IsFile(f)
  PROVE  f = Gone \/ (f.content # Absent /\ f.stamp \in 1 .. clock')
BY DEF IsFile, DiskStrongType, FileTypes

LEMMA PutMakesFile ==
  ASSUME DiskStrongType, NEW content \in FileTexts, Put(content)
  PROVE  /\ clock' \in Nat /\ clock' = clock + 1
         /\ disk' \in FileTypes /\ disk'.content = content /\ disk'.stamp = clock'
         /\ disk' # Gone /\ IsFile(disk)'
BY DEF Put, DiskStrongType, FileTypes, IsFile, FileTexts, Absent, Torn, Gone

-----------------------------------------------------------------------------
(* What happens to the file from outside                                   *)

LEMMA ExternalWriteKeeps ==
  ASSUME FileInv, ExternalWrite
  PROVE  FileInv'
<1> USE DEF FileInv
<1>0. /\ DiskStrongType /\ Put(fresh') /\ fresh' \in Nat /\ fresh' \in FileTexts
      /\ last' = fresh' /\ fresh' # Torn /\ fresh' # Absent
  BY DEF ExternalWrite, DiskStrongType, FileTexts, Torn, Absent
<1>1. /\ atomic' = atomic /\ watching' = watching /\ backups' = backups
      /\ buffer' = buffer /\ saved' = saved /\ snapshot' = snapshot
      /\ external' = external /\ save' = save /\ known' = known
  BY DEF ExternalWrite
<1>2. /\ clock' \in Nat /\ clock' = clock + 1
      /\ disk' \in FileTypes /\ disk'.content = fresh' /\ disk'.stamp = clock'
      /\ disk' # Gone /\ IsFile(disk)'
  BY <1>0, PutMakesFile
<1>3. /\ watch' \in WatchTypes
      /\ watch'.at = watch.at /\ watch'.collected = watch.collected
      /\ Raced' <=> Raced
      /\ watching => Pending'
  BY <1>0, NotifiedPends DEF ExternalWrite
<1>4. DiskStrongType'
  BY <1>0, <1>1, <1>2, <1>3, FilesStay DEF DiskStrongType, SaveTypes, IsFile
<1>5. SavesTheText'
  BY <1>1 DEF SavesTheText
<1>6. NothingPartial' /\ NothingIsLost'
  BY <1>0, <1>1, <1>2 DEF NothingPartial, NothingIsLost
<1>7. KnowsTheSnapshot'
  BY <1>1, <1>3 DEF KnowsTheSnapshot
<1>8. ChangesArePending'
  BY <1>1, <1>3 DEF ChangesArePending
<1>9. StampsTell'
  BY <1>0, <1>1, <1>2, <1>3 DEF StampsTell, DiskStrongType, SaveTypes
<1>10. QED
  BY <1>4, <1>5, <1>6, <1>7, <1>8, <1>9

LEMMA ExternalRemoveKeeps ==
  ASSUME FileInv, ExternalRemove
  PROVE  FileInv'
<1> USE DEF FileInv
<1>0. DiskStrongType /\ disk' = Gone /\ last' = Absent
  BY DEF ExternalRemove
<1>1. /\ atomic' = atomic /\ watching' = watching /\ backups' = backups
      /\ buffer' = buffer /\ saved' = saved /\ snapshot' = snapshot
      /\ external' = external /\ save' = save /\ known' = known
      /\ fresh' = fresh /\ clock' = clock
  BY DEF ExternalRemove
<1>2. disk'.content = Absent /\ disk'.stamp = 0 /\ Absent # Torn
  BY <1>0 DEF Gone, Absent, Torn
<1>3. /\ watch' \in WatchTypes
      /\ watch'.at = watch.at /\ watch'.collected = watch.collected
      /\ Raced' <=> Raced
      /\ watching => Pending'
  BY <1>0, NotifiedPends DEF ExternalRemove
<1>4. DiskStrongType'
  BY <1>0, <1>1, <1>3, FirstTypes DEF DiskStrongType, IsFile
<1>5. SavesTheText'
  BY <1>1 DEF SavesTheText
<1>6. NothingPartial' /\ NothingIsLost'
  BY <1>0, <1>1, <1>2 DEF NothingPartial, NothingIsLost
<1>7. KnowsTheSnapshot'
  BY <1>1, <1>3 DEF KnowsTheSnapshot
<1>8. ChangesArePending'
  BY <1>1, <1>3 DEF ChangesArePending
<1>9. StampsTell'
  BY <1>0, <1>1, <1>2, <1>3 DEF StampsTell
<1>10. QED
  BY <1>4, <1>5, <1>6, <1>7, <1>8, <1>9

\* The directory is busy with other files.
LEMMA NoiseKeeps ==
  ASSUME FileInv, Noise
  PROVE  FileInv'
<1>1. /\ watch' \in WatchTypes /\ watch'.queued = watch.queued
      /\ watch'.collected = watch.collected /\ watch'.at = watch.at
  BY DEF Noise, FileInv, DiskStrongType, WatchTypes
<1>2. QED
  BY <1>1 DEF FileInv, Noise, DiskStrongType, IsFile, SavesTheText, NothingPartial,
       NothingIsLost, KnowsTheSnapshot, Raced, ChangesArePending, Pending, StampsTell

-----------------------------------------------------------------------------
(* What the user does                                                      *)

LEMMA EditKeeps ==
  ASSUME FileInv, EditText \/ UndoEdits
  PROVE  FileInv'
<1>1. /\ ~ Busy /\ fresh' \in Nat /\ buffer' \in FileTexts
      /\ atomic => buffer' # Torn
  BY DEF EditText, UndoEdits, FileInv, DiskStrongType, NothingPartial, FileTexts, Torn
<1>2. /\ atomic' = atomic /\ watching' = watching /\ disk' = disk
      /\ backups' = backups /\ saved' = saved /\ snapshot' = snapshot
      /\ external' = external /\ save' = save /\ watch' = watch
      /\ clock' = clock /\ last' = last /\ known' = known /\ slips' = slips
  BY DEF EditText, UndoEdits
<1>3. DiskStrongType'
  BY <1>1, <1>2 DEF FileInv, DiskStrongType, IsFile
<1>4. SavesTheText' /\ NothingPartial'
  BY <1>1, <1>2 DEF FileInv, SavesTheText, Busy, NothingPartial
<1>5. NothingIsLost' /\ KnowsTheSnapshot' /\ ChangesArePending' /\ StampsTell'
  BY <1>2 DEF FileInv, NothingIsLost, KnowsTheSnapshot, Raced, ChangesArePending,
              Pending, StampsTell
<1>6. QED
  BY <1>3, <1>4, <1>5 DEF FileInv

LEMMA BeginSaveKeeps ==
  ASSUME FileInv, NEW force \in BOOLEAN, NEW readOnly \in BOOLEAN,
         BeginSave(force, readOnly)
  PROVE  FileInv'
<1>1. /\ save.at = "none" /\ (force = FALSE => disk.stamp = snapshot)
  BY DEF BeginSave, Busy, DiskChanged
<1>2. /\ atomic' = atomic /\ watching' = watching /\ disk' = disk
      /\ backups' = backups /\ saved' = saved /\ snapshot' = snapshot
      /\ external' = external /\ buffer' = buffer /\ watch' = watch
      /\ clock' = clock /\ last' = last /\ known' = known /\ slips' = slips
      /\ fresh' = fresh
  BY DEF BeginSave
<1>3. disk \in FileTypes /\ disk.stamp <= clock /\ buffer \in FileTexts
  BY DEF FileInv, DiskStrongType, IsFile, Gone
<1>4. /\ save' \in SaveTypes /\ save'.at = "checked" /\ save'.force = force
      /\ save'.data = buffer /\ save'.backup = Gone /\ save'.failed = FALSE
      /\ save'.stamp = disk.stamp
  <2>1. save' = [at |-> "checked", force |-> force, data |-> buffer,
                 backup |-> Gone, stamp |-> disk.stamp, failed |-> FALSE]
    BY DEF BeginSave, NoSave
  <2>2. QED
    BY <1>3, <2>1, FirstTypes DEF SaveTypes, FileTypes
<1>5. DiskStrongType'
  BY <1>2, <1>3, <1>4, FirstTypes DEF FileInv, DiskStrongType, IsFile
<1>6. SavesTheText' /\ NothingPartial'
  BY <1>2, <1>4
     DEF FileInv, SavesTheText, NothingPartial, Gone, Absent, Torn
<1>7. NothingIsLost' /\ ChangesArePending'
  BY <1>1, <1>2 DEF FileInv, NothingIsLost, ChangesArePending, Pending
<1>8. KnowsTheSnapshot'
  BY <1>1, <1>2, <1>4 DEF FileInv, KnowsTheSnapshot, Raced
<1>9. StampsTell'
  BY <1>1, <1>2, <1>4 DEF FileInv, StampsTell, Raced, Gone
<1>10. QED
  BY <1>5, <1>6, <1>7, <1>8, <1>9 DEF FileInv

LEMMA BeginReloadKeeps ==
  ASSUME FileInv, BeginReload
  PROVE  FileInv'
<1>1. save.at = "none" /\ disk # Gone
  BY DEF BeginReload, Busy
<1>2. /\ atomic' = atomic /\ watching' = watching /\ disk' = disk
      /\ backups' = backups /\ saved' = disk.content /\ snapshot' = snapshot
      /\ external' = external /\ buffer' = disk.content /\ watch' = watch
      /\ clock' = clock /\ last' = last /\ slips' = slips /\ fresh' = fresh
      /\ known' = known \union {disk.stamp}
  BY DEF BeginReload
<1>3. /\ disk \in FileTypes /\ disk.stamp \in 1 .. clock /\ disk.content \in FileTexts
  BY <1>1 DEF FileInv, DiskStrongType, IsFile, FileTypes
<1>4. /\ save' \in SaveTypes /\ save'.at = "reloaded" /\ save'.data = Absent
      /\ save'.backup = Gone /\ save'.failed = FALSE /\ save'.stamp = disk.stamp
  <2>1. save' = [at |-> "reloaded", force |-> FALSE, data |-> Absent,
                 backup |-> Gone, stamp |-> disk.stamp, failed |-> FALSE]
    BY DEF BeginReload, NoSave
  <2>2. QED
    BY <1>3, <2>1, FirstTypes DEF SaveTypes, FileTypes
<1>5. DiskStrongType'
  BY <1>2, <1>3, <1>4, FirstTypes DEF FileInv, DiskStrongType, IsFile
<1>6. SavesTheText' /\ NothingPartial'
  BY <1>2, <1>4
     DEF FileInv, SavesTheText, NothingPartial, Gone, Absent, Torn
<1>7. NothingIsLost' /\ ChangesArePending'
  BY <1>1, <1>2 DEF FileInv, NothingIsLost, ChangesArePending, Pending
<1>8. KnowsTheSnapshot'
  BY <1>1, <1>2, <1>4 DEF FileInv, KnowsTheSnapshot, Raced
<1>9. StampsTell'
  BY <1>1, <1>2, <1>3, <1>4 DEF FileInv, StampsTell, Raced, Gone
<1>10. QED
  BY <1>5, <1>6, <1>7, <1>8, <1>9 DEF FileInv

-----------------------------------------------------------------------------
(* The steps of a save                                                     *)

\* A save that goes on keeps what it began with.
LEMMA SaveGoesOn ==
  ASSUME DiskStrongType, NEW at \in {"ready", "written", "finished"},
         save' = [save EXCEPT !.at = at]
  PROVE  /\ save' \in SaveTypes /\ save'.at = at /\ save'.force = save.force
         /\ save'.data = save.data /\ save'.backup = save.backup
         /\ save'.stamp = save.stamp /\ save'.failed = save.failed
BY DEF DiskStrongType, SaveTypes

LEMMA RenameKeeps ==
  ASSUME FileInv, RenameToBackup
  PROVE  FileInv'
<1> USE DEF FileInv
<1>1. /\ atomic' = atomic /\ watching' = watching /\ saved' = saved
      /\ buffer' = buffer /\ snapshot' = snapshot /\ external' = external
      /\ clock' = clock /\ last' = last /\ fresh' = fresh /\ known' = known
      /\ save.at = "checked" /\ atomic
  BY DEF RenameToBackup
<1>2. CASE /\ disk # Gone
           /\ disk' = Gone
           /\ backups' = backups \union {disk.content}
           /\ save' = [save EXCEPT !.at = "ready", !.backup = disk]
           /\ watch' = Notified /\ slips' = Missing
  <2>1. /\ disk.content \in FileTexts /\ disk.stamp \in 1 .. clock
        /\ disk \in FileTypes /\ IsFile(disk)
    BY <1>2 DEF DiskStrongType, FileTypes, IsFile
  <2>2. /\ save' \in SaveTypes /\ save'.at = "ready" /\ save'.force = save.force
        /\ save'.data = save.data /\ save'.backup = disk
        /\ save'.stamp = save.stamp /\ save'.failed = save.failed
    BY <1>2, <2>1 DEF DiskStrongType, SaveTypes
  <2>3. /\ watch' \in WatchTypes
        /\ watch'.at = watch.at /\ watch'.collected = watch.collected
        /\ Raced' <=> Raced
        /\ watching => Pending'
    BY <1>2, NotifiedPends
  <2>4. /\ disk' \in FileTypes /\ IsFile(disk)' /\ disk'.content = Absent
        /\ disk'.stamp = 0 /\ Absent # Torn
    BY <1>2, FirstTypes DEF IsFile, Gone, Absent, Torn
  <2>5. DiskStrongType'
    BY <1>1, <1>2, <2>1, <2>2, <2>3, <2>4 DEF DiskStrongType, IsFile
  <2>6. SavesTheText'
    BY <1>1, <2>2 DEF SavesTheText
  <2>7. NothingPartial' /\ NothingIsLost'
    BY <1>1, <1>2, <2>2, <2>4 DEF NothingPartial, NothingIsLost
  <2>8. KnowsTheSnapshot'
    BY <1>1, <2>2, <2>3 DEF KnowsTheSnapshot
  <2>9. ChangesArePending'
    BY <1>1, <2>2, <2>3 DEF ChangesArePending
  <2>10. StampsTell'
    BY <1>1, <2>1, <2>2, <2>3, <2>4 DEF StampsTell
  <2>11. QED
    BY <2>5, <2>6, <2>7, <2>8, <2>9, <2>10
<1>3. CASE /\ save' = [save EXCEPT !.at = "ready"]
           /\ UNCHANGED <<disk, backups, watch, slips>>
  <2>1. /\ save' \in SaveTypes /\ save'.at = "ready" /\ save'.force = save.force
        /\ save'.data = save.data /\ save'.backup = save.backup
        /\ save'.stamp = save.stamp /\ save'.failed = save.failed
    BY <1>3, SaveGoesOn
  <2>2. QED
    BY <1>1, <1>3, <2>1
       DEF DiskStrongType, IsFile, SavesTheText, NothingPartial, NothingIsLost,
           KnowsTheSnapshot, Raced, ChangesArePending, Pending, StampsTell
<1>4. QED
  BY <1>2, <1>3 DEF RenameToBackup

LEMMA TruncateKeeps ==
  ASSUME FileInv, Truncate
  PROVE  FileInv'
<1> USE DEF FileInv
<1>1. /\ atomic' = atomic /\ watching' = watching /\ saved' = saved
      /\ buffer' = buffer /\ snapshot' = snapshot /\ external' = external
      /\ last' = last /\ fresh' = fresh /\ known' = known
      /\ backups' = backups
      /\ save.at = "checked" /\ ~ atomic
  BY DEF Truncate
<1>2. /\ clock' \in Nat /\ clock' = clock + 1
      /\ disk' \in FileTypes /\ disk'.content = Torn /\ disk'.stamp = clock'
      /\ disk' # Gone /\ IsFile(disk)'
  BY PutMakesFile DEF Truncate, FileTexts
<1>3. /\ watch' \in WatchTypes
      /\ watch'.at = watch.at /\ watch'.collected = watch.collected
      /\ Raced' <=> Raced
      /\ watching => Pending'
  BY NotifiedPends DEF Truncate
<1>4. /\ save' \in SaveTypes /\ save'.at = "ready" /\ save'.force = save.force
      /\ save'.data = save.data /\ save'.backup = save.backup
      /\ save'.stamp = save.stamp /\ save'.failed = save.failed
  BY SaveGoesOn DEF Truncate
<1>5. DiskStrongType'
  BY <1>1, <1>2, <1>3, <1>4, FilesStay DEF DiskStrongType, SaveTypes, IsFile
<1>6. SavesTheText' /\ NothingPartial' /\ NothingIsLost'
  BY <1>1, <1>4 DEF SavesTheText, NothingPartial, NothingIsLost
<1>7. KnowsTheSnapshot'
  BY <1>1, <1>3, <1>4 DEF KnowsTheSnapshot
<1>8. ChangesArePending'
  BY <1>1, <1>3 DEF ChangesArePending
<1>9. StampsTell'
  BY <1>1, <1>2, <1>3, <1>4 DEF StampsTell, DiskStrongType
<1>10. QED
  BY <1>5, <1>6, <1>7, <1>8, <1>9

LEMMA WriteDataKeeps ==
  ASSUME FileInv, WriteData
  PROVE  FileInv'
<1> USE DEF FileInv
<1>1. /\ atomic' = atomic /\ watching' = watching /\ saved' = saved
      /\ buffer' = buffer /\ snapshot' = snapshot /\ external' = external
      /\ last' = save.data /\ fresh' = fresh /\ backups' = backups
      /\ known' = known \union {clock'}
      /\ save.at = "ready" /\ save.data = buffer /\ save.data \in FileTexts
  BY DEF WriteData, SavesTheText, DiskStrongType
<1>2. /\ clock' \in Nat /\ clock' = clock + 1
      /\ disk' \in FileTypes /\ disk'.content = save.data /\ disk'.stamp = clock'
      /\ disk' # Gone /\ IsFile(disk)'
  BY <1>1, PutMakesFile DEF WriteData
<1>3. /\ watch' \in WatchTypes
      /\ watch'.at = watch.at /\ watch'.collected = watch.collected
      /\ Raced' <=> Raced
      /\ watching => Pending'
  BY NotifiedPends DEF WriteData
<1>4. /\ save' \in SaveTypes /\ save'.at = "written" /\ save'.force = save.force
      /\ save'.data = save.data /\ save'.backup = save.backup
      /\ save'.stamp = clock' /\ save'.failed = save.failed
  BY <1>2 DEF WriteData, DiskStrongType, SaveTypes
<1>5. DiskStrongType'
  BY <1>1, <1>2, <1>3, <1>4, FilesStay DEF DiskStrongType, SaveTypes, IsFile
<1>6. SavesTheText' /\ NothingPartial' /\ NothingIsLost'
  BY <1>1, <1>2, <1>4 DEF SavesTheText, NothingPartial, NothingIsLost
<1>7. KnowsTheSnapshot'
  BY <1>1, <1>3, <1>4 DEF KnowsTheSnapshot
<1>8. ChangesArePending'
  BY <1>1, <1>3 DEF ChangesArePending
<1>9. StampsTell'
  BY <1>1, <1>2, <1>3, <1>4 DEF StampsTell, DiskStrongType
<1>10. QED
  BY <1>5, <1>6, <1>7, <1>8, <1>9

LEMMA WriteFailsKeeps ==
  ASSUME FileInv, WriteFails
  PROVE  FileInv'
<1>1. /\ save' \in SaveTypes /\ save'.at = "written" /\ save'.force = save.force
      /\ save'.data = save.data /\ save'.backup = save.backup
      /\ save'.stamp = save.stamp /\ save'.failed = TRUE
  BY DEF WriteFails, FileInv, DiskStrongType, SaveTypes
<1>2. save.at \in {"checked", "ready"}
  BY DEF WriteFails
<1>3. QED
  BY <1>1, <1>2
     DEF FileInv, WriteFails, DiskStrongType, IsFile, SavesTheText, NothingPartial,
         NothingIsLost, KnowsTheSnapshot, Raced, ChangesArePending, Pending,
         StampsTell

\* A backup that comes back has the content and the stamp it went with.
LEMMA FinishBackupKeeps ==
  ASSUME FileInv, FinishBackup
  PROVE  FileInv'
<1> USE DEF FileInv
<1>1. /\ atomic' = atomic /\ watching' = watching /\ saved' = saved
      /\ buffer' = buffer /\ snapshot' = snapshot /\ external' = external
      /\ fresh' = fresh /\ clock' = clock /\ known' = known
      /\ backups' = backups \ {save.backup.content} /\ save.at = "written"
  BY DEF FinishBackup
<1>2. CASE save.failed
  <2>1. save' = NoSave /\ save' \in SaveTypes
    BY <1>2, FirstTypes DEF FinishBackup
  <2>2. /\ save'.at = "none" /\ save'.backup = Gone /\ save'.data = Absent
        /\ save'.stamp = 0
    BY <2>1 DEF NoSave
  <2>3. CASE save.backup # Gone
    <3>1. /\ disk' = save.backup /\ last' = save.backup.content
          /\ watch' = Notified /\ slips' = Missing
      BY <1>2, <2>3 DEF FinishBackup
    <3>2. /\ disk' \in FileTypes /\ IsFile(disk) /\ disk'.content \in FileTexts
          /\ disk'.stamp \in 1 .. clock
      BY <2>3, <3>1 DEF DiskStrongType, SaveTypes, IsFile, FileTypes
    <3>3. /\ watch' \in WatchTypes
          /\ watch'.at = watch.at /\ watch'.collected = watch.collected
          /\ Raced' <=> Raced
          /\ watching => Pending'
      BY <3>1, NotifiedPends
    <3>4. DiskStrongType'
      BY <1>1, <2>1, <2>2, <3>1, <3>2, <3>3 DEF DiskStrongType, IsFile
    <3>5. SavesTheText'
      BY <2>2 DEF SavesTheText
    <3>6. NothingPartial' /\ NothingIsLost'
      BY <1>1, <2>2, <3>1 DEF NothingPartial, NothingIsLost, Absent, Torn, Gone
    <3>7. KnowsTheSnapshot'
      BY <1>1, <2>2, <3>3 DEF KnowsTheSnapshot
    <3>8. ChangesArePending'
      BY <1>1, <3>3 DEF ChangesArePending
    <3>9. StampsTell'
      BY <1>1, <2>2, <3>1, <3>3 DEF StampsTell, Gone
    <3>10. QED
      BY <3>4, <3>5, <3>6, <3>7, <3>8, <3>9
  <2>4. CASE save.backup = Gone
    <3>1. disk' = disk /\ last' = last /\ watch' = watch /\ slips' = slips
      BY <2>4 DEF FinishBackup
    <3>2. DiskStrongType'
      BY <1>1, <2>1, <2>2, <3>1, FirstTypes DEF DiskStrongType, IsFile
    <3>3. SavesTheText'
      BY <2>2 DEF SavesTheText
    <3>4. NothingPartial' /\ NothingIsLost'
      <4>1. save.backup.content = Absent /\ Absent \notin backups /\ Absent # Torn
        BY <2>4 DEF Gone, DiskStrongType, FileTexts, Absent, Torn
      <4>2. QED
        BY <1>1, <2>2, <3>1, <4>1 DEF NothingPartial, NothingIsLost, Gone
    <3>5. KnowsTheSnapshot'
      BY <1>1, <2>2, <3>1 DEF KnowsTheSnapshot, Raced
    <3>6. ChangesArePending'
      BY <1>1, <3>1 DEF ChangesArePending, Pending
    <3>7. StampsTell'
      BY <1>1, <2>2, <3>1 DEF StampsTell, Gone, Raced
    <3>8. QED
      BY <3>2, <3>3, <3>4, <3>5, <3>6, <3>7
  <2>5. QED
    BY <2>3, <2>4
<1>3. CASE save.failed = FALSE
  <2>1. /\ disk' = disk /\ last' = last /\ watch' = watch /\ slips' = slips
        /\ save' = [save EXCEPT !.at = "finished"]
    BY <1>3 DEF FinishBackup
  <2>2. /\ save' \in SaveTypes /\ save'.at = "finished" /\ save'.force = save.force
        /\ save'.data = save.data /\ save'.backup = save.backup
        /\ save'.stamp = save.stamp /\ save'.failed = save.failed
    BY <2>1, SaveGoesOn
  <2>3. DiskStrongType'
    BY <1>1, <2>1, <2>2 DEF DiskStrongType, IsFile
  <2>4. SavesTheText' /\ NothingPartial' /\ NothingIsLost'
    BY <1>1, <1>3, <2>1, <2>2 DEF SavesTheText, NothingPartial, NothingIsLost
  <2>5. KnowsTheSnapshot' /\ ChangesArePending'
    BY <1>1, <1>3, <2>1, <2>2 DEF KnowsTheSnapshot, Raced, ChangesArePending, Pending
  <2>6. StampsTell'
    BY <1>1, <1>3, <2>1, <2>2 DEF StampsTell, Raced
  <2>7. QED
    BY <2>3, <2>4, <2>5, <2>6
<1>4. save.failed \in BOOLEAN
  BY DEF DiskStrongType, SaveTypes
<1>5. QED
  BY <1>2, <1>3, <1>4

\* What the snapshot is taken of is known, unless it raced.
LEMMA EndKeeps ==
  ASSUME FileInv, EndSave \/ EndReload
  PROVE  FileInv'
<1> USE DEF FileInv
<1>1. /\ atomic' = atomic /\ watching' = watching /\ disk' = disk
      /\ backups' = backups /\ buffer' = buffer /\ watch' = watch
      /\ fresh' = fresh /\ clock' = clock /\ known' = known /\ last' = last
      /\ snapshot' = disk.stamp /\ external' = "clean" /\ save' = NoSave
      /\ save.at \in {"finished", "reloaded"}
  BY DEF EndSave, EndReload, Snapshot
<1>2. Raced' <=> disk.stamp # save.stamp
  BY DEF EndSave, EndReload, Snapshot, Raced
<1>3. saved' \in FileTexts /\ (disk.stamp = save.stamp => disk.content = saved')
  <2>1. CASE EndSave
    BY <2>1 DEF EndSave, DiskStrongType, SavesTheText, StampsTell
  <2>2. CASE EndReload
    BY <2>2 DEF EndReload, DiskStrongType, StampsTell
  <2>3. QED
    BY <2>1, <2>2
<1>4. disk.stamp \in 0 .. clock
  BY DEF DiskStrongType, IsFile, Gone
<1>5. DiskStrongType'
  BY <1>1, <1>3, <1>4, FirstTypes DEF DiskStrongType, IsFile, NoSave
<1>6. SavesTheText' /\ NothingIsLost' /\ ChangesArePending'
  BY <1>1 DEF SavesTheText, NothingIsLost, ChangesArePending, NoSave
<1>7. NothingPartial'
  BY <1>1 DEF NothingPartial, NoSave, Gone, Absent, Torn, EndSave, EndReload
<1>8. KnowsTheSnapshot'
  BY <1>1, <1>2 DEF KnowsTheSnapshot, NoSave
<1>9. StampsTell'
  <2>1. save.stamp # 0
    BY <1>1 DEF StampsTell
  <2>2. QED
    BY <1>1, <1>2, <1>3, <2>1 DEF StampsTell, NoSave, Gone
<1>10. QED
  BY <1>5, <1>6, <1>7, <1>8, <1>9

-----------------------------------------------------------------------------
(* The watcher                                                             *)

LEMMA WatchKeeps ==
  ASSUME FileInv, WatchStep
  PROVE  FileInv'
<1> USE DEF FileInv
<1>1. watch \in WatchTypes /\ (watch.at = "waiting" => watch.collected = FALSE)
  BY DEF DiskStrongType, ChangesArePending
<1>2. /\ watch' \in WatchTypes /\ watch'.at # "waiting"
      /\ watch.queued \/ watch.collected => watch'.queued \/ watch'.collected
  <2>1. CASE NextPath
    BY <1>1, <2>1 DEF NextPath, NoEvents, WatchTypes
  <2>2. CASE Collect
    BY <1>1, <2>2 DEF Collect, NoEvents, WatchTypes
  <2>3. CASE Deliver
    BY <1>1, <2>3 DEF Deliver, WatchTypes
  <2>4. QED
    BY <2>1, <2>2, <2>3 DEF WatchStep
<1>3. /\ atomic' = atomic /\ watching' = watching /\ disk' = disk
      /\ backups' = backups /\ buffer' = buffer /\ saved' = saved
      /\ snapshot' = snapshot /\ external' = external /\ save' = save
      /\ fresh' = fresh /\ clock' = clock /\ last' = last /\ known' = known
      /\ slips' = slips
  BY DEF WatchStep, NextPath, Collect, Deliver
<1>4. ChangesArePending'
  BY <1>2, <1>3 DEF ChangesArePending, Pending
<1>5. QED
  BY <1>2, <1>3, <1>4
     DEF DiskStrongType, IsFile, SavesTheText, NothingPartial, NothingIsLost,
         KnowsTheSnapshot, Raced, StampsTell

\* A change that was told is known; one that is read is a reload.
LEMMA ProcessKeeps ==
  ASSUME FileInv, ProcessExternalChange
  PROVE  FileInv'
<1> USE DEF FileInv
<1>1. /\ atomic' = atomic /\ watching' = watching /\ disk' = disk
      /\ backups' = backups /\ fresh' = fresh /\ clock' = clock /\ last' = last
      /\ watch.at = "delivered" /\ save.at = "none"
  BY DEF ProcessExternalChange, Busy
<1>2. /\ watch \in WatchTypes /\ watch' \in WatchTypes /\ watch'.collected = FALSE
      /\ watch'.queued = watch.queued
  BY DEF ProcessExternalChange, DiskStrongType, WatchTypes
<1>3. CASE watch.collected = FALSE \/ ~ DiskChanged
  <2>1. /\ buffer' = buffer /\ saved' = saved /\ snapshot' = snapshot
        /\ external' = external /\ save' = save /\ known' = known
        /\ Raced' <=> Raced
    BY <1>3 DEF ProcessExternalChange, Raced
  <2>2. ChangesArePending'
    <3>1. CASE ~ DiskChanged
      BY <1>1, <1>2, <2>1, <3>1 DEF ChangesArePending, DiskChanged
    <3>2. CASE watch.collected = FALSE
      <4>1. slips' = slips
        BY <3>2 DEF ProcessExternalChange
      <4>2. QED
        BY <1>1, <1>2, <2>1, <3>2, <4>1 DEF ChangesArePending, Pending
    <3>3. QED
      BY <1>3, <3>1, <3>2
  <2>3. QED
    BY <1>1, <1>2, <2>1, <2>2
       DEF DiskStrongType, IsFile, SavesTheText, NothingPartial, NothingIsLost,
           KnowsTheSnapshot, StampsTell
<1>4. CASE watch.collected = TRUE /\ DiskChanged
  <2>1. ~ Raced'
    BY <1>4 DEF ProcessExternalChange, Raced
  <2>2. disk \in FileTypes /\ disk.stamp \in 0 .. clock
    BY DEF DiskStrongType, IsFile, Gone
  <2>3. CASE \E state \in {"deleted", "changed"} : Told(state)
    <3>1. /\ snapshot' = disk.stamp /\ external' # "clean" /\ save' = save
          /\ buffer' = buffer /\ saved' = saved
          /\ known' = known \union {disk.stamp}
      BY <2>3 DEF Told
    <3>2. DiskStrongType'
      BY <1>1, <1>2, <2>2, <3>1 DEF DiskStrongType, IsFile
    <3>3. ChangesArePending'
      BY <1>1, <1>2, <3>1 DEF ChangesArePending
    <3>4. StampsTell'
      BY <1>1, <3>1 DEF StampsTell
    <3>5. QED
      BY <1>1, <3>1, <3>2, <3>3, <3>4
         DEF SavesTheText, NothingPartial, NothingIsLost, KnowsTheSnapshot
  <2>4. CASE /\ disk # Gone
             /\ buffer' = disk.content /\ saved' = disk.content
             /\ known' = known \union {disk.stamp}
             /\ save' = [NoSave EXCEPT !.at = "reloaded", !.stamp = disk.stamp]
             /\ UNCHANGED <<snapshot, external>>
    <3>1. disk.stamp \in 1 .. clock /\ disk.content \in FileTexts
      BY <2>4 DEF DiskStrongType, IsFile, FileTypes
    <3>2. /\ save' \in SaveTypes /\ save'.at = "reloaded" /\ save'.data = Absent
          /\ save'.backup = Gone /\ save'.failed = FALSE /\ save'.stamp = disk.stamp
      <4>1. save' = [at |-> "reloaded", force |-> FALSE, data |-> Absent,
                     backup |-> Gone, stamp |-> disk.stamp, failed |-> FALSE]
        BY <2>4 DEF NoSave
      <4>2. QED
        BY <3>1, <4>1, FirstTypes DEF SaveTypes, FileTypes
    <3>3. DiskStrongType'
      BY <1>1, <1>2, <2>4, <3>1, <3>2, FirstTypes DEF DiskStrongType, IsFile
    <3>4. SavesTheText' /\ NothingIsLost' /\ ChangesArePending'
      BY <1>1, <1>2, <3>2 DEF SavesTheText, NothingIsLost, ChangesArePending
    <3>5. NothingPartial'
      BY <1>1, <2>4, <3>2 DEF NothingPartial, Gone, Absent, Torn
    <3>6. KnowsTheSnapshot'
      BY <2>4, <3>2 DEF KnowsTheSnapshot
    <3>7. StampsTell'
      BY <1>1, <2>4, <3>1, <3>2 DEF StampsTell
    <3>8. QED
      BY <3>3, <3>4, <3>5, <3>6, <3>7
  <2>5. QED
    BY <1>4, <2>3, <2>4 DEF ProcessExternalChange
<1>5. QED
  BY <1>2, <1>3, <1>4 DEF WatchTypes

\* The program ends and starts anew with the file there is.
LEMMA RestartKeeps ==
  ASSUME FileInv, EndAndRestart
  PROVE  FileInv'
<1> USE DEF FileInv
<1>1. /\ atomic' = atomic /\ watching' = watching /\ disk' = disk
      /\ backups' = backups /\ fresh' = fresh /\ clock' = clock /\ last' = last
      /\ snapshot' = disk.stamp /\ save' = NoSave /\ watch' = NoEvents
      /\ known' = known \union {disk.stamp} /\ slips' = {}
      /\ saved' = buffer'
  BY DEF EndAndRestart
<1>2. CASE disk = Gone
  <2>1. external' = "missing" /\ buffer' = Empty
    BY <1>2 DEF EndAndRestart
  <2>2. Empty \in FileTexts /\ Empty # Torn /\ disk.stamp = 0
    BY <1>2 DEF Empty, FileTexts, Torn, Gone
  <2>3. DiskStrongType'
    BY <1>1, <2>1, <2>2, FirstTypes DEF DiskStrongType, IsFile, NoSave
  <2>4. QED
    BY <1>1, <2>1, <2>2, <2>3
       DEF SavesTheText, NothingPartial, NothingIsLost, KnowsTheSnapshot,
           ChangesArePending, StampsTell, NoSave, NoEvents, Gone, Absent, Torn
<1>3. CASE disk # Gone
  <2>1. buffer' = disk.content /\ disk.content \in FileTexts /\ disk.stamp \in 1 .. clock
    BY <1>3 DEF EndAndRestart, DiskStrongType, IsFile, FileTypes
  <2>2. DiskStrongType'
    BY <1>1, <2>1, FirstTypes DEF DiskStrongType, IsFile, NoSave
  <2>3. QED
    BY <1>1, <2>1, <2>2
       DEF SavesTheText, NothingPartial, NothingIsLost, KnowsTheSnapshot,
           ChangesArePending, StampsTell, NoSave, NoEvents, Gone, Absent, Torn
<1>4. QED
  BY <1>2, <1>3

-----------------------------------------------------------------------------
(* The theorems                                                            *)

LEMMA FileInvariant ==
  FileSpec => []FileInv
<1>1. FileInv /\ [FileNext]_fileVars => FileInv'
  <2> SUFFICES ASSUME FileInv, [FileNext]_fileVars
               PROVE  FileInv'
    OBVIOUS
  <2>1. CASE ExternalWrite \/ ExternalRemove \/ Noise \/ EditText \/ UndoEdits
    BY <2>1, ExternalWriteKeeps, ExternalRemoveKeeps, NoiseKeeps, EditKeeps
  <2>2. CASE \E force, readOnly \in BOOLEAN : BeginSave(force, readOnly)
    BY <2>2, BeginSaveKeeps
  <2>3. CASE BeginReload \/ SaveStep
    BY <2>3, BeginReloadKeeps, RenameKeeps, TruncateKeeps, WriteDataKeeps,
       WriteFailsKeeps, FinishBackupKeeps, EndKeeps DEF SaveStep
  <2>4. CASE WatchStep \/ ProcessExternalChange \/ EndAndRestart
    BY <2>4, WatchKeeps, ProcessKeeps, RestartKeeps
  <2>5. CASE UNCHANGED fileVars
    BY <2>5 DEF fileVars, FileInv, DiskStrongType, IsFile, SavesTheText,
         NothingPartial, NothingIsLost, KnowsTheSnapshot, Raced,
         ChangesArePending, Pending, StampsTell
  <2>6. QED
    BY <2>1, <2>2, <2>3, <2>4, <2>5 DEF FileNext
<1>2. QED
  BY <1>1, FileInitially, PTL DEF FileSpec

\* At no moment of an atomic save is the content that was last complete lost.
THEOREM NothingIsEverLost ==
  FileSpec => []NothingIsLost
<1>1. FileInv => NothingIsLost
  BY DEF FileInv
<1>2. QED
  BY <1>1, FileInvariant, PTL

\* A save without force replaces only what the editor knows of.
THEOREM OverwritesAreTold ==
  FileSpec => NoUntoldOverwrite
<1>1. FileInv /\ [FileNext]_fileVars =>
        [Replaces /\ ~ save.force /\ disk.stamp = save.stamp /\ "race" \notin slips
           => disk.stamp \in known]_fileVars
  <2> SUFFICES ASSUME FileInv, Replaces, save.force = FALSE,
                      disk.stamp = save.stamp, ~ Raced
               PROVE  disk.stamp \in known
    BY DEF FileInv, DiskStrongType, SaveTypes, Raced
  <2>1. QED
    BY DEF Replaces, FileInv, KnowsTheSnapshot
<1>2. QED
  BY <1>1, FileInvariant, PTL DEF FileSpec, NoUntoldOverwrite

\* An unmodified document has the text of its file when the watcher is quiet.
THEOREM UnmodifiedIsAlwaysCurrent ==
  FileSpec => []UnmodifiedIsCurrent
<1>1. FileInv => UnmodifiedIsCurrent
  <2> SUFFICES ASSUME FileInv, watching, Still, ~ Unsaved, slips = {},
                      external = "clean"
               PROVE  buffer = disk.content
    BY DEF UnmodifiedIsCurrent
  <2>1. ~ Pending /\ save.at = "none"
    BY DEF Pending, Still, Busy, FileInv, ChangesArePending
  <2>2. disk.stamp = snapshot /\ ~ Raced
    BY <2>1 DEF FileInv, ChangesArePending, Raced
  <2>3. disk.content = saved
    BY <2>1, <2>2 DEF FileInv, StampsTell
  <2>4. QED
    BY <2>3 DEF Unsaved
<1>2. QED
  BY <1>1, FileInvariant, PTL

(***************************************************************************)
(* What is shown of a document is the report on its text when nobody asks, *)
(* for any number of goroutines that ask, changes and reloads.             *)
(***************************************************************************)

-----------------------------------------------------------------------------
(* The invariant                                                           *)

AskTypes ==
  [pc : {"idle", "started", "asked", "answered", "converted", "stored", "sent"},
   previous : Int, process : Nat, of : Int, on : Int]

ReportsStrongType ==
  /\ kind \in {"diagnostics", "overlays"}
  /\ version \in Nat /\ previous \in Int /\ process \in Nat
  /\ report \in [of : Int, placed : BOOLEAN]
  /\ pulls \in [Pulls -> AskTypes] /\ push \in AskTypes
  /\ session \in {"ready", "reset", "cleared"}
  /\ mishaps \subseteq AnyMishap

\* What was answered is about a text there was, and so is what was converted.
AnswersAreOfThePast ==
  /\ \A p \in Pulls :
       /\ pulls[p].of <= version /\ pulls[p].on <= version
       /\ pulls[p].pc = "converted" => pulls[p].of <= pulls[p].on
  /\ push.of <= version /\ push.on <= version
  /\ push.pc = "converted" => push.of = push.on
  /\ report.of <= version

\* A report on the text there is is at its place.
CurrentIsPlaced == report.of = version => report.placed = TRUE

\* A goroutine that will bring, or has brought, the answer for the text there is.
IsOnIt(p) ==
  \/ pulls[p].pc \in {"started", "asked"}
  \/ pulls[p].pc \in {"answered", "converted", "stored"} /\ pulls[p].of = version

IsFresh ==
  /\ report.of = version
  /\ kind = "diagnostics" => previous = version

\* While nothing has gone wrong someone is on it, or it is done, or a reload
\* will ask again.
SomeoneIsOnIt ==
  mishaps = {} => session # "ready" \/ IsFresh \/ \E p \in Pulls : IsOnIt(p)

ReportsInv ==
  /\ ReportsStrongType /\ AnswersAreOfThePast /\ CurrentIsPlaced /\ SomeoneIsOnIt

-----------------------------------------------------------------------------
(* Every step preserves it                                                 *)

LEMMA RestingTypes ==
  /\ Resting \in AskTypes /\ Resting.pc = "idle" /\ Resting.of = None
  /\ Resting.on = None
BY DEF Resting, AskTypes, None

LEMMA SomeoneIsSpare ==
  /\ AnyOf(Pulls) \in Pulls
  /\ \A p \in Spare : p \in Pulls /\ IsIdle(p)
<1>1. AnyOf(Pulls) \in Pulls
  BY ReportsAssumption DEF AnyOf
<1>2. Idle # {} => AnyOf(Idle) \in Idle
  BY DEF AnyOf
<1>3. QED
  BY <1>1, <1>2 DEF Spare, Idle

LEMMA ReportsInitially ==
  ReportsInit => ReportsInv
<1> SUFFICES ASSUME ReportsInit
             PROVE  ReportsInv
  OBVIOUS
<1> DEFINE first == AnyOf(Pulls)
           rest == [q \in Pulls |-> Resting]
<1>1. first \in Pulls /\ rest \in [Pulls -> AskTypes]
  BY SomeoneIsSpare, RestingTypes
<1>2. pulls = [rest EXCEPT ![first].pc = "started"]
  BY DEF ReportsInit
<1> HIDE DEF first
<1>3. /\ pulls \in [Pulls -> AskTypes] /\ pulls[first].pc = "started"
      /\ \A p \in Pulls : /\ pulls[p].of = None /\ pulls[p].on = None
                         /\ pulls[p].pc # "converted"
  BY <1>1, <1>2, RestingTypes DEF AskTypes
<1>4. ReportsStrongType
  BY <1>3, RestingTypes DEF ReportsInit, ReportsStrongType, Blank, None, AnyMishap
<1>5. AnswersAreOfThePast /\ CurrentIsPlaced
  BY <1>3, RestingTypes
     DEF ReportsInit, AnswersAreOfThePast, CurrentIsPlaced, Blank, None
<1>6. SomeoneIsOnIt
  BY <1>1, <1>3 DEF SomeoneIsOnIt, IsOnIt
<1>7. QED
  BY <1>4, <1>5, <1>6 DEF ReportsInv

\* A goroutine goes on to r.
LEMMA GoesOn ==
  ASSUME ReportsStrongType, NEW p \in Pulls, NEW r \in AskTypes,
         pulls' = [pulls EXCEPT ![p] = r]
  PROVE  /\ pulls' \in [Pulls -> AskTypes] /\ pulls'[p] = r
         /\ \A q \in Pulls \ {p} : pulls'[q] = pulls[q]
BY DEF ReportsStrongType

LEMMA PlacedTypes ==
  ASSUME NEW of \in Int, NEW on \in Int
  PROVE  /\ Placed(of, on) \in [of : Int, placed : BOOLEAN]
         /\ Placed(of, on).of = of
         /\ of = on /\ on = version => Placed(of, on).placed = TRUE
<1>1. (of = on /\ on = version) \in BOOLEAN
  OBVIOUS
<1>2. QED
  BY <1>1 DEF Placed

\* The goroutines but one are as they were, and that one is at pc.
OnlyMoves(p, pc) ==
  /\ pulls' \in [Pulls -> AskTypes]
  /\ \A q \in Pulls \ {p} : pulls'[q] = pulls[q]
  /\ pulls'[p].pc = pc

\* A document changes or is asked about again.
LEMMA AskedAgainKeeps ==
  ASSUME ReportsInv, NEW p \in Spare, Change(p) \/ AskAgain(p)
  PROVE  ReportsInv'
<1> USE DEF ReportsInv
<1>1. p \in Pulls /\ IsIdle(p) /\ pulls' = Started(p)
  BY SomeoneIsSpare DEF Change, AskAgain
<1>2. /\ OnlyMoves(p, "started")
      /\ pulls'[p].of = pulls[p].of /\ pulls'[p].on = pulls[p].on
  BY <1>1 DEF Started, OnlyMoves, ReportsStrongType, AskTypes
<1>3. /\ kind' = kind /\ report' = report /\ previous' = previous /\ push' = push
      /\ session' = session /\ process' = process
      /\ version' = version \/ version' = version + 1
      /\ mishaps' \subseteq AnyMishap
  BY DEF Change, AskAgain, ReportsStrongType
<1>4. ReportsStrongType'
  BY <1>2, <1>3 DEF ReportsStrongType, OnlyMoves
<1>5. AnswersAreOfThePast'
  BY <1>2, <1>3 DEF AnswersAreOfThePast, OnlyMoves, ReportsStrongType, AskTypes
<1>6. CurrentIsPlaced'
  BY <1>3 DEF CurrentIsPlaced, AnswersAreOfThePast, ReportsStrongType
<1>7. SomeoneIsOnIt'
  BY <1>1, <1>2 DEF SomeoneIsOnIt, IsOnIt, OnlyMoves
<1>8. QED
  BY <1>4, <1>5, <1>6, <1>7

LEMMA ReloadKeeps ==
  ASSUME ReportsInv, ResetConfig \/ ClearDocumentState
  PROVE  ReportsInv'
<1>1. /\ kind' = kind /\ version' = version /\ pulls' = pulls /\ push' = push
      /\ mishaps' = mishaps /\ session' \in {"reset", "cleared"}
      /\ process' \in Nat /\ previous' \in Int
      /\ report' = report \/ report' = Blank
  BY DEF ResetConfig, ClearDocumentState, ReportsInv, ReportsStrongType, None
<1>2. /\ Blank \in [of : Int, placed : BOOLEAN] /\ Blank.of = None
      /\ Blank.placed = TRUE /\ None <= version
  BY DEF Blank, None, ReportsInv, ReportsStrongType
<1>3. QED
  BY <1>1, <1>2
     DEF ReportsInv, ReportsStrongType, AnswersAreOfThePast, CurrentIsPlaced,
         SomeoneIsOnIt

LEMMA ReopenKeeps ==
  ASSUME ReportsInv, NEW p \in Spare, CloseAndReopen(p)
  PROVE  ReportsInv'
<1> USE DEF ReportsInv
<1>1. p \in Pulls /\ pulls[p].pc = "idle"
  BY SomeoneIsSpare DEF IsIdle
<1>2. /\ kind' = kind /\ version' = version /\ report' = report
      /\ previous' = previous /\ push' = push /\ process' = process
      /\ mishaps' = mishaps /\ session' = "ready"
  BY DEF CloseAndReopen
<1>3. /\ pulls' \in [Pulls -> AskTypes] /\ pulls'[p].pc = "started"
      /\ pulls'[p].of = pulls[p].of /\ pulls'[p].on = pulls[p].on
      /\ \A q \in Pulls \ {p} : pulls'[q] = Resting \/ pulls'[q] = pulls[q]
  <2>1. [pulls[p] EXCEPT !.pc = "started"] \in AskTypes
    BY <1>1 DEF ReportsStrongType, AskTypes
  <2>2. /\ pulls' = [q \in Pulls |-> pulls'[q]]
        /\ pulls'[p] = [pulls[p] EXCEPT !.pc = "started"]
        /\ \A q \in Pulls \ {p} : pulls'[q] = Resting \/ pulls'[q] = pulls[q]
    <3>1. ASSUME NEW q \in Pulls
          PROVE  pulls'[q] = CASE q = p -> [pulls[p] EXCEPT !.pc = "started"]
                               [] pulls[q].pc = "asked" /\ pulls[q].process < process ->
                                    Resting
                               [] OTHER -> pulls[q]
      BY DEF CloseAndReopen
    <3>2. pulls'[p] = [pulls[p] EXCEPT !.pc = "started"]
      <4> DEFINE then == [pulls[p] EXCEPT !.pc = "started"]
      <4>1. pulls'[p] = CASE p = p -> then
                          [] pulls[p].pc = "asked" /\ pulls[p].process < process ->
                               Resting
                          [] OTHER -> pulls[p]
        BY <1>1, <3>1
      <4>2. QED
        BY <1>1, <4>1
    <3>3. \A q \in Pulls \ {p} : pulls'[q] = Resting \/ pulls'[q] = pulls[q]
      BY <3>1
    <3>4. pulls' = [q \in Pulls |-> pulls'[q]]
      BY DEF CloseAndReopen
    <3>5. QED
      BY <3>2, <3>3, <3>4
  <2>3. \A q \in Pulls : pulls'[q] \in AskTypes
    BY <2>1, <2>2, RestingTypes DEF ReportsStrongType
  <2>4. pulls' \in [Pulls -> AskTypes]
    BY <2>2, <2>3
  <2>5. QED
    BY <1>1, <2>2, <2>4 DEF ReportsStrongType, AskTypes
<1>4. ReportsStrongType'
  BY <1>2, <1>3 DEF ReportsStrongType
<1>5. AnswersAreOfThePast'
  BY <1>2, <1>3, RestingTypes DEF AnswersAreOfThePast, ReportsStrongType, None
<1>6. CurrentIsPlaced'
  BY <1>2 DEF CurrentIsPlaced
<1>7. SomeoneIsOnIt'
  BY <1>1, <1>3 DEF SomeoneIsOnIt, IsOnIt
<1>8. QED
  BY <1>4, <1>5, <1>6, <1>7

-----------------------------------------------------------------------------
(* A goroutine that asks                                                   *)

\* Steps before there is an answer to store.
LEMMA AskKeeps ==
  ASSUME ReportsInv, NEW p \in Pulls,
         PreviousDiagnosticID(p) \/ Answer(p) \/ Convert(p)
  PROVE  ReportsInv'
<1> USE DEF ReportsInv
<1>1. /\ kind' = kind /\ version' = version /\ report' = report
      /\ previous' = previous /\ push' = push /\ process' = process
      /\ mishaps' = mishaps /\ session' = session
  BY DEF PreviousDiagnosticID, Answer, Convert
<1>2. /\ pulls' \in [Pulls -> AskTypes]
      /\ \A q \in Pulls \ {p} : pulls'[q] = pulls[q]
      /\ pulls'[p].of <= version /\ pulls'[p].on <= version
      /\ pulls'[p].pc = "converted" => pulls'[p].of <= pulls'[p].on
      /\ IsOnIt(p) => IsOnIt(p)'
  <2>0. /\ pulls[p] \in AskTypes /\ version \in Int /\ process \in Nat
        /\ previous \in Int /\ None \in Int
        /\ pulls[p].of <= version /\ pulls[p].on <= version
    BY DEF ReportsStrongType, AnswersAreOfThePast, None
  <2>1. CASE PreviousDiagnosticID(p)
    <3> DEFINE r == [pulls[p] EXCEPT
                       !.pc = "asked", !.process = process,
                       !.previous = IF kind = "diagnostics" THEN previous ELSE None]
    <3>1. /\ r \in AskTypes /\ r.pc = "asked"
          /\ r.of = pulls[p].of /\ r.on = pulls[p].on
      BY <2>0 DEF AskTypes
    <3>2. pulls' = [pulls EXCEPT ![p] = r]
      BY <2>1 DEF PreviousDiagnosticID
    <3> HIDE DEF r
    <3>3. QED
      BY <1>1, <2>0, <3>1, <3>2, GoesOn DEF IsOnIt
  <2>2. CASE Answer(p)
    <3> DEFINE r == [pulls[p] EXCEPT
                       !.of = version,
                       !.pc = IF pulls[p].previous = version THEN "stored"
                                                             ELSE "answered"]
    <3>1. /\ r \in AskTypes /\ r.pc \in {"stored", "answered"}
          /\ r.of = version /\ r.on = pulls[p].on
      BY <2>0 DEF AskTypes
    <3>2. pulls' = [pulls EXCEPT ![p] = r]
      BY <2>2 DEF Answer
    <3> HIDE DEF r
    <3>3. /\ pulls' \in [Pulls -> AskTypes] /\ pulls'[p] = r
          /\ \A q \in Pulls \ {p} : pulls'[q] = pulls[q]
      BY <3>1, <3>2, GoesOn
    <3>4. QED
      BY <1>1, <2>0, <3>1, <3>2, <3>3 DEF IsOnIt
  <2>3. CASE Convert(p)
    <3> DEFINE r == [pulls[p] EXCEPT !.pc = "converted", !.on = version]
    <3>1. /\ r \in AskTypes /\ r.pc = "converted"
          /\ r.of = pulls[p].of /\ r.on = version
      BY <2>0 DEF AskTypes
    <3>2. pulls' = [pulls EXCEPT ![p] = r] /\ pulls[p].pc = "answered"
      BY <2>3 DEF Convert
    <3> HIDE DEF r
    <3>3. /\ pulls' \in [Pulls -> AskTypes] /\ pulls'[p] = r
          /\ \A q \in Pulls \ {p} : pulls'[q] = pulls[q]
      BY <3>1, <3>2, GoesOn
    <3>4. QED
      BY <1>1, <2>0, <3>1, <3>2, <3>3 DEF IsOnIt
  <2>4. QED
    BY <2>1, <2>2, <2>3
<1>3. ReportsStrongType'
  BY <1>1, <1>2 DEF ReportsStrongType
<1>4. AnswersAreOfThePast'
  BY <1>1, <1>2 DEF AnswersAreOfThePast
<1>5. CurrentIsPlaced'
  BY <1>1 DEF CurrentIsPlaced
<1>6. SomeoneIsOnIt'
  BY <1>1, <1>2 DEF SomeoneIsOnIt, IsOnIt, IsFresh
<1>7. QED
  BY <1>3, <1>4, <1>5, <1>6

LEMMA FailKeeps ==
  ASSUME ReportsInv, NEW p \in Pulls, RequestFails(p)
  PROVE  ReportsInv'
<1>1. /\ kind' = kind /\ version' = version /\ previous' = previous
      /\ push' = push /\ process' = process /\ session' = session
      /\ mishaps' = mishaps \cup {"failed"}
      /\ pulls' = [pulls EXCEPT ![p] = Resting]
      /\ report' = report \/ report' = Blank
  BY DEF RequestFails
<1>2. /\ Blank \in [of : Int, placed : BOOLEAN] /\ Blank.of = None
      /\ Blank.placed = TRUE /\ None <= version
  BY DEF Blank, None, ReportsInv, ReportsStrongType
<1>3. ReportsStrongType' /\ AnswersAreOfThePast'
  BY <1>1, <1>2, RestingTypes
     DEF ReportsInv, ReportsStrongType, AnswersAreOfThePast, AnyMishap
<1>4. CurrentIsPlaced' /\ SomeoneIsOnIt'
  BY <1>1, <1>2 DEF ReportsInv, CurrentIsPlaced, SomeoneIsOnIt
<1>5. QED
  BY <1>3, <1>4 DEF ReportsInv

\* A report that is stored over that on the text there is has overtaken it.
LEMMA ReplaceKeeps ==
  ASSUME ReportsInv, NEW p \in Pulls, Replace(p)
  PROVE  ReportsInv'
<1> USE DEF ReportsInv
<1>1. /\ kind' = kind /\ version' = version /\ previous' = previous
      /\ push' = push /\ process' = process /\ session' = session
      /\ pulls[p].pc = "converted"
      /\ report' = Placed(pulls[p].of, pulls[p].on)
      /\ mishaps' = IF report.of > pulls[p].of THEN mishaps \cup {"overtaken"}
                                               ELSE mishaps
  BY DEF Replace
<1>2. /\ pulls[p].of <= pulls[p].on /\ pulls[p].on <= version
      /\ pulls[p].of \in Int /\ pulls[p].on \in Int /\ version \in Nat
      /\ report.of \in Int
  BY <1>1 DEF AnswersAreOfThePast, ReportsStrongType, AskTypes
<1>3. /\ report' \in [of : Int, placed : BOOLEAN] /\ report'.of = pulls[p].of
      /\ pulls[p].of = version => report'.placed = TRUE
  <2>1. pulls[p].of = version => pulls[p].of = pulls[p].on /\ pulls[p].on = version
    BY <1>2
  <2>2. QED
    BY <1>1, <1>2, <2>1, PlacedTypes
<1>4. /\ pulls' \in [Pulls -> AskTypes]
      /\ \A q \in Pulls \ {p} : pulls'[q] = pulls[q]
      /\ \/ kind = "overlays" /\ pulls'[p] = Resting
         \/ /\ kind = "diagnostics" /\ pulls'[p].pc = "stored"
            /\ pulls'[p].of = pulls[p].of /\ pulls'[p].on = pulls[p].on
  BY RestingTypes DEF Replace, ReportsStrongType, AskTypes
<1>5. ReportsStrongType'
  BY <1>1, <1>3, <1>4 DEF ReportsStrongType, AnyMishap
<1>6. AnswersAreOfThePast'
  BY <1>1, <1>2, <1>3, <1>4, RestingTypes DEF AnswersAreOfThePast, None
<1>7. CurrentIsPlaced'
  BY <1>1, <1>3 DEF CurrentIsPlaced
<1>8. SomeoneIsOnIt'
  <2>1. SUFFICES ASSUME mishaps' = {}, session = "ready"
                 PROVE  IsFresh' \/ \E q \in Pulls : IsOnIt(q)'
    BY <1>1 DEF SomeoneIsOnIt
  <2>2. mishaps = {} /\ ~ (report.of > pulls[p].of)
    BY <1>1, <2>1
  <2>3. CASE pulls[p].of = version
    BY <1>1, <1>3, <1>4, <2>3 DEF IsFresh, IsOnIt
  <2>4. CASE pulls[p].of # version
    <3>1. ~ IsFresh /\ ~ IsOnIt(p)
      BY <1>1, <1>2, <2>2, <2>4 DEF IsFresh, IsOnIt
    <3>2. PICK q \in Pulls : IsOnIt(q)
      BY <2>1, <2>2, <3>1 DEF SomeoneIsOnIt
    <3>3. IsOnIt(q)'
      BY <1>1, <1>4, <3>1, <3>2 DEF IsOnIt
    <3>4. QED
      BY <3>3
  <2>5. QED
    BY <2>3, <2>4
<1>9. QED
  BY <1>5, <1>6, <1>7, <1>8

\* An id that is stored with the report it is of leaves no one to wait for.
LEMMA StoreIdKeeps ==
  ASSUME ReportsInv, NEW p \in Pulls, SetPreviousDiagnosticID(p)
  PROVE  ReportsInv'
<1> USE DEF ReportsInv
<1>1. /\ kind' = kind /\ version' = version /\ report' = report
      /\ push' = push /\ process' = process /\ session' = session
      /\ pulls[p].pc = "stored" /\ previous' = pulls[p].of
      /\ pulls' = [pulls EXCEPT ![p] = Resting]
      /\ mishaps' = IF report.of # pulls[p].of THEN mishaps \cup {"crossed"}
                                               ELSE mishaps
  BY DEF SetPreviousDiagnosticID
<1>2. /\ pulls' \in [Pulls -> AskTypes] /\ pulls'[p] = Resting
      /\ \A q \in Pulls \ {p} : pulls'[q] = pulls[q]
      /\ previous' \in Int
  BY <1>1, RestingTypes DEF ReportsStrongType, AskTypes
<1>3. ReportsStrongType'
  BY <1>1, <1>2 DEF ReportsStrongType, AnyMishap
<1>4. AnswersAreOfThePast' /\ CurrentIsPlaced'
  BY <1>1, <1>2, RestingTypes
     DEF AnswersAreOfThePast, CurrentIsPlaced, ReportsStrongType, None
<1>5. SomeoneIsOnIt'
  <2>1. SUFFICES ASSUME mishaps' = {}, session = "ready"
                 PROVE  IsFresh' \/ \E q \in Pulls : IsOnIt(q)'
    BY <1>1 DEF SomeoneIsOnIt
  <2>2. mishaps = {} /\ report.of = pulls[p].of
    BY <1>1, <2>1
  <2>3. CASE pulls[p].of = version
    BY <1>1, <2>2, <2>3 DEF IsFresh
  <2>4. CASE pulls[p].of # version
    <3>1. ~ IsFresh /\ ~ IsOnIt(p)
      BY <1>1, <2>2, <2>4 DEF IsFresh, IsOnIt
    <3>2. PICK q \in Pulls : IsOnIt(q)
      BY <2>1, <2>2, <3>1 DEF SomeoneIsOnIt
    <3>3. IsOnIt(q)'
      BY <1>1, <1>2, <3>1, <3>2 DEF IsOnIt
    <3>4. QED
      BY <3>3
  <2>5. QED
    BY <2>3, <2>4
<1>6. QED
  BY <1>3, <1>4, <1>5

-----------------------------------------------------------------------------
(* Reports that are sent unasked                                           *)

LEMMA PublishKeeps ==
  ASSUME ReportsInv, Publish \/ PublishDiagnostics
  PROVE  ReportsInv'
<1> USE DEF ReportsInv
<1>1. /\ kind' = kind /\ version' = version /\ report' = report
      /\ previous' = previous /\ pulls' = pulls /\ process' = process
      /\ mishaps' = mishaps /\ session' = session
  BY DEF Publish, PublishDiagnostics
<1>2. /\ push' \in AskTypes /\ push'.of <= version /\ push'.on <= version
      /\ push'.pc = "converted" => push'.of = push'.on
  <2>1. CASE Publish
    <3>1. PICK of \in 0 .. version :
            push' = [Resting EXCEPT !.pc = "sent", !.of = of, !.process = process]
      BY <2>1 DEF Publish
    <3>2. push' = [pc |-> "sent", previous |-> None, process |-> process,
                   of |-> of, on |-> None]
      BY <3>1 DEF Resting
    <3>3. QED
      BY <3>2 DEF AskTypes, None, ReportsStrongType
  <2>2. CASE PublishDiagnostics
    <3>1. CASE push.of = version
      <4>1. push' = [push EXCEPT !.pc = "converted", !.on = version]
        BY <2>2, <3>1 DEF PublishDiagnostics
      <4>2. push \in AskTypes /\ version \in Int
        BY DEF ReportsStrongType
      <4>3. /\ push' \in AskTypes /\ push'.of = push.of /\ push'.on = version
        BY <4>1, <4>2 DEF AskTypes
      <4>4. QED
        BY <3>1, <4>2, <4>3
    <3>2. CASE push.of # version
      BY <2>2, <3>2, RestingTypes DEF PublishDiagnostics, ReportsStrongType, None
    <3>3. QED
      BY <3>1, <3>2
  <2>3. QED
    BY <2>1, <2>2
<1>3. QED
  BY <1>1, <1>2
     DEF ReportsStrongType, AnswersAreOfThePast, CurrentIsPlaced, SomeoneIsOnIt,
         IsOnIt, IsFresh

LEMMA ReplacePublishedKeeps ==
  ASSUME ReportsInv, ReplacePublished
  PROVE  ReportsInv'
<1> USE DEF ReportsInv
<1>1. /\ kind' = kind /\ version' = version /\ previous' = previous
      /\ pulls' = pulls /\ process' = process /\ session' = session
      /\ push.pc = "converted" /\ push' = Resting
      /\ report' = Placed(push.of, push.on)
      /\ mishaps' = IF report.of > push.of /\ push.of = push.on
                    THEN mishaps \cup {"overtaken"} ELSE mishaps
  BY DEF ReplacePublished
<1>2. /\ push.of = push.on /\ push.of <= version /\ push.of \in Int
      /\ version \in Nat /\ report.of \in Int
  BY <1>1 DEF AnswersAreOfThePast, ReportsStrongType, AskTypes
<1>3. /\ report' \in [of : Int, placed : BOOLEAN] /\ report'.of = push.of
      /\ push.of = version => report'.placed = TRUE
  <2>1. push.of = version => push.of = push.on /\ push.on = version
    BY <1>2
  <2>2. QED
    BY <1>1, <1>2, <2>1, PlacedTypes
<1>4. ReportsStrongType'
  BY <1>1, <1>3, RestingTypes DEF ReportsStrongType, AnyMishap
<1>5. AnswersAreOfThePast' /\ CurrentIsPlaced'
  BY <1>1, <1>2, <1>3, RestingTypes DEF AnswersAreOfThePast, CurrentIsPlaced, None
<1>6. SomeoneIsOnIt'
  <2>1. SUFFICES ASSUME mishaps' = {}, session = "ready"
                 PROVE  IsFresh' \/ \E q \in Pulls : IsOnIt(q)'
    BY <1>1 DEF SomeoneIsOnIt
  <2>2. mishaps = {} /\ ~ (report.of > push.of)
    BY <1>1, <1>2, <2>1
  <2>3. CASE IsFresh
    <3>1. push.of = version
      BY <1>2, <2>2, <2>3 DEF IsFresh
    <3>2. QED
      BY <1>1, <1>3, <2>3, <3>1 DEF IsFresh
  <2>4. CASE ~ IsFresh
    BY <1>1, <2>1, <2>2, <2>4 DEF SomeoneIsOnIt, IsOnIt
  <2>5. QED
    BY <2>3, <2>4
<1>7. QED
  BY <1>4, <1>5, <1>6

-----------------------------------------------------------------------------
(* The theorem                                                             *)

LEMMA ReportsInvariant ==
  ReportsSpec => []ReportsInv
<1>1. ReportsInv /\ [ReportsNext]_reportVars => ReportsInv'
  <2> SUFFICES ASSUME ReportsInv, [ReportsNext]_reportVars
               PROVE  ReportsInv'
    OBVIOUS
  <2>1. CASE \E p \in Spare : Change(p) \/ AskAgain(p) \/ CloseAndReopen(p)
    BY <2>1, AskedAgainKeeps, ReopenKeeps
  <2>2. CASE \E p \in Pulls : Pull(p)
    BY <2>2, AskKeeps, FailKeeps, ReplaceKeeps, StoreIdKeeps DEF Pull
  <2>3. CASE ResetConfig \/ ClearDocumentState
    BY <2>3, ReloadKeeps
  <2>4. CASE Publish \/ PublishDiagnostics \/ ReplacePublished
    BY <2>4, PublishKeeps, ReplacePublishedKeeps
  <2>5. CASE UNCHANGED reportVars
    BY <2>5 DEF reportVars, ReportsInv, ReportsStrongType, AnswersAreOfThePast,
         CurrentIsPlaced, SomeoneIsOnIt, IsOnIt, IsFresh
  <2>6. QED
    BY <2>1, <2>2, <2>3, <2>4, <2>5 DEF ReportsNext
<1>2. QED
  BY <1>1, ReportsInitially, PTL DEF ReportsSpec

\* When nobody asks any more and nothing went wrong, the report is that on the
\* text there is, at its place, and its id is the one to ask with.
THEOREM SettledIsAlwaysFresh ==
  ReportsSpec => []SettledIsFresh
<1>1. ReportsInv => SettledIsFresh
  <2> SUFFICES ASSUME ReportsInv, IsQuiet, mishaps = {}
               PROVE  /\ report = [of |-> version, placed |-> TRUE]
                      /\ kind = "diagnostics" => previous = version
    BY DEF SettledIsFresh
  <2>1. \A p \in Pulls : ~ IsOnIt(p)
    BY DEF IsQuiet, IsIdle, IsOnIt
  <2>2. IsFresh
    BY <2>1 DEF ReportsInv, SomeoneIsOnIt, IsQuiet
  <2>3. report.placed = TRUE
    BY <2>2 DEF IsFresh, ReportsInv, CurrentIsPlaced
  <2>4. report = [of |-> report.of, placed |-> report.placed]
    BY DEF ReportsInv, ReportsStrongType
  <2>5. QED
    BY <2>2, <2>3, <2>4 DEF IsFresh
<1>2. QED
  BY <1>1, ReportsInvariant, PTL

(***************************************************************************)
(* The hunks of a document follow its text and the known head, for any     *)
(* number of loads and any size of the channel of events.                  *)
(***************************************************************************)

-----------------------------------------------------------------------------
(* Events that wait                                                        *)

EventTypes == [kind : {"doc", "base"}, value : Nat]

\* What the worker will have of a kind once it has taken these events, `now'
\* being what it has.
Latest(events, which, now, v) ==
  \/ \E i \in 1 .. Len(events) :
       /\ events[i].kind = which /\ events[i].value = v
       /\ \A j \in i + 1 .. Len(events) : events[j].kind # which
  \/ now = v /\ \A j \in 1 .. Len(events) : events[j].kind # which

\* An event settles what the worker will have of its kind,
LEMMA SentIsLatest ==
  ASSUME NEW s \in Seq(EventTypes), NEW e \in EventTypes, NEW now
  PROVE  Latest(Append(s, e), e.kind, now, e.value)
<1> DEFINE n == Len(s) + 1
<1>1. Len(Append(s, e)) = n /\ n \in 1 .. n /\ Append(s, e)[n] = e
  OBVIOUS
<1>2. \A j \in n + 1 .. n : FALSE
  OBVIOUS
<1>3. QED
  BY <1>1, <1>2 DEF Latest

\* and leaves what it will have of the other.
LEMMA OtherStaysLatest ==
  ASSUME NEW s \in Seq(EventTypes), NEW e \in EventTypes, NEW which, NEW now,
         NEW v, Latest(s, which, now, v), e.kind # which
  PROVE  Latest(Append(s, e), which, now, v)
<1> DEFINE t == Append(s, e)
<1>1. /\ Len(s) \in Nat /\ Len(t) = Len(s) + 1
      /\ \A j \in 1 .. Len(s) : t[j] = s[j]
      /\ t[Len(s) + 1] = e
  OBVIOUS
<1>2. CASE now = v /\ \A j \in 1 .. Len(s) : s[j].kind # which
  <2>1. \A j \in 1 .. Len(t) : t[j].kind # which
    BY <1>1, <1>2
  <2>2. QED
    BY <1>2, <2>1 DEF Latest
<1>3. CASE \E i \in 1 .. Len(s) :
             /\ s[i].kind = which /\ s[i].value = v
             /\ \A j \in i + 1 .. Len(s) : s[j].kind # which
  <2>1. PICK i \in 1 .. Len(s) :
          /\ s[i].kind = which /\ s[i].value = v
          /\ \A j \in i + 1 .. Len(s) : s[j].kind # which
    BY <1>3
  <2>2. i \in 1 .. Len(t) /\ t[i].kind = which /\ t[i].value = v
    BY <1>1, <2>1
  <2>3. \A j \in i + 1 .. Len(t) : t[j].kind # which
    BY <1>1, <2>1
  <2>4. QED
    BY <2>2, <2>3 DEF Latest
<1>4. QED
  BY <1>2, <1>3 DEF Latest

\* Taking an event changes nothing of what the worker will have in the end.
LEMMA TakenIsLatest ==
  ASSUME NEW s \in Seq(EventTypes), s # << >>, NEW which, NEW now, NEW v,
         Latest(s, which, now, v)
  PROVE  Latest(Tail(s), which,
                IF Head(s).kind = which THEN Head(s).value ELSE now, v)
<1> DEFINE t == Tail(s)
           then == IF Head(s).kind = which THEN Head(s).value ELSE now
<1>1. /\ Len(s) \in Nat \ {0} /\ Len(t) = Len(s) - 1 /\ Head(s) = s[1]
      /\ \A j \in 1 .. Len(t) : t[j] = s[j + 1]
  OBVIOUS
<1>2. CASE now = v /\ \A j \in 1 .. Len(s) : s[j].kind # which
  <2>1. \A j \in 1 .. Len(t) : t[j].kind # which
    BY <1>1, <1>2
  <2>2. then = v
    BY <1>1, <1>2
  <2>3. QED
    BY <2>1, <2>2 DEF Latest
<1>3. CASE \E i \in 1 .. Len(s) :
             /\ s[i].kind = which /\ s[i].value = v
             /\ \A j \in i + 1 .. Len(s) : s[j].kind # which
  <2>1. PICK i \in 1 .. Len(s) :
          /\ s[i].kind = which /\ s[i].value = v
          /\ \A j \in i + 1 .. Len(s) : s[j].kind # which
    BY <1>3
  <2>2. CASE i = 1
    <3>1. then = v
      BY <1>1, <2>1, <2>2
    <3>2. \A j \in 1 .. Len(t) : t[j].kind # which
      BY <1>1, <2>1, <2>2
    <3>3. QED
      BY <3>1, <3>2 DEF Latest
  <2>3. CASE i # 1
    <3>1. i - 1 \in 1 .. Len(t)
      BY <1>1, <2>3
    <3>2. t[i - 1].kind = which /\ t[i - 1].value = v
      BY <1>1, <2>1, <3>1
    <3>3. \A j \in (i - 1) + 1 .. Len(t) : t[j].kind # which
      BY <1>1, <2>1, <2>3
    <3>4. QED
      BY <3>1, <3>2, <3>3 DEF Latest
  <2>4. QED
    BY <2>2, <2>3
<1>4. QED
  BY <1>2, <1>3 DEF Latest

-----------------------------------------------------------------------------
(* The invariant                                                           *)

HunkTypes == [base : Heads \union {Nothing}, doc : Texts \union {Nothing}]
DifferTypes ==
  [life : Nat, base : Heads, doc : Texts, hunks : HunkTypes,
   events : Seq(EventTypes), work : {"none", "idle", "settling", "computing"}]

\* The types, and the capacity of the channel.
VcsStrongType ==
  /\ head \in Heads /\ text \in Texts /\ shown \in BOOLEAN /\ loading \in BOOLEAN
  /\ load \in [Loads -> LoadTypes]
  /\ differ \in DifferTypes
  /\ Len(differ.events) <= Capacity
  /\ \A i \in 1 .. Len(differ.events) :
       differ.events[i].value \in
         IF differ.events[i].kind = "doc" THEN Texts ELSE Heads
  /\ headID \in Heads \union {Nothing}
  /\ sending \in Texts \union {Nothing} /\ token \in BOOLEAN
  /\ drawn \in HunkTypes
  /\ missed \subseteq {"edit", "head"}

\* Before the first differ there is none.
NoneBeforeTheFirst == differ.life = 0 => ~ HasDiffer

\* The UI thread waits with the text it has, for the worker of an open document.
WaitsWithItsText ==
  sending # Nothing => HasDiffer /\ shown /\ sending = text

\* A worker that rests has computed the hunks of what it has.
RestingHasComputed ==
  differ.work = "idle" =>
    differ.hunks = [base |-> differ.base, doc |-> differ.doc]

\* The worker has the text, or it is on its way.
TextArrives ==
  HasDiffer /\ "edit" \notin missed =>
    \/ sending # Nothing
    \/ Latest(differ.events, "doc", differ.doc, text)

\* The base of the known head is sent by one load and no other, or it is on
\* its way, or there.
Sends(l) == load[l].at = "sending"
BaseArrives ==
  HasDiffer /\ "head" \notin missed =>
    /\ \A l \in Loads : Sends(l) =>
         /\ load[l].to = differ.life /\ load[l].base = headID
         /\ \A k \in Loads \ {l} : ~ Sends(k)
    /\ (\A l \in Loads : ~ Sends(l)) =>
         Latest(differ.events, "base", differ.base, headID)

VcsInv ==
  /\ VcsStrongType /\ NoneBeforeTheFirst /\ WaitsWithItsText
  /\ RestingHasComputed /\ TextArrives /\ BaseArrives /\ DrawnIsCurrent

-----------------------------------------------------------------------------
(* Every step preserves it                                                 *)

LEMMA FirstValues ==
  /\ NoLoad \in LoadTypes
  /\ \A n \in Nat : [NoDiffer EXCEPT !.life = n] \in DifferTypes
  /\ NoDiffer \in DifferTypes /\ NoHunks \in HunkTypes
<1>1. 0 \in Heads /\ 0 \in Texts
  BY VcsAssumption DEF Heads, Texts
<1>2. << >> \in Seq(EventTypes)
  OBVIOUS
<1>3. QED
  BY <1>1, <1>2 DEF NoLoad, LoadTypes, NoDiffer, DifferTypes, NoHunks, HunkTypes

\* What is said of the events holds when there are none.
LEMMA NoEventsFit ==
  ASSUME differ.events = << >>
  PROVE  /\ Len(differ.events) <= Capacity
         /\ \A i \in 1 .. Len(differ.events) :
              differ.events[i].value \in
                IF differ.events[i].kind = "doc" THEN Texts ELSE Heads
<1>1. Len(differ.events) = 0
  OBVIOUS
<1>2. QED
  BY <1>1, VcsAssumption

LEMMA VcsInitially ==
  VcsInit => VcsInv
<1> SUFFICES ASSUME VcsInit
             PROVE  VcsInv
  OBVIOUS
<1>1. 0 \in Heads /\ 0 \in Texts
  BY VcsAssumption DEF Heads, Texts
<1>2. ~ HasDiffer /\ differ.events = << >>
  BY DEF VcsInit, HasDiffer, NoDiffer
<1>3. VcsStrongType
  <2>1. /\ load \in [Loads -> LoadTypes] /\ differ \in DifferTypes
        /\ drawn \in HunkTypes
    BY FirstValues DEF VcsInit
  <2>2. QED
    BY <1>1, <1>2, <2>1, NoEventsFit DEF VcsInit, VcsStrongType
<1>4. QED
  BY <1>2, <1>3
     DEF VcsInit, VcsInv, NoneBeforeTheFirst, WaitsWithItsText,
         RestingHasComputed, TextArrives, BaseArrives, DrawnIsCurrent, HasDiffer

\* A load is started or ends.
LEMMA LoadTypeKept ==
  ASSUME VcsStrongType
  PROVE  /\ \A ensure \in BOOLEAN : StartLoad(ensure) => load' \in [Loads -> LoadTypes]
         /\ \A l \in Loads : LoadEnds(l) =>
              load' \in [Loads -> LoadTypes] /\ loading' \in BOOLEAN
         /\ EnsureDiffBase => load' \in [Loads -> LoadTypes] /\ loading' \in BOOLEAN
<1>1. ASSUME NEW ensure \in BOOLEAN, StartLoad(ensure)
      PROVE  load' \in [Loads -> LoadTypes]
  <2> DEFINE l == CHOOSE l \in Idling : TRUE
             new == [NoLoad EXCEPT !.at = "start", !.ensure = ensure, !.text = text]
  <2>1. l \in Loads
    BY <1>1 DEF StartLoad, Idling
  <2>2. new \in LoadTypes
    BY FirstValues DEF LoadTypes, VcsStrongType
  <2>3. load' = [load EXCEPT ![l] = new]
    BY <1>1 DEF StartLoad
  <2> HIDE DEF l, new
  <2>4. QED
    BY <2>1, <2>2, <2>3 DEF VcsStrongType
<1>2. ASSUME NEW l \in Loads, LoadEnds(l)
      PROVE  load' \in [Loads -> LoadTypes]
  BY <1>2, FirstValues DEF LoadEnds, VcsStrongType
<1>3. ASSUME NEW l \in Loads, LoadEnds(l)
      PROVE  loading' \in BOOLEAN
  BY <1>3, Zenon DEF LoadEnds
<1>4. EnsureDiffBase => load' \in [Loads -> LoadTypes] /\ loading' \in BOOLEAN
  BY <1>1 DEF EnsureDiffBase, VcsStrongType
<1>5. QED
  BY <1>1, <1>2, <1>3, <1>4

\* An event is sent when there is room.
LEMMA SendKeepsType ==
  ASSUME VcsStrongType, HasRoom, NEW which \in {"doc", "base"},
         NEW value \in IF which = "doc" THEN Texts ELSE Heads,
         differ' = Send(which, value)
  PROVE  /\ differ' \in DifferTypes
         /\ Len(differ'.events) <= Capacity
         /\ \A i \in 1 .. Len(differ'.events) :
              differ'.events[i].value \in
                IF differ'.events[i].kind = "doc" THEN Texts ELSE Heads
<1> DEFINE e == [kind |-> which, value |-> value]
           s == differ.events
<1>1. s \in Seq(EventTypes) /\ e \in EventTypes /\ Len(s) < Capacity
  BY VcsAssumption
     DEF VcsStrongType, DifferTypes, EventTypes, HasRoom, Texts, Heads
<1>2. /\ Append(s, e) \in Seq(EventTypes) /\ Len(Append(s, e)) = Len(s) + 1
      /\ \A i \in 1 .. Len(s) : Append(s, e)[i] = s[i]
      /\ Append(s, e)[Len(s) + 1] = e /\ Len(s) \in Nat
  BY <1>1
<1>3. differ' = [differ EXCEPT !.events = Append(s, e)] /\ differ \in DifferTypes
  BY DEF Send, VcsStrongType
<1>4. differ' \in DifferTypes /\ differ'.events = Append(s, e)
  BY <1>2, <1>3 DEF DifferTypes
<1>5. Len(Append(s, e)) <= Capacity
  BY <1>1, <1>2, VcsAssumption
<1>6. \A i \in 1 .. Len(s) : s[i].value \in IF s[i].kind = "doc" THEN Texts ELSE Heads
  BY DEF VcsStrongType
<1>7. ASSUME NEW i \in 1 .. Len(Append(s, e))
      PROVE  Append(s, e)[i].value \in
               IF Append(s, e)[i].kind = "doc" THEN Texts ELSE Heads
  <2>1. i \in 1 .. Len(s) \/ i = Len(s) + 1
    BY <1>2
  <2>2. QED
    BY <2>1, <1>2, <1>6
<1>8. QED
  BY <1>4, <1>5, <1>7

LEMMA VcsTypeStep ==
  ASSUME VcsStrongType, VcsNext
  PROVE  VcsStrongType'
<1> USE VcsAssumption DEF VcsStrongType
<1>1. CASE DocumentOpened
  BY <1>1, LoadTypeKept DEF DocumentOpened
<1>2. CASE DocumentChanged
  <2>1. text' \in Texts
    BY <1>2 DEF DocumentChanged, Texts
  <2>2. CASE HasDiffer /\ HasRoom
    BY <1>2, <2>1, <2>2, SendKeepsType DEF DocumentChanged
  <2>3. CASE ~ (HasDiffer /\ HasRoom)
    BY <1>2, <2>1, <2>3 DEF DocumentChanged
  <2>4. QED
    BY <2>2, <2>3
<1>3. CASE TextSent
  <2>1. sending \in Texts
    BY <1>3 DEF TextSent
  <2>2. QED
    BY <1>3, <2>1, SendKeepsType DEF TextSent
<1>4. CASE DocumentSaved
  BY <1>4, LoadTypeKept DEF DocumentSaved
<1>5. CASE Refresh
  BY <1>5, LoadTypeKept DEF Refresh
<1>6. CASE DocumentClosed
  <2>1. differ' = [NoDiffer EXCEPT !.life = differ.life] /\ differ.life \in Nat
    BY <1>6 DEF DocumentClosed, DifferTypes
  <2>2. differ' \in DifferTypes /\ differ'.events = << >>
    BY <2>1, FirstValues DEF NoDiffer
  <2>3. /\ Len(differ'.events) <= Capacity
        /\ \A i \in 1 .. Len(differ'.events) :
             differ'.events[i].value \in
               IF differ'.events[i].kind = "doc" THEN Texts ELSE Heads
    BY <2>2
  <2>4. QED
    BY <1>6, <2>2, <2>3 DEF DocumentClosed
<1>7. CASE Draw
  <2>1. drawn' \in HunkTypes
    BY <1>7 DEF Draw, DifferTypes
  <2>2. QED
    BY <1>7, <2>1, LoadTypeKept DEF Draw
<1>8. CASE Commit
  BY <1>8 DEF Commit, Heads
<1>9. ASSUME NEW l \in Loads, LoadStep(l)
      PROVE  VcsStrongType'
  <2>1. CASE ReadBase(l)
    BY <2>1 DEF ReadBase, LoadTypes
  <2>2. CASE NoBase(l)
    BY <2>2, LoadTypeKept DEF NoBase
  <2>3. CASE ReadHeadID(l)
    BY <2>3 DEF ReadHeadID, LoadTypes
  <2>4. CASE InstallBase(l)
    <3>1. headID' \in Heads /\ missed' \subseteq {"edit", "head"}
      BY <2>4 DEF InstallBase, LoadTypes
    <3>2. CASE HasDiffer
      <4>1. load' \in [Loads -> LoadTypes]
        <5>1. differ.life \in Nat /\ load[l] \in LoadTypes
          BY DEF DifferTypes
        <5>2. load' = [load EXCEPT ![l].at = "sending", ![l].to = differ.life]
          BY <2>4, <3>2 DEF InstallBase
        <5>3. [load[l] EXCEPT !.at = "sending", !.to = differ.life] \in LoadTypes
          BY <5>1 DEF LoadTypes
        <5>4. load' = [load EXCEPT ![l] =
                         [load[l] EXCEPT !.at = "sending", !.to = differ.life]]
          BY <5>2
        <5>5. QED
          BY <5>3, <5>4
      <4>2. QED
        BY <2>4, <3>1, <3>2, <4>1 DEF InstallBase
    <3>3. CASE ~ HasDiffer
      <4>1. differ' \in DifferTypes /\ differ'.events = << >>
        <5>1. /\ load[l].base \in Heads /\ load[l].text \in Texts
              /\ differ.life + 1 \in Nat /\ << >> \in Seq(EventTypes)
          BY DEF LoadTypes, DifferTypes
        <5>2. differ' = NewDiffer(load[l].base, load[l].text)
          BY <2>4, <3>3 DEF InstallBase
        <5>3. QED
          BY <5>1, <5>2, FirstValues DEF NewDiffer, DifferTypes
      <4>2. loading' \in BOOLEAN /\ load' \in [Loads -> LoadTypes]
        BY <2>4, <3>3, LoadTypeKept DEF InstallBase
      <4>3. QED
        BY <2>4, <3>1, <3>3, <4>1, <4>2 DEF InstallBase
    <3>4. QED
      BY <3>2, <3>3
  <2>5. CASE SendBase(l)
    <3>1. loading' \in BOOLEAN /\ load' \in [Loads -> LoadTypes]
      BY <2>5, LoadTypeKept DEF SendBase
    <3>2. CASE HasDiffer /\ differ.life = load[l].to
      <4>1. load[l].base \in Heads
        BY DEF LoadTypes
      <4>2. HasRoom /\ differ' = Send("base", load[l].base)
        BY <2>5, <3>2 DEF SendBase
      <4>3. QED
        BY <2>5, <3>1, <4>1, <4>2, SendKeepsType DEF SendBase
    <3>3. CASE ~ (HasDiffer /\ differ.life = load[l].to)
      BY <2>5, <3>1, <3>3 DEF SendBase
    <3>4. QED
      BY <3>2, <3>3
  <2>6. QED
    BY <1>9, <2>1, <2>2, <2>3, <2>4, <2>5 DEF LoadStep
<1>10. CASE TakeEvent
  <2> DEFINE s == differ.events
             event == Head(s)
  <2>1. s \in Seq(EventTypes) /\ s # << >> /\ differ \in DifferTypes
    BY <1>10 DEF TakeEvent, DifferTypes
  <2>2. /\ Tail(s) \in Seq(EventTypes) /\ Len(Tail(s)) = Len(s) - 1
        /\ \A i \in 1 .. Len(Tail(s)) : Tail(s)[i] = s[i + 1]
        /\ event = s[1] /\ event \in EventTypes /\ Len(s) \in Nat \ {0}
    BY <2>1
  <2>3. event.value \in IF event.kind = "doc" THEN Texts ELSE Heads
    BY <2>2
  <2>4. \A i \in 1 .. Len(Tail(s)) :
          Tail(s)[i].value \in IF Tail(s)[i].kind = "doc" THEN Texts ELSE Heads
    BY <2>2
  <2>5. differ' \in DifferTypes /\ differ'.events = Tail(s)
    BY <1>10, <2>1, <2>2, <2>3 DEF TakeEvent, DifferTypes
  <2>6. QED
    BY <1>10, <2>2, <2>4, <2>5 DEF TakeEvent
<1>11. CASE Settled
  BY <1>11 DEF Settled, DifferTypes
<1>12. CASE Recompute
  BY <1>12 DEF Recompute, DifferTypes, HunkTypes
<1>13. QED
  BY <1>1, <1>2, <1>3, <1>4, <1>5, <1>6, <1>7, <1>8, <1>9, <1>10, <1>11, <1>12
     DEF VcsNext, WorkerStep

\* An event changes nothing but the events.
LEMMA SendFields ==
  ASSUME VcsStrongType, NEW which, NEW value, differ' = Send(which, value)
  PROVE  /\ differ'.life = differ.life /\ differ'.base = differ.base
         /\ differ'.doc = differ.doc /\ differ'.hunks = differ.hunks
         /\ differ'.work = differ.work
         /\ differ'.events = Append(differ.events, [kind |-> which, value |-> value])
BY DEF Send, VcsStrongType, DifferTypes

\* A new differ has the base and the text it is started with.
LEMMA NewFields ==
  ASSUME NEW base, NEW doc, differ' = NewDiffer(base, doc)
  PROVE  /\ differ'.life = differ.life + 1 /\ differ'.base = base
         /\ differ'.doc = doc /\ differ'.hunks = NoHunks
         /\ differ'.work = "computing" /\ differ'.events = << >>
BY DEF NewDiffer

\* The other steps of the UI thread leave the differ alone.
LEMMA EditOnDiffer ==
  ASSUME DocumentChanged \/ TextSent
  PROVE  /\ shown' = shown /\ drawn' = drawn /\ token' = token
         /\ differ' = differ \/ \E value : differ' = Send("doc", value)
BY DEF DocumentChanged, TextSent

\* What a load does to the differ.
LEMMA LoadOnDiffer ==
  ASSUME NEW l \in Loads, LoadStep(l)
  PROVE  /\ text' = text /\ shown' = shown /\ sending' = sending /\ drawn' = drawn
         /\ \/ differ' = differ /\ token' = token
            \/ HasDiffer /\ differ' = Send("base", load[l].base) /\ token' = token
            \/ /\ ~ HasDiffer /\ token' = TRUE
               /\ differ' = NewDiffer(load[l].base, load[l].text)
<1>1. CASE ReadBase(l) \/ NoBase(l) \/ ReadHeadID(l)
  BY <1>1 DEF ReadBase, NoBase, ReadHeadID
<1>2. CASE InstallBase(l)
  BY <1>2 DEF InstallBase
<1>3. CASE SendBase(l)
  BY <1>3 DEF SendBase
<1>4. QED
  BY <1>1, <1>2, <1>3 DEF LoadStep

LEMMA FirstDifferStep ==
  ASSUME VcsStrongType, NoneBeforeTheFirst, VcsNext
  PROVE  NoneBeforeTheFirst'
<1> USE SendFields DEF NoneBeforeTheFirst, HasDiffer
<1>1. CASE \E l \in Loads : LoadStep(l)
  <2>1. differ.life \in Nat
    BY DEF VcsStrongType, DifferTypes
  <2>2. PICK l \in Loads : LoadStep(l)
    BY <1>1
  <2>3. CASE \/ differ' = differ
             \/ HasDiffer /\ differ' = Send("base", load[l].base)
    BY <2>3, SendFields
  <2>4. CASE differ' = NewDiffer(load[l].base, load[l].text)
    BY <2>1, <2>4, NewFields
  <2>5. QED
    BY <2>2, <2>3, <2>4, LoadOnDiffer
<1>2. CASE WorkerStep
  BY <1>2 DEF WorkerStep, TakeEvent, Settled, Recompute, VcsStrongType, DifferTypes
<1>3. CASE DocumentClosed
  BY <1>3 DEF DocumentClosed, NoDiffer
<1>4. CASE DocumentChanged \/ TextSent
  BY <1>4 DEF DocumentChanged, TextSent
<1>5. CASE DocumentOpened \/ DocumentSaved \/ Refresh \/ Draw \/ Commit
  BY <1>5 DEF DocumentOpened, DocumentSaved, Refresh, Draw, Commit
<1>6. QED
  BY <1>1, <1>2, <1>3, <1>4, <1>5 DEF VcsNext

LEMMA WaitingStep ==
  ASSUME VcsStrongType, WaitsWithItsText, VcsNext
  PROVE  WaitsWithItsText'
<1> USE SendFields DEF WaitsWithItsText, HasDiffer
<1>1. CASE \E l \in Loads : LoadStep(l)
  <2>1. PICK l \in Loads : LoadStep(l)
    BY <1>1
  <2>2. QED
    BY <2>1, LoadOnDiffer
<1>2. CASE WorkerStep
  BY <1>2 DEF WorkerStep, TakeEvent, Settled, Recompute, VcsStrongType, DifferTypes
<1>3. CASE DocumentClosed
  BY <1>3 DEF DocumentClosed, Ui
<1>4. CASE DocumentChanged \/ TextSent
  BY <1>4 DEF DocumentChanged, TextSent, Ui
<1>5. CASE DocumentOpened \/ DocumentSaved \/ Refresh \/ Draw \/ Commit
  BY <1>5 DEF DocumentOpened, DocumentSaved, Refresh, Draw, Commit, Ui
<1>6. QED
  BY <1>1, <1>2, <1>3, <1>4, <1>5 DEF VcsNext

LEMMA RestingStep ==
  ASSUME VcsStrongType, RestingHasComputed, VcsNext
  PROVE  RestingHasComputed'
<1> USE SendFields DEF RestingHasComputed
<1>1. CASE \E l \in Loads : LoadStep(l)
  <2>1. PICK l \in Loads : LoadStep(l)
    BY <1>1
  <2>2. QED
    BY <2>1, LoadOnDiffer, NewFields
<1>2. CASE WorkerStep
  BY <1>2 DEF WorkerStep, TakeEvent, Settled, Recompute, VcsStrongType, DifferTypes
<1>3. CASE DocumentClosed
  BY <1>3 DEF DocumentClosed, NoDiffer
<1>4. CASE DocumentChanged \/ TextSent
  BY <1>4 DEF DocumentChanged, TextSent
<1>5. CASE DocumentOpened \/ DocumentSaved \/ Refresh \/ Draw \/ Commit
  BY <1>5 DEF DocumentOpened, DocumentSaved, Refresh, Draw, Commit
<1>6. QED
  BY <1>1, <1>2, <1>3, <1>4, <1>5 DEF VcsNext

LEMMA DrawnStep ==
  ASSUME VcsStrongType, NoneBeforeTheFirst, DrawnIsCurrent, VcsNext
  PROVE  DrawnIsCurrent'
<1> USE SendFields DEF DrawnIsCurrent, HasDiffer
<1>1. CASE \E l \in Loads : LoadStep(l)
  <2>1. PICK l \in Loads : LoadStep(l)
    BY <1>1
  <2>2. QED
    BY <2>1, LoadOnDiffer
<1>2. CASE WorkerStep
  BY <1>2 DEF WorkerStep, TakeEvent, Settled, Recompute, VcsStrongType, DifferTypes
<1>3. CASE DocumentClosed
  BY <1>3 DEF DocumentClosed
<1>4. CASE DocumentChanged \/ TextSent
  BY <1>4 DEF DocumentChanged, TextSent
<1>5. CASE DocumentOpened
  BY <1>5 DEF DocumentOpened, NoneBeforeTheFirst
<1>6. CASE DocumentSaved \/ Refresh \/ Draw \/ Commit
  BY <1>6 DEF DocumentSaved, Refresh, Draw, Commit
<1>7. QED
  BY <1>1, <1>2, <1>3, <1>4, <1>5, <1>6 DEF VcsNext

-----------------------------------------------------------------------------
(* The text and the base arrive                                            *)

LEMMA TextStep ==
  ASSUME VcsStrongType, WaitsWithItsText, TextArrives, VcsNext
  PROVE  TextArrives'
<1> USE DEF TextArrives, HasDiffer
<1>0. /\ differ.events \in Seq(EventTypes) /\ differ.base \in Nat
      /\ differ.doc \in Nat
  BY VcsAssumption DEF VcsStrongType, DifferTypes, Heads, Texts
<1>1. ASSUME NEW l \in Loads, LoadStep(l)
      PROVE  TextArrives'
  <2>1. CASE differ' = differ
    <3>1. "edit" \notin missed' => "edit" \notin missed \/ ~ HasDiffer
      BY <1>1 DEF LoadStep, ReadBase, NoBase, ReadHeadID, InstallBase, SendBase
    <3>2. QED
      BY <1>1, <2>1, <3>1, LoadOnDiffer
  <2>2. CASE HasDiffer /\ differ' = Send("base", load[l].base)
    <3>1. "edit" \notin missed' => "edit" \notin missed
      BY <1>1, <2>2 DEF LoadStep, ReadBase, NoBase, ReadHeadID, InstallBase, SendBase
    <3>2. [kind |-> "base", value |-> load[l].base] \in EventTypes
      BY VcsAssumption DEF VcsStrongType, LoadTypes, EventTypes, Heads
    <3>3. QED
      BY <1>0, <1>1, <2>2, <3>1, <3>2, LoadOnDiffer, SendFields, OtherStaysLatest
  <2>3. CASE ~ HasDiffer /\ differ' = NewDiffer(load[l].base, load[l].text)
    <3>1. "edit" \notin missed' => load[l].text = text
      BY <1>1, <2>3, NewFields
         DEF LoadStep, ReadBase, NoBase, ReadHeadID, InstallBase, SendBase
    <3>2. Latest(differ'.events, "doc", differ'.doc, load[l].text)
      BY <2>3, NewFields DEF Latest
    <3>3. QED
      BY <1>1, <3>1, <3>2, LoadOnDiffer
  <2>4. QED
    BY <1>1, <2>1, <2>2, <2>3, LoadOnDiffer
<1>2. CASE TakeEvent
  <2>1. /\ differ.events # << >> /\ HasDiffer /\ text' = text
        /\ sending' = sending /\ missed' = missed
    BY <1>2 DEF TakeEvent
  <2>2. /\ differ'.events = Tail(differ.events)
        /\ differ'.doc = IF Head(differ.events).kind = "doc"
                         THEN Head(differ.events).value ELSE differ.doc
    BY <1>2 DEF TakeEvent, VcsStrongType, DifferTypes
  <2>3. QED
    BY <1>0, <2>1, <2>2, TakenIsLatest
<1>3. CASE Settled \/ Recompute
  BY <1>3 DEF Settled, Recompute, VcsStrongType, DifferTypes
<1>4. CASE DocumentClosed
  BY <1>4 DEF DocumentClosed, NoDiffer
<1>5. CASE DocumentChanged
  <2>1. text' \in Nat
    BY <1>5, VcsAssumption DEF DocumentChanged, VcsStrongType, Texts
  <2>2. CASE HasDiffer /\ HasRoom
    <3>1. differ' = Send("doc", text')
      BY <1>5, <2>2 DEF DocumentChanged
    <3>2. [kind |-> "doc", value |-> text'] \in EventTypes
      BY <2>1 DEF EventTypes
    <3>3. QED
      BY <1>0, <3>1, <3>2, SendFields, SentIsLatest
  <2>3. CASE HasDiffer /\ ~ HasRoom
    BY <1>5, <2>1, <2>3 DEF DocumentChanged, Nothing
  <2>4. CASE ~ HasDiffer
    BY <1>5, <2>4 DEF DocumentChanged
  <2>5. QED
    BY <2>2, <2>3, <2>4
<1>6. CASE TextSent
  <2>1. differ' = Send("doc", text) /\ text' = text
    BY <1>6 DEF TextSent, WaitsWithItsText
  <2>2. [kind |-> "doc", value |-> text] \in EventTypes
    BY VcsAssumption DEF VcsStrongType, Texts, EventTypes
  <2>3. QED
    BY <1>0, <2>1, <2>2, SendFields, SentIsLatest
<1>7. CASE DocumentOpened \/ DocumentSaved \/ Refresh \/ Draw \/ Commit
  BY <1>7 DEF DocumentOpened, DocumentSaved, Refresh, Draw, Commit
<1>8. QED
  BY <1>1, <1>2, <1>3, <1>4, <1>5, <1>6, <1>7 DEF VcsNext, WorkerStep

\* A load that starts sends nothing yet.
LEMMA StartSendsNothing ==
  ASSUME VcsStrongType, NEW ensure, StartLoad(ensure) \/ load' = load
  PROVE  \A k \in Loads : /\ Sends(k)' <=> Sends(k)
                          /\ Sends(k) => load'[k] = load[k]
<1>1. CASE load' = load
  BY <1>1 DEF Sends
<1>2. CASE StartLoad(ensure)
  <2> DEFINE l == CHOOSE l \in Idling : TRUE
             new == [NoLoad EXCEPT !.at = "start", !.ensure = ensure, !.text = text]
  <2>1. l \in Loads /\ load[l].at = "none"
    BY <1>2 DEF StartLoad, Idling
  <2>2. new.at = "start" /\ load' = [load EXCEPT ![l] = new]
    BY <1>2 DEF StartLoad, NoLoad
  <2> HIDE DEF l, new
  <2>3. QED
    BY <2>1, <2>2 DEF VcsStrongType, Sends
<1>3. QED
  BY <1>1, <1>2

LEMMA BaseStep ==
  ASSUME VcsStrongType, BaseArrives, VcsNext
  PROVE  BaseArrives'
<1> USE DEF HasDiffer
<1>0. /\ differ.events \in Seq(EventTypes) /\ differ.base \in Nat
      /\ differ.doc \in Nat /\ load \in [Loads -> LoadTypes]
  BY VcsAssumption DEF VcsStrongType, DifferTypes, Heads, Texts
<1>1. ASSUME NEW l \in Loads, ReadBase(l) \/ NoBase(l) \/ ReadHeadID(l)
      PROVE  BaseArrives'
  <2>1. /\ ~ Sends(l) /\ ~ Sends(l)'
        /\ \A k \in Loads \ {l} : load'[k] = load[k]
    <3>1. CASE ReadBase(l)
      BY <1>0, <3>1 DEF ReadBase, Sends, LoadTypes
    <3>2. CASE NoBase(l)
      BY <1>0, <3>2 DEF NoBase, LoadEnds, NoLoad, Sends
    <3>3. CASE ReadHeadID(l)
      BY <1>0, <3>3 DEF ReadHeadID, Sends, LoadTypes
    <3>4. QED
      BY <1>1, <3>1, <3>2, <3>3
  <2>2. \A k \in Loads : /\ Sends(k)' <=> Sends(k)
                         /\ Sends(k) => load'[k] = load[k]
    BY <2>1 DEF Sends
  <2>3. differ' = differ /\ missed' = missed /\ headID' = headID
    BY <1>1 DEF ReadBase, NoBase, ReadHeadID
  <2>4. QED
    BY <2>2, <2>3 DEF BaseArrives
<1>2. ASSUME NEW l \in Loads, InstallBase(l)
      PROVE  BaseArrives'
  <2>1. SUFFICES ASSUME "head" \notin missed'
                 PROVE  BaseArrives'
    BY DEF BaseArrives
  <2>2. ~ Doubtful(l) /\ headID' = load[l].head /\ load[l].at = "named"
    BY <1>2, <2>1 DEF InstallBase
  <2>3. load[l].base = load[l].head /\ \A k \in Loads : ~ Sends(k)
    BY <2>2 DEF Doubtful, Sends
  <2>4. CASE HasDiffer
    <3>1. /\ load' = [load EXCEPT ![l].at = "sending", ![l].to = differ.life]
          /\ differ' = differ
      BY <1>2, <2>4 DEF InstallBase
    <3>2. /\ load'[l].at = "sending" /\ load'[l].to = differ.life
          /\ load'[l].base = load[l].base
          /\ \A k \in Loads \ {l} : load'[k] = load[k]
      BY <1>0, <3>1 DEF LoadTypes
    <3>3. \A k \in Loads : Sends(k)' <=> k = l
      BY <2>3, <3>2 DEF Sends
    <3>4. QED
      BY <2>2, <2>3, <3>1, <3>2, <3>3 DEF BaseArrives
  <2>5. CASE ~ HasDiffer
    <3>1. differ' = NewDiffer(load[l].base, load[l].text)
      BY <1>2, <2>5 DEF InstallBase
    <3>2. Latest(differ'.events, "base", differ'.base, headID')
      BY <2>2, <2>3, <3>1, NewFields DEF Latest
    <3>3. \A k \in Loads : ~ Sends(k)'
      BY <1>0, <1>2, <2>3, <2>5 DEF InstallBase, LoadEnds, NoLoad, Sends
    <3>4. QED
      BY <3>2, <3>3 DEF BaseArrives
  <2>6. QED
    BY <2>4, <2>5
<1>3. ASSUME NEW l \in Loads, SendBase(l)
      PROVE  BaseArrives'
  <2>1. SUFFICES ASSUME "head" \notin missed', HasDiffer'
                 PROVE  BaseArrives'
    BY DEF BaseArrives
  <2>2. /\ missed' = missed /\ headID' = headID /\ load[l].at = "sending"
        /\ load' = [load EXCEPT ![l] = NoLoad]
    BY <1>3 DEF SendBase, LoadEnds
  <2>3. HasDiffer
    BY <1>3, <2>1, SendFields DEF SendBase
  <2>4. /\ load[l].to = differ.life /\ load[l].base = headID
        /\ \A k \in Loads \ {l} : ~ Sends(k)
    BY <2>1, <2>2, <2>3 DEF BaseArrives, Sends
  <2>5. differ' = Send("base", headID)
    BY <1>3, <2>3, <2>4 DEF SendBase
  <2>6. [kind |-> "base", value |-> headID] \in EventTypes
    BY <1>0, <2>4, VcsAssumption DEF LoadTypes, EventTypes, Heads
  <2>7. Latest(differ'.events, "base", differ'.base, headID')
    BY <1>0, <2>2, <2>5, <2>6, SendFields, SentIsLatest
  <2>8. \A k \in Loads : ~ Sends(k)'
    BY <1>0, <2>2, <2>4 DEF Sends, NoLoad
  <2>9. QED
    BY <2>7, <2>8 DEF BaseArrives
<1>4. CASE TakeEvent
  <2>1. /\ differ.events # << >> /\ HasDiffer /\ headID' = headID
        /\ load' = load /\ missed' = missed
    BY <1>4 DEF TakeEvent
  <2>2. /\ differ'.events = Tail(differ.events) /\ differ'.life = differ.life
        /\ differ'.base = IF Head(differ.events).kind = "base"
                          THEN Head(differ.events).value ELSE differ.base
    BY <1>4 DEF TakeEvent, VcsStrongType, DifferTypes
  <2>3. QED
    BY <1>0, <2>1, <2>2, TakenIsLatest DEF BaseArrives, Sends
<1>5. CASE Settled \/ Recompute
  <2>1. /\ HasDiffer /\ headID' = headID /\ load' = load /\ missed' = missed
        /\ differ'.events = differ.events /\ differ'.life = differ.life
        /\ differ'.base = differ.base
    BY <1>5 DEF Settled, Recompute, VcsStrongType, DifferTypes
  <2>2. QED
    BY <2>1 DEF BaseArrives, Sends
<1>6. CASE DocumentClosed
  BY <1>6 DEF DocumentClosed, NoDiffer, BaseArrives
<1>7. CASE DocumentChanged \/ TextSent
  <2>1. /\ load' = load /\ headID' = headID
        /\ "head" \in missed => "head" \in missed'
    BY <1>7 DEF DocumentChanged, TextSent
  <2>2. CASE differ' = differ
    BY <2>1, <2>2 DEF BaseArrives, Sends
  <2>3. CASE \E value \in Nat : differ' = Send("doc", value)
    <3>1. PICK value \in Nat : differ' = Send("doc", value)
      BY <2>3
    <3>2. [kind |-> "doc", value |-> value] \in EventTypes
      BY DEF EventTypes
    <3>3. Latest(differ.events, "base", differ.base, headID) =>
            Latest(differ'.events, "base", differ'.base, headID)
      BY <1>0, <3>1, <3>2, SendFields, OtherStaysLatest
    <3>4. QED
      BY <2>1, <3>1, <3>3, SendFields DEF BaseArrives, Sends
  <2>4. text \in Nat /\ text' \in Nat /\ (sending # Nothing => sending \in Nat)
    BY <1>7, VcsAssumption DEF DocumentChanged, TextSent, VcsStrongType, Texts
  <2>5. QED
    BY <1>7, <2>2, <2>3, <2>4 DEF DocumentChanged, TextSent
<1>8. CASE DocumentOpened \/ DocumentSaved \/ Refresh \/ Draw \/ Commit
  <2>1. differ' = differ /\ missed' = missed /\ headID' = headID
    BY <1>8 DEF DocumentOpened, DocumentSaved, Refresh, Draw, Commit
  <2>2. load' = load \/ \E ensure : StartLoad(ensure)
    BY <1>8 DEF DocumentOpened, DocumentSaved, Refresh, Draw, Commit, EnsureDiffBase
  <2>3. \A k \in Loads : /\ Sends(k)' <=> Sends(k)
                         /\ Sends(k) => load'[k] = load[k]
    BY <2>2, StartSendsNothing
  <2>4. QED
    BY <2>1, <2>3 DEF BaseArrives
<1>9. QED
  BY <1>1, <1>2, <1>3, <1>4, <1>5, <1>6, <1>7, <1>8
     DEF VcsNext, LoadStep, WorkerStep

-----------------------------------------------------------------------------
(* The theorems                                                            *)

LEMMA VcsInvariant ==
  VcsSpec => []VcsInv
<1>1. VcsInv /\ [VcsNext]_vcsVars => VcsInv'
  <2> SUFFICES ASSUME VcsInv, [VcsNext]_vcsVars
               PROVE  VcsInv'
    OBVIOUS
  <2>1. CASE VcsNext
    BY <2>1, VcsTypeStep, FirstDifferStep, WaitingStep, RestingStep, DrawnStep,
       TextStep, BaseStep DEF VcsInv
  <2>2. CASE UNCHANGED vcsVars
    BY <2>2 DEF vcsVars, VcsInv, VcsStrongType, NoneBeforeTheFirst,
                WaitsWithItsText, RestingHasComputed, TextArrives, BaseArrives,
                DrawnIsCurrent, Sends, HasDiffer
  <2>3. QED
    BY <2>1, <2>2
<1>2. QED
  BY <1>1, VcsInitially, PTL DEF VcsSpec

\* When nothing is on its way, what the worker has are the text and the base of
\* the known head, and it has computed their hunks.
THEOREM HunksAlwaysFollow ==
  VcsSpec => []HunksFollow
<1>1. VcsInv => HunksFollow
  <2> SUFFICES ASSUME VcsInv, shown, Quiet
               PROVE  /\ "edit" \notin missed => differ.hunks.doc = text
                      /\ "head" \notin missed => differ.hunks.base = headID
    BY DEF HunksFollow
  <2>1. /\ HasDiffer /\ differ.events = << >> /\ sending = Nothing
        /\ differ.hunks = [base |-> differ.base, doc |-> differ.doc]
        /\ \A l \in Loads : ~ Sends(l)
    BY DEF VcsInv, Quiet, HasDiffer, RestingHasComputed, Sends
  <2>2. \A which, now, v : Latest(<< >>, which, now, v) => now = v
    BY DEF Latest
  <2>3. "edit" \notin missed => differ.doc = text
    BY <2>1, <2>2 DEF VcsInv, TextArrives
  <2>4. "head" \notin missed => differ.base = headID
    BY <2>1, <2>2 DEF VcsInv, BaseArrives
  <2>5. QED
    BY <2>1, <2>3, <2>4
<1>2. QED
  BY <1>1, VcsInvariant, PTL

\* A token is never lost.
THEOREM DrawnIsAlwaysCurrent ==
  VcsSpec => []DrawnIsCurrent
<1>1. VcsInv => DrawnIsCurrent
  BY DEF VcsInv
<1>2. QED
  BY <1>1, VcsInvariant, PTL

\* A load starts a differ only where there is none.
THEOREM DifferIsNeverReplaced ==
  VcsSpec => DifferIsNotReplaced
<1>1. VcsInv /\ [VcsNext]_vcsVars =>
        [HasDiffer /\ differ'.work # "none" => differ'.life = differ.life]_vcsVars
  <2> SUFFICES ASSUME VcsInv, VcsNext, HasDiffer, differ'.work # "none"
               PROVE  differ'.life = differ.life
    BY DEF vcsVars
  <2>1. ASSUME NEW l \in Loads, LoadStep(l)
        PROVE  differ'.life = differ.life
    BY <2>1, LoadOnDiffer, SendFields DEF VcsInv
  <2>2. CASE WorkerStep
    BY <2>2 DEF WorkerStep, TakeEvent, Settled, Recompute, VcsInv, VcsStrongType,
                DifferTypes
  <2>3. CASE DocumentChanged \/ TextSent
    BY <2>3, EditOnDiffer, SendFields DEF VcsInv
  <2>4. CASE DocumentClosed
    BY <2>4 DEF DocumentClosed, NoDiffer
  <2>5. CASE DocumentOpened \/ DocumentSaved \/ Refresh \/ Draw \/ Commit
    BY <2>5 DEF DocumentOpened, DocumentSaved, Refresh, Draw, Commit
  <2>6. QED
    BY <2>1, <2>2, <2>3, <2>4, <2>5 DEF VcsNext
<1>2. QED
  BY <1>1, VcsInvariant, PTL DEF VcsSpec, DifferIsNotReplaced

=============================================================================
