------------------------------ MODULE DiskFile ------------------------------
(***************************************************************************)
(* A document and its file: saving step by step (internal/view/            *)
(* document-io.go, document-disk.go), changes from outside (editor-        *)
(* external.go), the watcher that reports them (term/ui/file-watch.go),    *)
(* and the end of the program at any point.  Contents are numbered; every  *)
(* write to the file gives it a new stamp (modification time and size).    *)
(*                                                                         *)
(*   disk      the file: its content and stamp, or Gone                    *)
(*   backups   contents that were renamed away                             *)
(*   buffer    the text of the document; `saved' that of the save point    *)
(*   snapshot  the stamp the editor last took; `external' its state        *)
(*   save      the save or reload under way on the UI thread               *)
(*   watch     the watcher: an event of this file in its channels, whether *)
(*             these are full of others, and the paths it has collected    *)
(*   last      not in the code: the content last completely under the name *)
(*   known     not in the code: stamps of contents the editor has read or  *)
(*             written or told the user of                                 *)
(*   slips     not in the code: the file changed between the read or write *)
(*             of a reload or save and its snapshot ("race"), or an event  *)
(*             was dropped ("event")                                       *)
(***************************************************************************)
EXTENDS Integers, FiniteSets

CONSTANTS MaxContent,  \* bound: contents, by edits and from outside
          MaxStamp     \* bound: writes to the file

ASSUME DiskAssumption == MaxContent \in Nat /\ MaxStamp \in Nat

VARIABLES atomic, watching, disk, backups, buffer, saved, snapshot, external,
          save, watch, fresh, clock, last, known, slips

fileVars == <<atomic, watching, disk, backups, buffer, saved, snapshot, external,
              save, watch, fresh, clock, last, known, slips>>

Empty == 0
Torn == -1
Absent == -2
Gone == [content |-> Absent, stamp |-> 0]
Contents == 0 .. MaxContent
Stamps == 0 .. MaxStamp

NoSave == [at |-> "none", force |-> FALSE, data |-> Absent, backup |-> Gone,
           stamp |-> 0, failed |-> FALSE]
NoEvents == [queued |-> FALSE, full |-> FALSE, collected |-> FALSE,
             at |-> "waiting"]
Unsaved == buffer # saved
Busy == save.at # "none"

FileInit ==
    /\ atomic \in BOOLEAN /\ watching \in BOOLEAN
    /\ disk = [content |-> 1, stamp |-> 1] /\ backups = {}
    /\ buffer = 1 /\ saved = 1 /\ snapshot = 1 /\ external = "clean"
    /\ save = NoSave /\ watch = NoEvents
    /\ fresh = 1 /\ clock = 1 /\ last = 1 /\ known = {1} /\ slips = {}

-----------------------------------------------------------------------------
\* The file changes, and the watcher of its directory gets an event, which is
\* dropped when its channels are full.
Dropped == watch.full /\ ~ watch.queued
Notified == IF watching /\ ~ watch.full THEN [watch EXCEPT !.queued = TRUE] ELSE watch
Missing == slips \union (IF watching /\ Dropped THEN {"event"} ELSE {})

Put(content) ==
    /\ clock < MaxStamp
    /\ clock' = clock + 1
    /\ disk' = [content |-> content, stamp |-> clock + 1]

\* Another program writes the file, or removes it.
ExternalWrite ==
    /\ fresh < MaxContent
    /\ fresh' = fresh + 1
    /\ Put(fresh')
    /\ last' = fresh' /\ watch' = Notified /\ slips' = Missing
    /\ UNCHANGED <<atomic, watching, backups, buffer, saved, snapshot, external,
                   save, known>>
ExternalRemove ==
    /\ disk # Gone
    /\ disk' = Gone
    /\ last' = Absent /\ watch' = Notified /\ slips' = Missing
    /\ UNCHANGED <<atomic, watching, backups, buffer, saved, snapshot, external,
                   save, fresh, clock, known>>

\* The directory is busy with other files.
Noise ==
    /\ watching /\ ~ watch.full
    /\ watch' = [watch EXCEPT !.full = TRUE]
    /\ UNCHANGED <<atomic, watching, disk, backups, buffer, saved, snapshot,
                   external, save, fresh, clock, last, known, slips>>

-----------------------------------------------------------------------------
\* The user edits, and undoes to the save point.
EditText ==
    /\ ~ Busy /\ fresh < MaxContent
    /\ fresh' = fresh + 1 /\ buffer' = fresh'
    /\ UNCHANGED <<atomic, watching, disk, backups, saved, snapshot, external,
                   save, watch, clock, last, known, slips>>
UndoEdits ==
    /\ ~ Busy /\ Unsaved
    /\ buffer' = saved
    /\ UNCHANGED <<atomic, watching, disk, backups, saved, snapshot, external,
                   save, watch, fresh, clock, last, known, slips>>

\* Mutant: the check is left out.
BeginSaveUnchecked(force, readOnly) ==
    /\ ~ Busy /\ (force \/ ~ readOnly)
    /\ save' = [NoSave EXCEPT !.at = "checked", !.force = force, !.data = buffer,
                               !.stamp = disk.stamp]
    /\ UNCHANGED <<atomic, watching, disk, backups, buffer, saved, snapshot,
                   external, watch, fresh, clock, last, known, slips>>

\* Save, up to the check that the file may be written and has not changed.
DiskChanged == disk.stamp # snapshot
BeginSave(force, readOnly) ==
    /\ ~ Busy /\ (force \/ ~ (readOnly \/ DiskChanged))
    /\ save' = [NoSave EXCEPT !.at = "checked", !.force = force, !.data = buffer,
                               !.stamp = disk.stamp]
    /\ UNCHANGED <<atomic, watching, disk, backups, buffer, saved, snapshot,
                   external, watch, fresh, clock, last, known, slips>>

\* renameToBackup, which may fail and is then left out.
RenameToBackup ==
    /\ save.at = "checked" /\ atomic
    /\ \/ /\ disk # Gone
          /\ disk' = Gone
          /\ backups' = backups \union {disk.content}
          /\ save' = [save EXCEPT !.at = "ready", !.backup = disk]
          /\ watch' = Notified /\ slips' = Missing
       \/ /\ save' = [save EXCEPT !.at = "ready"]
          /\ UNCHANGED <<disk, backups, watch, slips>>
    /\ UNCHANGED <<atomic, watching, buffer, saved, snapshot, external, fresh,
                   clock, last, known>>

\* Not atomic: the file is truncated, and then written.
Truncate ==
    /\ save.at = "checked" /\ ~ atomic
    /\ Put(Torn)
    /\ save' = [save EXCEPT !.at = "ready"]
    /\ watch' = Notified /\ slips' = Missing
    /\ UNCHANGED <<atomic, watching, backups, buffer, saved, snapshot, external,
                   fresh, last, known>>

\* atomicWrite or writeFileSynced: the file has the text under a new stamp.
WriteData ==
    /\ save.at = "ready"
    /\ Put(save.data)
    /\ save' = [save EXCEPT !.at = "written", !.stamp = clock']
    /\ last' = save.data
    /\ known' = known \union {clock'}
    /\ watch' = Notified /\ slips' = Missing
    /\ UNCHANGED <<atomic, watching, backups, buffer, saved, snapshot, external,
                   fresh>>
WriteFails ==
    /\ save.at \in {"ready"} \union (IF atomic THEN {} ELSE {"checked"})
    /\ save' = [save EXCEPT !.at = "written", !.failed = TRUE]
    /\ UNCHANGED <<atomic, watching, disk, backups, buffer, saved, snapshot,
                   external, watch, fresh, clock, last, known, slips>>

\* Mutant: the backup goes even if the write failed.
FinishBackupAlways ==
    /\ save.at = "written"
    /\ backups' = backups \ {save.backup.content}
    /\ save' = IF save.failed THEN NoSave ELSE [save EXCEPT !.at = "finished"]
    /\ UNCHANGED <<atomic, watching, disk, buffer, saved, snapshot, external,
                   watch, fresh, clock, last, known, slips>>

\* The backup goes, or comes back if the write failed; a save that failed ends.
FinishBackup ==
    /\ save.at = "written"
    /\ backups' = backups \ {save.backup.content}
    /\ IF save.backup # Gone /\ save.failed
       THEN /\ disk' = save.backup
            /\ last' = save.backup.content
            /\ watch' = Notified /\ slips' = Missing
       ELSE UNCHANGED <<disk, last, watch, slips>>
    /\ save' = IF save.failed THEN NoSave ELSE [save EXCEPT !.at = "finished"]
    /\ UNCHANGED <<atomic, watching, buffer, saved, snapshot, external, fresh,
                   clock, known>>

\* refreshDiskSnapshot: perhaps not of what was read or written.
Snapshot ==
    /\ snapshot' = disk.stamp
    /\ external' = "clean"
    /\ slips' = (slips \ {"race"})
                    \union (IF disk.stamp = save.stamp THEN {} ELSE {"race"})

EndSave ==
    /\ save.at = "finished"
    /\ Snapshot
    /\ saved' = buffer
    /\ save' = NoSave
    /\ UNCHANGED <<atomic, watching, disk, backups, buffer, watch, fresh, clock,
                   last, known>>

\* Reload reads the file and then takes the snapshot.
BeginReload ==
    /\ ~ Busy /\ disk # Gone
    /\ buffer' = disk.content /\ saved' = disk.content
    /\ known' = known \union {disk.stamp}
    /\ save' = [NoSave EXCEPT !.at = "reloaded", !.stamp = disk.stamp]
    /\ UNCHANGED <<atomic, watching, disk, backups, snapshot, external, watch,
                   fresh, clock, last, slips>>
EndReload ==
    /\ save.at = "reloaded"
    /\ Snapshot
    /\ save' = NoSave
    /\ UNCHANGED <<atomic, watching, disk, backups, buffer, saved, watch, fresh,
                   clock, last, known>>

-----------------------------------------------------------------------------
\* Mutant: the path that starts a collection is not in it.
NextPathStartsEmpty ==
    /\ watch.at = "waiting" /\ (watch.queued \/ watch.full)
    /\ watch' = [NoEvents EXCEPT !.at = "collecting"]
    /\ UNCHANGED <<atomic, watching, disk, backups, buffer, saved, snapshot,
                   external, save, fresh, clock, last, known, slips>>

\* The watcher: a path starts a collection, which ends after a while.
NextPath ==
    /\ watch.at = "waiting" /\ (watch.queued \/ watch.full)
    /\ watch' = [NoEvents EXCEPT !.collected = watch.queued, !.at = "collecting"]
    /\ UNCHANGED <<atomic, watching, disk, backups, buffer, saved, snapshot,
                   external, save, fresh, clock, last, known, slips>>
Collect ==
    /\ watch.at = "collecting" /\ (watch.queued \/ watch.full)
    /\ watch' = [NoEvents EXCEPT !.collected = watch.collected \/ watch.queued,
                                 !.at = "collecting"]
    /\ UNCHANGED <<atomic, watching, disk, backups, buffer, saved, snapshot,
                   external, save, fresh, clock, last, known, slips>>
Deliver ==
    /\ watch.at = "collecting"
    /\ watch' = [watch EXCEPT !.at = "delivered"]
    /\ UNCHANGED <<atomic, watching, disk, backups, buffer, saved, snapshot,
                   external, save, fresh, clock, last, known, slips>>

\* Mutant: the snapshot is taken whatever became of the change.
ProcessExternalChangeAlwaysTold ==
    /\ watch.at = "delivered" /\ ~ Busy
    /\ watch' = [watch EXCEPT !.at = "waiting", !.collected = FALSE]
    /\ slips' = IF watch.collected THEN slips \ {"event"} ELSE slips
    /\ IF ~ watch.collected \/ ~ DiskChanged
       THEN UNCHANGED <<buffer, saved, snapshot, external, save, known>>
       ELSE /\ snapshot' = disk.stamp
            /\ UNCHANGED <<buffer, saved, external, save, known>>
    /\ UNCHANGED <<atomic, watching, disk, backups, fresh, clock, last>>

\* handleExternalFileChanged, processExternalChange: a file that changed is
\* reloaded, unless it is gone or the document is modified; then the user is
\* told.
Told(state) ==
    /\ snapshot' = disk.stamp /\ external' = state
    /\ known' = known \union {disk.stamp}
    /\ UNCHANGED <<buffer, saved, save>>
ProcessExternalChange ==
    /\ watch.at = "delivered" /\ ~ Busy
    /\ watch' = [watch EXCEPT !.at = "waiting", !.collected = FALSE]
    /\ slips' = slips \ ((IF watch.collected THEN {"event"} ELSE {}) \union
                            (IF watch.collected /\ DiskChanged THEN {"race"} ELSE {}))
    /\ IF ~ watch.collected \/ ~ DiskChanged
       THEN UNCHANGED <<buffer, saved, snapshot, external, save, known>>
       ELSE IF disk = Gone THEN Told("deleted")
       ELSE IF Unsaved THEN Told("changed")
       ELSE /\ buffer' = disk.content /\ saved' = disk.content
            /\ known' = known \union {disk.stamp}
            /\ save' = [NoSave EXCEPT !.at = "reloaded", !.stamp = disk.stamp]
            /\ UNCHANGED <<snapshot, external>>
    /\ UNCHANGED <<atomic, watching, disk, backups, fresh, clock, last>>

\* The program ends at any point and is started again with the file; without
\* one the document is empty and its file missing.
EndAndRestart ==
    /\ buffer' = IF disk = Gone THEN Empty ELSE disk.content
    /\ saved' = buffer'
    /\ snapshot' = disk.stamp
    /\ external' = IF disk = Gone THEN "missing" ELSE "clean"
    /\ save' = NoSave /\ watch' = NoEvents
    /\ known' = known \union {disk.stamp} /\ slips' = {}
    /\ UNCHANGED <<atomic, watching, disk, backups, fresh, clock, last>>

SaveStep ==
    \/ RenameToBackup \/ Truncate \/ WriteData \/ WriteFails \/ FinishBackup
    \/ EndSave \/ EndReload
WatchStep == NextPath \/ Collect \/ Deliver

FileNext ==
    \/ ExternalWrite \/ ExternalRemove \/ Noise
    \/ EditText \/ UndoEdits
    \/ \E force, readOnly \in BOOLEAN : BeginSave(force, readOnly)
    \/ BeginReload \/ SaveStep
    \/ WatchStep \/ ProcessExternalChange
    \/ EndAndRestart

\* What the UI thread has begun it ends; the watcher delivers what it has
\* collected after a while, however many events come (fileWatchMaxDelay).
FileFairness ==
    /\ WF_fileVars(SaveStep)
    /\ WF_fileVars(NextPath) /\ WF_fileVars(Deliver)
    /\ SF_fileVars(ProcessExternalChange)

FileSpec == FileInit /\ [][FileNext]_fileVars /\ FileFairness

-----------------------------------------------------------------------------
\* Documents, files and the watcher have their type.
FileTypeOK ==
    /\ disk.content \in Contents \union {Absent, Torn} /\ disk.stamp \in Stamps
    /\ backups \subseteq Contents \union {Torn}
    /\ buffer \in Contents \union {Torn} /\ snapshot \in Stamps
    /\ external \in {"clean", "changed", "deleted", "missing"}
    /\ save.at \in {"none", "checked", "ready", "written", "finished", "reloaded"}
    /\ watch.at \in {"waiting", "collecting", "delivered"}
    /\ slips \subseteq {"race", "event"}

\* The option atomic-save prevents partial writes: at no moment, and so at no
\* end of the program, is the content that was last complete under the name
\* lost: it is there or in a backup, and nothing partial is there.
NothingIsLost ==
    atomic => disk.content # Torn /\ (disk.content = last \/ last \in backups)

\* Save without force "refuses an unsafe overwrite": what it replaces has been
\* read, written or announced by the editor, unless it came after the check of
\* this save, or unnoticed during the read or write before.
Replaces ==
    /\ save.at \in {"checked", "ready"} /\ disk' # disk
    /\ save'.at \in {"ready", "written"}
NoUntoldOverwrite ==
    [][Replaces /\ ~ save.force /\ disk.stamp = save.stamp /\ "race" \notin slips
         => disk.stamp \in known]_fileVars

\* An unmodified document has the text of its file as soon as the watcher is
\* quiet, unless an event was dropped or the file changed between its read or
\* write and the snapshot.
Still == ~ Busy /\ watch.at = "waiting" /\ ~ watch.queued
UnmodifiedIsCurrent ==
    watching /\ Still /\ ~ Unsaved /\ slips = {} /\ external = "clean"
        => buffer = disk.content

\* A change from outside is noticed, whatever else the directory is busy with,
\* unless its event was dropped.
ChangesAreNoticed ==
    (watching /\ DiskChanged /\ slips = {}) ~> (~ DiskChanged \/ slips # {})

=============================================================================
