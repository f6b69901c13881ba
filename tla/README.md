# A verification of toe in TLA+

toe is a modal terminal editor in Go (`src/`): panes over shared documents, a
branching undo history, language servers, a version-control gutter, a file
watcher and a terminal user interface. This directory holds TLA+ modules
translated from its code, the configurations that model-check them with TLC, and
theorems about them that TLAPS proves.

1. [The system](#1-the-system)
2. [Modules](#2-modules)
3. [Runs](#3-runs)
4. [Where the code departs from its words](#4-where-the-code-departs-from-its-words)
5. [Proofs](#5-proofs)
6. [Only model-checked, and not modelled](#6-only-model-checked-and-not-modelled)
7. [Plan](#7-plan)

## 1. The system

Sizes are lines of Go without tests. All paths are under `src/internal/`.

| Part | Code | State it keeps | Operations |
|---|---|---|---|
| Change sets | `core/changeset*.go` | none; a list of retain, delete and insert operations | build, apply, invert, compose, map a position |
| Undo history | `core/history.go` | a tree of revisions, the current one, each one's last child | commit, undo, redo, earlier and later by steps |
| Documents | `view/document*.go`, `view/editor-history.go` (7400 in `view`) | text and version, history, open insert group, save point, selections per view, disk snapshot, external state | edits, insert groups, save, reload, close |
| Panes | `view/tree.go`, `view/editor-pane.go` | a tree of splits, the focus, displaced panes of each slot | split, remove and collapse, focus, displace, revert |
| Language servers | `lsp` (6800) | client table and start lock, opened and pending documents, diagnostics, candidates, progress, file watches | document sync, requests, server commands, configuration reload |
| Version control | `vcs` (1100) | a differ per document, its base and head, loads in progress | load a base, feed an edit, recompute after a pause, close |
| File watching | `term/ui/file-watch.go`, `view/editor-external.go` | watched directories, pending events, the file's last snapshot | coalesce events, reload or mark a document, discard a missing one |
| Sessions | `view/session-save.go` | files with panes, histories and cursors | save, restore |
| User interface | `term/ui` (22300) | modes, prompts, popups, generation counters of answers and timers | keys, mouse, timers, rendering |
| Commands, motions, syntax, themes, configuration | `term/command`, `view/action`, `term/builtin`, `term/syntax`, `core` ... | tables and caches | mostly functions of a text |

How they meet:

- **One thread edits.** Keys, mouse clicks, timer and watcher messages are
  handled one at a time by the user interface's loop. What interleaves there are
  whole handlers: an auto-save while text is being typed in another view, a click
  in another pane in the middle of an insert group, a reload between two undos.
- **Observers.** `Editor.Apply` and its like change a document and then call the
  document observers (language servers, version control) with the change. A path
  that changes the text and does not come through them leaves them behind.
- **Goroutines.** The language-server session runs a startup goroutine, one
  goroutine per request and the readers of the connections; the version-control
  session runs a worker per document and a goroutine per base load. They meet the
  UI thread at a few locks, and read a document between an unlock and a lock.
- **The disk.** Saves look at the file, write it and take a snapshot; the watcher
  compares snapshots. Everything in between may be changed by others.

What is hard in it, and what makes it right:

| Part | Hard behaviour | What must hold |
|---|---|---|
| Change sets | pieces that overlap in every way, canonical form, carets at edges | the lists mean edits of texts; compose and invert are what they promise; no operation is lost |
| History, documents | a branching history, edits of several views inside one group, saves and reloads at any moment | the history reproduces every revision's text; what is not marked as modified is the file; observers have the text |
| Language servers | documents claimed, read and sent in three steps; servers that crash, stop and start; documents closed before they were opened | servers have the text of the open documents and nothing else; one process per server; the UI thread comes back |
| Version control | bases that arrive late or out of order, edits before the differ exists, a full queue | after a pause the hunks are those of the latest base and text; nothing runs for a closed document |
| Panes | removal with collapse, panes put back | no empty container, focus on a pane that exists, each pane once |
| Disk | a change between a check and a write, an end of the program between two renames | no silent overwrite; the old or the new file is there |
| User interface | answers and timers that come late | only the newest answer is shown |

The hazards, each at its line and with the properties that guard it, are in
`PROJECT.json`.

## 2. Modules

    ChangeSets ─┬─ History ── Document ── MCDocument
                └─ ChangeLists ─┬─ ChangeSetOps ──────────────────────┐
                                └─ TextRanges ── Motions ── Selecting │
                                     ── Editing ── Editor ────────────┴─ MCText
    LspSync ── MCLspSync
    DiskFile, LspReports ── MCBackground
    VcsDiffer
    PaneTree ── Panes (implements PaneRow) ─┬─ MCPanes
    Completion, KeyInput ───────────────────┴─ MCInterface

    InductionTheorems ── FoldTheorems
    ChangeSetTheorems ─┬─ DocumentTheorems (Document, History)
                       └─ ListTheorems (ChangeLists, ChangeSetOps)
    BackgroundTheorems (VcsDiffer, DiskFile, LspReports)
    InterfaceTheorems (KeyInput, Completion), LspTheorems (LspSync)

A line is EXTENDS, from the module that is extended to the one that extends it.
The modules of the last five lines hold the proofs about those in brackets.

**`ChangeSets`** is what a change set does to a text. The code's operation list
becomes the new text, piece by piece: a piece is the old position of a retained
character, or an inserted character. Apply, Invert, Compose and the empty change
set follow `changeset*.go`, the quirks included (Compose looks at no lengths when
one side has no operations). It is the abstract specification of `ChangeSetOps`.

**`ChangeLists`** and **`ChangeSetOps`** have the operation lists themselves.
Building (with the merging of neighbours), applying, inverting and mapping
positions are operators; Compose is a state machine that takes one case of the
`switch` in `composeCtx.run` per step, over the two lists and the remainder of
their current operations. Its properties compare each with `ChangeSets`. Two
remarks from writing it: the condition on the last retain in `MapPos` is never
needed, and inverting a `NewChangeSet(n)`, which has no operations, gives a change
set of length 0.

**`History`** has the revision tree as pure operators, one per method of
`core/history.go`. `LowestCommonAncestor` is the code's double climb, which does
not always find the lowest ancestor, only a common one; the paths it is used for
are right for any common ancestor, which `DocumentTheorems` proves.

**`Document`** is the state machine of one document: `doc` holds the fields of
`contentState` and `editState` (text, history, insert group, save point), `mode`
the mode of each view, `focus` the focused view. An action is a handler:

| Action | Code |
|---|---|
| `EnterInsert`, `NormalMode` | `view/action/view-mode.go`, the latter with the stripping of blanks and the commit of the group |
| `FocusPane` | `Tree.SetFocus` |
| `Apply1`, `ApplyToDocument` | `Editor.Apply`, `Editor.ApplyToDocument`: open a group in insert mode, apply, commit or gather, announce |
| `CommitCheckpoint` | `Editor.CommitInsertHistory` |
| `Undo`, `Redo` | `Editor.applyUndoRedo`, `Document.Undo`, `Document.Redo` |
| `Earlier`, `Later` | `Editor.Earlier`, `Editor.Later`: several change sets, any of which may not fit |
| `Save` | `Editor.Save`, `SaveAll`, `Document.Save`: normalise as the settings say, commit, write or fail, mark, announce |
| `Reload` | `Editor.Reload` and the watcher: any text, the current save point, no revision |

`content`, `saved`, `observed` and `lapses` are not in the code: the text each
revision had, the text of the file, the text observers were told, and which
*lapses* have happened. A lapse is a step that the code does not make up for: a
reload (`reload`), an undo or jump, or a save, while a group is open
(`undoInGroup`, `saveInGroup`), blanks stripped without notice (`strip`), a
normalisation whose save failed (`failedSave`). A property says on its face which
lapses it does not survive, and Section 4 shows what they do. Names of the model
that stand for code are mapped to lines in `PROJECT.json`.

**`TextRanges`**, **`Motions`**, **`Selecting`**, **`Editing`** and **`Editor`**
are the commands of a user at one view of one document, over ranges and
selections as in `core/range.go` and `core/selection.go`. A character is one
grapheme, and a line ends with one newline (no combining characters, no CRLF);
soft wrap is off; a search pattern is the set of characters it matches a run of.
`Motions` has where a range goes, `Selecting` what becomes of a selection,
`Editing` what the editing commands make of the text: each makes one list of
changes for all ranges and applies it as one transaction, and a list that is out
of order is refused and nothing happens. A matching bracket is looked for as
far as `MaxPlaintextScan`, and `IndentsAfter` are the characters a new line is
indented after. `Editor` is the state machine: its
actions are the families of commands, in the modes their tables bind them in, with
a count where they take one. A *scene* bounds what is tried together: texts and
modes to begin with, the number of ranges and edits, the families.

**`LspSync`** has the client table, the start lock, the claimed and the pending
documents, and what each server has of each document. A text is its version. A
thread (UI, the goroutine of `Attach`, request goroutines) is a small record: the
job, the document, the servers still to look up, the clients found. Its steps are
what the code does between two locks:

| Steps | Code |
|---|---|
| `OpenFile`, `Edit`, `Save`, `CloseDocument` | `DocumentOpened`, `DocumentChanged`, `DocumentSaved`, `DocumentClosed` |
| `StopLanguageServers`, `RestartLanguageServers` | the server commands |
| `ReloadConfig`, `ResetDocuments`, `CloseOldClients` | a reload of the configuration: the table of clients is emptied (`serverState.reset`), then under another lock what was claimed (`docState.reset`), and after waiting for the lock of the workspace scan the old processes are ended |
| `FindClient`, `StartClient`, `ClientStarted`, `StartFailed` | `clientsForDocumentResult`, `ensureServer`, `startClient` |
| `ClaimOpen`, `Snapshot`, `SendOpen`, `OpenedAlready`, `NobodyToTell` | `ensureDidOpen` |
| `TellChange`, `TellClosed`, `TellReopened`, `Forget` | `notifyChange`, `notify`, `docState.forget` |
| `NextDocument`, `WorkspaceServers` | `Attach`, `ensureWorkspaceServers` |
| `Ask`, `Request` | request goroutines; a completion drops a client whose process has ended |
| `Crash` | the server process, outside the code |

Messages of one step to several servers are sent together, and a client is taken
out of the table and its process ended in one step (but not by `ReloadConfig`).
Its lapses are listed at `AnyLapse`. They are behaviours of the code: for example
`toe a b` leaves `b` in no pane and unopened, so its first edit opens it with the
new text and then sends the edit again (`changeOpens`); a server that was stopped
and comes back is told of no document that was open already (`untold`); and a
reload forgets the claim of a document that was opened at a server that came up
between its first two steps (`wiped`), so that the document is opened there again,
or never closed. Each place where a lapse is noted is needed: with any one of them
left out, TLC finds one of the three properties of documents violated in the run
`lsp_servers`.

**`LspReports`** is what a server reports of a document. `kind` says whether it is
diagnostics, asked for with the id of the last answer (`previous`) and also sent
unasked (`push`), or overlays (colours, links, hints, highlights). A goroutine of
`pulls` takes the id, is answered, converts the answer at the text there is then,
stores the report and then, in a step of its own, the id: no lock is held over two
of these. `session` is the reload of the configuration, in its two steps.
`mishaps`, not in the code: an answer that was stored after a newer one
(`overtaken`), the report of one request kept with the id of another (`crossed`),
and a request that failed (`failed`).

**`VcsDiffer`** is the version-control session for one document: the goroutines
that load a base (`loading`, `load`), the differ with its bounded channel and its
worker (`differ`), the head that is known (`headID`), the UI thread that may have
to wait for room in the channel (`sending`), the token that asks for a redraw
(`token`), and what was drawn. `missed`, not in the code: the differ started from
a text that has been edited since (`edit`), or its base may not be that of
`headID` (`head`).

**`DiskFile`** is a document and its file: the steps of a save, in place or by two
renames (`atomic`), after the check that the file is neither read-only nor changed;
or of a reload, with an end of the program between any two of
them; writes from outside; the watcher with its lossy channel, its collecting and
its delivery. `last`, `known` and `slips` are not in the code: the content last
complete under the name; the stamps the editor has read, written or announced; and
whether the file changed between a read or write and the snapshot (`race`) or an
event was dropped (`event`).

**`PaneTree`** has the tree of panes as pure operators, one per method of
`view/tree.go`, without sizes: whether there is room and which pane is the nearest
is left open. **`Panes`** is the state machine over it, with the documents that
views show, the panes displaced behind others, and a session that is saved and
restored. It implements **`PaneRow`**, a row of panes in reading order one of which
has the focus: the refinement mapping is the traversal of the tree.

**`Completion`** has the popups of insert mode as layers of the compositor, with
their timers, the generations that tell late answers from current ones, and the
table of items that can be accepted. **`KeyInput`** has the dispatch of keys:
sequences with prefixes, counts, continuations that read characters, and the
replay of a macro, which is a second interpreter of the same keys.

The MC modules give the constants their values. `MCText`, `MCBackground` and
`MCInterface` run modules that share no state in one run: a variable `part`, which
never changes, says which of them a behaviour is of, and the others rest.

## 3. Runs

| Run | Question | Bounds |
|---|---|---|
| `document` | Do text, history, save point and observers agree over every interleaving of handlers and over a branching history, and is no revision forgotten? | 2 views, texts of 1 character (a blank or a newline), edits of 1, 3 revisions; saves that add a final newline, or trim blanks and newlines; the lapses `strip` and `failedSave` |
| `document_reload`, `document_save_in_group`, `document_strip` | What one lapse does (Section 4) | 2 views, one lapse, saves that add a final newline |
| `text` | Do the operation lists mean what `ChangeSets` says, and does Compose end? Do selections stay whole, cursors act alike, counts repeat, and do reversals restore? | texts of 0, 1 and 3 characters, up to 2 changes, then up to 2 more of a middle text of at most 3; the scenes of `MCText`: texts of up to 7 characters, 2 ranges, 2 edits, counts of 2, matching brackets up to 3 characters off |
| `lsp_servers` | Do the messages to each server add up to the open documents, until a lapse? | `Explored`: two documents, one of which is edited, and one server in one life, with the startup goroutine and one that asks; one document and a server in two lives; one document edited twice and two servers, one of them sent whole texts, in two lives each |
| `lsp_processes` | Is there one process per server, and is it in the table, whatever has gone wrong? Does the UI thread always come back? | 1 server in 2 lives, 1 document, no edits, 3 threads, all lapses |
| `vcs_differ` | Are the hunks those of the latest text and head once nothing is on its way; is every change drawn; does nobody wait for good? | 2 loads at a time, room for 1 event, 1 edit, 1 commit |
| `background` | Is nothing of a file lost or overwritten untold, and are changes noticed? Does what was asked for last stay? | 2 contents, 3 writes; 2 goroutines that ask, 1 change, 1 reload |
| `interface` | Is the tree of panes whole, and does it implement a row of panes? Does a list follow the text? Are keys and macros dispatched as typed? | 3 panes over 1 document, 2 panes over 3; texts of 2 characters, 3 edits, 4 keys and requests, answers of no word or two; 5 keys of 9 |
| `panes_stashed`, `completion_accept` | Section 4 | as `interface`; `completion_accept` with a third answer, of the two words in another order |

Why the bounds are enough to mean something. Two views are what it takes for one
to have a group open while the other has the focus. A branch needs two revisions
and a jump between branches three; with three, a jump climbs on both sides. One
character lets an insert group cancel itself out, a save add a final newline or
trim blanks, a blank line be stripped; several final newlines to trim take longer
texts, which the theorems of `Document` have. Lists of two changes over three characters contain every
pair of neighbours Compose distinguishes, with remainders on either side. In
`LspSync` a race needs a second thread beside the UI thread and a third to
overtake it; a server needs two lives to be out of date; an edit is one version
against the next, and a second shows a change that was missed. Two servers are
what it takes for one to be found and the other not. A full channel needs one
event in it and one to come. An overwrite needs the write that is known, one
between, and the save. Where two ranges act alike, a third meets them pairwise.
Collapsing a split needs three panes. Every bound is a constant or a constraint
named in its configuration or MC module; where a theorem of Section 5 covers a
property, the bounds of its run do not matter.

Constraints. `lsp_servers` ends a behaviour at its first lapse: the properties it
checks say nothing after it, and `lsp_processes` goes on. `interface` does the
same for the lapses of `Panes` and for popups that are stacked by the automatic
timer (`Clean`).

Deadlock is not checked in `text` (Compose ends, and a scene runs out of edits),
`interface` and `completion_accept` (keys and edits run out), `background` and
`vcs_differ` (a bounded user comes to rest); all others check it.

Fairness, and why the code gives it:

- `ChangeSetOps` asks weak fairness of the loop.
- `LspSync` asks it of each thread, since goroutines are scheduled and the UI
  thread runs its handler; a server that was started answers or fails, for which
  the code has no time limit, so that is an assumption on servers; and strong
  fairness of taking the start lock, since `sync.Mutex` hands it to a waiter that
  has waited too long. `FairSpec` is that of a user who neither opens nor edits
  documents.
- `VcsDiffer` asks weak fairness of the goroutines and of a draw that was asked
  for, and strong fairness of sending to the worker: senders that wait at a
  channel are served in turn.
- `DiskFile` asks weak fairness of the steps of a save that has begun and of the
  watcher, which delivers after `fileWatchMaxDelay` however many events come; and
  strong fairness of the UI thread taking the message, which also waits at a
  channel.
- `LspReports` asks none: a request may wait for a server to start, and one for
  diagnostics for its answer, and nothing in the code limits either.

Nothing is assumed of the user. Where two modules share a run, a part that rests
has no step to take, so that fairness of one says nothing of the other.

Every property of every passing run is paired in `PROJECT.json` with a mutant: a
definition changed as a plausible bug would change it (a missing reset, a path in
the wrong order, a lock not taken), which the run refutes. The mutants stand
beside the definitions they replace, marked `Mutant:`.

## 4. Where the code departs from its words

Each is a run that finds what a comment or the documentation says violated.

- `document_reload`. `view/document-edit.go:108`: "Undo reverts one history step".
  A reload replaces the text and commits no revision, so the next undo applies an
  inverse made for another text: where the lengths happen to agree it yields a
  text the document never had, else it fails with the revision moved.
- `document_save_in_group`. `view/document.go:202`: "Modified reports whether the
  document has unsaved changes". A save by the auto-save timer during an insert
  group writes what was typed and takes the current revision as the save point,
  which does not have it. Deleting what was typed empties the group: the document
  counts as unmodified and is not what the file holds.
- `document_strip`. `docs/content/docs/architecture.md:82`: an edit "notifies
  observers such as language-server document sync and the version-control
  differ". Leaving insert mode on a line of blanks strips it through the document
  itself, and no observer hears of it.
- `panes_stashed`. `view/view.go:163`: "Discard closes this displaced view if no
  other view uses its document". `discardView` (`view/editor-pane.go:166`) looks at
  the panes of the tree only: a document goes although another displaced view,
  which can still be put back, shows it.
- `completion_accept`. `lsp/completion.go:83`: "ApplyCompletion applies the selected
  completion item". The items that can be accepted are in one table that every
  answer replaces, also one that is dropped: of two requests for one text, the
  list shows the first and accepts from the second.

Met while modelling, and kept as behaviours of the models (or left out, where
noted) without a run of their own:

- History and saves: after a branch and a jump, redo need not redo the step that
  was undone last, since it follows the last child; a save that fails after
  normalising the text leaves the change unannounced.
- Language servers: the lapses of `LspSync`; an "unchanged" answer for diagnostics
  can keep an older report; a request for diagnostics has no time limit; progress
  of a server that has ended stays (`lsp/progress.go:31`, not modelled).
- Editing: `SurroundAdd` (`view/action/edit-surround.go:28`) gives its changes the
  positions of the text it makes, where a change set takes those of the text there
  was, so that the closing character is one place too far or the changes are
  refused, and its test looks at the length only; typing an opening bracket
  at two cursors leaves the later ones unshifted; deleting words backward, killing
  lines and unindenting with cursors close together makes changes out of order and
  so does nothing; `FindNthPairsPos` for the second pair outward, on or just after
  the opening bracket, pairs it with the wrong one; selecting lines upward on the
  last line goes to the start of the file; a long-word object on blanks selects
  the word before; commented lines of mixed indentation use the smallest column;
  `ReplaceWithYanked` counts ranges that are not empty where `Yank` stores those
  that are too; goal columns outlive a move that should end them.
- Popups and macros: the automatic timer can stack a second list; a `)` that a list
  consumes leaves an invisible signature layer; a macro misses the characters a
  list consumed.

## 5. Proofs

TLAPS proves the following for every value of the constants: any characters,
views, texts and histories; any servers, documents, goroutines, and numbers of
edits, starts, writes and requests.

| Theorem | Module | Says |
|---|---|---|
| `InvertUndoesApply` | `ChangeSetTheorems` | the inverse of a change set gives the text back |
| `ComposeAppliesBoth` | `ChangeSetTheorems` | a composition gives what one change set after the other gives |
| `TypesAreCorrect` | `DocumentTheorems` | `Spec => []TypeOK` |
| `HistoryIsWellFormed` | `DocumentTheorems` | `Spec => []HistoryWellFormed` |
| `NothingIsForgotten` | `DocumentTheorems` | `Spec => NothingForgotten` (an action property) |
| `TextAlwaysMatchesHistory` | `DocumentTheorems` | `Spec => []TextMatchesHistory` |
| `UnmodifiedIsAlwaysSaved` | `DocumentTheorems` | `Spec => []UnmodifiedIsSaved` |
| `ObserversAlwaysFollow` | `DocumentTheorems` | `Spec => []ObserversFollow` |
| `HunksAlwaysFollow` | `BackgroundTheorems` | `VcsSpec => []HunksFollow` |
| `DrawnIsAlwaysCurrent` | `BackgroundTheorems` | `VcsSpec => []DrawnIsCurrent` |
| `DifferIsNeverReplaced` | `BackgroundTheorems` | `VcsSpec => DifferIsNotReplaced` (an action property) |
| `NothingIsEverLost` | `BackgroundTheorems` | `FileSpec => []NothingIsLost` |
| `OverwritesAreTold` | `BackgroundTheorems` | `FileSpec => NoUntoldOverwrite` (an action property) |
| `UnmodifiedIsAlwaysCurrent` | `BackgroundTheorems` | `FileSpec => []UnmodifiedIsCurrent` |
| `SettledIsAlwaysFresh` | `BackgroundTheorems` | `ReportsSpec => []SettledIsFresh` |
| `ComposesAsPromisedHolds` | `ListTheorems` | `ComposeSpec => []ComposesAsPromised` |
| `NothingLostHolds` | `ListTheorems` | `ComposeSpec => []NothingLost` |
| `CanonicalHolds` | `ListTheorems` | `ComposeSpec => []Canonical` |
| `ListsMeanChangeSetsHolds` | `ListTheorems` | `ComposeSpec => []ListsMeanChangeSets` |
| `PositionsFollowHolds` | `ListTheorems` | `ComposeSpec => []PositionsFollow` |
| `PendingIsWholeHolds` | `InterfaceTheorems` | `KeySpec => []PendingIsWhole` |
| `CleanMacroReplaysHolds` | `InterfaceTheorems` | `KeySpec => []CleanMacroReplays` |
| `ListFollowsTextHolds` | `InterfaceTheorems` | `CompletionSpec /\ []NotStacked => []ListFollowsText` |
| `NoProcessIsOrphaned` | `LspTheorems` | `Spec => []NoOrphans` |
| `ServersAlwaysFollow` | `LspTheorems` | `Spec => []ServersFollow` |
| `MessagesAlwaysAddUp` | `LspTheorems` | `Spec => []MessagesAddUp` |
| `NothingStaysOpen` | `LspTheorems` | `Spec => []NothingLeftOpen` |

They rest on the named assumptions on the constants and nothing else:
`CharAssumption`, `ChangeSetOpsAssumption`, `DocumentAssumption`, `VcsAssumption`,
`DiskAssumption`, `ReportsAssumption`, `KeyAssumption`, `CompletionAssumption` and
`LspSyncAssumption`. The last one asks for finitely many
documents, which a restart queues in any order, and for threads that are told
apart; `ReportsAssumption` for finitely many goroutines. The bounds are constants
too, any numbers.

Each property but the simplest needs more than itself to be kept by a step. The
inductive invariants, and why:

### Documents

    Inv == Typed /\ (Kept => Agreed) /\ (lapses = {} => observed = doc.text)

`Typed` is `TypeOK` with what it leaves out: every change set
of the history and of the group is well formed, and the tree is well formed.
Without it nothing can be said of applying one. `Agreed` is the heart: each
revision's change set fits the text of its parent and makes its own text, its
inverse goes back, and the text is that of the current revision with the group on
top; and the text the save point stands for is what was saved. That last conjunct
is what makes `UnmodifiedIsSaved` inductive, since the property itself speaks of
the current revision only, and an undo goes back to an older one. The last part
needs the second: an undo announces its text only if its change set fits.

The argument for a step: an edit is a change set that fits, so its inverse undoes
it (`InvertUndoesApply`); closing a group commits a composition
(`ComposeAppliesBoth`) over the text the group began with; a step along the tree
lands on the text of the revision it goes to; a jump is a walk along edges, each
of which fits the text the one before it made (`JumpLands`, over the facts
about `History` that the climbs are paths of the tree and end at an ancestor the
two revisions share). `LeastNumber` and `UpTo` of `InductionTheorems` state
induction over numbers as facts about sets, proved from the well-founded order of
the naturals, since a schema cannot be instantiated.

### Operation lists

    ComposeInv == IsList and Tidy of a, b and out
                  /\ (running => Walked(a, b, out, left)) /\ ComposesAsPromised

`Walked` is what the loop keeps: there are change sets p and q such that the list a
means p beside what is left of a, b means q beside what is left of b, and what has
been put out means p through q. Each case of the `switch` moves one piece x from
what is left of a to the end of p and one piece y that takes it to the end of q,
and puts out what x through y means (`WalkOn`). `IsList` says that a list's lengths
are those of what it means, `Tidy` that it is canonical. `NothingLost` is then a
fact about change sets side by side, and at the end nothing is left and p and q are
the two lists. That the loop refuses only what does not meet in the middle is
arithmetic over the lengths of what is left.

`Meaning`, `ApplyList`, `InvertList`, `FromChanges` and `ToChanges` are folds of a
sequence from the left. What a fold computes is proved by induction over the
sequence, which is stated as a fact about a set that holds the empty sequence and
what can be appended to (`OverSequences`). `FoldTheorems` is about the fold of any
operation, a CONSTANT operator that is instantiated for each of the five: what it is
of no element, of one more, and of two sequences side by side. For
`ListsMeanChangeSets` the proofs follow the loops: the text edited in place is what
the first operations make of the text so far, beside the rest of it; an inverse is
built of pieces of the old text and means the inverse of what has been walked; and
the changes told of the first k operations, added up again, are the list of the
first k, or of one more where an insertion and a deletion are one change
(`BringsBack`).

For `PositionsFollow`, the loop that carries a position over a list either passes
the first k operations (`Passes`: the position is beyond them, and what has been
added up so far is what they take to) or has stopped at one of them (`StopsAt`,
with its `Landing`). Each operation spans a range of positions before and one
after, and a landing lies in the range after, which gives the bounds, the order of
two positions and the side of every retained character; the neighbours follow from
where the operation stands that the position is at the edge of. What change sets
side by side do to texts side by side (`Beside`, `ApplyBeside`, `InvertBeside`,
`ThroughBeside`) is about the abstract change sets alone and is in
`ChangeSetTheorems`.

### Keys

    PendingInv == IsPending(keys) /\ Counted(keys) /\ Waits(mode, keys)
                  /\ typed \in Seq(Keys \cup Specials)
    ReplayInv  == PendingInv /\ (~stumbled => Follows(mode, keys, log, Replay(typed)))

`PendingIsWhole` speaks of a continuation's characters and of the keys of a path;
Backspace takes back the last of either, so that the invariant must say what stood
before it. `Waits`: with no continuation every beginning of the path leads on to a
command; with one, the path is the keys of a command and the characters it has read,
the last inputs are keys, and each frame is what the command waited with before the
character it is of. `Follows` ties the two interpreters: after any keys without a
slip, the replay has the same mode, log, count, continuation and frames, and the same
keys pending, which it keeps elsewhere while a command reads on.

### Popups

    PopupInv == types /\ RequestsFit(buffer, asked)
                /\ LayersFit(buffer, asked, layers)

`RequestsFit`: a request is of a revision there was, and one of this revision was
made with the caret, and from the start of the word, of this text; revisions only
grow, so that an edit needs nothing but this. `LayersFit`: what lies under the
topmost layer is no list, and a topmost list fits (`ListFits`). It stands in insert
mode at the start of a word no later than the caret; what it shows are candidates
that match, or an answer about this very revision; and if it is incomplete and about
an older one, the request with its generation is under way (`Awaited`). An answer
that is dropped is of an older generation or revision, so that it is never the one
awaited. The callbacks of a character are a fold over the layers: without a list they
ask for nothing (`Quiet`), and the list is refreshed first, since it is on top.

The hypothesis `[]NotStacked` is the CONSTRAINT of the run: at most one list at a
time. The code does not rule out a second one, put over the first by the timer after
a completion asked for by hand, and the property is not claimed of that.

### Version control

    VcsInv == VcsStrongType /\ NoneBeforeTheFirst /\ WaitsWithItsText
              /\ RestingHasComputed /\ TextArrives /\ BaseArrives /\ DrawnIsCurrent

`HunksFollow` speaks of a moment when nothing is on its way. `TextArrives` and
`BaseArrives` say what is on its way before that: the last event of a kind in the
channel, or what the worker has if there is none, is the text, or the known head
(`Latest`; one lemma each for an event that is sent, one of the other kind, and one
that is taken). The base is the harder one, since a load sends it after it has
named the head and without a lock: one load sends and no other, to the differ that
is there, or a lapse is noted. `NoneBeforeTheFirst` is for a load that was started
for an earlier differ.

### Files

    FileInv == DiskStrongType /\ SavesTheText /\ NothingPartial /\ NothingIsLost
               /\ KnowsTheSnapshot /\ ChangesArePending /\ StampsTell

`NothingIsLost` needs to know that an atomic save never handles a partial content
(`NothingPartial`) and that what it has written is what was last complete.
`NoUntoldOverwrite` follows from `KnowsTheSnapshot`: what a save without force has
checked is known, since the check compares with the snapshot, and the snapshot is
of a content that is known. `UnmodifiedIsCurrent` joins two facts: a file that
differs from the snapshot has an event on its way (`ChangesArePending`), and a
file with the stamp of the snapshot has the text that was saved (`StampsTell`, which
must also be said of the backup that a failed save puts back).

### Reports

    ReportsInv == ReportsStrongType /\ AnswersAreOfThePast /\ CurrentIsPlaced
                  /\ SomeoneIsOnIt

`SomeoneIsOnIt`: while nothing has gone wrong, a goroutine will bring or has brought
the answer for the text there is, or it is shown, or a reload that has not ended
will ask. The other two keep late answers out: an answer is of a text there was,
and one of the present text was placed in it.

### Language servers

    LspInv     == ProcessInv /\ (lapses = {} => DocInv)
    ProcessInv == LspStrongType /\ JobsFit /\ NumbersGrow /\ LockIsHeld
                  /\ OnlyTheLiveKnow /\ NoOrphans
    DocInv     == ListsFit /\ OpenersAreAlone /\ NobodyOvertakes /\ AllAreFound
                  /\ TellingIsOpen /\ NotOpenedIsClosed /\ OpenedIsKnown

`NoOrphans` holds whatever goes wrong, because a server without a client is started
under the lock and looked up once more under it (`LockIsHeld`), and because client
numbers only grow, so that a reload that ends the old processes two steps after it
has emptied the table cannot mean a new one (`NumbersGrow`). `JobsFit` says which thread does which job and where: an edit
or a closing is the UI thread's, an opening anyone's.

For the documents the question is what a server has of a document at each point
between the claim and the didOpen. `OpenersAreAlone`: of the threads that have
claimed it, one reaches a given server, with the text there is, and the server has
nothing. Where there is no such opener, `OpenedIsKnown` says by `Has` what the
server has: the text there is, unless the UI thread is in the middle of telling of a
change (then the text before it, or for a server that is sent whole texts maybe the
new one), a closing or a restart. `AllAreFound` says that what the UI thread has
looked up, and still has to, covers every server that runs, so that no one is left
out of the message. A lapse is exactly a step after which one of these would not hold:
another thread overtakes (`NobodyOvertakes`), a server comes up that is not told, a
change opens its own document, a reload forgets a claim. `ServersFollow`, `MessagesAddUp` and `NothingLeftOpen` are
then read off `OpenedIsKnown` and `NotOpenedIsClosed`. The theorem of `NoOrphans` is
of `Spec`, whose behaviours include those of `FairSpec`, which the run
`lsp_processes` explores.

Each of these invariants was first checked by TLC on the instances of the runs.

## 6. Only model-checked, and not modelled

Only model-checked:

- Liveness, since fairness and ENABLED are out of the prover's reach:
  `ComposeTerminates`, `Responsive`, `NobodyWaitsForever`, `ChangesAreNoticed`.
  That a request of `LspReports` ends is not claimed.
- What the recursive walks over texts compute: the properties of `Editor`. (The
  folds of operation lists, macros and completion lists are proved about, by induction over sequences
  stated as a fact about sets.)
- The properties of `Panes` with the refinement of `PaneRow`: the traversal and the
  restoring of a pane tree are recursive functions over the tree, and that such a
  function exists needs an induction that cannot be instantiated.
- The type predicates of the modules without a run of their own (`FileTypeOK`,
  `ReportsTypeOK`, `VcsTypeOK`, and that of `LspSync`) are documentation; the
  inductive invariants state stronger ones, which are proved.

Not modelled, and why: rendering, layout and scrolling (output); pickers, prompts,
the command line, themes, syntax and configuration (tables, or pure functions that
unit tests reach); increments, sorting, shell commands, the jump list, soft wrap,
what tree-sitter selects; the balanced tree of the rope, graphemes of several
characters and CRLF, which the rope splits in places (texts are sequences of
characters); hover, locations and code actions. Four hazards of the language-server
part are lapses themselves (`changeOpens`, `lateRequest`, `workspaceFile`, `wiped`),
after which the properties say nothing. Three more have no property: a document edited from a connection's goroutine by a workspace
edit (a data race below the level of handlers), the version and text of a snapshot
read under separate locks, and that `Initialize` has no time limit. Two more races
are below this level: the dirty flag of the terminal pane, and the highlighter that
asks again while it is answered.

## 7. Plan

1. Proofs: `ViewsHaveDocuments`, over facts about the pure operators of `PaneTree`.
2. `TreeWellFormed` and the refinement of `PaneRow`, as far as the traversal, which
   is recursive, allows.
3. That `DiskFile` and `Document` agree on what a save and a reload do.
4. Pickers, with the matches that arrive in the background, and fuzzy matching
   against a reference definition.
