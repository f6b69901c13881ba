------------------------------ MODULE Document ------------------------------
(***************************************************************************)
(* One open document of internal/view: its text, its undo history, the     *)
(* insert group that gathers what is typed into one revision, and its save *)
(* point, shown in several views.  Every action is one handler run by the  *)
(* UI thread, which runs them one at a time; the interleavings are those   *)
(* of keys, mouse clicks, language-server edits, auto-save timers and the  *)
(* file watcher.                                                           *)
(*                                                                         *)
(* Left out: selections, overlays, repaint flags, lazy loading.  The file  *)
(* is what a reload reads (any text) and a save that succeeds or fails.    *)
(***************************************************************************)
EXTENDS History, FiniteSets, SequencesExt

CONSTANTS
  Blank, Newline,        \* two of the characters
  View,                  \* the views that show the document
  FirstView,             \* the one the editor finds first
  SaveOptions,           \* what the settings of a save may be, sets of Settings
  Opened,                \* the texts a document may be opened with
  Lapse,                 \* the lapses (below) that may happen
  MaxLen, MaxSize,       \* bounds: length of the text, size of an edit,
  MaxRevision, MaxLapse  \* revisions committed, kinds of lapse

Settings == {"trimTrailingWhitespace", "trimFinalNewlines", "insertFinalNewline"}

HistoryLapse == {"reload", "undoInGroup", "saveInGroup"}
NoticeLapse == {"strip", "failedSave"}

ASSUME DocumentAssumption ==
  /\ Blank \in Char /\ Newline \in Char
  /\ FirstView \in View
  /\ SaveOptions \subseteq SUBSET Settings
  /\ Opened \subseteq Text
  /\ Lapse \subseteq HistoryLapse \cup NoticeLapse
  /\ MaxLen \in Nat /\ MaxSize \in Nat /\ MaxRevision \in Nat /\ MaxLapse \in Nat

VARIABLES
  doc,        \* [text, hist, group, savePoint]: contentState and editState
  mode,       \* the mode of each view
  focus,      \* the view that has the focus
  \* What follows is not in the code; the properties need it.
  content,    \* the text each revision had when it was committed or reloaded
  saved,      \* the text that was last read from or written to the file
  observed,   \* the text that document observers have been told of
  lapses      \* what has happened that the code does not make up for

vars == <<doc, mode, focus, content, saved, observed, lapses>>

(***************************************************************************)
(* What the methods of Document do to it.                                  *)
(***************************************************************************)

\* A change set with no operations yet: composing with it checks nothing.
NoEdits == [pre |-> 0, post |-> << >>]

NoGroup == [open |-> FALSE, base |-> << >>, changes |-> NoEdits]

BeginInsertGroup(d) ==
  IF d.group.open THEN d
  ELSE [d EXCEPT !.group = [open |-> TRUE, base |-> d.text,
                            changes |-> NoEdits]]

\* Mutant: the inverse is taken against the text of now.
CommitInsertHistoryLate(d) ==
  LET g == d.group
  IN  [d EXCEPT
         !.group = NoGroup,
         !.hist  = IF g.open /\ ~IsEmpty(g.changes) /\ Fits(g.changes, d.text)
                   THEN CommitRevision(@, g.changes, d.text) ELSE @]

\* The group is dropped whether or not the history accepts it.
CommitInsertHistory(d) ==
  LET g == d.group
  IN  [d EXCEPT
         !.group = NoGroup,
         !.hist  = IF g.open /\ ~IsEmpty(g.changes) /\ Fits(g.changes, g.base)
                   THEN CommitRevision(@, g.changes, g.base) ELSE @]

Accepts(d, cs) ==
  /\ Fits(cs, d.text)
  /\ d.group.open => Composable(d.group.changes, cs)

\* Document.Apply of an edit that changes something: into the group when one
\* is open, whoever opened it, and otherwise a revision of its own.
ApplyEdit(d, cs) ==
  CASE ~Accepts(d, cs) -> d
    [] Accepts(d, cs) /\ d.group.open ->
         [d EXCEPT !.text = Apply(cs, d.text),
                   !.group.changes = Compose(@, cs)]
    [] Accepts(d, cs) /\ ~d.group.open ->
         [d EXCEPT !.text = Apply(cs, d.text),
                   !.hist = CommitRevision(@, cs, d.text)]

\* The history has moved whether or not the change set still fits the text.
AfterStep(d, cs, hist) ==
  [d EXCEPT !.hist = hist, !.text = IF Fits(cs, @) THEN Apply(cs, @) ELSE @]

\* Earlier and Later apply a list of change sets, up to the first that does
\* not fit.
ApplyAll(t, css) ==
  LET after[i \in 0 .. Len(css)] ==
        IF i = 0 THEN [text |-> t, ok |-> TRUE]
        ELSE IF after[i - 1].ok /\ Fits(css[i], after[i - 1].text)
             THEN [text |-> Apply(css[i], after[i - 1].text), ok |-> TRUE]
             ELSE [text |-> after[i - 1].text, ok |-> FALSE]
  IN  after[Len(css)]

\* Mutant: what is typed counts once it is a revision.
ModifiedByRevision(d) == d.hist.current # d.savePoint

Modified(d) ==
  \/ d.group.open /\ ~IsEmpty(d.group.changes)
  \/ d.hist.current # d.savePoint

CommonPrefix(s, t) ==
  LET n == IF Len(s) < Len(t) THEN Len(s) ELSE Len(t)
  IN  CHOOSE k \in 0 .. n : /\ \A i \in 1 .. k : s[i] = t[i]
                            /\ k = n \/ s[k + 1] # t[k + 1]

After(s, k) == SubSeq(s, k + 1, Len(s))

Flip(s) == [i \in 1 .. Len(s) |-> s[Len(s) + 1 - i]]

\* diffChangeSet: one replacement between the common prefix and the common
\* suffix of the rest.
Diff(s, t) ==
  LET p == CommonPrefix(s, t)
      q == CommonPrefix(Flip(After(s, p)), Flip(After(t, p)))
  IN  Splice(Len(s), p, Len(s) - q, SubSeq(t, p + 1, Len(t) - q))

\* s without the characters c it ends with.
TrimRight(s, c) ==
  SubSeq(s, 1, CHOOSE n \in 0 .. Len(s) : /\ n = 0 \/ s[n] # c
                                          /\ \A i \in n + 1 .. Len(s) : s[i] = c)

TrimTrailingWhitespace(t) ==
  LET Line(s, c) == IF c = Newline THEN Append(TrimRight(s, Blank), c)
                                   ELSE Append(s, c)
  IN  TrimRight(FoldLeft(Line, << >>, t), Blank)

TrimFinalNewlines(t) ==
  LET s == TrimRight(t, Newline)
  IN  IF s = t THEN t ELSE Append(s, Newline)

PrepareSaveText(t, settings) ==
  LET lines == IF "trimTrailingWhitespace" \in settings
               THEN TrimTrailingWhitespace(t) ELSE t
      all   == IF "trimFinalNewlines" \in settings
               THEN TrimFinalNewlines(lines) ELSE lines
  IN  IF /\ "insertFinalNewline" \in settings
         /\ all # << >> /\ all[Len(all)] # Newline
      THEN Append(all, Newline) ELSE all

\* A save puts what it is about to write into the text and, as a revision,
\* into the history: straight away, with no regard to an open group.
ApplySaveText(d, settings) ==
  LET cs == Diff(d.text, PrepareSaveText(d.text, settings))
  IN  IF IsEmpty(cs) THEN d
      ELSE [d EXCEPT !.text = Apply(cs, d.text),
                     !.hist = CommitRevision(@, cs, d.text)]

\* Mutant: the save point is the number of revisions.
MarkSavedByCount(d) == [d EXCEPT !.savePoint = d.hist.last + 1]

MarkSaved(d) == [d EXCEPT !.savePoint = d.hist.current]

(***************************************************************************)
(* The handlers.                                                           *)
(***************************************************************************)

\* How many characters a change set inserts or deletes.
Size(c) == LET kept == {i \in 1 .. Len(c.post) : c.post[i] \notin Char}
           IN  Len(c.post) + c.pre - 2 * Cardinality(kept)

Changing(n) ==
  {c \in [pre : {n}, post : UNION {[1 .. k -> Piece(n)] : k \in 0 .. MaxLen}] :
     IsChangeSet(c) /\ ~IsEmpty(c) /\ Size(c) <= MaxSize}

AllTexts == UNION {[1 .. k -> Char] : k \in 0 .. MaxLen}

Init ==
  /\ \E t \in Opened :
       /\ doc = [text |-> t, hist |-> NewHistory, group |-> NoGroup,
                 savePoint |-> 0]
       /\ content = [r \in 0 .. 0 |-> t]
       /\ saved = t
       /\ observed = t
  /\ mode = [v \in View |-> "normal"]
  /\ focus = FirstView
  /\ lapses = {}

\* Every revision is committed together with the text it makes.
Becomes(d) ==
  /\ d.hist.last <= MaxRevision
  /\ doc' = d
  /\ content' = [r \in 0 .. d.hist.last |->
                   IF r \in DOMAIN content THEN content[r] ELSE d.text]

Happens(ls) ==
  /\ lapses' = lapses \cup ls
  /\ lapses' \subseteq Lapse /\ Cardinality(lapses') <= MaxLapse

\* Mutant: what is gathered in a group is not announced.
AnnounceOutsideGroup ==
  observed' = IF observed = doc.text /\ ~doc'.group.open
              THEN doc'.text ELSE observed

\* An observer that has the text before the change gets to the text after it.
AnnounceChange ==
  observed' = IF observed = doc.text THEN doc'.text ELSE observed

\* A whole-document change takes any observer there.
AnnounceWhole == observed' = doc'.text

EnterInsert ==
  /\ mode[focus] = "normal"
  /\ mode' = [mode EXCEPT ![focus] = "insert"]
  /\ UNCHANGED <<doc, focus, content, saved, observed, lapses>>

\* A click in another view; the one that had the focus keeps its mode, and
\* the document its group.
FocusPane ==
  /\ focus' \in View \ {focus}
  /\ UNCHANGED <<doc, mode, content, saved, observed, lapses>>

\* An edit through view v: Editor.Apply when it has the focus, and
\* ApplyToDocument (a language server's edit) for the first view.
EditThrough(v) ==
  \E cs \in Changing(Len(doc.text)) :
    LET d == IF mode[v] = "insert" THEN BeginInsertGroup(doc) ELSE doc
    IN  /\ Becomes(ApplyEdit(d, cs))
        /\ AnnounceChange
        /\ UNCHANGED <<mode, focus, saved, lapses>>

Apply1 == EditThrough(focus)

ApplyToDocument == EditThrough(FirstView)

\* tryRestoreIndent deletes the blanks of a line of nothing else.
BlankLines(t) ==
  {s \in (0 .. Len(t)) \X (0 .. Len(t)) :
     /\ s[1] < s[2]
     /\ \A i \in s[1] + 1 .. s[2] : t[i] = Blank
     /\ s[1] = 0 \/ t[s[1]] = Newline
     /\ s[2] = Len(t) \/ t[s[2] + 1] = Newline}

\* NormalMode: strip the blanks of the cursor's line, through the document
\* and not the editor, so no observer hears of it; then close the group.
NormalMode ==
  /\ mode[focus] = "insert"
  /\ mode' = [mode EXCEPT ![focus] = "normal"]
  /\ \/ Becomes(CommitInsertHistory(doc)) /\ Happens({})
     \/ \E s \in BlankLines(doc.text) :
          LET d == ApplyEdit(doc, Splice(Len(doc.text), s[1], s[2], << >>))
          IN  /\ Becomes(CommitInsertHistory(d))
              /\ Happens(IF d # doc THEN {"strip"} ELSE {})
  /\ UNCHANGED <<focus, saved, observed>>

\* The checkpoint key of insert mode.
CommitCheckpoint ==
  /\ mode[focus] = "insert"
  /\ Becomes(CommitInsertHistory(doc))
  /\ UNCHANGED <<mode, focus, saved, observed, lapses>>

\* Moving through the history is for normal mode, yet another view may have
\* a group open.
Travel(cs, hist) ==
  LET d == AfterStep(doc, cs, hist)
  IN  /\ mode[focus] = "normal"
      /\ Becomes(d)
      /\ Happens(IF doc.group.open THEN {"undoInGroup"} ELSE {})
      /\ IF Fits(cs, doc.text) THEN AnnounceWhole ELSE UNCHANGED observed
      /\ UNCHANGED <<mode, focus, saved>>

Undo == ~AtRoot(doc.hist) /\ Travel(UndoChange(doc.hist), AfterUndo(doc.hist))

Redo == CanRedo(doc.hist) /\ Travel(RedoChange(doc.hist), AfterRedo(doc.hist))

\* Some change sets may have been applied when one does not fit.
JumpTo(to) ==
  LET css == JumpChanges(doc.hist, to)
      res == ApplyAll(doc.text, css)
  IN  /\ mode[focus] = "normal"
      /\ css # << >>
      /\ Becomes([doc EXCEPT !.hist = AfterJump(@, to), !.text = res.text])
      /\ Happens(IF doc.group.open THEN {"undoInGroup"} ELSE {})
      /\ IF res.ok THEN AnnounceWhole ELSE UNCHANGED observed
      /\ UNCHANGED <<mode, focus, saved>>

Earlier == \E n \in 1 .. MaxRevision : JumpTo(EarlierTarget(doc.hist, n))

Later == \E n \in 1 .. MaxRevision : JumpTo(LaterTarget(doc.hist, n))

\* Save by command, or by SaveAll when a timer fires or the terminal loses the
\* focus, whatever the mode.  A write that fails leaves the new text behind
\* and skips the notice.
Save(settings) ==
  LET d == ApplySaveText(doc, settings)
      inGroup == IF doc.group.open THEN {"saveInGroup"} ELSE {}
  IN  /\ mode[focus] = "normal" \/ Modified(doc)
      /\ \/ /\ Becomes(MarkSaved(d))
            /\ saved' = d.text
            /\ IF d # doc THEN AnnounceWhole ELSE UNCHANGED observed
            /\ Happens(inGroup)
         \/ /\ Becomes(d)
            /\ UNCHANGED <<saved, observed>>
            /\ Happens(inGroup \cup IF d # doc THEN {"failedSave"} ELSE {})
      /\ UNCHANGED <<mode, focus>>

\* The file is read again, by command or by the file watcher when there are
\* no unsaved changes.  The history is told nothing.
Reload ==
  /\ mode[focus] = "normal" \/ ~Modified(doc)
  /\ \E t \in AllTexts :
       /\ doc' = MarkSaved([doc EXCEPT !.text = t])
       /\ content' = [content EXCEPT ![doc.hist.current] = t]
       /\ saved' = t
       /\ Happens(IF t # doc.text \/ doc.group.open THEN {"reload"} ELSE {})
  /\ AnnounceWhole
  /\ UNCHANGED <<mode, focus>>

Next ==
  \/ EnterInsert \/ FocusPane \/ Apply1 \/ ApplyToDocument
  \/ NormalMode \/ CommitCheckpoint
  \/ Undo \/ Redo \/ Earlier \/ Later
  \/ (\E settings \in SaveOptions : Save(settings)) \/ Reload

Spec == Init /\ [][Next]_vars

(***************************************************************************)
(* Properties.                                                             *)
(***************************************************************************)

Revision == 0 .. doc.hist.last

\* Every variable has its type; a history has its revisions, and `content' the
\* same ones.
TypeOK ==
  /\ doc.text \in Text
  /\ doc.hist.last \in Nat /\ doc.hist.current \in Revision
  /\ doc.savePoint \in Revision
  /\ doc.group.open \in BOOLEAN
  /\ doc.group.base \in Text /\ IsChangeSet(doc.group.changes)
  /\ DOMAIN doc.hist.revs = Revision
  /\ mode \in [View -> {"normal", "insert"}]
  /\ focus \in View
  /\ content \in [Revision -> Text]
  /\ saved \in Text /\ observed \in Text
  /\ lapses \subseteq Lapse

\* The revisions form a tree whose children are newer than their parents, and
\* the child a revision remembers is the newest one it has, so that a redo
\* goes to what was last committed there and an undo always ends at the root:
\* the loops of lowestCommonAncestor and pathUp terminate.
HistoryWellFormed ==
  LET revs == doc.hist.revs
  IN  /\ revs[0].parent = 0
      /\ \A r \in Revision \ {0} :
           /\ revs[r].parent \in 0 .. r - 1
           /\ revs[revs[r].parent].lastChild >= r
      /\ \A r \in Revision :
           revs[r].lastChild # NoChild =>
             /\ revs[r].lastChild \in r + 1 .. doc.hist.last
             /\ revs[revs[r].lastChild].parent = r

Kept == lapses \cap HistoryLapse = {}

\* Every revision leads from the text of its parent to its own and back.
RevisionsReproduce ==
  \A r \in Revision \ {0} :
    LET rev == doc.hist.revs[r]
    IN  /\ IsChangeSet(rev.tx) /\ IsChangeSet(rev.inv)
        /\ Fits(rev.tx, content[rev.parent])
        /\ Apply(rev.tx, content[rev.parent]) = content[r]
        /\ Fits(rev.inv, content[r])
        /\ Apply(rev.inv, content[r]) = content[rev.parent]

\* The text is that of the current revision, with what the open group has
\* gathered on top of it.
TextIsCurrent ==
  LET g == doc.group
      here == content[doc.hist.current]
  IN  IF ~g.open THEN doc.text = here
      ELSE /\ g.base = here
           /\ \/ g.changes = NoEdits /\ doc.text = here
              \/ Fits(g.changes, here) /\ doc.text = Apply(g.changes, here)

\* However edits, groups of several views, undos, redos, jumps and saves
\* interleave, the history reproduces the text of each of its revisions and
\* the text is where the history says, unless a reload replaced the text or
\* an undo or a save came in the middle of a group.
TextMatchesHistory == Kept => RevisionsReproduce /\ TextIsCurrent

\* A document that is not marked as modified has the text of its file: what
\* Modified() computes from the revision numbers and the open group is true
\* of the texts.
UnmodifiedIsSaved == Kept /\ ~Modified(doc) => doc.text = saved

\* The language server and the version-control differ have the document's
\* text, unless the blanks stripped by NormalMode or a failed save left them
\* without notice, or the history had nothing that fits.
ObserversFollow == lapses = {} => observed = doc.text

\* The history only grows.  What a revision was committed with, and what it
\* branched from, is never edited, dropped or renumbered, so that an old
\* revision can always be gone back to, from whatever branch.
NothingForgotten ==
  [][/\ doc'.hist.last >= doc.hist.last
     /\ \A r \in Revision :
          /\ doc'.hist.revs[r].parent = doc.hist.revs[r].parent
          /\ doc'.hist.revs[r].tx = doc.hist.revs[r].tx
          /\ doc'.hist.revs[r].inv = doc.hist.revs[r].inv]_vars

(***************************************************************************)
(* What the comments and the documentation say, and the code does not keep *)
(* once the lapse that a run allows has happened.                          *)
(***************************************************************************)

\* "Undo reverts one history step": an undo that is reported as done leaves
\* the text the step was taken from.  A reload takes that away.
UndoReverts ==
  [][Undo /\ Fits(UndoChange(doc.hist), doc.text)
       => doc'.text = content[doc'.hist.current]]_vars

\* "Modified reports whether the document has unsaved changes": a document that
\* is reported as unmodified has the text of its file.  A save in the middle
\* of a group takes that away.
UnmodifiedHasNoChanges == ~Modified(doc) => doc.text = saved

\* An edit "notifies observers such as language-server document sync": between
\* two handlers they have the text.  NormalMode takes that away.
ObserversHaveTheText == observed = doc.text

=============================================================================
