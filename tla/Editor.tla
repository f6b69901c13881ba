-------------------------------- MODULE Editor --------------------------------
(***************************************************************************)
(* A user at one view of one document: the cursor, selection, search and   *)
(* editing commands of internal/term/builtin/motion and editing, in the    *)
(* modes their tables bind them in, with a count where they take one, and  *)
(* the mouse.  Undo, macros and a second view are in other modules.        *)
(*                                                                         *)
(* A scene bounds what is tried together: the texts and modes to begin     *)
(* with, the most ranges and edits, and the commands, by their families.   *)
(***************************************************************************)
EXTENDS Editing

CONSTANTS
  Scenes,
  Cases,        \* letters that differ in their case, <<lower, upper>>
  Patterns,     \* what is searched for: runs of these characters
  Typeable,     \* characters to type, to find and to surround with
  MaxCount      \* the greatest count given to a command

Families == {"move", "vertical", "find", "select", "within", "click", "delete", "open",
             "paste", "lines", "comment", "surround", "type", "kill", "mode"}

ASSUME EditorAssumption ==
  /\ \A s \in Scenes :
       /\ s.texts \subseteq Text /\ s.modes \subseteq {"normal", "select", "insert"}
       /\ s.ranges \in Nat /\ s.edits \in Nat /\ s.families \subseteq Families
  /\ Cases \subseteq Lower \X Upper
  /\ \A C \in Patterns : C \subseteq Char
  /\ Typeable \subseteq Char
  /\ MaxCount \in Nat \ {0}

VARIABLES
  scene,
  ed,       \* see module Editing
  edits     \* how many commands have edited the text: a bound

editorVars == <<scene, ed, edits>>

SelectionsOf(t, most) ==
  LET Ranges == [anchor : 0 .. Len(t), head : 0 .. Len(t)]
  IN  {Single(r) : r \in Ranges} \cup
        IF most < 2 THEN {}
        ELSE {s \in [ranges : {<<r, q>> : r \in Ranges, q \in Ranges}, primary : 1 .. 2] :
                IsSelection(t, s)}

EditorInit ==
  /\ scene \in Scenes
  /\ edits = 0
  /\ \E t \in scene.texts, mode \in scene.modes :
       \E sel \in SelectionsOf(t, scene.ranges) :
         /\ mode = "insert" => \A i \in DOMAIN sel.ranges : IsPoint(sel.ranges[i])
         /\ ed = [text |-> t, sel |-> sel, mode |-> mode, goals |-> << >>,
                  register |-> << >>, restore |-> FALSE]

Counts  == 1 .. MaxCount
Extends == ed.mode = "select"

Does(family, modes) == family \in scene.families /\ ed.mode \in modes

Commands == {"normal", "select"}    \* the modes most commands are bound in
AnyMode  == Commands \cup {"insert"}

RangesFit(next) == Len(next.sel.ranges) <= scene.ranges

\* A motion takes every range somewhere and ends a run of vertical moves.
Move(To1(_)) ==
  /\ ed' = [ed EXCEPT !.sel = Transform(@, To1), !.goals = << >>]
  /\ UNCHANGED <<scene, edits>>

\* Other commands that select leave the run as it is.
Choose(sel) ==
  /\ ed' = [ed EXCEPT !.sel = sel]
  /\ RangesFit(ed')
  /\ UNCHANGED <<scene, edits>>

Edit(next) ==
  /\ edits < scene.edits /\ RangesFit(next)
  /\ ed' = next /\ edits' = edits + 1
  /\ UNCHANGED scene

(***************************************************************************)
(* Motions                                                                 *)
(***************************************************************************)
MoveHorizontally ==
  /\ Does("move", AnyMode)
  /\ \E n \in Counts, way \in {-1, 1} :
       Move(LAMBDA r : MoveBy(ed.text, r, way * n, Extends))

\* Each range keeps the column it wants to be in while the run goes on.
MoveLines ==
  /\ Does("vertical", AnyMode)
  /\ \E n \in Counts, way \in {-1, 1} :
       LET t == ed.text
           ranges  == ed.sel.ranges
           goal(i) == IF Len(ed.goals) = Len(ranges) THEN ed.goals[i] ELSE 0
       IN  ed' = [ed EXCEPT
                    !.sel = NewSelection([i \in DOMAIN ranges |->
                              MoveVertically(t, ranges[i], way * n, goal(i), Extends)], @.primary),
                    !.goals = [i \in DOMAIN ranges |-> GoalColumn(t, ranges[i], goal(i))]]
  /\ UNCHANGED <<scene, edits>>

MoveWords ==
  /\ Does("move", Commands)
  /\ \E n \in Counts, target \in WordTargets :
       Move(LAMBDA r : IF Extends THEN ExtendWord(ed.text, r, target, n)
                       ELSE MoveWord(ed.text, r, target, n))

MoveInLine ==
  \/ /\ Does("move", AnyMode)
     /\ Move(LAMBDA r : ToLineStart(ed.text, r, Extends))
  \/ /\ Does("move", {"insert", "select"})
     /\ Move(LAMBDA r : ToLineEndNewline(ed.text, r, Extends))
  \/ /\ Does("move", Commands)
     /\ \/ Move(LAMBDA r : ToLineEnd(ed.text, r, Extends))
        \/ Move(LAMBDA r : ToNonWhitespace(ed.text, r, Extends))
        \/ \E n \in Counts : Move(LAMBDA r : GotoColumn(ed.text, r, n, Extends))

MoveInFile ==
  /\ Does("move", Commands)
  /\ \/ Move(LAMBDA r : ToFileStart(ed.text, r, Extends))
     \/ Move(LAMBDA r : ToLastLine(ed.text, r, Extends))
     \/ Extends /\ Move(LAMBDA r : ToFileEnd(ed.text, r))
     \/ \E line, column \in Counts : Move(LAMBDA r : GotoPosition(ed.text, r, line, column, Extends))
     \/ \E n \in Counts : \/ Move(LAMBDA r : ToNextParagraph(ed.text, r, n, Extends))
                          \/ Move(LAMBDA r : ToPrevParagraph(ed.text, r, n, Extends))

FindCharacter ==
  /\ Does("find", Commands)
  /\ \E c \in Typeable, n \in Counts, ahead, till \in BOOLEAN :
       Move(LAMBDA r : FindChar(ed.text, r, c, n, ahead, till, Extends))

\* Where a run of C begins, next to position p; the search wraps around.
Match(t, C, p, ahead) ==
  LET Starts(from, to) == {r.anchor : r \in ToSet(Runs(t, from, to, C))}
  IN  IF ahead THEN LeastOr(Starts(p + 1, Len(t)), LeastOr(Starts(0, p + 1), Nowhere))
      ELSE GreatestOr(Starts(0, p), GreatestOr(Starts(p, Len(t)), Nowhere))

Search(sel, C, ahead) ==
  LET t == ed.text
      Found(r) == LET at == Match(t, C, Cursor(t, r), ahead)
                  IN  IF at = Nowhere THEN r ELSE PutCursor(t, r, at, Extends)
  IN  Transform(sel, Found)

SearchPattern ==
  /\ Does("find", Commands)
  /\ \E C \in Patterns, n \in Counts, ahead \in BOOLEAN :
       Choose(Times(LAMBDA sel : Search(sel, C, ahead), ed.sel, n))

MatchBrackets ==
  /\ Does("find", Commands)
  /\ LET t == ed.text
         Matched(r) == LET at == FindMatchingBracket(t, Cursor(t, r))
                       IN  IF at = Nowhere THEN r ELSE PutCursor(t, r, at, FALSE)
     IN  Choose(Transform(ed.sel, Matched))

\* A click with Alt adds a cursor, and in select mode one extends the primary
\* range and drops the others.
Click ==
  /\ Does("click", AnyMode)
  /\ \E p \in 0 .. Len(ed.text) :
       \/ Choose(NewSelection(Append(ed.sel.ranges, Point(p)), Len(ed.sel.ranges) + 1))
       \/ Choose(Single(IF Extends THEN PutCursor(ed.text, Primary(ed.sel), p, TRUE) ELSE Point(p)))

(***************************************************************************)
(* Selections                                                              *)
(***************************************************************************)
ChangeRanges ==
  /\ Does("select", Commands)
  /\ LET t == ed.text
     IN  \/ Choose(SelectAll(t))
         \/ Choose(CollapseSelection(t, ed.sel))
         \/ Choose(FlipSelections(ed.sel))
         \/ Move(Forward)
         \/ Move(LAMBDA r : ExtendToLineBounds(t, r))
         \/ Move(LAMBDA r : ShrinkToLineBounds(t, r))
         \/ Move(LAMBDA r : ExtendLineBelow(t, r))
         \/ \E n \in Counts, above \in BOOLEAN :
              Choose(Transform(ed.sel, LAMBDA r : SelectLines(t, r, n, above)))

ChangeNumber ==
  /\ Does("select", Commands)
  /\ LET t == ed.text
     IN  \/ Choose(KeepPrimarySelection(ed.sel))
         \/ Choose(RemovePrimarySelection(ed.sel))
         \/ Choose(MergeAll(ed.sel))
         \/ Choose(MergeConsecutive(ed.sel))
         \/ Choose(SplitSelectionOnNewline(t, ed.sel))
         \/ Choose(TrimSelections(t, ed.sel))
         \/ \E n \in Counts, sign \in {-1, 1} : Choose(RotateSelections(ed.sel, sign * n))
         \/ \E n \in Counts, below \in BOOLEAN : Choose(CopyOnLines(t, ed.sel, n, below))
         \/ \E C \in Patterns :
              \/ Choose(SelectWithin(t, ed.sel, C))
              \/ Choose(SplitSelection(t, ed.sel, C))
              \/ \E remove \in BOOLEAN : Choose(FilterSelections(t, ed.sel, C, remove))

SelectObject ==
  /\ Does("within", Commands)
  /\ \E kind \in {"word", "long", "paragraph", "pair"}, around \in BOOLEAN,
       c \in Opens \cup Quote \cup {NoChar}, n \in Counts :
         Choose(Transform(ed.sel, LAMBDA r : TextObject(ed.text, r, kind, around, c, n)))

(***************************************************************************)
(* Modes                                                                   *)
(***************************************************************************)
ToSelectMode == /\ Does("mode", {"normal"})
                /\ ed' = SelectMode(ed) /\ UNCHANGED <<scene, edits>>

ToNormalMode == /\ Does("mode", AnyMode)
                /\ ed' = NormalMode(ed) /\ UNCHANGED <<scene, edits>>

\* At the cursors, or at the first ink or the end of their lines.
ToInsertMode ==
  /\ Does("mode", Commands)
  /\ LET Moved(To1(_)) == [ed EXCEPT !.sel = Transform(@, To1), !.goals = << >>]
     IN  \/ ed' = InsertMode(ed)
         \/ ed' = InsertMode(Moved(LAMBDA r : ToNonWhitespace(ed.text, r, Extends)))
         \/ ed' = AppendMode(ed)
         \/ ed' = AppendMode(Moved(LAMBDA r : ToLineEnd(ed.text, r, FALSE)))
  /\ UNCHANGED <<scene, edits>>

(***************************************************************************)
(* Edits                                                                   *)
(***************************************************************************)
Delete ==
  /\ Does("delete", Commands)
  /\ \E yank \in BOOLEAN : \/ Edit(DeleteSelection(ed, yank, "normal"))
                           \/ Edit(ChangeSelection(ed, yank))

Open ==
  /\ Does("open", Commands)
  /\ \E n \in Counts, yes \in BOOLEAN : \/ Edit(OpenLines(ed, n, yes, ContinueComments))
                                        \/ Edit(AddNewlines(ed, n, yes))

YankIt == /\ Does("paste", Commands)
          /\ ed' = Yank(ed) /\ UNCHANGED <<scene, edits>>

ToUpper(c) == IF c \in Lower THEN (CHOOSE p \in Cases : p[1] = c)[2] ELSE c
ToLower(c) == IF c \in Upper THEN (CHOOSE p \in Cases : p[2] = c)[1] ELSE c

SwitchCase(c) == IF c \in Lower THEN ToUpper(c) ELSE ToLower(c)

Replace ==
  /\ Does("paste", Commands)
  /\ \/ \E before \in BOOLEAN : Edit(Paste(ed, before))
     \/ \E n \in Counts : Edit(ReplaceWithYanked(ed, n))
     \/ \E c \in Typeable : Edit(ReplaceChars(ed, LAMBDA old : c))
     \/ Edit(ReplaceChars(ed, ToUpper)) \/ Edit(ReplaceChars(ed, ToLower))
     \/ Edit(ReplaceChars(ed, SwitchCase))
     \/ \E n \in Counts, ahead \in BOOLEAN : Edit(RotateContents(ed, n, ahead))

ChangeLines ==
  /\ Does("lines", Commands)
  /\ \/ \E n \in Counts : Edit(Indent(ed, n)) \/ Edit(Unindent(ed, n))
     \/ \E withSpace \in BOOLEAN : Edit(JoinSelections(ed, withSpace))
     \/ Edit(AlignSelections(ed))

Comment ==
  /\ Does("comment", Commands)
  /\ Edit(ToggleComments(ed)) \/ Edit(ToggleLineComments(ed)) \/ Edit(ToggleBlockComments(ed))

Surround ==
  /\ Does("surround", Commands)
  /\ \E c \in Opens \cup Quote :
       \/ Edit(SurroundAdd(ed, c))
       \/ \E n \in Counts, from \in {c, NoChar} :
            \/ Edit(SurroundDelete(ed, from, n))
            \/ \E wanted \in Opens : Edit(SurroundReplace(ed, from, n, wanted))

TypeIt ==
  /\ Does("type", {"insert"})
  /\ \/ \E c \in Typeable : Edit(InsertChar(ed, c))
     \/ Edit(InsertNewline(ed))
     \/ Edit(InsertText(ed, Unit))
     \/ Edit(DeleteCharBackward(ed))
     \/ Edit(DeleteCharForward(ed))

Kill ==
  /\ Does("kill", {"insert"})
  /\ \/ Edit(DeleteWordBackward(ed)) \/ Edit(DeleteWordForward(ed))
     \/ Edit(KillToLineEnd(ed)) \/ Edit(KillToLineStart(ed))

Moves == \/ MoveHorizontally \/ MoveLines \/ MoveWords \/ MoveInLine \/ MoveInFile
         \/ FindCharacter \/ SearchPattern \/ MatchBrackets \/ Click

Selects == ChangeRanges \/ ChangeNumber \/ SelectObject

ChangesMode == ToSelectMode \/ ToNormalMode \/ ToInsertMode

EditsRanges == Delete \/ Open \/ YankIt \/ Replace

EditsAround == ChangeLines \/ Comment \/ Surround

Types == TypeIt \/ Kill

EditorNext == Moves \/ Selects \/ ChangesMode \/ EditsRanges \/ EditsAround \/ Types

EditorSpec == EditorInit /\ [][EditorNext]_editorVars

(***************************************************************************)
(* Properties.                                                             *)
(***************************************************************************)
Ranges1 == ToSet(ed.sel.ranges)

\* However ranges are moved, typed at, multiplied, merged and carried over
\* edits: they stay inside of the text, in order and apart, and the primary one
\* is one of them.  Every command reads its ranges by these facts, and a list of
\* changes made of ranges that overlap is refused.
SelectionStaysWhole == IsSelection(ed.text, ed.sel)

\* A count is a command repeated: two words on are one word on and another,
\* unless the first is where the text ends.  A count walks the text once; the
\* command by itself begins each time by putting the range around the cursor.
CountsRepeat ==
  ed.mode = "normal" =>
    \A r \in Ranges1, target \in WordTargets :
      LET once == MoveWord(ed.text, r, target, 1)
      IN  once.head \notin {0, Len(ed.text)} =>
            MoveWord(ed.text, r, target, 2) = MoveWord(ed.text, once, target, 1)

\* A run of vertical moves comes back to the column it began in, over lines too
\* short for it.
GoalColumnKept ==
  \A r \in Ranges1, n \in Counts :
    LET t    == ed.text
        line == CursorLine(t, r)
        down == MoveVertically(t, r, n, 0, FALSE)
        back == MoveVertically(t, down, -n, GoalColumn(t, r, 0), FALSE)
    IN  line + n \in Lines(t) /\ Cursor(t, r) < Larger(LineEnd(t, line), LineStart(t, line) + 1)
          => Cursor(t, back) = Cursor(t, r)

\* The bracket that matches a bracket is matched by it, and nothing between the
\* two is open: two walks in opposite directions, each counting its own way.
BracketsMatchBack ==
  \A p \in 0 .. Len(ed.text) - 1 :
    LET t == ed.text
        q == FindMatchingBracket(t, p)
    IN  q # Nowhere =>
          /\ FindMatchingBracket(t, q) = p
          /\ LET pair == PairOf(CharAt(t, p))
                 from == Smaller(p, q)
                 to   == Larger(p, q)
             IN  <<CharAt(t, from), CharAt(t, to)>> = pair
                   /\ CountOf(t, pair[1], from, to) = CountOf(t, pair[2], from, to)

Alone(next, r) == [next EXCEPT !.sel = Single(r)]

\* F with every range by itself, the last first, so that the places of the
\* others are those they had.
OneByOne(F(_), e) ==
  FoldLeft(LAMBDA next, r : F(Alone(next, r)), e, Reverse(e.sel.ranges)).text

ActsAlike(F(_)) == LET text == F(ed).text
                   IN  text # ed.text => text = OneByOne(F, ed)

\* No cursor is right behind the character another one is on: backspace there
\* would take away what tells the other one whether it is in a pair.
NotNeighbours ==
  LET ranges == ed.sel.ranges
  IN  \A i \in 2 .. Len(ranges) : Cursor(ed.text, ranges[i]) # Cursor(ed.text, ranges[i - 1]) + 1

\* A command at many cursors is the command at each of them: the one transaction
\* it makes has the outcome of typing at the cursors one after the other, or it
\* is refused as a whole.
CursorsActAlike ==
  /\ ed.mode \in Commands => /\ ActsAlike(LAMBDA e : DeleteSelection(e, TRUE, "normal"))
                             /\ ActsAlike(LAMBDA e : ReplaceChars(e, SwitchCase))
  /\ ed.mode = "insert" => /\ \A c \in Typeable : ActsAlike(LAMBDA e : InsertChar(e, c))
                           /\ ActsAlike(InsertNewline)
                           /\ NotNeighbours => ActsAlike(DeleteCharBackward)
                           /\ ActsAlike(DeleteCharForward)
                           /\ ActsAlike(DeleteWordBackward)
                           /\ ActsAlike(KillToLineStart)

Restores(F(_), G(_)) == LET done == F(ed)
                        IN  done.text # ed.text => G(done).text = ed.text

Delete1(e) == DeleteSelection(e, TRUE, "normal")

\* What is deleted leaves a cursor each and does not end with a line: then it
\* would be pasted where the line begins.
DeletedApart ==
  LET done == Delete1(ed)
  IN  /\ Len(done.sel.ranges) = Len(ed.sel.ranges)
      /\ \A i \in DOMAIN done.register :
           done.register[i] # << >> => Last(done.register[i]) # Newline

\* What is done and taken back the user's way, without undo, leaves the text as
\* it was: a comment made and unmade, an indentation put in and taken out, what
\* is deleted pasted back, and ranges rotated there and back.
ReversalsRestore ==
  ed.mode \in Commands =>
    /\ ~LineComments(ed.text, ed.sel).commented
         => Restores(ToggleLineComments, ToggleLineComments)
    /\ ~AllCommented(BlockComments(ed.text, ed.sel))
         => Restores(ToggleBlockComments, ToggleBlockComments)
    /\ (\A l \in SelectedLines(ed.text, ed.sel) : Indentation(ed.text, l) % IndentWidth = 0)
         => \A n \in Counts : Restores(LAMBDA e : Indent(e, n), LAMBDA e : Unindent(e, n))
    /\ DeletedApart => Restores(Delete1, LAMBDA e : Paste(e, TRUE))
    /\ \A n \in Counts : Restores(LAMBDA e : RotateContents(e, n, TRUE),
                                   LAMBDA e : RotateContents(e, n, FALSE))

=============================================================================
