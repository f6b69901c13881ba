------------------------------- MODULE Editing -------------------------------
(***************************************************************************)
(* What the editing commands of internal/view/action do to a view of a     *)
(* document: its text, selection, mode and goal columns, the register they *)
(* yank to, and whether leaving insert mode takes the cursor back.         *)
(*                                                                         *)
(* Every command makes a list of changes, one or more for each range, and  *)
(* applies it as one transaction.  A list that is out of order is refused  *)
(* and nothing happens.  No two ranges of a selection have their cursor at *)
(* one place, so "once for every cursor" is once for every range.  The     *)
(* document may be written to, and no tree gives an indentation.           *)
(***************************************************************************)
EXTENDS Selecting

CONSTANTS
  Token,            \* starts a line comment
  BlockStart, BlockEnd,   \* begin and end a block comment
  IndentWidth,      \* an indentation is so many spaces
  IndentsAfter,     \* characters that a line ends with when the next is indented
  ContinueComments  \* does a new line continue a comment?

ASSUME EditingAssumption ==
  /\ {Token, BlockStart, BlockEnd} \subseteq Char \ (Word \cup {Newline, Space})
  /\ IndentWidth \in Nat \ {0}
  /\ IndentsAfter \subseteq Char \ (Word \cup {Newline, Space})
  /\ ContinueComments \in BOOLEAN

Change(from, to, text) == [from |-> from, to |-> to, text |-> text]
Deletion(from, to)     == Change(from, to, << >>)

Spaces(n) == [i \in 1 .. n |-> Space]
Unit      == Spaces(IndentWidth)
Repeated(s, n) == FlattenSeq([i \in 1 .. n |-> s])

\* Changes(r) for every range r, in their order.
PerRange(sel, Changes(_)) ==
  FlattenSeq([i \in DOMAIN sel.ranges |-> Changes(sel.ranges[i])])

\* Changes(l) for every line l of a set, in their order.
PerLine(S, Changes(_)) ==
  LET lines == SetToSortSeq(S, <)
  IN  FlattenSeq([i \in DOMAIN lines |-> Changes(lines[i])])

Accepted(t, changes) == changes # << >> /\ InOrder(Len(t), changes)

\* The transaction: Select says where the selection goes, given the list.
EditTo(ed, changes, Select(_), mode) ==
  LET l == FromChanges(Len(ed.text), changes)
  IN  IF ~Accepted(ed.text, changes) THEN ed
      ELSE [ed EXCEPT !.text  = ApplyList(l, @),
                      !.sel   = Select(l),
                      !.mode  = mode,
                      !.goals = IF IsEmptyList(l) THEN @ ELSE << >>]

EditMapped(ed, changes, mode) ==
  EditTo(ed, changes, LAMBDA l : MapSelection(ed.sel, l), mode)

\* Every range becomes the point At makes of where it is carried.
EditToPoints(ed, changes, At(_), mode) ==
  EditTo(ed, changes,
         LAMBDA l : Transform(ed.sel, LAMBDA r : Point(At(MapRange(l, r)))), mode)

(***************************************************************************)
(* Deleting                                                                *)
(***************************************************************************)
IsLinewise(t, sel) ==
  \A i \in DOMAIN sel.ranges :
    LET r == sel.ranges[i]
        next == LastLine(t, r) + 1
    IN  /\ FirstLine(t, r) < LastLine(t, r) /\ next \in Lines(t)
        /\ From(r) = LinesFrom(t, r) /\ To(r) = LineStart(t, next)

Yanked(t, sel, Widened(_)) ==
  [i \in DOMAIN sel.ranges |-> Fragment(t, Widened(sel.ranges[i]))]

DeleteSelection(ed, yank, mode) ==
  LET Wide(r)   == MinWidth1(ed.text, r)
      Delete(r) == <<Deletion(From(Wide(r)), To(Wide(r)))>>
      Points(l) == Transform(ed.sel, LAMBDA r : Point(From(MapRange(l, Wide(r)))))
      yanked == IF yank THEN [ed EXCEPT !.register = Yanked(ed.text, ed.sel, Wide)] ELSE ed
  IN  EditTo(yanked, PerRange(ed.sel, Delete), Points, mode)

DeleteCharForward(ed) ==
  LET t == ed.text
      Delete(r) == IF Cursor(t, r) = Len(t) THEN << >>
                   ELSE <<Deletion(Cursor(t, r), Cursor(t, r) + 1)>>
  IN  EditToPoints(ed, PerRange(ed.sel, Delete), LAMBDA r : r.head, ed.mode)

DeleteWordBackward(ed) ==
  LET t == ed.text
      Start(p)  == From(MoveWord(t, Point(p), WordTarget("word", FALSE, TRUE), 1))
      Delete(r) == IF Cursor(t, r) = 0 THEN << >>
                   ELSE <<Deletion(Start(Cursor(t, r)), Cursor(t, r))>>
  IN  EditToPoints(ed, PerRange(ed.sel, Delete), LAMBDA r : r.head, ed.mode)

DeleteWordForward(ed) ==
  LET t == ed.text
      End(p)    == To(MoveWord(t, Point(p), WordTarget("word", TRUE, FALSE), 1))
      Delete(r) == IF End(Cursor(t, r)) <= Cursor(t, r) THEN << >>
                   ELSE <<Deletion(Cursor(t, r), End(Cursor(t, r)))>>
  IN  EditToPoints(ed, PerRange(ed.sel, Delete), LAMBDA r : r.head, ed.mode)

KillToLineEnd(ed) ==
  LET t == ed.text
      Delete(r) == LET p == Cursor(t, r)
                       end == LineEnd(t, LineOf(t, p))
                   IN  CASE p < end -> <<Deletion(p, end)>>
                         [] p = end /\ p < Len(t) -> <<Deletion(p, p + 1)>>
                         [] OTHER -> << >>
  IN  EditToPoints(ed, PerRange(ed.sel, Delete), LAMBDA r : r.head, ed.mode)

KillToLineStart(ed) ==
  LET t == ed.text
      Delete(r) == LET p     == Cursor(t, r)
                       start == LineStart(t, LineOf(t, p))
                       ink   == start + Indentation(t, LineOf(t, p))
                   IN  CASE p = 0     -> << >>
                         [] p > 0 /\ p = start -> <<Deletion(p - 1, p)>>
                         [] p > start -> <<Deletion(IF ink < p THEN ink ELSE start, p)>>
  IN  EditToPoints(ed, PerRange(ed.sel, Delete), LAMBDA r : r.head, ed.mode)

(***************************************************************************)
(* Typing                                                                  *)
(***************************************************************************)
\* Is position p between the two characters of a pair that is closed for you?
InAutoPair(t, p) ==
  LET open == CharAt(t, p - 1)
  IN  open \in Opens \cup Quote /\ CharAt(t, p) = PairOf(open)[2]

IsOneWide(t, r) == To(r) = From(r) + 1

\* What backspace deletes at a range, and the range it is to be carried from.
Backspace(t, r) ==
  LET p      == Cursor(t, r)
      start  == LineStart(t, LineOf(t, p))
      width  == p - start
      over   == width % IndentWidth
      drop   == Smaller(width, IF over = 0 THEN IndentWidth ELSE over)
      anchor == CASE IsOneWide(t, r)                 -> r.anchor - 1
                  [] ~IsOneWide(t, r) /\ IsForward(r) -> r.anchor
                  [] OTHER                           -> r.anchor - 2
      Deletes(from, to, range, paired) ==
        [change |-> <<Deletion(from, to)>>, range |-> range, paired |-> paired]
  IN  CASE p = 0 -> [change |-> << >>, range |-> r, paired |-> FALSE]
        [] p > 0 /\ width > 0 /\ Indentation(t, LineOf(t, p)) >= width ->
             Deletes(p - drop, p, r, FALSE)
        [] p > 0 /\ (width = 0 \/ Indentation(t, LineOf(t, p)) < width)
             /\ InAutoPair(t, p) ->
             Deletes(p - 1, p + 1, Span(anchor, NextPos(t, r.head) - 2), TRUE)
        [] OTHER -> Deletes(p - 1, p, r, FALSE)

DeleteCharBackward(ed) ==
  LET Back(r)   == Backspace(ed.text, r)
      Moved(l, r) == LET to == MapRange(l, Back(r).range)
                     IN  IF Back(r).paired THEN to ELSE Point(to.anchor)
  IN  EditTo(ed, PerRange(ed.sel, LAMBDA r : Back(r).change),
             LAMBDA l : Transform(ed.sel, LAMBDA r : Moved(l, r)), ed.mode)

\* Where a range is once a pair is typed at its cursor, or a closing character
\* is typed over.
InsidePair(t, r) ==
  LET n == Len(t)
      head == IF r.head = 0 \/ ~IsForward(r) THEN r.head + 1 ELSE PrevPos(t, r.head) + 2
      anchor == CASE IsPoint(r)                        -> head
                  [] IsOneWide(t, r) /\ IsForward(r)   -> head - 1
                  [] IsOneWide(t, r) /\ ~IsForward(r)  -> head + 1
                  [] To(r) > From(r) + 1 /\ IsForward(r) -> r.anchor
                  [] To(r) > From(r) + 1 /\ ~IsForward(r) -> r.anchor + 2
  IN  IF r = Point(n) THEN Point(n + 1) ELSE Span(anchor, head)

SkipOver(t, r) ==
  IF IsPoint(r) THEN Point(NextPos(t, r.head))
  ELSE Span(IF IsOneWide(t, r) THEN NextPos(t, r.anchor) ELSE r.anchor, NextPos(t, r.head))

\* What typing c does at a range, and whether a pair is part of it.
Typed(t, r, c) ==
  LET p    == Cursor(t, r)
      next == CharAt(t, p)
      Types(s, range, paired) ==
        [change |-> Change(p, p, s), range |-> range, paired |-> paired]
      closes == \/ c \in Opens /\ next \notin Word
                \/ c \in Quote /\ next \notin Word \cup {c} /\ CharAt(t, p - 1) \notin Word
  IN  CASE c \in Closes \cup Quote /\ next = c -> Types(<< >>, SkipOver(t, r), TRUE)
        [] closes -> Types(PairOf(c), InsidePair(t, r), TRUE)
        [] OTHER  -> Types(<<c>>, r, FALSE)

\* A range at a pair is put where it would be if it were the only one.
InsertChar(ed, c) ==
  LET Type(r) == Typed(ed.text, r, c)
  IN  EditTo(ed, PerRange(ed.sel, LAMBDA r : <<Type(r).change>>),
             LAMBDA l : Transform(ed.sel, LAMBDA r :
               IF Type(r).paired THEN Type(r).range ELSE MapRange(l, r)),
             ed.mode)

\* Also what InsertTab does, with an indentation.
InsertText(ed, s) ==
  LET At(r) == Cursor(ed.text, r)
  IN  EditMapped(ed, PerRange(ed.sel, LAMBDA r : <<Change(At(r), At(r), s)>>), ed.mode)

(***************************************************************************)
(* New lines                                                               *)
(***************************************************************************)
IsCommentLine(t, l) == CharAt(t, LineStart(t, l) + Indentation(t, l)) = Token

\* What a line opened behind position p of line l begins with.
IndentBehind(t, l, p, continue) ==
  LET indent == Spaces(Indentation(t, l))
      ink    == {q \in LineStart(t, l) .. p - 1 : CharAt(t, q) # Space}
      last   == CharAt(t, Max(ink))
  IN  IF continue /\ IsCommentLine(t, l) THEN indent \o <<Token, Space>>
      ELSE IF /\ ink # {} /\ last \in IndentsAfter
              /\ ~(last \in Opens /\ CharAt(t, p) = PairOf(last)[2])
      THEN indent \o Unit
      ELSE indent

\* The change a new line makes at p, and how far the cursor goes from there.
NewlineAt(t, p) ==
  LET l      == LineOf(t, p)
      ink    == {q \in LineStart(t, l) .. p - 1 : CharAt(t, q) # Space}
      indent == IndentBehind(t, l, p, ContinueComments)
      inPair == ~(ContinueComments /\ IsCommentLine(t, l)) /\ InAutoPair(t, p)
      behind == <<Newline>> \o indent
      Trimmed(s, off) == [change |-> Change(Max(ink) + 1, p, s), off |-> off]
  IN  CASE ink = {} -> [change |-> Change(LineStart(t, l), LineStart(t, l), <<Newline>>),
                        off |-> 1]
        [] ink # {} /\ ~inPair -> Trimmed(behind, Len(behind))
        [] ink # {} /\ inPair  -> Trimmed(behind \o Unit \o behind, Len(behind) + IndentWidth)

InsertNewline(ed) ==
  LET New(r) == NewlineAt(ed.text, Cursor(ed.text, r))
      Moved(l, r) == Point(MapPos(l, New(r).change.from, "before") + New(r).off)
  IN  EditTo(ed, PerRange(ed.sel, LAMBDA r : <<New(r).change>>),
             LAMBDA l : Transform(ed.sel, LAMBDA r : Moved(l, r)), ed.mode)

\* Every range opens n lines, each with a cursor of its own.  Cursors at one
\* place are told apart by what was opened there before.
OpenLines(ed, n, below, continue) ==
  LET t == ed.text
      Line(r)   == IF below THEN LastLine(t, r) ELSE FirstLine(t, r)
      First(r)  == ~below /\ Line(r) = 0
      At(r)     == CASE First(r) -> 0
                     [] ~First(r) /\ below  -> LineEnd(t, Line(r))
                     [] ~First(r) /\ ~below -> LineEnd(t, Line(r) - 1)
      Indent(r) == IndentBehind(t, Line(r), LineEnd(t, Line(r)), continue)
      Opened(r) == IF First(r) THEN Indent(r) \o <<Newline>> ELSE <<Newline>> \o Indent(r)
      Off(r)    == IF First(r) THEN Len(Indent(r)) ELSE Len(Opened(r))
      Open(r)   == <<Change(At(r), At(r), Repeated(Opened(r), n))>>
      Before(i) == SumFunction([k \in {j \in 1 .. i - 1 : At(ed.sel.ranges[j]) = At(ed.sel.ranges[i])}
                                  |-> n * Len(Opened(ed.sel.ranges[k]))])
      Cursors(l, i) == LET r == ed.sel.ranges[i]
                       IN  [k \in 1 .. n |-> Point(MapPos(l, At(r), "before") + Before(i)
                                                     + (k - 1) * Len(Opened(r)) + Off(r))]
      Points(l) == FlattenSeq([i \in DOMAIN ed.sel.ranges |-> Cursors(l, i)])
  IN  EditTo(ed, PerRange(ed.sel, Open),
             LAMBDA l : NewSelection(Points(l), ed.sel.primary), "insert")

ChangeSelection(ed, yank) ==
  LET deleted == DeleteSelection(ed, yank, "insert")
  IN  IF IsLinewise(ed.text, ed.sel) THEN OpenLines(deleted, 1, FALSE, FALSE) ELSE deleted

AddNewlines(ed, n, above) ==
  LET t == ed.text
      Line(r) == IF above THEN FirstLine(t, r) ELSE LastLine(t, r) + 1
      lines   == {Line(ed.sel.ranges[i]) : i \in DOMAIN ed.sel.ranges} \cap Lines(t)
      Add(l)  == <<Change(LineStart(t, l), LineStart(t, l), Repeated(<<Newline>>, n))>>
  IN  EditMapped(ed, PerLine(lines, Add), ed.mode)

(***************************************************************************)
(* Yanking, pasting and replacing                                          *)
(***************************************************************************)
Yank(ed) ==
  [ed EXCEPT !.register = Yanked(ed.text, ed.sel, LAMBDA r : r), !.mode = "normal"]

ValueFor(register, i) == register[Smaller(i, Len(register))]

Paste(ed, before) ==
  LET t == ed.text
      linewise == \E i \in DOMAIN ed.register :
                    ed.register[i] # << >> /\ Last(ed.register[i]) = Newline
      At(r) == CASE before /\ ~linewise  -> From(r)
                 [] before /\ linewise   -> LineStart(t, LineOf(t, From(r)))
                 [] ~before /\ ~linewise -> To(r)
                 [] ~before /\ linewise  -> LineLimit(t, LineOf(t, To(r)))
      ranges  == ed.sel.ranges
      changes == [i \in DOMAIN ranges |->
                    Change(At(ranges[i]), At(ranges[i]), ValueFor(ed.register, i))]
      Points(l) == Transform(ed.sel, LAMBDA r : Point(MapPos(l, At(r), "before")))
  IN  IF ed.register = << >> THEN [ed EXCEPT !.mode = "normal"]
      ELSE [EditTo(ed, changes, Points, "normal") EXCEPT !.mode = "normal"]

NotPoints(sel) == SelectSeq(sel.ranges, LAMBDA r : ~IsPoint(r))

\* Only the ranges that are not points are replaced, and only they count.
ReplaceWithYanked(ed, n) ==
  LET wide    == NotPoints(ed.sel)
      changes == [i \in DOMAIN wide |->
                    Change(From(wide[i]), To(wide[i]), Repeated(ValueFor(ed.register, i), n))]
  IN  IF ed.register = << >> THEN ed ELSE EditToPoints(ed, changes, From, "normal")

\* Every character of the selection, by another.
ReplaceChars(ed, New(_)) ==
  LET wide    == NotPoints(ed.sel)
      Replaced(r) == [i \in DOMAIN Fragment(ed.text, r) |-> New(Fragment(ed.text, r)[i])]
  IN  EditToPoints(ed, [i \in DOMAIN wide |->
                          Change(From(wide[i]), To(wide[i]), Replaced(wide[i]))],
                   From, "normal")

\* The texts of the ranges move on to the ranges ahead, or behind.
RotateContents(ed, n, ahead) ==
  LET ranges  == ed.sel.ranges
      k       == Len(ranges)
      steps   == IF ahead THEN Smaller(n, k) ELSE -Smaller(n, k)
      rotated == [i \in DOMAIN ranges |-> Fragment(ed.text, ranges[((i - 1 - steps) % k) + 1])]
      changes == [i \in DOMAIN ranges |-> Change(From(ranges[i]), To(ranges[i]), rotated[i])]
      Width(r) == To(r) - From(r)
      Grown(i) == SumFunction([j \in 1 .. i - 1 |-> Len(rotated[j]) - Width(ranges[j])])
      moved   == [i \in DOMAIN ranges |-> LET at == From(ranges[i]) + Grown(i)
                                          IN  Span(at, at + Len(rotated[i]))]
  IN  EditTo(ed, changes,
             LAMBDA l : NewSelection(moved, ((ed.sel.primary - 1 + steps) % k) + 1), ed.mode)

(***************************************************************************)
(* Lines                                                                   *)
(***************************************************************************)
\* An indentation that is not whole is made whole first.
Indent(ed, n) ==
  LET t == ed.text
      Add(l) == LET over == Indentation(t, l) % IndentWidth
                IN  IF IsBlankLine(t, l) THEN << >>
                    ELSE <<Change(LineStart(t, l), LineStart(t, l), Spaces(n * IndentWidth - over))>>
  IN  EditMapped(ed, PerLine(SelectedLines(t, ed.sel), Add), "normal")

Unindent(ed, n) ==
  LET t == ed.text
      Less(l) == LET width == Smaller(Indentation(t, l), n * IndentWidth)
                 IN  IF width = 0 THEN << >>
                     ELSE <<Deletion(LineStart(t, l), LineStart(t, l) + width)>>
  IN  EditMapped(ed, PerLine(SelectedLines(t, ed.sel), Less), "normal")

\* All cursors in one column, the last.
AlignSelections(ed) ==
  LET t == ed.text
      Column(r) == Cursor(t, r) - LineStart(t, CursorLine(t, r))
      column == Max({Column(ed.sel.ranges[i]) : i \in DOMAIN ed.sel.ranges})
      Pad(r) == IF Column(r) = column THEN << >>
                ELSE <<Change(Cursor(t, r), Cursor(t, r), Spaces(column - Column(r)))>>
  IN  EditMapped(ed, PerRange(ed.sel, Pad), ed.mode)

\* The line behind line l, put behind it: the marker of a comment that goes on
\* is left out.
JoinOf(t, l, token) ==
  LET end   == LineEnd(t, l + 1)
      Ink(p) == LeastOr({q \in p .. end : CharAt(t, q) # Space}, end)
      ink   == Ink(LineStart(t, l + 1))
      own   == IF CharAt(t, ink) = Token THEN Token ELSE NoChar
      skip  == IF own = Token /\ token = Token THEN Ink(ink + 1) ELSE ink
  IN  [change |-> Change(LineEnd(t, l), skip, IF skip = end THEN << >> ELSE <<Space>>),
       token  |-> IF own = Token THEN Token ELSE token]

\* The joins of a range: of two lines, or of all that it touches.
JoinsOf(t, r) ==
  LET first == FirstLine(t, r)
      last  == LastLine(t, r)
      until == IF first = last THEN Smaller(last + 1, LenLines(t) - 1) ELSE last
      Add(x, l) == LET join == JoinOf(t, l, x.token)
                   IN  [changes |-> Append(x.changes, join.change), token |-> join.token]
  IN  FoldLeft(Add, [changes |-> << >>,
                     token |-> IF IsCommentLine(t, first) THEN Token ELSE NoChar],
               [i \in 1 .. until - first |-> first + i - 1]).changes

\* A point at each of the spaces that a list of joins puts in.
JoinedSpaces(changes) ==
  LET Shrunk(i) == SumFunction([j \in 1 .. i - 1 |->
                     changes[j].to - changes[j].from - Len(changes[j].text)])
      spaced == SelectSeq([i \in DOMAIN changes |-> i], LAMBDA i : changes[i].text # << >>)
  IN  [k \in DOMAIN spaced |-> Point(changes[spaced[k]].from - Shrunk(spaced[k]))]

JoinBy(ed, changes, withSpace) ==
  LET Select(l, spaces) == IF withSpace /\ spaces # << >> THEN NewSelection(spaces, 1)
                           ELSE MapSelection(ed.sel, l)
  IN  EditTo(ed, changes, LAMBDA l : Select(l, JoinedSpaces(changes)), ed.mode)

JoinSelections(ed, withSpace) ==
  JoinBy(ed, SetToSortSeq(ToSet(PerRange(ed.sel, LAMBDA r : JoinsOf(ed.text, r))),
                          LAMBDA x, y : x.from < y.from),
         withSpace)

(***************************************************************************)
(* Comments                                                                *)
(***************************************************************************)
ExitSelectMode(ed) == [ed EXCEPT !.mode = IF @ = "select" THEN "normal" ELSE @]

LinesToComment(t, spans) ==
  {l \in UNION {spans[i].anchor .. spans[i].head : i \in DOMAIN spans} : ~IsBlankLine(t, l)}

LineComment(t, lines) ==
  LET Ink(l) == LineStart(t, l) + Indentation(t, l)
  IN  [lines     |-> lines,
       commented |-> \A l \in lines : CharAt(t, Ink(l)) = Token,
       margin    |-> IF \A l \in lines : CharAt(t, Ink(l) + 1) = Space THEN 1 ELSE 0,
       column    |-> LeastOr({Indentation(t, l) : l \in lines}, 0)]

LineComments(t, sel) == LineComment(t, LinesToComment(t, LineSpans(t, sel)))

\* Mutant: the margin of a comment is left in the text.
ToggleLinesNoMargin(t, found) ==
  LET Toggle(p) == IF found.commented THEN Deletion(p, p + 1)
                   ELSE Change(p, p, <<Token, Space>>)
  IN  PerLine(found.lines, LAMBDA l : <<Toggle(LineStart(t, l) + found.column)>>)

ToggleLines(t, found) ==
  LET Toggle(p) == IF found.commented THEN Deletion(p, p + 1 + found.margin)
                   ELSE Change(p, p, <<Token, Space>>)
  IN  PerLine(found.lines, LAMBDA l : <<Toggle(LineStart(t, l) + found.column)>>)

ToggleLineComments(ed) ==
  ExitSelectMode(EditMapped(ed, ToggleLines(ed.text, LineComments(ed.text, ed.sel)), ed.mode))

\* What a range says of a block comment: its first and last ink, whether they
\* are the two ends of a comment, and the spaces just inside of these.
BlockComment(t, r) ==
  LET ink    == {p \in From(r) .. To(r) - 1 : ~IsBlank(CharAt(t, p))}
      first  == Min(ink)
      last   == Max(ink)
      Margin(p) == IF CharAt(t, p) = Space THEN 1 ELSE 0
  IN  IF ink = {} THEN [kind |-> "whitespace", range |-> r]
      ELSE [kind  |-> IF first < last /\ CharAt(t, first) = BlockStart
                         /\ CharAt(t, last) = BlockEnd THEN "commented" ELSE "uncommented",
            range |-> r, first |-> first, last |-> last,
            after |-> IF first + 1 < To(r) THEN Margin(first + 1) ELSE 0,
            before |-> IF last - first = 2 THEN 0 ELSE Margin(last - 1)]

BlockComments(t, sel) == [i \in DOMAIN sel.ranges |-> BlockComment(t, sel.ranges[i])]

AllCommented(found) ==
  LET kinds == {found[i].kind : i \in DOMAIN found}
  IN  "commented" \in kinds /\ "uncommented" \notin kinds

Uncomment(found) ==
  LET touched == SelectSeq(found, LAMBDA x : x.kind = "commented")
  IN  FlattenSeq([i \in DOMAIN touched |->
        <<Deletion(touched[i].first, touched[i].first + 1 + touched[i].after),
          Deletion(touched[i].last - touched[i].before, touched[i].last + 1)>>])

MakeComments(found) ==
  LET touched == SelectSeq(found, LAMBDA x : x.kind = "uncommented")
  IN  FlattenSeq([i \in DOMAIN touched |->
        <<Change(touched[i].first, touched[i].first, <<BlockStart, Space>>),
          Change(touched[i].last + 1, touched[i].last + 1, <<Space, BlockEnd>>)>>])

\* The ranges, around the comments made of them.
AroundComments(found, primary) ==
  LET Grown(i) == 4 * Cardinality({j \in 1 .. i - 1 : found[j].kind = "uncommented"})
      Around(i) == LET r == found[i].range
                   IN  IF found[i].kind = "uncommented"
                       THEN Directed(r, From(r) + Grown(i), found[i].last + 5 + Grown(i))
                       ELSE Span(From(r) + Grown(i), To(r) + Grown(i))
  IN  NewSelection([i \in DOMAIN found |-> Around(i)], Smaller(primary, Len(found)))

CommentBy(ed, changes, Select(_)) ==
  IF ~InOrder(Len(ed.text), changes) THEN ed
  ELSE ExitSelectMode(IF changes = << >> THEN [ed EXCEPT !.sel = Select(NoList)]
                      ELSE EditTo(ed, changes, Select, ed.mode))

ToggleBlocks(ed, found, primary) ==
  IF AllCommented(found)
  THEN CommentBy(ed, Uncomment(found), LAMBDA l : MapSelection(ed.sel, l))
  ELSE CommentBy(ed, MakeComments(found), LAMBDA l : AroundComments(found, primary))

ToggleBlockComments(ed) ==
  ToggleBlocks(ed, BlockComments(ed.text, ed.sel), ed.sel.primary)

\* Block comments when there are any to take away, of the lines or of the
\* ranges, else line comments.
ToggleFound(ed, lines, primary, ranges) ==
  CASE AllCommented(lines) -> ToggleBlocks(ed, lines, primary)
    [] ~AllCommented(lines) /\ AllCommented(ranges) -> ToggleBlocks(ed, ranges, ed.sel.primary)
    [] OTHER -> ToggleLineComments(ed)

ToggleComments(ed) ==
  LET Toggle(split) == ToggleFound(ed, BlockComments(ed.text, split), split.primary,
                                   BlockComments(ed.text, ed.sel))
  IN  Toggle(SplitLines(ed.text, ed.sel))

(***************************************************************************)
(* Pairs around the ranges                                                 *)
(***************************************************************************)
\* The places of the later characters are those in the new text.
SurroundAdd(ed, c) ==
  LET pair == PairOf(c)
      Off(i) == 2 * (i - 1)
      ranges == ed.sel.ranges
      Around(i) == LET from == From(ranges[i]) + Off(i)
                       to   == To(ranges[i]) + Off(i) + 1
                   IN  <<Change(from, from, <<pair[1]>>), Change(to, to, <<pair[2]>>)>>
      moved == [i \in DOMAIN ranges |-> Span(From(ranges[i]) + Off(i), To(ranges[i]) + Off(i) + 2)]
  IN  EditTo(ed, FlattenSeq([i \in DOMAIN ranges |-> Around(i)]),
             LAMBDA l : NewSelection(moved, ed.sel.primary), "normal")

\* The characters of all pairs become New ones.
Exchange(ed, pairs, New(_)) ==
  LET Ends(pair) == <<Change(pair.anchor, pair.anchor + 1, New(1)),
                      Change(pair.head, pair.head + 1, New(2))>>
      changes == FlattenSeq([i \in DOMAIN pairs |-> Ends(pairs[i])])
  IN  EditMapped(ed, SortSeq(changes, LAMBDA x, y : x.from < y.from), "normal")

SurroundDelete(ed, c, n) ==
  Exchange(ed, SurroundPos(ed.sel, LAMBDA r : FindSurround(ed.text, c, r, n)),
           LAMBDA k : << >>)

SurroundReplace(ed, c, n, wanted) ==
  Exchange(ed, SurroundPos(ed.sel, LAMBDA r : FindSurround(ed.text, c, r, n)),
           LAMBDA k : <<PairOf(wanted)[k]>>)

(***************************************************************************)
(* Modes                                                                   *)
(***************************************************************************)
SelectMode(ed) ==
  [ed EXCEPT !.sel = SelectModeSelection(ed.text, @), !.mode = "select"]

InsertMode(ed) == [ed EXCEPT !.sel = InsertModeSelection(@), !.mode = "insert"]

AppendMode(ed) ==
  [ed EXCEPT !.sel = AppendModeSelection(ed.text, @), !.mode = "insert", !.restore = TRUE]

\* The spaces of a line with nothing else on it, when the cursor is at its end.
StripIndent(ed) ==
  LET t == ed.text
      p == Cursor(t, Primary(ed.sel))
      l == LineOf(t, p)
  IN  IF p = LineEnd(t, l) /\ IsBlankLine(t, l) /\ LineStart(t, l) < p
      THEN EditMapped(ed, <<Deletion(LineStart(t, l), p)>>, ed.mode) ELSE ed

NormalMode(ed) ==
  LET left     == StripIndent([ed EXCEPT !.mode = "normal"])
      restored == [left EXCEPT !.sel = RestoredSelection(left.text, @), !.restore = FALSE]
  IN  CASE ed.mode = "normal" -> ed
        [] ed.mode # "normal" /\ ed.restore  -> restored
        [] ed.mode # "normal" /\ ~ed.restore -> left

=============================================================================
