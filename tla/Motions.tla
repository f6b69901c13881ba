------------------------------- MODULE Motions -------------------------------
(***************************************************************************)
(* Where the motions and text objects take a range: internal/core          *)
(* movement*.go, textobject*.go, surround*.go and matchbrackets.go, and    *)
(* the motion commands of internal/view/action.  Soft wrap is off.         *)
(***************************************************************************)
EXTENDS TextRanges

CONSTANTS
  Under, Upper, Lower,   \* word characters: the underscore, letters
  Bracket,               \* pairs of brackets, <<open, close>>
  Quote,                 \* characters that open and close a pair
  MaxPlaintextScan       \* how far off a matching bracket is looked for

ASSUME MotionsAssumption ==
  /\ {Under} \cup Upper \cup Lower \subseteq Word
  /\ Under \notin Upper \cup Lower /\ Upper \cap Lower = {}
  /\ Bracket \subseteq Char \X Char /\ Quote \subseteq Char
  /\ MaxPlaintextScan \in Nat \ {0}

Category(c) == CASE c = Newline -> "eol"
                 [] c = Space   -> "space"
                 [] c \in Word  -> "word"
                 [] OTHER       -> "punctuation"

IsBlank(c) == c \in {Newline, Space, NoChar}

(***************************************************************************)
(* Words.  A target is the size of the words, whether it lies ahead, and   *)
(* whether it is the start of a word as one comes to it.                   *)
(***************************************************************************)
WordTarget(size, ahead, start) == [size |-> size, ahead |-> ahead, start |-> start]

WordTargets == [size : {"word", "long", "sub"}, ahead : BOOLEAN, start : BOOLEAN]

IsBoundary(target, a, b) ==
  LET differ == Category(a) # Category(b)
      inWord == Category(a) = "word" /\ Category(b) = "word"
  IN  CASE target.size = "word" -> differ
        [] target.size = "long" ->
             differ /\ {Category(a), Category(b)} # {"word", "punctuation"}
        [] target.size = "sub" ->
             \/ differ
             \/ inWord /\ (a = Under) # (b = Under)
             \/ inWord /\ a # Under /\ b # Under /\
                  IF target.ahead THEN a \in Lower /\ b \in Upper
                                  ELSE a \in Upper /\ b \in Lower

\* Is the target reached between a, passed last, and b, which comes next?
Reached(target, a, b) ==
  LET stops == {Newline, Space} \cup (IF target.size = "sub" THEN {Under} ELSE {})
  IN  /\ IsBoundary(target, a, b)
      /\ \/ b = Newline
         \/ IF target.start = target.ahead THEN b \notin stops ELSE a \notin stops

\* One word on.  Ch(0) is the character passed last, Ch(1) the next one.
ToTarget(t, r, target) ==
  LET Ch(i)  == CharAt(t, IF target.ahead THEN r.head + i - 1 ELSE r.head - i)
      At(i)  == IF target.ahead THEN r.head + i ELSE r.head - i
      k      == Min({i \in 0 .. Len(t) : Ch(i + 1) # Newline})
      starts == \/ Ch(k) = Newline
                \/ Ch(k + 1) # NoChar
                     /\ (Ch(k) = NoChar \/ Reached(target, Ch(k), Ch(k + 1)))
      stop   == Min({i \in k + 1 .. Len(t) + 1 :
                       \/ Ch(i) = NoChar
                       \/ i > k + 1 /\ Reached(target, Ch(i - 1), Ch(i))})
  IN  Span(IF starts THEN At(k) ELSE r.anchor, At(stop - 1))

\* Mutant: a counted move covers all the words it has gone over.
MoveWordOverAll(t, r, target, n) ==
  LET start == Span(r.head, IF target.ahead THEN NextPos(t, r.head) ELSE PrevPos(t, r.head))
  IN  Span(start.anchor, Times(LAMBDA q : ToTarget(t, q, target), start, n).head)

MoveWord(t, r, target, n) ==
  LET at == r.head
      start == CASE target.ahead /\ r.anchor < at    -> Span(PrevPos(t, at), at)
                 [] target.ahead /\ r.anchor >= at   -> Span(at, NextPos(t, at))
                 [] ~target.ahead /\ r.anchor < at   -> Span(at, PrevPos(t, at))
                 [] ~target.ahead /\ r.anchor >= at  -> Span(NextPos(t, at), at)
      Step(q) == ToTarget(t, q, target)
  IN  IF at = (IF target.ahead THEN Len(t) ELSE 0) THEN r ELSE Times(Step, start, n)

ExtendWord(t, r, target, n) ==
  PutCursor(t, r, Cursor(t, MoveWord(t, r, target, n)), TRUE)

(***************************************************************************)
(* Characters and lines.  The commands that extend leave the anchor where  *)
(* it is, the others make the range a point.                               *)
(***************************************************************************)
MoveBy(t, r, by, extend) ==
  PutCursor(t, r, Smaller(Larger(Cursor(t, r) + by, 0), Len(t)), extend)

\* Mutant: the goal is forgotten on a line that is too short for it.
GoalColumnClamped(t, r, goal) == Cursor(t, r) - LineStart(t, CursorLine(t, r))

\* The column to keep in a run of vertical moves is the goal of the last move
\* or the cursor's own, whichever is further.
GoalColumn(t, r, goal) ==
  Larger(goal, Cursor(t, r) - LineStart(t, CursorLine(t, r)))

MoveVertically(t, r, by, goal, extend) ==
  LET line == Smaller(Larger(CursorLine(t, r) + by, 0), LenLines(t) - 1)
      last == Larger(LineEnd(t, line) - LineStart(t, line) - 1, 0)
  IN  PutCursor(t, r, LineStart(t, line) + Smaller(GoalColumn(t, r, goal), last),
                extend)

ToLineStart(t, r, extend) ==
  PutCursor(t, r, LineStart(t, CursorLine(t, r)), extend)

ToLineEnd(t, r, extend) ==
  LET line == CursorLine(t, r)
  IN  PutCursor(t, r, Larger(LineEnd(t, line) - 1, LineStart(t, line)), extend)

ToLineEndNewline(t, r, extend) ==
  PutCursor(t, r, LineEnd(t, CursorLine(t, r)), extend)

ToNonWhitespace(t, r, extend) ==
  LET line == CursorLine(t, r)
  IN  PutCursor(t, r, LineStart(t, line) + Indentation(t, line), extend)

\* An empty last line is not a line to go to.
LastLineToGo(t) ==
  LET last == LenLines(t) - 1
  IN  IF last > 0 /\ LineStart(t, last) = Len(t) THEN last - 1 ELSE last

ToFileStart(t, r, extend) == PutCursor(t, r, 0, extend)
ToLastLine(t, r, extend) == PutCursor(t, r, LineStart(t, LastLineToGo(t)), extend)
ToFileEnd(t, r) == PutCursor(t, r, Len(t), TRUE)

\* Line and column count from 1.
GotoPosition(t, r, line, column, extend) ==
  LET target == Smaller(line - 1, LastLineToGo(t))
      inLine == Smaller(LineStart(t, target) + column - 1, LineEnd(t, target))
  IN  PutCursor(t, r, IF column > 1 THEN inLine ELSE LineStart(t, target), extend)

\* Columns count from 1, too.
GotoColumn(t, r, column, extend) ==
  LET line == CursorLine(t, r)
  IN  PutCursor(t, r, Smaller(LineStart(t, line) + column - 1, LineEnd(t, line)), extend)

\* The nth of the least, or of the greatest, of a set: Nowhere if it has fewer.
NthOf(S, n, least) ==
  LeastOr({m \in S : n = Cardinality({k \in S : IF least THEN k <= m ELSE k >= m})},
          Nowhere)

\* f, t, F and T: the nth c ahead or behind; "till" stays one character short.
FindChar(t, r, c, n, ahead, till, extend) ==
  LET cursor == Cursor(t, r)
      start  == IF ahead THEN NextPos(t, cursor) + (IF till THEN 1 ELSE 0)
                         ELSE cursor - (IF till THEN 2 ELSE 1)
      found  == NthOf({p \in 0 .. Len(t) - 1 :
                         CharAt(t, p) = c /\ IF ahead THEN p >= start ELSE p <= start},
                      n, ahead)
      short  == IF till THEN (IF ahead THEN -1 ELSE 1) ELSE 0
  IN  IF found = Nowhere THEN r
      ELSE PutCursor(t, IF extend THEN r ELSE Point(cursor), found + short, TRUE)

\* Paragraphs end with blank lines; all of those that follow are skipped.
ToNextParagraph(t, r, n, extend) ==
  LET lines == LenLines(t)
      stops == {l \in CursorLine(t, r) + 2 .. lines :
                  IsBlankLine(t, l - 1) /\ (l = lines \/ ~IsBlankLine(t, l))}
      nth   == NthOf(stops, n, TRUE)
      line  == IF nth = Nowhere THEN lines - 1 ELSE Smaller(nth, lines - 1)
  IN  PutCursor(t, r, LineStart(t, line), extend)

ToPrevParagraph(t, r, n, extend) ==
  LET stops == {l \in 0 .. CursorLine(t, r) - 1 :
                  IsBlankLine(t, l) /\ (l = 0 \/ ~IsBlankLine(t, l - 1))}
      line  == Larger(NthOf(stops, n, FALSE) - 1, 0)
  IN  PutCursor(t, r, LineStart(t, line), extend)

(***************************************************************************)
(* Whole lines                                                             *)
(***************************************************************************)
LinesFrom(t, r) == LineStart(t, FirstLine(t, r))
LinesTo(t, r)   == LineLimit(t, LastLine(t, r))

ExtendToLineBounds(t, r) == Directed(r, LinesFrom(t, r), LinesTo(t, r))

ShrinkToLineBounds(t, r) ==
  LET first == FirstLine(t, r)
      last  == LastLine(t, r)
      from  == IF From(r) = LinesFrom(t, r) THEN From(r) ELSE LineStart(t, first + 1)
      to    == IF To(r) = LinesTo(t, r) THEN To(r) ELSE LineStart(t, last)
  IN  IF first = last THEN r ELSE Directed(r, from, to)

ExtendLineBelow(t, r) ==
  LET next == Smaller(LastLine(t, r) + 1, LenLines(t) - 1)
  IN  IF From(r) = LinesFrom(t, r) /\ To(r) = LinesTo(t, r)
      THEN Span(LinesFrom(t, r), LineLimit(t, next))
      ELSE Span(LinesFrom(t, r), LinesTo(t, r))

\* The line behind the last one has no start, and the error makes it 0.
LineStartOr0(t, l) == IF l \in Lines(t) THEN LineStart(t, l) ELSE 0

SelectLines(t, r, n, above) ==
  LET Sat(l)  == Smaller(l, LenLines(t))
      whole   == /\ From(r) = LinesFrom(t, r)
                 /\ To(r) = LineStartOr0(t, Sat(LastLine(t, r) + 1))
      steps   == IF whole THEN n ELSE n - 1
      fixed   == IF IsForward(r) THEN FirstLine(t, r) ELSE LastLine(t, r)
      moving  == IF IsForward(r) THEN LastLine(t, r) ELSE FirstLine(t, r)
      head    == IF above THEN Larger(moving - steps, 0) ELSE Sat(moving + steps)
      Down(l) == LineStartOr0(t, Sat(l + 1))
  IN  IF fixed < head \/ (fixed = head /\ ~above)
      THEN Span(LineStartOr0(t, fixed), Down(head))
      ELSE Span(Down(fixed), LineStartOr0(t, head))

(***************************************************************************)
(* Text objects                                                            *)
(***************************************************************************)
WordObject(t, r, around, long) ==
  LET pos    == Cursor(t, r)
      n      == Len(t)
      Cat(p) == Category(CharAt(t, p))
      Apart(p, q) == ~long /\ Cat(p) # Cat(q)
      from   == GreatestOr({p + 1 : p \in {q \in 0 .. pos - 1 :
                  IsBlank(CharAt(t, q)) \/ (q + 1 # n /\ Apart(q, q + 1))}}, 0)
      to     == IF IsBlank(CharAt(t, pos)) THEN pos
                ELSE LeastOr({p \in pos + 1 .. n - 1 :
                       IsBlank(CharAt(t, p)) \/ Apart(p, p - 1)}, n)
      ahead  == LeastOr({p \in to .. n : CharAt(t, p) # Space}, n)
      behind == GreatestOr({p \in 1 .. from : CharAt(t, p - 1) # Space}, 0)
  IN  CASE from = to \/ ~around -> Span(from, to)
        [] from # to /\ around /\ ahead > to -> Span(from, ahead)
        [] OTHER -> Span(behind, to)

ParagraphObject(t, r, around, n) ==
  LET N        == LenLines(t)
      Blank(l) == l \notin Lines(t) \/ IsBlankLine(t, l)
      Down(l, blank) == Min({m \in l .. N : m = N \/ Blank(m) # blank})
      Up(l, blank)   == Max({m \in 0 .. l : m = 0 \/ Blank(m - 1) # blank})
      Back(l)  == Up(Up(l, TRUE), FALSE)
      line     == CursorLine(t, r)
      enters   == Blank(line) /\ ~Blank(line + 1)
      leaves   == Blank(line - 1) /\ ~Blank(line)
      jumps    == enters /\ PrevPos(t, LineLimit(t, line)) = Cursor(t, r)
      first    == IF enters \/ leaves THEN line + 1 ELSE line
      from     == IF jumps THEN first ELSE Back(first)
      Step(x)  == LET mid == Down(x.line, FALSE)
                  IN  [line |-> Down(mid, TRUE),
                       done |-> x.done + (IF mid > x.line THEN 1 ELSE 0)]
      end      == Times(Step, [line |-> IF jumps THEN line + 1 ELSE line, done |-> 0], n)
      back     == IF end.done # n /\ end.line >= N THEN Back(from) ELSE from
      to       == IF around THEN end.line
                  ELSE Larger(back, Up(end.line, TRUE))
      Pos(l)   == IF l < N THEN LineStart(t, l) ELSE Len(t)
  IN  Span(Pos(back), Pos(to))

(***************************************************************************)
(* Pairs                                                                   *)
(***************************************************************************)
Opens  == {b[1] : b \in Bracket}
Closes == {b[2] : b \in Bracket}

PairOf(c) ==
  IF c \in Opens \cup Closes THEN CHOOSE b \in Bracket : c \in {b[1], b[2]} ELSE <<c, c>>

CountOf(t, c, from, to) == Cardinality({p \in from .. to : CharAt(t, p) = c})

\* Mutant: brackets of the same pair in between are not counted.
CloseAfterNext(t, pair, p) ==
  LeastOr({q \in p + 1 .. Len(t) - 1 : CharAt(t, q) = pair[2]}, Nowhere)

\* The bracket that closes the pair position p is in, and the one that opens it.
CloseAfter(t, pair, p) ==
  LeastOr({q \in p + 1 .. Len(t) - 1 :
             CountOf(t, pair[2], p + 1, q) > CountOf(t, pair[1], p + 1, q)}, Nowhere)

OpenBefore(t, pair, p) ==
  GreatestOr({q \in 0 .. p - 1 :
                CountOf(t, pair[1], q, p - 1) > CountOf(t, pair[2], q, p - 1)}, Nowhere)

FindMatchingBracket(t, p) ==
  LET c  == CharAt(t, p)
      at == CASE c \in Opens  -> CloseAfter(t, PairOf(c), p)
              [] c \in Closes -> OpenBefore(t, PairOf(c), p)
              [] OTHER        -> Nowhere
  IN  IF at \in p - MaxPlaintextScan .. p + MaxPlaintextScan THEN at ELSE Nowhere

FindNthOpen(t, pair, p, n) ==
  LET Step(q) == IF q = Nowhere THEN q ELSE OpenBefore(t, pair, q)
  IN  CASE CharAt(t, p) = NoChar      -> Nowhere
        [] CharAt(t, p) = pair[1]     -> p
        [] CharAt(t, p) \notin {NoChar, pair[1]} /\ CharAt(t, p - 1) = pair[1] -> p - 1
        [] OTHER                      -> Times(Step, p, n)

FindNthClose(t, pair, p, n) ==
  LET Step(q) == IF q = Nowhere THEN q ELSE CloseAfter(t, pair, q)
  IN  CASE CharAt(t, p) = NoChar  -> Nowhere
        [] CharAt(t, p) = pair[2] -> p
        [] OTHER                  -> Times(Step, p, n)

NoPair == Span(Nowhere, Nowhere)

\* The nth pair of c around the cursor.
FindNthPairs(t, c, r, n) ==
  LET pair  == PairOf(c)
      pos   == Cursor(t, r)
      Where(S, least) == NthOf({p \in S : CharAt(t, p) = c}, n, least)
      open  == IF pair[1] = pair[2] THEN Where(0 .. pos - 1, FALSE)
                                    ELSE FindNthOpen(t, pair, pos, n)
      close == IF pair[1] = pair[2] THEN Where(pos .. Len(t) - 1, TRUE)
                                    ELSE FindNthClose(t, pair, pos, n)
  IN  IF \/ Len(t) < 2 \/ To(r) >= Len(t) \/ Nowhere \in {open, close}
         \/ pair[1] = pair[2] /\ CharAt(t, pos) = c
      THEN NoPair
      ELSE Span(open, close)

\* The nth nearest pair of brackets around r.  Brackets that open ahead of the
\* scan wait on a stack for the one that closes them.
FindNthClosestPairs(t, r, n) ==
  LET pos == From(r)
      Scan(x, p) ==
        LET c     == CharAt(t, p)
            open  == PairOf(c)[1]
            at    == FindNthOpen(t, PairOf(c), p, 1)
            wraps == at # Nowhere /\ at <= pos /\ p >= To(r) - 1
        IN  CASE x.found # NoPair \/ c \notin Opens \cup Closes -> x
              [] x.found = NoPair /\ c \in Opens -> [x EXCEPT !.stack = Append(@, c)]
              [] x.found = NoPair /\ c \in Closes /\ x.stack # << >> /\ Last(x.stack) = open ->
                   [x EXCEPT !.stack = Front(@)]
              [] x.found = NoPair /\ c \in Closes /\ ~(x.stack # << >> /\ Last(x.stack) = open) ->
                   IF ~wraps THEN x
                   ELSE IF x.skip > 1 THEN [x EXCEPT !.skip = @ - 1]
                   ELSE [x EXCEPT !.found = Span(at, p)]
      start == Larger(pos - 1, 0)
      all   == FoldLeft(Scan, [stack |-> << >>, skip |-> n, found |-> NoPair],
                        [i \in 1 .. Len(t) - start |-> start + i - 1])
  IN  all.found

\* One pair for every range, or none at all when one has no pair or two share one.
AllOrNone(pairs) ==
  LET Ends(i) == {pairs[i].anchor, pairs[i].head}
  IN  IF \E i \in DOMAIN pairs :
           pairs[i] = NoPair \/ \E j \in 1 .. i - 1 : Ends(i) \cap Ends(j) # {}
      THEN << >> ELSE pairs

SurroundPos(sel, Find(_)) == AllOrNone([i \in DOMAIN sel.ranges |-> Find(sel.ranges[i])])

\* Any pair when c is NoChar.
FindSurround(t, c, r, n) ==
  IF c = NoChar THEN FindNthClosestPairs(t, r, n) ELSE FindNthPairs(t, c, r, n)

PairObject(t, r, around, c, n) ==
  LET pair == FindSurround(t, c, r, n)
  IN  IF pair = NoPair THEN r
      ELSE IF around THEN Directed(r, pair.anchor, NextPos(t, pair.head))
      ELSE Directed(r, NextPos(t, pair.anchor), pair.head)

=============================================================================
