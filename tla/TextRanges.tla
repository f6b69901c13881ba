----------------------------- MODULE TextRanges -----------------------------
(***************************************************************************)
(* Lines, ranges and selections over a text: internal/core/rope.go,        *)
(* range.go and selection.go.                                              *)
(*                                                                         *)
(* Positions count the characters before them, from 0.  A character is one *)
(* grapheme and a line ends with one Newline: the model has neither        *)
(* combining characters nor CRLF.  A range is its anchor and its head; a   *)
(* selection is a sequence of ranges and the index of the primary one,     *)
(* from 1.                                                                 *)
(***************************************************************************)
EXTENDS ChangeLists

CONSTANTS Newline, Space, NoChar

ASSUME CharsAssumption ==
  /\ {Newline, Space} \subseteq Char \ Word
  /\ Newline # Space
  /\ NoChar \notin Char

CharAt(t, p) == IF p \in 0 .. Len(t) - 1 THEN t[p + 1] ELSE NoChar

Between(t, from, to) == SubSeq(t, from + 1, to)

Larger(a, b)  == IF a >= b THEN a ELSE b
Smaller(a, b) == IF a <= b THEN a ELSE b

\* The least and the greatest of a set, or another value when it is empty.
LeastOr(S, none)    == IF S = {} THEN none ELSE Min(S)
GreatestOr(S, none) == IF S = {} THEN none ELSE Max(S)

\* F, n times over.
Times(F(_), x, n) == FoldLeft(LAMBDA y, i : F(y), x, [i \in 1 .. n |-> i])

NextPos(t, p) == Smaller(p + 1, Len(t))
PrevPos(t, p) == Larger(p - 1, 0)

(***************************************************************************)
(* Lines: line 0 is the first, and an ending at the very end of the text   *)
(* has an empty line behind it.                                            *)
(***************************************************************************)
Endings(t) == {p \in 0 .. Len(t) - 1 : CharAt(t, p) = Newline}

LenLines(t) == Cardinality(Endings(t)) + 1

LineOf(t, p) == Cardinality({e \in Endings(t) : e < p})

LineStart(t, l) ==
  IF l = 0 THEN 0
  ELSE 1 + CHOOSE e \in Endings(t) : LineOf(t, e) = l - 1

LineLimit(t, l) == IF l + 1 < LenLines(t) THEN LineStart(t, l + 1) ELSE Len(t)

LineEnd(t, l) == IF l + 1 < LenLines(t) THEN LineLimit(t, l) - 1 ELSE Len(t)

Lines(t) == 0 .. LenLines(t) - 1

IsBlankLine(t, l) ==
  \A p \in LineStart(t, l) .. LineEnd(t, l) - 1 : CharAt(t, p) = Space

\* How many spaces the line begins with.
Indentation(t, l) ==
  LeastOr({p \in LineStart(t, l) .. LineEnd(t, l) - 1 : CharAt(t, p) # Space},
          LineEnd(t, l)) - LineStart(t, l)

(***************************************************************************)
(* Ranges                                                                  *)
(***************************************************************************)
Span(anchor, head) == [anchor |-> anchor, head |-> head]
Point(p)           == Span(p, p)

From(r) == Smaller(r.anchor, r.head)
To(r)   == Larger(r.anchor, r.head)

IsPoint(r)   == r.anchor = r.head
IsForward(r) == r.head >= r.anchor

Flip(r)    == Span(r.head, r.anchor)
Forward(r) == Span(From(r), To(r))

\* Range [from, to] in the direction of r.
Directed(r, from, to) == IF IsForward(r) THEN Span(from, to) ELSE Span(to, from)

Fragment(t, r) == Between(t, From(r), To(r))

Overlaps(r, q) == From(r) = From(q) \/ (To(r) > From(q) /\ To(q) > From(r))

Merge(r, q) ==
  LET from == Smaller(From(r), From(q))
      to   == Larger(To(r), To(q))
  IN  IF ~IsForward(r) /\ ~IsForward(q) THEN Span(to, from) ELSE Span(from, to)

MinWidth1(t, r) == IF IsPoint(r) THEN Span(r.anchor, NextPos(t, r.head)) ELSE r

\* The character the cursor block is on.
Cursor(t, r) == IF r.head > r.anchor THEN PrevPos(t, r.head) ELSE r.head

PutCursor(t, r, p, extend) ==
  LET anchor == CASE r.head >= r.anchor /\ p < r.anchor -> NextPos(t, r.anchor)
                  [] r.head < r.anchor /\ p >= r.anchor -> PrevPos(t, r.anchor)
                  [] OTHER -> r.anchor
  IN  IF ~extend THEN Point(p)
      ELSE Span(anchor, IF anchor <= p THEN NextPos(t, p) ELSE p)

FirstLine(t, r) == LineOf(t, From(r))
LastLine(t, r)  == LineOf(t, IF IsPoint(r) THEN To(r) ELSE To(r) - 1)
CursorLine(t, r) == LineOf(t, Cursor(t, r))

(***************************************************************************)
(* Selections                                                              *)
(***************************************************************************)
IndexOr1(ranges, r) ==
  LeastOr({i \in DOMAIN ranges : ranges[i] = r}, 1)

\* Neighbours that Join are merged, from the left; the primary range is
\* followed by its value.
Joined(ranges, primary, Join(_, _)) ==
  LET Add(x, r) ==
        LET prev   == Last(x.ranges)
            merged == Merge(prev, r)
        IN  IF x.ranges = << >> \/ ~Join(prev, r)
            THEN [x EXCEPT !.ranges = Append(@, r)]
            ELSE [ranges  |-> Append(Front(x.ranges), merged),
                  primary |-> IF x.primary \in {prev, r} THEN merged ELSE x.primary]
      all == FoldLeft(Add, [ranges |-> << >>, primary |-> primary], ranges)
  IN  [ranges |-> all.ranges, primary |-> IndexOr1(all.ranges, all.primary)]

\* Mutant: ranges that overlap are put in order and not merged.
NewSelectionSorted(ranges, primary) ==
  LET sorted == SortSeq(ranges, LAMBDA r, q : From(r) < From(q))
  IN  [ranges |-> sorted, primary |-> IndexOr1(sorted, ranges[primary])]

NewSelection(ranges, primary) ==
  IF Len(ranges) < 2 THEN [ranges |-> ranges, primary |-> primary]
  ELSE Joined(SortSeq(ranges, LAMBDA r, q : From(r) < From(q)),
              ranges[primary], Overlaps)

Single(r) == [ranges |-> <<r>>, primary |-> 1]

Primary(sel) == sel.ranges[sel.primary]

Transform(sel, F(_)) ==
  NewSelection([i \in DOMAIN sel.ranges |-> F(sel.ranges[i])], sel.primary)

MapSelection(sel, l) == Transform(sel, LAMBDA r : MapRange(l, r))

MergeAll(sel) == Single(Merge(Head(sel.ranges), sel.ranges[Len(sel.ranges)]))

MergeConsecutive(sel) ==
  Joined(sel.ranges, Primary(sel), LAMBDA r, q : To(r) = From(q))

RemoveRange(sel, i) ==
  LET left == Len(sel.ranges) - 1
  IN  [ranges  |-> [k \in 1 .. left |-> sel.ranges[IF k < i THEN k ELSE k + 1]],
       primary |-> IF i < sel.primary \/ sel.primary > left
                   THEN sel.primary - 1 ELSE sel.primary]

\* The spans of lines the ranges touch, adjacent ones made one.
LineSpans(t, sel) ==
  LET Add(out, r) ==
        LET to == LastLine(t, r)
        IN  IF out = << >> \/ Last(out).head + 1 < FirstLine(t, r)
            THEN Append(out, Span(FirstLine(t, r), to))
            ELSE [out EXCEPT ![Len(out)].head = Larger(@, to)]
  IN  FoldLeft(Add, << >>, sel.ranges)

SelectedLines(t, sel) ==
  UNION {FirstLine(t, r) .. LastLine(t, r) : r \in {sel.ranges[i] : i \in DOMAIN sel.ranges}}

\* A selection of a text: in order, without overlaps, inside.
IsSelection(t, sel) ==
  /\ sel.primary \in DOMAIN sel.ranges
  /\ \A i \in DOMAIN sel.ranges : From(sel.ranges[i]) >= 0 /\ To(sel.ranges[i]) <= Len(t)
  /\ \A i \in 2 .. Len(sel.ranges) :
       /\ From(sel.ranges[i - 1]) < From(sel.ranges[i])
       /\ ~Overlaps(sel.ranges[i - 1], sel.ranges[i])

=============================================================================
