------------------------------ MODULE Selecting ------------------------------
(***************************************************************************)
(* What the commands that only change the selection make of it: selection  *)
(* .go, sel-*.go, edit-select.go and view-mode.go of internal/view/action. *)
(* A pattern is modelled by the set of characters it matches a run of.     *)
(***************************************************************************)
EXTENDS Motions

SelectAll(t) == Single(Span(0, Len(t)))

CollapseSelection(t, sel) == Transform(sel, LAMBDA r : Point(Cursor(t, r)))
FlipSelections(sel)       == Transform(sel, Flip)
EnsureForward(sel)        == Transform(sel, Forward)
KeepPrimarySelection(sel) == Single(Primary(sel))

RemovePrimarySelection(sel) ==
  IF Len(sel.ranges) = 1 THEN sel ELSE RemoveRange(sel, sel.primary)

RotateSelections(sel, by) ==
  [sel EXCEPT !.primary = ((@ - 1 + by) % Len(sel.ranges)) + 1]

\* The runs of characters of C between two positions.
Runs(t, from, to, C) ==
  LET In(p)  == p \in from .. to - 1 /\ CharAt(t, p) \in C
      starts == {p \in from .. to - 1 : In(p) /\ ~In(p - 1)}
      Run(p) == Span(p, Min({q \in p .. to : ~In(q)}))
  IN  [i \in 1 .. Cardinality(starts) |-> Run(NthOf(starts, i, TRUE))]

RunsIn(t, r, C) == Runs(t, From(r), To(r), C)

\* Every range becomes its parts, and the last part up to those of the primary
\* range the primary one.  Without any part the selection stays.
InParts(sel, Parts(_)) ==
  LET Upto(k) == FlattenSeq([i \in 1 .. k |-> Parts(sel.ranges[i])])
      all     == Upto(Len(sel.ranges))
  IN  IF all = << >> THEN sel
      ELSE NewSelection(all, Larger(Len(Upto(sel.primary)), 1))

SelectWithin(t, sel, C)  == InParts(sel, LAMBDA r : RunsIn(t, r, C))
SplitSelection(t, sel, C) == InParts(sel, LAMBDA r : RunsIn(t, r, Char \ C))

\* The parts of the lines, without their endings; the first is the primary one.
SplitSelectionOnNewline(t, sel) ==
  LET Parts(r) == IF IsPoint(r) THEN <<r>> ELSE RunsIn(t, r, Char \ {Newline})
      all      == FlattenSeq([i \in DOMAIN sel.ranges |-> Parts(sel.ranges[i])])
  IN  IF all = << >> THEN sel ELSE NewSelection(all, 1)

FilterSelections(t, sel, C, remove) ==
  LET kept == SelectSeq(sel.ranges, LAMBDA r : (RunsIn(t, r, C) # << >>) # remove)
  IN  IF kept = << >> THEN sel ELSE NewSelection(kept, IndexOr1(kept, Primary(sel)))

\* Ranges without ink are dropped; without any left the primary cursor stays.
TrimSelections(t, sel) ==
  LET Ink(r) == {p \in From(r) .. To(r) - 1 : ~IsBlank(CharAt(t, p))}
      inked  == SelectSeq(sel.ranges, LAMBDA r : Ink(r) # {})
      out    == [i \in DOMAIN inked |->
                   Directed(inked[i], Min(Ink(inked[i])), Max(Ink(inked[i])) + 1)]
  IN  IF out = << >> THEN Single(Point(Cursor(t, Primary(sel))))
      ELSE NewSelection(out, LeastOr({i \in DOMAIN out : Overlaps(out[i], Primary(sel))},
                                     Len(out)))

\* Up to n copies of every range on the lines ahead or behind, as far apart as
\* the range is high.  A copy whose head is taken is the last one.
CopyOnLines(t, sel, n, below) ==
  LET Copy(r, step) ==
        LET height == LineOf(t, To(r)) - LineOf(t, From(r)) + 1
            by     == IF below THEN step * height ELSE -step * height
            At(p)  == LET line == LineOf(t, p)
                      IN  Smaller(LineStart(t, line + by) + p - LineStart(t, line),
                                  LineEnd(t, line + by))
        IN  IF {LineOf(t, From(r)) + by, LineOf(t, To(r)) + by} \subseteq Lines(t)
            THEN Span(At(From(r)), At(To(r))) ELSE NoPair
      Copies(x, i) ==
        LET Add(y, step) ==
              LET copy == Copy(sel.ranges[i], step)
              IN  IF \/ y.done \/ copy = NoPair
                     \/ \E k \in DOMAIN y.out : y.out[k].head = copy.head
                  THEN [y EXCEPT !.done = TRUE]
                  ELSE [y EXCEPT !.out = Append(@, copy),
                                 !.primary = IF i = sel.primary THEN Len(y.out) + 1 ELSE @]
        IN  FoldLeft(Add, [x EXCEPT !.done = FALSE], [step \in 1 .. n |-> step])
      all == FoldLeft(Copies, [out |-> sel.ranges, primary |-> sel.primary, done |-> FALSE],
                      [i \in DOMAIN sel.ranges |-> i])
  IN  NewSelection(all.out, all.primary)

\* One range for every line, with its ending.
SplitLines(t, sel) ==
  LET Whole(r) == LET first == FirstLine(t, r)
                  IN  [i \in 1 .. LastLine(t, r) - first + 1 |->
                         Span(LineStart(t, first + i - 1), LineLimit(t, first + i - 1))]
  IN  NewSelection(FlattenSeq([i \in DOMAIN sel.ranges |-> Whole(sel.ranges[i])]), 1)

\* What a text object command selects; other word characters select nothing new.
TextObject(t, r, kind, around, c, n) ==
  CASE kind = "word"      -> WordObject(t, r, around, FALSE)
    [] kind = "long"      -> WordObject(t, r, around, TRUE)
    [] kind = "paragraph" -> ParagraphObject(t, r, around, n)
    [] kind = "pair"      -> PairObject(t, r, around, c, n)

(***************************************************************************)
(* The selection on the way from one mode to another                       *)
(***************************************************************************)
SelectModeSelection(t, sel) ==
  Transform(sel, LAMBDA r : IF IsPoint(r) /\ r.head = Len(t) /\ Len(t) > 0
                            THEN Span(PrevPos(t, r.anchor), r.head) ELSE r)

InsertModeSelection(sel) == Transform(sel, LAMBDA r : Point(From(r)))

AppendModeSelection(t, sel) ==
  LET Past(r) == IF IsPoint(r) THEN NextPos(t, To(r)) ELSE To(r)
  IN  Transform(sel, LAMBDA r : IF Past(r) = Len(t) THEN Point(Past(r))
                                ELSE Span(From(r), Past(r) + 1))

\* Appending ends with the cursor back on the last character of the range.
RestoredSelection(t, sel) ==
  Transform(sel, LAMBDA r : Span(From(r), IF r.head > r.anchor THEN PrevPos(t, To(r))
                                                              ELSE To(r)))

=============================================================================
