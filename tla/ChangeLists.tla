----------------------------- MODULE ChangeLists -----------------------------
(***************************************************************************)
(* The lists of retain, delete and insert operations that                  *)
(* internal/core/changeset*.go keeps, and the algorithms on them: build,   *)
(* apply, invert, turn into changes, and carry a position over.            *)
(***************************************************************************)
EXTENDS ChangeSets, SequencesExt

CONSTANT Word           \* the characters that are part of a word

ASSUME WordAssumption == Word \subseteq Char

Count(kind, n) == [kind |-> kind, n |-> n, text |-> << >>]

Insert(s) == [kind |-> "insert", n |-> 0, text |-> s]

NoList == [ops |-> << >>, pre |-> 0, after |-> 0]

KindAt(ops, i) == IF i \in 1 .. Len(ops) THEN ops[i].kind ELSE "none"

AppendCount(l, kind, n) ==
  LET k == Len(l.ops)
  IN  IF n = 0 THEN l
      ELSE [ops   |-> IF KindAt(l.ops, k) = kind
                      THEN [l.ops EXCEPT ![k].n = @ + n]
                      ELSE Append(l.ops, Count(kind, n)),
            pre   |-> l.pre + n,
            after |-> IF kind = "retain" THEN l.after + n ELSE l.after]

MoreText(ops, i, s) == [ops EXCEPT ![i].text = @ \o s]

\* Mutant: an insertion stays behind a deletion.
AppendInsertBehind(l, s) ==
  LET k == Len(l.ops)
  IN  IF s = << >> THEN l
      ELSE [l EXCEPT
              !.after = @ + Len(s),
              !.ops   = IF KindAt(@, k) = "insert"
                        THEN MoreText(@, k, s)
                        ELSE Append(@, Insert(s))]

\* An insertion is kept before a deletion at the same place, and there is one.
AppendInsert(l, s) ==
  LET k == Len(l.ops)
  IN  IF s = << >> THEN l
      ELSE [l EXCEPT
              !.after = @ + Len(s),
              !.ops   = CASE KindAt(@, k) = "insert" -> MoreText(@, k, s)
                          [] KindAt(@, k) = "delete"
                               /\ KindAt(@, k - 1) = "insert" ->
                               MoreText(@, k - 1, s)
                          [] KindAt(@, k) = "delete"
                               /\ KindAt(@, k - 1) # "insert" ->
                               Front(@) \o <<Insert(s), Last(@)>>
                          [] OTHER -> Append(@, Insert(s))]

\* What NewChangeSetFromChanges accepts, for a text of n characters.
InOrder(n, changes) ==
  \A i \in DOMAIN changes :
    /\ changes[i].from >= IF i = 1 THEN 0 ELSE changes[i - 1].to
    /\ changes[i].from <= changes[i].to /\ changes[i].to <= n

\* Mutant: the next change is counted from where the last one begins.
FromChangesFromStart(n, changes) ==
  LET Add(x, c) ==
        LET kept == AppendCount(x.list, "retain", c.from - x.last)
        IN  [list |-> AppendCount(AppendInsert(kept, c.text),
                                  "delete", c.to - c.from),
             last |-> c.from]
      all == FoldLeft(Add, [list |-> NoList, last |-> 0], changes)
  IN  AppendCount(all.list, "retain", n - all.last)

AddChange(x, c) ==
  LET kept == AppendCount(x.list, "retain", c.from - x.last)
  IN  [list |-> AppendCount(AppendInsert(kept, c.text), "delete", c.to - c.from),
       last |-> c.to]

FromChanges(n, changes) ==
  LET all == FoldLeft(AddChange, [list |-> NoList, last |-> 0], changes)
  IN  AppendCount(all.list, "retain", n - all.last)

\* The i-th operation as a change, an insertion taking the deletion behind it along.
ChangeOf(l, x, i) ==
  LET op   == l.ops[i]
      with == IF KindAt(l.ops, i + 1) = "delete" THEN l.ops[i + 1].n ELSE 0
      Change(size, text) ==
        Append(x.changes, [from |-> x.at, to |-> x.at + size, text |-> text])
  IN  CASE op.kind = "retain" -> [x EXCEPT !.at = @ + op.n]
        [] op.kind = "insert" -> [changes |-> Change(with, op.text),
                                  at |-> x.at + with]
        [] op.kind = "delete" /\ KindAt(l.ops, i - 1) = "insert" -> x
        [] OTHER -> [changes |-> Change(op.n, << >>), at |-> x.at + op.n]

ToChanges(l) ==
  FoldLeftDomain(LAMBDA x, i : ChangeOf(l, x, i),
                 [changes |-> << >>, at |-> 0], l.ops).changes

IsEmptyList(l) == l.ops = << >> \/ l.ops = <<Count("retain", l.pre)>>

ApplyOp(x, op) ==
  LET before == SubSeq(x.text, 1, x.at)
  IN  CASE op.kind = "retain" -> [x EXCEPT !.at = @ + op.n]
        [] op.kind = "delete" ->
             [x EXCEPT !.text = before \o
                SubSeq(x.text, x.at + op.n + 1, Len(x.text))]
        [] op.kind = "insert" ->
             [text |-> before \o op.text \o
                SubSeq(x.text, x.at + 1, Len(x.text)),
              at |-> x.at + Len(op.text)]

ApplyList(l, t) == FoldLeft(ApplyOp, [text |-> t, at |-> 0], l.ops).text

\* Mutant: what was deleted is looked for where it would be in the new text.
InvertListInNew(l, t) ==
  LET Step(x, op) ==
        CASE op.kind = "retain" ->
               [list |-> AppendCount(x.list, "retain", op.n), at |-> x.at + op.n]
          [] op.kind = "delete" ->
               [x EXCEPT !.list =
                  AppendInsert(@, SubSeq(t, x.at + 1, x.at + op.n))]
          [] op.kind = "insert" ->
               [x EXCEPT !.list = AppendCount(@, "delete", Len(op.text))]
  IN  FoldLeft(Step, [list |-> NoList, at |-> 0], l.ops).list

InvertOp(t, x, op) ==
  CASE op.kind = "retain" ->
         [list |-> AppendCount(x.list, "retain", op.n), at |-> x.at + op.n]
    [] op.kind = "delete" ->
         [list |-> AppendInsert(x.list, SubSeq(t, x.at + 1, x.at + op.n)),
          at |-> x.at + op.n]
    [] op.kind = "insert" ->
         [x EXCEPT !.list = AppendCount(@, "delete", Len(op.text))]

InvertList(l, t) ==
  FoldLeft(LAMBDA x, op : InvertOp(t, x, op), [list |-> NoList, at |-> 0], l.ops).list

\* How far into an inserted text a position at its start is carried.
InsertOffset(assoc, s) ==
  LET WordsOf(i, j) == \A k \in i .. j : s[k] \in Word
      prefix == CHOOSE n \in 0 .. Len(s) :
                  WordsOf(1, n) /\ (n = Len(s) \/ s[n + 1] \notin Word)
      suffix == CHOOSE n \in 0 .. Len(s) :
                  WordsOf(Len(s) - n + 1, Len(s))
                    /\ (n = Len(s) \/ s[Len(s) - n] \notin Word)
  IN  CASE assoc = "after"      -> Len(s)
        [] assoc = "afterWord"  -> prefix
        [] assoc = "beforeWord" -> Len(s) - suffix
        [] assoc = "before"     -> 0

Nowhere == -1

\* Mutant: a position at the end of what is retained is taken to be within it.
MapPosWithin(l, pos, assoc) ==
  LET Step(x, i) ==
        LET op  == l.ops[i]
            end == x.old + op.n
        IN  CASE x.at # Nowhere -> x
              [] x.at = Nowhere /\ op.kind = "retain" ->
                   IF pos <= end THEN [x EXCEPT !.at = x.new + pos - x.old]
                   ELSE [x EXCEPT !.old = end, !.new = @ + op.n]
              [] x.at = Nowhere /\ op.kind = "delete" ->
                   IF pos < end THEN [x EXCEPT !.at = x.new]
                   ELSE [x EXCEPT !.old = end]
              [] x.at = Nowhere /\ op.kind = "insert" ->
                   IF pos = x.old
                   THEN [x EXCEPT !.at = x.new + InsertOffset(assoc, op.text)]
                   ELSE [x EXCEPT !.new = @ + Len(op.text)]
      end == FoldLeftDomain(Step, [old |-> 0, new |-> 0, at |-> Nowhere], l.ops)
  IN  IF end.at = Nowhere THEN end.new ELSE end.at

CarryOver(l, pos, assoc, x, i) ==
  LET op  == l.ops[i]
      end == x.old + op.n
  IN  CASE x.at # Nowhere -> x
        [] x.at = Nowhere /\ op.kind = "retain" ->
             IF pos < end \/ (pos = end /\ i = Len(l.ops))
             THEN [x EXCEPT !.at = x.new + pos - x.old]
             ELSE [x EXCEPT !.old = end, !.new = @ + op.n]
        [] x.at = Nowhere /\ op.kind = "delete" ->
             IF pos < end THEN [x EXCEPT !.at = x.new]
             ELSE [x EXCEPT !.old = end]
        [] x.at = Nowhere /\ op.kind = "insert" ->
             IF pos = x.old
             THEN [x EXCEPT !.at = x.new + InsertOffset(assoc, op.text)]
             ELSE [x EXCEPT !.new = @ + Len(op.text)]

MapPos(l, pos, assoc) ==
  LET end == FoldLeftDomain(LAMBDA x, i : CarryOver(l, pos, assoc, x, i),
                            [old |-> 0, new |-> 0, at |-> Nowhere], l.ops)
  IN  IF end.at = Nowhere THEN end.new ELSE end.at

\* The ends of a range stay off what is inserted at them.
MapRange(l, r) ==
  [anchor |-> MapPos(l, r.anchor, IF r.anchor <= r.head THEN "after" ELSE "before"),
   head   |-> MapPos(l, r.head, IF r.anchor < r.head THEN "before" ELSE "after")]

=============================================================================
