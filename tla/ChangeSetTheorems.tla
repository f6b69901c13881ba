------------------------- MODULE ChangeSetTheorems --------------------------
(***************************************************************************)
(* What applying, inverting and composing change sets promise each other,  *)
(* for texts of every length and change sets of any number of edits.       *)
(***************************************************************************)
EXTENDS ChangeSets, TLAPS

\* The two ways to look at a piece of a change set.
LEMMA PieceIsCharOrPosition ==
  ASSUME NEW c, IsChangeSet(c), NEW i \in 1 .. Len(c.post)
  PROVE  /\ c.post[i] \in Char => c.post[i] \notin Int
         /\ c.post[i] \notin Char => c.post[i] \in 1 .. c.pre
<1>1. c.post \in Seq(Piece(c.pre)) /\ c.pre \in Nat
  BY DEF IsChangeSet
<1>2. c.post[i] \in Piece(c.pre)
  BY <1>1
<1>3. QED
  BY <1>2, CharAssumption DEF Piece

\* Applying a change set to a text it fits makes a text, of the length that the
\* change set says (charCountAfter).
LEMMA ApplyMakesText ==
  ASSUME NEW c, IsChangeSet(c), NEW t \in Text, Fits(c, t)
  PROVE  Apply(c, t) \in Text /\ Len(Apply(c, t)) = Len(c.post)
<1>1. Len(c.post) \in Nat
  BY DEF IsChangeSet
<1>2. ASSUME NEW i \in 1 .. Len(c.post)
      PROVE  (IF c.post[i] \in Char THEN c.post[i] ELSE t[c.post[i]]) \in Char
  <2>1. c.post[i] \notin Char => c.post[i] \in 1 .. Len(t)
    BY PieceIsCharOrPosition DEF Fits
  <2>2. c.post[i] \notin Char => t[c.post[i]] \in Char
    BY <2>1 DEF Text
  <2>3. QED
    BY <2>2
<1>3. QED
  BY <1>1, <1>2 DEF Apply, Text

\* A change set that changes nothing gives back the text.
LEMMA ApplyEmpty ==
  ASSUME NEW c, IsChangeSet(c), IsEmpty(c), NEW t \in Text, Fits(c, t)
  PROVE  Apply(c, t) = t
<1>1. c.pre \in Nat /\ c.pre = Len(t)
  BY DEF IsChangeSet, Fits
<1>2. c.post = [i \in 1 .. c.pre |-> i]
  BY DEF IsEmpty, Identity
<1>3. Len(c.post) = c.pre
  BY <1>1, <1>2
<1>4. \A i \in 1 .. c.pre : c.post[i] = i /\ i \notin Char
  BY <1>1, <1>2, CharAssumption
<1>5. Apply(c, t) = [i \in 1 .. Len(t) |-> t[i]]
  BY <1>1, <1>3, <1>4 DEF Apply
<1>6. QED
  BY <1>5 DEF Text

\* A retained position occurs once.
LEMMA RetainedOnce ==
  ASSUME NEW c, IsChangeSet(c),
         NEW p \in 1 .. Len(c.post), NEW q \in 1 .. Len(c.post),
         c.post[p] = c.post[q], c.post[p] \notin Char
  PROVE  p = q
<1>1. Len(c.post) \in Nat
  BY DEF IsChangeSet
<1>2. c.post[p] \in Int /\ c.post[q] \in Int
  BY PieceIsCharOrPosition
<1>3. ~(p < q) /\ ~(q < p)
  BY <1>2 DEF IsChangeSet
<1>4. QED
  BY <1>1, <1>3

\* The inverse is a change set of the new text.
LEMMA InvertMakesChangeSet ==
  ASSUME NEW c, IsChangeSet(c), NEW t \in Text, Fits(c, t)
  PROVE  /\ IsChangeSet(Invert(c, t))
         /\ Invert(c, t).pre = Len(c.post)
         /\ Len(Invert(c, t).post) = c.pre
<1> DEFINE At(i) == {p \in 1 .. Len(c.post) : c.post[p] = i}
           inv == Invert(c, t)
<1>1. Len(c.post) \in Nat /\ c.pre \in Nat /\ c.pre = Len(t)
  BY DEF IsChangeSet, Fits
<1>2. /\ inv.pre = Len(c.post)
      /\ inv.post = [i \in 1 .. c.pre |->
                       IF \E p \in 1 .. Len(c.post) : c.post[p] = i
                       THEN CHOOSE p \in 1 .. Len(c.post) : c.post[p] = i
                       ELSE t[i]]
      /\ inv = [pre |-> inv.pre, post |-> inv.post]
  BY DEF Invert
<1>3. ASSUME NEW i \in 1 .. c.pre
      PROVE  \/ /\ inv.post[i] \in 1 .. Len(c.post)
                /\ c.post[inv.post[i]] = i
             \/ inv.post[i] \in Char
  <2>1. CASE \E p \in 1 .. Len(c.post) : c.post[p] = i
    BY <1>2, <2>1
  <2>2. CASE ~\E p \in 1 .. Len(c.post) : c.post[p] = i
    BY <1>1, <1>2, <2>2 DEF Text
  <2>3. QED
    BY <2>1, <2>2
<1>4. inv.post \in Seq(Piece(inv.pre)) /\ Len(inv.post) = c.pre
  <2>1. \A i \in 1 .. c.pre : inv.post[i] \in Piece(inv.pre)
    BY <1>2, <1>3 DEF Piece
  <2>2. QED
    BY <1>1, <1>2, <2>1
<1>5. ASSUME NEW i \in 1 .. c.pre, NEW j \in 1 .. c.pre, i < j,
             inv.post[i] \notin Char, inv.post[j] \notin Char
      PROVE  inv.post[i] < inv.post[j]
  <2> DEFINE p == inv.post[i]
             q == inv.post[j]
  <2>1. /\ p \in 1 .. Len(c.post) /\ c.post[p] = i
        /\ q \in 1 .. Len(c.post) /\ c.post[q] = j
    BY <1>3, <1>5
  <2>2. i \notin Char /\ j \notin Char
    BY CharAssumption, <1>1
  <2>3. q < p => c.post[q] < c.post[p]
    BY <2>1, <2>2 DEF IsChangeSet
  <2>4. p # q /\ ~(q < p)
    BY <1>1, <1>5, <2>1, <2>3
  <2>5. QED
    BY <1>1, <2>1, <2>4
<1>6. QED
  BY <1>1, <1>2, <1>4, <1>5 DEF IsChangeSet

\* The inverse fits the new text and takes it back to the old one, whatever was
\* inserted and deleted.
THEOREM InvertUndoesApply ==
  ASSUME NEW c, IsChangeSet(c), NEW t \in Text, Fits(c, t)
  PROVE  /\ Fits(Invert(c, t), Apply(c, t))
         /\ Apply(Invert(c, t), Apply(c, t)) = t
<1> DEFINE inv == Invert(c, t)
           new == Apply(c, t)
<1>1. Len(c.post) \in Nat /\ c.pre \in Nat /\ c.pre = Len(t)
  BY DEF IsChangeSet, Fits
<1>2. /\ IsChangeSet(inv) /\ inv.pre = Len(c.post) /\ Len(inv.post) = c.pre
  BY InvertMakesChangeSet
<1>3. /\ new \in Text /\ Len(new) = Len(c.post)
  BY ApplyMakesText
<1>4. Fits(inv, new)
  BY <1>2, <1>3 DEF Fits
<1>5. ASSUME NEW i \in 1 .. c.pre
      PROVE  (IF inv.post[i] \in Char THEN inv.post[i]
                                       ELSE new[inv.post[i]]) = t[i]
  <2>0. inv.post[i] = (IF \E p \in 1 .. Len(c.post) : c.post[p] = i
                       THEN CHOOSE p \in 1 .. Len(c.post) : c.post[p] = i
                       ELSE t[i])
    BY DEF Invert
  <2>1. CASE \E p \in 1 .. Len(c.post) : c.post[p] = i
    <3>1. inv.post[i] \in 1 .. Len(c.post) /\ c.post[inv.post[i]] = i
      BY <2>0, <2>1
    <3>2. inv.post[i] \notin Char /\ i \notin Char
      BY <1>1, <3>1, CharAssumption
    <3>3. new[inv.post[i]] = t[i]
      BY <3>1, <3>2 DEF Apply
    <3>4. QED
      BY <3>2, <3>3
  <2>2. CASE ~\E p \in 1 .. Len(c.post) : c.post[p] = i
    <3>1. inv.post[i] = t[i]
      BY <2>0, <2>2
    <3>2. t[i] \in Char
      BY <1>1 DEF Text
    <3>3. QED
      BY <3>1, <3>2
  <2>3. QED
    BY <2>1, <2>2
<1>6. Apply(inv, new) = [i \in 1 .. Len(t) |-> t[i]]
  BY <1>1, <1>2, <1>5 DEF Apply
<1>7. QED
  BY <1>4, <1>6 DEF Text

\* A text of no characters is the empty one.
LEMMA EmptyText ==
  ASSUME NEW t \in Text, Len(t) = 0
  PROVE  t = << >>
BY DEF Text

\* The composition of two change sets that follow each other is a change set.
LEMMA ComposeMakesChangeSet ==
  ASSUME NEW a, IsChangeSet(a), NEW b, IsChangeSet(b), Len(a.post) = b.pre
  PROVE  /\ IsChangeSet(Compose(a, b))
         /\ Compose(a, b).pre = a.pre
         /\ Len(Compose(a, b).post) = Len(b.post)
<1>1. /\ Len(a.post) \in Nat /\ a.pre \in Nat
      /\ Len(b.post) \in Nat /\ b.pre \in Nat
  BY DEF IsChangeSet
<1>2. CASE NoOps(a)
  BY <1>1, <1>2 DEF NoOps, Compose
<1>3. CASE ~NoOps(a) /\ NoOps(b)
  BY <1>1, <1>3 DEF NoOps, Compose
<1>4. CASE ~NoOps(a) /\ ~NoOps(b)
  <2> DEFINE c == Compose(a, b)
             At(i) == IF b.post[i] \in Char THEN b.post[i]
                                            ELSE a.post[b.post[i]]
  <2>1. /\ c.pre = a.pre
        /\ c.post = [i \in 1 .. Len(b.post) |-> At(i)]
        /\ c = [pre |-> c.pre, post |-> c.post]
    BY <1>4 DEF Compose
  <2>2. ASSUME NEW i \in 1 .. Len(b.post)
        PROVE  /\ At(i) \in Piece(a.pre)
               /\ At(i) \notin Char =>
                    /\ b.post[i] \notin Char
                    /\ b.post[i] \in 1 .. Len(a.post)
                    /\ At(i) = a.post[b.post[i]]
    <3>1. CASE b.post[i] \in Char
      BY <3>1 DEF Piece
    <3>2. CASE b.post[i] \notin Char
      <4>1. b.post[i] \in 1 .. Len(a.post)
        BY <3>2, PieceIsCharOrPosition
      <4>2. a.post[b.post[i]] \in Piece(a.pre)
        BY <4>1 DEF IsChangeSet
      <4>3. QED
        BY <3>2, <4>1, <4>2
    <3>3. QED
      BY <3>1, <3>2
  <2>3. c.post \in Seq(Piece(c.pre)) /\ Len(c.post) = Len(b.post)
    BY <1>1, <2>1, <2>2
  <2>4. ASSUME NEW i \in 1 .. Len(b.post), NEW j \in 1 .. Len(b.post), i < j,
               At(i) \notin Char, At(j) \notin Char
        PROVE  At(i) < At(j)
    <3>1. /\ b.post[i] \in 1 .. Len(a.post) /\ b.post[j] \in 1 .. Len(a.post)
          /\ At(i) = a.post[b.post[i]] /\ At(j) = a.post[b.post[j]]
          /\ b.post[i] \notin Char /\ b.post[j] \notin Char
      BY <2>2, <2>4
    <3>2. b.post[i] < b.post[j]
      BY <2>4, <3>1 DEF IsChangeSet
    <3>3. a.post[b.post[i]] \notin Char /\ a.post[b.post[j]] \notin Char
      BY <2>4, <3>1
    <3>4. a.post[b.post[i]] < a.post[b.post[j]]
      BY <3>1, <3>2, <3>3 DEF IsChangeSet
    <3>5. QED
      BY <3>1, <3>4
  <2>5. IsChangeSet(c)
    <3>1. \A i, j \in 1 .. Len(c.post) :
            i < j /\ c.post[i] \notin Char /\ c.post[j] \notin Char
              => c.post[i] < c.post[j]
      BY <2>1, <2>3, <2>4
    <3>2. QED
      BY <1>1, <2>1, <2>3, <3>1 DEF IsChangeSet
  <2>6. QED
    BY <2>1, <2>3, <2>5
<1>5. QED
  BY <1>2, <1>3, <1>4

\* Applying the composition is applying the one and then the other: what an
\* insert group gathers is what was typed.
THEOREM ComposeAppliesBoth ==
  ASSUME NEW a, IsChangeSet(a), NEW b, IsChangeSet(b),
         NEW t \in Text, Fits(a, t), Fits(b, Apply(a, t))
  PROVE  /\ Fits(Compose(a, b), t)
         /\ Apply(Compose(a, b), t) = Apply(b, Apply(a, t))
<1> DEFINE mid == Apply(a, t)
           c == Compose(a, b)
<1>1. /\ Len(a.post) \in Nat /\ a.pre \in Nat /\ Len(t) = a.pre
      /\ Len(b.post) \in Nat /\ b.pre \in Nat
  BY DEF IsChangeSet, Fits
<1>2. mid \in Text /\ Len(mid) = Len(a.post) /\ Len(a.post) = b.pre
  BY ApplyMakesText DEF Fits
<1>3. IsChangeSet(c) /\ c.pre = a.pre /\ Len(c.post) = Len(b.post)
  BY <1>2, ComposeMakesChangeSet
<1>4. Fits(c, t)
  BY <1>1, <1>3 DEF Fits
<1>5. Apply(c, t) \in Text /\ Len(Apply(c, t)) = Len(b.post)
  BY <1>3, <1>4, ApplyMakesText
<1>6. Apply(b, mid) \in Text /\ Len(Apply(b, mid)) = Len(b.post)
  BY <1>2, ApplyMakesText
<1>7. CASE NoOps(a)
  <2>1. t = << >> /\ mid = << >> /\ c = b
    BY <1>1, <1>2, <1>7, EmptyText DEF NoOps, Compose
  <2>2. QED
    BY <1>4, <2>1
<1>8. CASE ~NoOps(a) /\ NoOps(b)
  <2>1. Apply(c, t) = << >> /\ Apply(b, mid) = << >>
    BY <1>5, <1>6, <1>8, EmptyText DEF NoOps
  <2>2. QED
    BY <1>4, <2>1
<1>9. CASE ~NoOps(a) /\ ~NoOps(b)
  <2>1. c.post = [i \in 1 .. Len(b.post) |->
                    IF b.post[i] \in Char THEN b.post[i]
                                          ELSE a.post[b.post[i]]]
    BY <1>9 DEF Compose
  <2>2. ASSUME NEW i \in 1 .. Len(b.post)
        PROVE  (IF c.post[i] \in Char THEN c.post[i] ELSE t[c.post[i]])
                 = (IF b.post[i] \in Char THEN b.post[i] ELSE mid[b.post[i]])
    <3>1. CASE b.post[i] \in Char
      BY <2>1, <3>1
    <3>2. CASE b.post[i] \notin Char
      <4>1. b.post[i] \in 1 .. Len(a.post)
        BY <1>2, <3>2, PieceIsCharOrPosition
      <4>2. mid[b.post[i]] = (IF a.post[b.post[i]] \in Char
                              THEN a.post[b.post[i]] ELSE t[a.post[b.post[i]]])
        BY <4>1 DEF Apply
      <4>3. QED
        BY <2>1, <3>2, <4>2
    <3>3. QED
      BY <3>1, <3>2
  <2>3. Apply(c, t) = Apply(b, mid)
    BY <1>3, <2>2 DEF Apply
  <2>4. QED
    BY <1>4, <2>3
<1>10. QED
  BY <1>7, <1>8, <1>9

\* A single replacement is a change set of the texts of n characters.
LEMMA SpliceMakesChangeSet ==
  ASSUME NEW n \in Nat, NEW from \in 0 .. n, NEW to \in from .. n,
         NEW ins \in Text
  PROVE  IsChangeSet(Splice(n, from, to, ins)) /\ Splice(n, from, to, ins).pre = n
<1> DEFINE c == Splice(n, from, to, ins)
           left == [i \in 1 .. from |-> i]
           right == [i \in 1 .. n - to |-> to + i]
           k == Len(ins)
<1>1. left \in Seq(Piece(n)) /\ Len(left) = from
  <2>1. \A i \in 1 .. from : i \in Piece(n)
    BY DEF Piece
  <2>2. QED
    BY <2>1
<1>2. right \in Seq(Piece(n)) /\ Len(right) = n - to
  <2>1. \A i \in 1 .. n - to : to + i \in Piece(n)
    BY DEF Piece
  <2>2. n - to \in Nat
    OBVIOUS
  <2>3. QED
    BY <2>1, <2>2
<1>3. ins \in Seq(Piece(n)) /\ k \in Nat
  BY DEF Text, Piece
<1>4. (left \o ins) \in Seq(Piece(n)) /\ Len(left \o ins) = from + k
  BY <1>1, <1>3
<1>5. c = [pre |-> n, post |-> (left \o ins) \o right]
  BY DEF Splice
<1>6. c.post \in Seq(Piece(n)) /\ Len(c.post) = from + k + (n - to)
  BY <1>2, <1>4, <1>5
<1>7. ASSUME NEW i \in 1 .. Len(c.post)
      PROVE  c.post[i] = (IF i <= from THEN i
                          ELSE IF i <= from + k THEN ins[i - from]
                          ELSE to + (i - from - k))
  <2>1. CASE i <= from + k
    <3>1. c.post[i] = (left \o ins)[i]
      BY <1>2, <1>4, <1>5, <1>6, <2>1
    <3>2. CASE i <= from
      BY <1>1, <1>3, <3>1, <3>2
    <3>3. CASE ~(i <= from)
      BY <1>1, <1>3, <2>1, <3>1, <3>3
    <3>4. QED
      BY <2>1, <3>2, <3>3
  <2>2. CASE ~(i <= from + k)
    <3>1. i - (from + k) \in 1 .. n - to
      BY <1>3, <1>6, <2>2
    <3>2. c.post[i] = right[i - (from + k)]
      BY <1>2, <1>4, <1>5, <1>6, <2>2
    <3>3. c.post[i] = to + (i - (from + k))
      BY <3>1, <3>2
    <3>4. QED
      BY <1>3, <2>2, <3>3
  <2>3. QED
    BY <2>1, <2>2
<1>8. ASSUME NEW i \in 1 .. Len(c.post), NEW j \in 1 .. Len(c.post), i < j,
             c.post[i] \notin Char, c.post[j] \notin Char
      PROVE  c.post[i] < c.post[j]
  <2>1. ASSUME NEW m \in 1 .. Len(c.post), c.post[m] \notin Char
        PROVE  m <= from \/ ~(m <= from + k)
    <3>1. (m - from) \in 1 .. k => ins[m - from] \in Char
      BY DEF Text
    <3>2. QED
      BY <1>3, <1>6, <1>7, <2>1, <3>1
  <2>2. /\ i <= from \/ ~(i <= from + k)
        /\ j <= from \/ ~(j <= from + k)
    BY <1>8, <2>1
  <2>3. QED
    BY <1>3, <1>6, <1>7, <1>8, <2>2
<1>9. c = [pre |-> c.pre, post |-> c.post] /\ c.pre = n
  BY <1>5
<1>10. QED
  BY <1>6, <1>8, <1>9 DEF IsChangeSet

(***************************************************************************)
(* Change sets side by side.                                               *)
(***************************************************************************)

Nothing == [pre |-> 0, post |-> << >>]

Shifted(p, n) == IF p \in Char THEN p ELSE p + n

Beside(x, y) ==
  [pre  |-> x.pre + y.pre,
   post |-> [i \in 1 .. Len(x.post) + Len(y.post) |->
               IF i <= Len(x.post) THEN x.post[i]
               ELSE Shifted(y.post[i - Len(x.post)], x.pre)]]

\* Compose of lists that both have operations.
Through(x, y) ==
  [pre  |-> x.pre,
   post |-> [i \in 1 .. Len(y.post) |->
               IF y.post[i] \in Char THEN y.post[i] ELSE x.post[y.post[i]]]]

LEMMA ChangeSetSizes ==
  ASSUME NEW x, IsChangeSet(x)
  PROVE  x.pre \in Nat /\ Len(x.post) \in Nat
BY DEF IsChangeSet

LEMMA ChangeSetParts ==
  ASSUME NEW x, IsChangeSet(x)
  PROVE  /\ x.pre \in Nat /\ Len(x.post) \in Nat
         /\ x = [pre |-> x.pre, post |-> x.post]
         /\ x.post = [i \in 1 .. Len(x.post) |-> x.post[i]]
         /\ \A i \in 1 .. Len(x.post) :
              \/ x.post[i] \in Char /\ x.post[i] \notin Int
              \/ x.post[i] \notin Char /\ x.post[i] \in 1 .. x.pre
         /\ \A i, j \in 1 .. Len(x.post) :
              i < j /\ x.post[i] \notin Char /\ x.post[j] \notin Char
                => x.post[i] < x.post[j]
<1>1. x.post \in Seq(Piece(x.pre)) /\ x.pre \in Nat
  BY DEF IsChangeSet
<1>2. Len(x.post) \in Nat /\ x.post = [i \in 1 .. Len(x.post) |-> x.post[i]]
  BY <1>1
<1>3. \A i \in 1 .. Len(x.post) :
        \/ x.post[i] \in Char /\ x.post[i] \notin Int
        \/ x.post[i] \notin Char /\ x.post[i] \in 1 .. x.pre
  BY PieceIsCharOrPosition
<1>4. QED
  BY <1>1, <1>2, <1>3 DEF IsChangeSet

\* What makes a change set.
LEMMA MakesChangeSet ==
  ASSUME NEW n \in Nat, NEW m \in Nat, NEW f,
         f = [i \in 1 .. m |-> f[i]],
         \A i \in 1 .. m : f[i] \in Char \/ f[i] \in 1 .. n,
         \A i, j \in 1 .. m :
           i < j /\ f[i] \notin Char /\ f[j] \notin Char => f[i] < f[j]
  PROVE  /\ IsChangeSet([pre |-> n, post |-> f]) /\ Len(f) = m
<1>1. \A i \in 1 .. m : f[i] \in Piece(n)
  BY DEF Piece
<1>2. f \in Seq(Piece(n)) /\ Len(f) = m
  <2>1. [i \in 1 .. m |-> f[i]] \in Seq(Piece(n)) /\ Len([i \in 1 .. m |-> f[i]]) = m
    BY <1>1
  <2>2. QED
    BY <2>1
<1>3. QED
  BY <1>2 DEF IsChangeSet

\* A number is not a character, so that a piece can be told from a position.
LEMMA NumbersAreNotChars ==
  \A n \in Int : n \notin Char
BY CharAssumption

LEMMA BesideIsChangeSet ==
  ASSUME NEW x, IsChangeSet(x), NEW y, IsChangeSet(y)
  PROVE  /\ IsChangeSet(Beside(x, y))
         /\ Beside(x, y).pre = x.pre + y.pre
         /\ Len(Beside(x, y).post) = Len(x.post) + Len(y.post)
<1> DEFINE n == x.pre + y.pre
           k == Len(x.post)
           m == Len(x.post) + Len(y.post)
           f == Beside(x, y).post
<1>1. /\ n \in Nat /\ m \in Nat /\ k \in Nat /\ Len(y.post) \in Nat
      /\ x.pre \in Nat /\ y.pre \in Nat
  <2>1. /\ x.pre \in Nat /\ Len(x.post) \in Nat
        /\ y.pre \in Nat /\ Len(y.post) \in Nat
    BY ChangeSetSizes
  <2>2. \A p, q \in Nat : p + q \in Nat
    OBVIOUS
  <2>3. QED
    BY <2>1, <2>2, Zenon
<1>2. \A i \in 1 .. m : f[i] = IF i <= k THEN x.post[i] ELSE Shifted(y.post[i - k], x.pre)
  BY DEF Beside
<1>3. f = [i \in 1 .. m |-> f[i]]
  BY DEF Beside
<1>4. ASSUME NEW i \in 1 .. m
      PROVE  \/ i <= k /\ i \in 1 .. k
             \/ ~(i <= k) /\ i - k \in 1 .. Len(y.post)
  <2>1. m = k + Len(y.post)
    OBVIOUS
  <2> HIDE DEF k, m
  <2>2. QED
    BY <1>1, <2>1
<1> HIDE DEF m, k, f
<1>5. ASSUME NEW i \in 1 .. m
      PROVE  \/ f[i] \in Char
             \/ /\ i <= k /\ f[i] = x.post[i] /\ f[i] \in 1 .. x.pre
                /\ x.post[i] \notin Char
             \/ /\ ~(i <= k) /\ f[i] = y.post[i - k] + x.pre
                /\ y.post[i - k] \in 1 .. y.pre /\ y.post[i - k] \notin Char
  <2>1. CASE i <= k
    BY <1>2, <1>4, <2>1, ChangeSetParts, Zenon DEF k
  <2>2. CASE ~(i <= k)
    BY <1>2, <1>4, <2>2, ChangeSetParts, Zenon DEF Shifted
  <2>3. QED
    BY <2>1, <2>2
<1>6. ASSUME NEW i \in 1 .. m
      PROVE  f[i] \in Char \/ f[i] \in 1 .. n
  <2>1. \A p \in 1 .. x.pre : p \in 1 .. n
    BY <1>1
  <2>2. \A p \in 1 .. y.pre : p + x.pre \in 1 .. n
    BY <1>1
  <2>3. QED
    BY <1>5, <2>1, <2>2
<1>7. ASSUME NEW i \in 1 .. m, NEW j \in 1 .. m, i < j, f[i] \notin Char, f[j] \notin Char
      PROVE  f[i] < f[j]
  <2>1. CASE j <= k
    <3>1. i <= k /\ i \in 1 .. k /\ j \in 1 .. k
      BY <1>1, <1>7, <2>1
    <3>2. /\ f[i] = x.post[i] /\ x.post[i] \notin Char
          /\ f[j] = x.post[j] /\ x.post[j] \notin Char
      BY <1>5, <1>7, <2>1, <3>1
    <3>3. QED
      BY <1>7, <3>1, <3>2, ChangeSetParts, Zenon DEF k
  <2>2. CASE i <= k /\ ~(j <= k)
    <3>1. f[i] \in 1 .. x.pre
      BY <1>5, <1>7, <2>2
    <3>2. f[j] = y.post[j - k] + x.pre /\ y.post[j - k] \in 1 .. y.pre
      BY <1>5, <1>7, <2>2
    <3>3. \A p \in 1 .. x.pre, q \in 1 .. y.pre : p < q + x.pre
      BY <1>1
    <3>4. QED
      BY <3>1, <3>2, <3>3
  <2>3. CASE ~(i <= k) /\ ~(j <= k)
    <3>1. /\ f[i] = y.post[i - k] + x.pre /\ f[j] = y.post[j - k] + x.pre
          /\ y.post[i - k] \in 1 .. y.pre /\ y.post[j - k] \in 1 .. y.pre
          /\ y.post[i - k] \notin Char /\ y.post[j - k] \notin Char
      BY <1>5, <1>7, <2>3
    <3>2. /\ i - k \in 1 .. Len(y.post) /\ j - k \in 1 .. Len(y.post)
          /\ i - k < j - k
      BY <1>1, <1>4, <1>7, <2>3
    <3>3. y.post[i - k] < y.post[j - k]
      BY <3>1, <3>2, ChangeSetParts, Zenon
    <3>4. \A p, q \in 1 .. y.pre : p < q => p + x.pre < q + x.pre
      BY <1>1
    <3>5. QED
      BY <3>1, <3>3, <3>4
  <2>4. QED
    BY <1>1, <1>7, <2>1, <2>2, <2>3
<1>8. IsChangeSet([pre |-> n, post |-> f]) /\ Len(f) = m
  <2> HIDE DEF n
  <2>1. QED
    BY <1>1, <1>3, <1>6, <1>7, MakesChangeSet, Zenon
<1>9. Beside(x, y) = [pre |-> n, post |-> f] /\ Beside(x, y).pre = n
  BY DEF Beside, f
<1>10. QED
  BY <1>8, <1>9 DEF f, m

\* The pieces of two change sets side by side.
LEMMA BesidePieces ==
  ASSUME NEW x, IsChangeSet(x), NEW y, IsChangeSet(y)
  PROVE  /\ \A i \in 1 .. Len(x.post) : Beside(x, y).post[i] = x.post[i]
         /\ \A i \in 1 .. Len(y.post) :
              Beside(x, y).post[Len(x.post) + i] = Shifted(y.post[i], x.pre)
<1>1. Len(x.post) \in Nat /\ Len(y.post) \in Nat
  BY ChangeSetParts
<1> DEFINE k == Len(x.post)
           l == Len(y.post)
<1>2. Beside(x, y).post = [i \in 1 .. k + l |->
                             IF i <= k THEN x.post[i] ELSE Shifted(y.post[i - k], x.pre)]
  BY DEF Beside
<1> HIDE DEF k, l
<1>3. k \in Nat /\ l \in Nat
  BY <1>1 DEF k, l
<1>4. \A i \in 1 .. k : Beside(x, y).post[i] = x.post[i]
  BY <1>2, <1>3
<1>5. ASSUME NEW i \in 1 .. l
      PROVE  Beside(x, y).post[k + i] = Shifted(y.post[i], x.pre)
  <2>1. k + i \in 1 .. k + l /\ ~(k + i <= k) /\ (k + i) - k = i
    BY <1>3
  <2>2. QED
    BY <1>2, <2>1
<1>6. QED
  BY <1>4, <1>5 DEF k, l

\* Two change sets are the same when they have the same pieces.
LEMMA SameChangeSet ==
  ASSUME NEW x, IsChangeSet(x), NEW y, IsChangeSet(y),
         x.pre = y.pre, Len(x.post) = Len(y.post),
         \A i \in 1 .. Len(x.post) : x.post[i] = y.post[i]
  PROVE  x = y
<1>1. /\ x = [pre |-> x.pre, post |-> x.post] /\ y = [pre |-> y.pre, post |-> y.post]
      /\ x.post = [i \in 1 .. Len(x.post) |-> x.post[i]]
      /\ y.post = [i \in 1 .. Len(y.post) |-> y.post[i]]
  BY ChangeSetParts
<1>2. x.post = y.post
  BY <1>1
<1>3. QED
  BY <1>1, <1>2

LEMMA NothingIsChangeSet ==
  IsChangeSet(Nothing) /\ Nothing.pre = 0 /\ Len(Nothing.post) = 0
BY DEF IsChangeSet, Nothing

LEMMA BesideNothing ==
  ASSUME NEW x, IsChangeSet(x)
  PROVE  Beside(x, Nothing) = x /\ Beside(Nothing, x) = x
<1>1. IsChangeSet(Nothing) /\ Nothing.pre = 0 /\ Len(Nothing.post) = 0
  BY NothingIsChangeSet
<1>2. x.pre \in Nat /\ Len(x.post) \in Nat
  BY ChangeSetSizes
<1>3. Beside(x, Nothing) = x
  <2>0. /\ IsChangeSet(Beside(x, Nothing)) /\ Beside(x, Nothing).pre = x.pre + 0
        /\ Len(Beside(x, Nothing).post) = Len(x.post) + 0
    BY <1>1, BesideIsChangeSet, Zenon
  <2>1. /\ IsChangeSet(Beside(x, Nothing)) /\ Beside(x, Nothing).pre = x.pre
        /\ Len(Beside(x, Nothing).post) = Len(x.post)
    BY <1>2, <2>0
  <2>2. \A i \in 1 .. Len(x.post) : Beside(x, Nothing).post[i] = x.post[i]
    BY <1>1, BesidePieces
  <2>3. QED
    BY <2>1, <2>2, SameChangeSet
<1>4. Beside(Nothing, x) = x
  <2>0. /\ IsChangeSet(Beside(Nothing, x)) /\ Beside(Nothing, x).pre = 0 + x.pre
        /\ Len(Beside(Nothing, x).post) = 0 + Len(x.post)
    BY <1>1, BesideIsChangeSet, Zenon
  <2>1. /\ IsChangeSet(Beside(Nothing, x)) /\ Beside(Nothing, x).pre = x.pre
        /\ Len(Beside(Nothing, x).post) = Len(x.post)
    BY <1>2, <2>0
  <2>2. ASSUME NEW i \in 1 .. Len(x.post)
        PROVE  Beside(Nothing, x).post[i] = x.post[i]
    <3>1. Beside(Nothing, x).post[Len(Nothing.post) + i] = Shifted(x.post[i], Nothing.pre)
      BY <1>1, BesidePieces, Zenon
    <3>0. x.post[i] \in Char \/ x.post[i] \in 1 .. x.pre
      BY PieceIsCharOrPosition
    <3>2. Shifted(x.post[i], 0) = x.post[i]
      BY <1>2, <3>0 DEF Shifted
    <3>3. Len(Nothing.post) + i = i
      BY <1>1
    <3>4. QED
      BY <1>1, <3>1, <3>2, <3>3
  <2>3. QED
    BY <2>1, <2>2, SameChangeSet
<1>5. QED
  BY <1>3, <1>4

LEMMA ShiftedTwice ==
  ASSUME NEW n \in Nat, NEW m \in Nat, NEW p, p \in Char \/ p \in Nat
  PROVE  /\ Shifted(Shifted(p, m), n) = Shifted(p, n + m)
         /\ Shifted(p, n) \in Char <=> p \in Char
<1>1. CASE p \in Char
  BY <1>1 DEF Shifted
<1>2. CASE p \notin Char
  <2>1. p \in Nat
    BY <1>2
  <2>2. p + m \in Int /\ p + n \in Int
    BY <2>1
  <2>3. p + m \notin Char /\ p + n \notin Char
    BY <2>2, NumbersAreNotChars, Zenon
  <2>4. (p + m) + n = p + (n + m)
    BY <2>1
  <2>5. QED
    BY <1>2, <2>3, <2>4 DEF Shifted
<1>3. QED
  BY <1>1, <1>2

LEMMA BesideAssociates ==
  ASSUME NEW x, IsChangeSet(x), NEW y, IsChangeSet(y), NEW z, IsChangeSet(z)
  PROVE  Beside(Beside(x, y), z) = Beside(x, Beside(y, z))
<1> DEFINE xy == Beside(x, y)
           yz == Beside(y, z)
           k == Len(x.post)
           l == Len(y.post)
           m == Len(z.post)
           L == Beside(xy, z)
           R == Beside(x, yz)
<1>1. /\ IsChangeSet(xy) /\ xy.pre = x.pre + y.pre /\ Len(xy.post) = k + l
      /\ IsChangeSet(yz) /\ yz.pre = y.pre + z.pre /\ Len(yz.post) = l + m
  BY BesideIsChangeSet, Zenon
<1>2. /\ x.pre \in Nat /\ y.pre \in Nat /\ z.pre \in Nat
      /\ k \in Nat /\ l \in Nat /\ m \in Nat
  BY ChangeSetSizes
<1>3. /\ \A i \in 1 .. k : xy.post[i] = x.post[i]
      /\ \A i \in 1 .. l : xy.post[k + i] = Shifted(y.post[i], x.pre)
      /\ \A i \in 1 .. l : yz.post[i] = y.post[i]
      /\ \A i \in 1 .. m : yz.post[l + i] = Shifted(z.post[i], y.pre)
  BY BesidePieces
<1> HIDE DEF xy, yz
<1>4. /\ IsChangeSet(L) /\ L.pre = xy.pre + z.pre /\ Len(L.post) = Len(xy.post) + m
      /\ IsChangeSet(R) /\ R.pre = x.pre + yz.pre /\ Len(R.post) = k + Len(yz.post)
  BY <1>1, BesideIsChangeSet, Zenon
<1>5. /\ \A i \in 1 .. Len(xy.post) : L.post[i] = xy.post[i]
      /\ \A i \in 1 .. m : L.post[Len(xy.post) + i] = Shifted(z.post[i], xy.pre)
      /\ \A i \in 1 .. k : R.post[i] = x.post[i]
      /\ \A i \in 1 .. Len(yz.post) : R.post[k + i] = Shifted(yz.post[i], x.pre)
  BY <1>1, BesidePieces, Zenon
<1>6. \A i \in 1 .. m : z.post[i] \in Char \/ z.post[i] \in Nat
  <2>1. \A i \in 1 .. m : z.post[i] \notin Char => z.post[i] \in 1 .. z.pre
    BY PieceIsCharOrPosition
  <2>2. QED
    BY <1>2, <2>1
<1> HIDE DEF k, l, m, L, R
<1>7. L.pre = R.pre /\ Len(L.post) = k + l + m /\ Len(R.post) = k + l + m
  BY <1>1, <1>2, <1>4
<1>8. ASSUME NEW i \in 1 .. k
      PROVE  L.post[i] = R.post[i]
  BY <1>1, <1>2, <1>3, <1>5
<1>9. ASSUME NEW i \in 1 .. l
      PROVE  L.post[k + i] = R.post[k + i]
  <2>1. k + i \in 1 .. k + l /\ i \in 1 .. l + m
    BY <1>2
  <2>2. QED
    BY <1>1, <1>3, <1>5, <2>1
<1>10. ASSUME NEW i \in 1 .. m
       PROVE  L.post[k + l + i] = R.post[k + l + i]
  <2>1. l + i \in 1 .. l + m /\ k + (l + i) = k + l + i
    BY <1>2
  <2>2. R.post[k + l + i] = Shifted(Shifted(z.post[i], y.pre), x.pre)
    BY <1>1, <1>3, <1>5, <2>1
  <2>3. Shifted(Shifted(z.post[i], y.pre), x.pre) = Shifted(z.post[i], x.pre + y.pre)
    BY <1>2, <1>6, ShiftedTwice, Zenon
  <2>4. QED
    BY <1>1, <1>5, <2>2, <2>3
<1>11. ASSUME NEW i \in 1 .. k + l + m
       PROVE  L.post[i] = R.post[i]
  <2>1. CASE i <= k
    BY <1>2, <1>8, <2>1
  <2>2. CASE i > k /\ i <= k + l
    <3>1. i - k \in 1 .. l /\ k + (i - k) = i
      BY <1>2, <2>2
    <3>2. QED
      BY <1>9, <3>1
  <2>3. CASE i > k + l
    <3>1. i - (k + l) \in 1 .. m /\ k + l + (i - (k + l)) = i
      BY <1>2, <2>3
    <3>2. QED
      BY <1>10, <3>1
  <2>4. QED
    BY <1>2, <2>1, <2>2, <2>3
<1>12. L = R
  BY <1>4, <1>7, <1>11, SameChangeSet
<1>13. QED
  BY <1>12 DEF L, R, xy, yz

LEMMA ThroughIsChangeSet ==
  ASSUME NEW x, IsChangeSet(x), NEW y, IsChangeSet(y), Len(x.post) = y.pre
  PROVE  /\ IsChangeSet(Through(x, y))
         /\ Through(x, y).pre = x.pre
         /\ Len(Through(x, y).post) = Len(y.post)
         /\ \A i \in 1 .. Len(y.post) :
              Through(x, y).post[i] = IF y.post[i] \in Char THEN y.post[i]
                                      ELSE x.post[y.post[i]]
<1> DEFINE m == Len(y.post)
           f == Through(x, y).post
<1>1. x.pre \in Nat /\ m \in Nat /\ Len(x.post) \in Nat
  BY ChangeSetSizes
<1>2. /\ f = [i \in 1 .. m |-> f[i]]
      /\ \A i \in 1 .. m : f[i] = IF y.post[i] \in Char THEN y.post[i]
                                  ELSE x.post[y.post[i]]
      /\ Through(x, y) = [pre |-> x.pre, post |-> f]
  BY Zenon DEF Through
<1>3. \A i \in 1 .. m : y.post[i] \notin Char => y.post[i] \in 1 .. Len(x.post)
  BY PieceIsCharOrPosition
<1>4. \A i \in 1 .. Len(x.post) : x.post[i] \notin Char => x.post[i] \in 1 .. x.pre
  BY PieceIsCharOrPosition
<1> HIDE DEF f, m
<1>5. \A i \in 1 .. m : f[i] \in Char \/ f[i] \in 1 .. x.pre
  BY <1>2, <1>3, <1>4
<1>6. ASSUME NEW i \in 1 .. m, NEW j \in 1 .. m, i < j, f[i] \notin Char, f[j] \notin Char
      PROVE  f[i] < f[j]
  <2>1. /\ y.post[i] \notin Char /\ y.post[j] \notin Char
        /\ y.post[i] \in 1 .. Len(x.post) /\ y.post[j] \in 1 .. Len(x.post)
        /\ f[i] = x.post[y.post[i]] /\ f[j] = x.post[y.post[j]]
    BY <1>2, <1>3, <1>6
  <2>2. y.post[i] < y.post[j]
    BY <1>6, <2>1 DEF IsChangeSet, m
  <2>3. QED
    BY <1>6, <2>1, <2>2, Zenon DEF IsChangeSet
<1>7. IsChangeSet([pre |-> x.pre, post |-> f]) /\ Len(f) = m
  BY <1>1, <1>2, <1>5, <1>6, MakesChangeSet, Zenon
<1>8. Through(x, y).pre = x.pre /\ Through(x, y).post = f
  BY <1>2
<1>9. QED
  BY <1>2, <1>7, <1>8, Zenon DEF m

\* What goes through side by side goes through one beside the other.
LEMMA ThroughBeside ==
  ASSUME NEW x, IsChangeSet(x), NEW y, IsChangeSet(y), Len(x.post) = y.pre,
         NEW p, IsChangeSet(p), NEW q, IsChangeSet(q), Len(p.post) = q.pre
  PROVE  Through(Beside(x, p), Beside(y, q)) = Beside(Through(x, y), Through(p, q))
<1> DEFINE xp == Beside(x, p)
           yq == Beside(y, q)
           xy == Through(x, y)
           pq == Through(p, q)
           k == Len(x.post)
           l == Len(p.post)
           m == Len(y.post)
           n == Len(q.post)
           L == Through(xp, yq)
           R == Beside(xy, pq)
<1>1. /\ x.pre \in Nat /\ y.pre \in Nat /\ p.pre \in Nat /\ q.pre \in Nat
      /\ k \in Nat /\ l \in Nat /\ m \in Nat /\ n \in Nat
  BY ChangeSetSizes
<1>2. /\ IsChangeSet(xp) /\ xp.pre = x.pre + p.pre /\ Len(xp.post) = k + l
      /\ IsChangeSet(yq) /\ yq.pre = y.pre + q.pre /\ Len(yq.post) = m + n
  BY BesideIsChangeSet, Zenon
<1>3. /\ IsChangeSet(xy) /\ xy.pre = x.pre /\ Len(xy.post) = m
      /\ IsChangeSet(pq) /\ pq.pre = p.pre /\ Len(pq.post) = n
      /\ \A i \in 1 .. m : xy.post[i] = IF y.post[i] \in Char THEN y.post[i]
                                        ELSE x.post[y.post[i]]
      /\ \A i \in 1 .. n : pq.post[i] = IF q.post[i] \in Char THEN q.post[i]
                                        ELSE p.post[q.post[i]]
  BY ThroughIsChangeSet
<1>4. /\ \A i \in 1 .. k : xp.post[i] = x.post[i]
      /\ \A i \in 1 .. l : xp.post[k + i] = Shifted(p.post[i], x.pre)
      /\ \A i \in 1 .. m : yq.post[i] = y.post[i]
      /\ \A i \in 1 .. n : yq.post[m + i] = Shifted(q.post[i], y.pre)
  BY BesidePieces, Zenon
<1>5. /\ \A i \in 1 .. m : y.post[i] \notin Char => y.post[i] \in 1 .. k
      /\ \A i \in 1 .. n : q.post[i] \notin Char => q.post[i] \in 1 .. l
      /\ \A i \in 1 .. l : p.post[i] \notin Char => p.post[i] \in 1 .. p.pre
  BY PieceIsCharOrPosition
<1> HIDE DEF xp, yq, xy, pq
<1>6. Len(xp.post) = yq.pre
  BY <1>1, <1>2
<1>7. /\ IsChangeSet(L) /\ L.pre = xp.pre /\ Len(L.post) = Len(yq.post)
      /\ \A i \in 1 .. Len(yq.post) :
           L.post[i] = IF yq.post[i] \in Char THEN yq.post[i] ELSE xp.post[yq.post[i]]
  <2>1. IsChangeSet(xp) /\ IsChangeSet(yq)
    BY <1>2
  <2> HIDE DEF k, l, m, n, R
  <2>2. QED
    BY <1>6, <2>1, ThroughIsChangeSet
<1>8. /\ IsChangeSet(R) /\ R.pre = xy.pre + pq.pre
      /\ Len(R.post) = Len(xy.post) + Len(pq.post)
  BY <1>3, BesideIsChangeSet, Zenon
<1>9. /\ \A i \in 1 .. Len(xy.post) : R.post[i] = xy.post[i]
      /\ \A i \in 1 .. Len(pq.post) : R.post[Len(xy.post) + i] = Shifted(pq.post[i], xy.pre)
  BY <1>3, BesidePieces
<1> HIDE DEF k, l, m, n, L, R
<1>10. L.pre = R.pre /\ Len(L.post) = m + n /\ Len(R.post) = m + n
  BY <1>1, <1>2, <1>3, <1>7, <1>8
<1>11. ASSUME NEW i \in 1 .. m
       PROVE  L.post[i] = R.post[i]
  <2>1. i \in 1 .. m + n
    BY <1>1
  <2>2. L.post[i] = IF y.post[i] \in Char THEN y.post[i] ELSE xp.post[y.post[i]]
    BY <1>2, <1>4, <1>7, <2>1
  <2>3. R.post[i] = IF y.post[i] \in Char THEN y.post[i] ELSE x.post[y.post[i]]
    BY <1>3, <1>9
  <2>4. y.post[i] \notin Char => xp.post[y.post[i]] = x.post[y.post[i]]
    BY <1>4, <1>5
  <2>5. QED
    BY <2>2, <2>3, <2>4
<1>12. ASSUME NEW i \in 1 .. n
       PROVE  L.post[m + i] = R.post[m + i]
  <2>1. m + i \in 1 .. m + n
    BY <1>1
  <2>2. L.post[m + i] = IF Shifted(q.post[i], y.pre) \in Char THEN Shifted(q.post[i], y.pre)
                        ELSE xp.post[Shifted(q.post[i], y.pre)]
    BY <1>2, <1>4, <1>7, <2>1
  <2>3. R.post[m + i] = Shifted(pq.post[i], x.pre)
    BY <1>3, <1>9
  <2>4. CASE q.post[i] \in Char
    <3>1. Shifted(q.post[i], y.pre) = q.post[i] /\ pq.post[i] = q.post[i]
      BY <1>3, <2>4 DEF Shifted
    <3>2. QED
      BY <2>2, <2>3, <2>4, <3>1 DEF Shifted
  <2>5. CASE q.post[i] \notin Char
    <3>1. q.post[i] \in 1 .. l /\ pq.post[i] = p.post[q.post[i]]
      BY <1>3, <1>5, <2>5
    <3>2. Shifted(q.post[i], y.pre) = k + q.post[i] /\ k + q.post[i] \in Int
      BY <1>1, <2>5, <3>1 DEF Shifted, k
    <3>3. k + q.post[i] \notin Char
      BY <3>2, NumbersAreNotChars
    <3>4. xp.post[k + q.post[i]] = Shifted(p.post[q.post[i]], x.pre)
      BY <1>4, <3>1
    <3>5. QED
      BY <2>2, <2>3, <3>1, <3>2, <3>3, <3>4
  <2>6. QED
    BY <2>4, <2>5
<1>13. ASSUME NEW i \in 1 .. m + n
       PROVE  L.post[i] = R.post[i]
  <2>1. CASE i <= m
    BY <1>1, <1>11, <2>1
  <2>2. CASE i > m
    <3>1. i - m \in 1 .. n /\ m + (i - m) = i
      BY <1>1, <2>2
    <3>2. QED
      BY <1>12, <3>1
  <2>3. QED
    BY <1>1, <2>1, <2>2
<1>14. L = R
  BY <1>7, <1>8, <1>10, <1>13, SameChangeSet
<1>15. QED
  BY <1>14 DEF L, R, xp, yq, xy, pq

\* The elements of two sequences behind one another.
LEMMA ConcatPieces ==
  ASSUME NEW S, NEW T, NEW s \in Seq(S), NEW t \in Seq(T)
  PROVE  /\ Len(s \o t) = Len(s) + Len(t)
         /\ \A i \in 1 .. Len(s) : (s \o t)[i] = s[i]
         /\ \A i \in 1 .. Len(t) : (s \o t)[Len(s) + i] = t[i]
         /\ s \o t = [i \in 1 .. Len(s) + Len(t) |-> (s \o t)[i]]
<1>1. s \in Seq(S \cup T) /\ t \in Seq(S \cup T)
  OBVIOUS
<1>2. s \o t \in Seq(S \cup T) /\ Len(s \o t) = Len(s) + Len(t)
  BY <1>1
<1>3. s \o t = [i \in 1 .. Len(s \o t) |-> (s \o t)[i]]
  <2>1. \A u \in Seq(S \cup T) : u = [i \in 1 .. Len(u) |-> u[i]]
    OBVIOUS
  <2>2. QED
    BY <1>2, <2>1, Zenon
<1>4. \A i \in 1 .. Len(s) : (s \o t)[i] = s[i]
  BY <1>1
<1>5. \A i \in 1 .. Len(t) : (s \o t)[Len(s) + i] = t[i]
  BY <1>1
<1>6. QED
  BY <1>2, <1>3, <1>4, <1>5

LEMMA SameSequence ==
  ASSUME NEW S, NEW s \in Seq(S), NEW t \in Seq(S), Len(s) = Len(t),
         \A i \in 1 .. Len(s) : s[i] = t[i]
  PROVE  s = t
OBVIOUS

LEMMA AppendPieces ==
  ASSUME NEW S, NEW s \in Seq(S), NEW e \in S
  PROVE  /\ Append(s, e) \in Seq(S) /\ Len(Append(s, e)) = Len(s) + 1
         /\ Append(s, e)[Len(s) + 1] = e
         /\ \A i \in 1 .. Len(s) : Append(s, e)[i] = s[i]
OBVIOUS

(***************************************************************************)
(* Texts piece by piece.                                                   *)
(***************************************************************************)

LEMMA TextConcat ==
  ASSUME NEW s \in Text, NEW t \in Text
  PROVE  /\ s \o t \in Text /\ Len(s \o t) = Len(s) + Len(t)
         /\ Len(s) \in Nat /\ Len(t) \in Nat
         /\ \A i \in 1 .. Len(s) : (s \o t)[i] = s[i]
         /\ \A i \in 1 .. Len(t) : (s \o t)[Len(s) + i] = t[i]
BY DEF Text

LEMMA SameText ==
  ASSUME NEW s \in Text, NEW t \in Text, Len(s) = Len(t),
         \A i \in 1 .. Len(s) : s[i] = t[i]
  PROVE  s = t
BY SameSequence DEF Text

\* A text of as many characters as two change sets take is one for each.
LEMMA TextApart ==
  ASSUME NEW n \in Nat, NEW m \in Nat, NEW t \in Text, Len(t) = n + m
  PROVE  LET s == SubSeq(t, 1, n)
             u == SubSeq(t, n + 1, n + m)
         IN  /\ s \in Text /\ Len(s) = n /\ u \in Text /\ Len(u) = m
             /\ t = s \o u
BY DEF Text

Parts(t, n, m) ==
  LET s == SubSeq(t, 1, n)
      u == SubSeq(t, n + 1, n + m)
  IN  s \in Text /\ Len(s) = n /\ u \in Text /\ Len(u) = m /\ t = s \o u

LEMMA TextParts ==
  \A t \in Text, n, m \in Nat : Len(t) = n + m => Parts(t, n, m)
BY TextApart DEF Parts

\* A text is cut anywhere.
Cuts(t, n, m) ==
  Len(t) = n + m => \E s, u \in Text : Len(s) = n /\ Len(u) = m /\ t = s \o u

LEMMA TextsAreCut ==
  \A t \in Text, n, m \in Nat : Cuts(t, n, m)
<1> SUFFICES ASSUME NEW t \in Text, NEW n \in Nat, NEW m \in Nat, Len(t) = n + m
             PROVE  \E s, u \in Text : Len(s) = n /\ Len(u) = m /\ t = s \o u
  BY DEF Cuts
<1> DEFINE s == SubSeq(t, 1, n)
           u == SubSeq(t, n + 1, n + m)
<1>1. s \in Text /\ Len(s) = n /\ u \in Text /\ Len(u) = m /\ t = s \o u
  BY TextApart
<1> HIDE DEF s, u
<1>2. QED
  BY <1>1

LEMMA ApplyPieces ==
  ASSUME NEW c, IsChangeSet(c), NEW t \in Text, Len(t) = c.pre
  PROVE  /\ Apply(c, t) \in Text /\ Len(Apply(c, t)) = Len(c.post)
         /\ \A i \in 1 .. Len(c.post) :
              Apply(c, t)[i] = IF c.post[i] \in Char THEN c.post[i] ELSE t[c.post[i]]
BY ApplyMakesText, Zenon DEF Fits, Apply

LEMMA ApplyBeside ==
  ASSUME NEW x, IsChangeSet(x), NEW s \in Text, Len(s) = x.pre,
         NEW y, IsChangeSet(y), NEW t \in Text, Len(t) = y.pre
  PROVE  Apply(Beside(x, y), s \o t) = Apply(x, s) \o Apply(y, t)
<1> DEFINE xy == Beside(x, y)
           A == Apply(x, s)
           B == Apply(y, t)
           L == Apply(xy, s \o t)
           k == Len(x.post)
           m == Len(y.post)
<1>1. /\ IsChangeSet(xy) /\ xy.pre = x.pre + y.pre /\ Len(xy.post) = k + m
      /\ \A i \in 1 .. k : xy.post[i] = x.post[i]
      /\ \A i \in 1 .. m : xy.post[k + i] = Shifted(y.post[i], x.pre)
  BY BesideIsChangeSet, BesidePieces, Zenon
<1>2. /\ k \in Nat /\ m \in Nat /\ x.pre \in Nat /\ y.pre \in Nat
  BY ChangeSetSizes
<1>3. /\ A \in Text /\ Len(A) = k
      /\ \A i \in 1 .. k : A[i] = IF x.post[i] \in Char THEN x.post[i] ELSE s[x.post[i]]
  BY ApplyPieces
<1>4. /\ B \in Text /\ Len(B) = m
      /\ \A i \in 1 .. m : B[i] = IF y.post[i] \in Char THEN y.post[i] ELSE t[y.post[i]]
  BY ApplyPieces
<1>5. /\ s \o t \in Text /\ Len(s \o t) = Len(s) + Len(t)
      /\ \A i \in 1 .. Len(s) : (s \o t)[i] = s[i]
      /\ \A i \in 1 .. Len(t) : (s \o t)[Len(s) + i] = t[i]
  BY TextConcat, Zenon
<1> HIDE DEF xy, A, B
<1>6. /\ L \in Text /\ Len(L) = Len(xy.post)
      /\ \A i \in 1 .. Len(xy.post) :
           L[i] = IF xy.post[i] \in Char THEN xy.post[i] ELSE (s \o t)[xy.post[i]]
  <2>1. Len(s \o t) = xy.pre
    BY <1>1, <1>5
  <2>2. QED
    BY <1>1, <1>5, <2>1, ApplyPieces, Zenon
<1>7. /\ A \o B \in Text /\ Len(A \o B) = k + m
      /\ \A i \in 1 .. k : (A \o B)[i] = A[i]
      /\ \A i \in 1 .. m : (A \o B)[k + i] = B[i]
  <2>1. \A u, v \in Text :
          /\ u \o v \in Text /\ Len(u \o v) = Len(u) + Len(v)
          /\ \A i \in 1 .. Len(u) : (u \o v)[i] = u[i]
          /\ \A i \in 1 .. Len(v) : (u \o v)[Len(u) + i] = v[i]
    BY TextConcat
  <2>2. A \in Text /\ B \in Text
    BY <1>3, <1>4
  <2> HIDE DEF k, m
  <2>3. /\ A \o B \in Text /\ Len(A \o B) = Len(A) + Len(B)
        /\ \A i \in 1 .. Len(A) : (A \o B)[i] = A[i]
        /\ \A i \in 1 .. Len(B) : (A \o B)[Len(A) + i] = B[i]
    BY <2>1, <2>2, Zenon
  <2>4. Len(A) = k /\ Len(B) = m
    BY <1>3, <1>4 DEF k, m
  <2>5. QED
    BY <2>3, <2>4, Zenon
<1>8. /\ \A i \in 1 .. k : x.post[i] \notin Char => x.post[i] \in 1 .. x.pre
      /\ \A i \in 1 .. m : y.post[i] \notin Char => y.post[i] \in 1 .. y.pre
  BY PieceIsCharOrPosition
<1> HIDE DEF k, m, L
<1>9. ASSUME NEW i \in 1 .. k
      PROVE  L[i] = (A \o B)[i]
  <2>1. i \in 1 .. k + m
    BY <1>2
  <2>2. L[i] = IF x.post[i] \in Char THEN x.post[i] ELSE (s \o t)[x.post[i]]
    BY <1>1, <1>6, <2>1, Zenon
  <2>3. QED
    BY <1>3, <1>5, <1>7, <1>8, <2>2
<1>10. ASSUME NEW i \in 1 .. m
       PROVE  L[k + i] = (A \o B)[k + i]
  <2>1. k + i \in 1 .. k + m
    BY <1>2
  <2>2. L[k + i] = IF Shifted(y.post[i], x.pre) \in Char THEN Shifted(y.post[i], x.pre)
                   ELSE (s \o t)[Shifted(y.post[i], x.pre)]
    BY <1>1, <1>6, <2>1, Zenon
  <2>3. CASE y.post[i] \in Char
    BY <1>4, <1>7, <2>2, <2>3, Zenon DEF Shifted
  <2>4. CASE y.post[i] \notin Char
    <3>1. y.post[i] \in 1 .. y.pre /\ Shifted(y.post[i], x.pre) = x.pre + y.post[i]
      BY <1>2, <1>8, <2>4 DEF Shifted
    <3>2. x.pre + y.post[i] \notin Char
      BY <1>2, <3>1, NumbersAreNotChars
    <3>3. (s \o t)[x.pre + y.post[i]] = t[y.post[i]]
      BY <1>5, <3>1, Zenon
    <3>4. QED
      BY <1>4, <1>7, <2>2, <2>4, <3>1, <3>2, <3>3, Zenon
  <2>5. QED
    BY <2>3, <2>4, Zenon
<1>11. ASSUME NEW i \in 1 .. k + m
       PROVE  L[i] = (A \o B)[i]
  <2>1. CASE i \in 1 .. k
    BY <1>9, <2>1, Zenon
  <2>2. CASE i - k \in 1 .. m
    <3>1. k + (i - k) = i
      BY <1>2
    <3>2. L[k + (i - k)] = (A \o B)[k + (i - k)]
      BY <1>10, <2>2, Zenon
    <3>3. QED
      BY <3>1, <3>2, Zenon
  <2>3. i \in 1 .. k \/ i - k \in 1 .. m
    BY <1>2
  <2>4. QED
    BY <2>1, <2>2, <2>3, Zenon
<1>12. L = A \o B
  <2>1. Len(L) = k + m
    BY <1>1, <1>6
  <2>2. \A u, v \in Text :
          Len(u) = Len(v) /\ (\A i \in 1 .. Len(u) : u[i] = v[i]) => u = v
    BY SameText
  <2>3. L \in Text /\ A \o B \in Text /\ Len(A \o B) = k + m
    BY <1>6, <1>7
  <2>4. \A i \in 1 .. Len(L) : L[i] = (A \o B)[i]
    BY <1>11, <2>1, Zenon
  <2>5. Len(L) = Len(A \o B)
    BY <2>1, <2>3, Zenon
  <2>6. QED
    BY <2>2, <2>3, <2>4, <2>5, Zenon
<1>13. QED
  BY <1>12 DEF L, A, B, xy

LEMMA ApplyThrough ==
  ASSUME NEW x, IsChangeSet(x), NEW y, IsChangeSet(y), Len(x.post) = y.pre,
         NEW t \in Text, Len(t) = x.pre
  PROVE  Apply(Through(x, y), t) = Apply(y, Apply(x, t))
<1> DEFINE xy == Through(x, y)
           A == Apply(x, t)
           L == Apply(xy, t)
           R == Apply(y, A)
<1>1. /\ IsChangeSet(xy) /\ xy.pre = x.pre /\ Len(xy.post) = Len(y.post)
      /\ \A i \in 1 .. Len(y.post) :
           xy.post[i] = IF y.post[i] \in Char THEN y.post[i] ELSE x.post[y.post[i]]
  BY ThroughIsChangeSet
<1>2. /\ A \in Text /\ Len(A) = Len(x.post)
      /\ \A i \in 1 .. Len(x.post) :
           A[i] = IF x.post[i] \in Char THEN x.post[i] ELSE t[x.post[i]]
  BY ApplyPieces
<1> HIDE DEF xy, A
<1>3. /\ L \in Text /\ Len(L) = Len(xy.post)
      /\ \A i \in 1 .. Len(xy.post) :
           L[i] = IF xy.post[i] \in Char THEN xy.post[i] ELSE t[xy.post[i]]
  BY <1>1, ApplyPieces
<1>4. /\ R \in Text /\ Len(R) = Len(y.post)
      /\ \A i \in 1 .. Len(y.post) :
           R[i] = IF y.post[i] \in Char THEN y.post[i] ELSE A[y.post[i]]
  BY <1>2, ApplyPieces
<1>5. \A i \in 1 .. Len(y.post) : y.post[i] \notin Char => y.post[i] \in 1 .. Len(x.post)
  BY PieceIsCharOrPosition
<1> HIDE DEF L, R
<1>6. ASSUME NEW i \in 1 .. Len(y.post)
      PROVE  L[i] = R[i]
  <2>1. /\ xy.post[i] = IF y.post[i] \in Char THEN y.post[i] ELSE x.post[y.post[i]]
        /\ L[i] = IF xy.post[i] \in Char THEN xy.post[i] ELSE t[xy.post[i]]
        /\ R[i] = IF y.post[i] \in Char THEN y.post[i] ELSE A[y.post[i]]
    BY <1>1, <1>3, <1>4
  <2>2. CASE y.post[i] \in Char
    BY <2>1, <2>2
  <2>3. CASE y.post[i] \notin Char
    <3>1. y.post[i] \in 1 .. Len(x.post)
      BY <1>5, <2>3
    <3>2. A[y.post[i]] = IF x.post[y.post[i]] \in Char THEN x.post[y.post[i]]
                         ELSE t[x.post[y.post[i]]]
      BY <1>2, <3>1
    <3>3. QED
      BY <2>1, <2>3, <3>2, Zenon
  <2>4. QED
    BY <2>2, <2>3
<1>7. L = R
  BY <1>1, <1>3, <1>4, <1>6, SameText
<1>8. QED
  BY <1>7 DEF L, R, A, xy

\* Where the inverse takes a character from.
LEMMA InvertPieces ==
  ASSUME NEW c, IsChangeSet(c), NEW t \in Text, Len(t) = c.pre
  PROVE  /\ IsChangeSet(Invert(c, t))
         /\ Invert(c, t).pre = Len(c.post) /\ Len(Invert(c, t).post) = c.pre
         /\ \A i \in 1 .. c.pre, p \in 1 .. Len(c.post) :
              c.post[p] = i => Invert(c, t).post[i] = p
         /\ \A i \in 1 .. c.pre :
              (\A p \in 1 .. Len(c.post) : c.post[p] # i) => Invert(c, t).post[i] = t[i]
<1>1. Invert(c, t).post = [i \in 1 .. c.pre |->
                             IF \E p \in 1 .. Len(c.post) : c.post[p] = i
                             THEN CHOOSE p \in 1 .. Len(c.post) : c.post[p] = i
                             ELSE t[i]]
  BY DEF Invert
<1>2. ASSUME NEW i \in 1 .. c.pre, NEW p \in 1 .. Len(c.post), c.post[p] = i
      PROVE  Invert(c, t).post[i] = p
  <2> DEFINE q == CHOOSE q \in 1 .. Len(c.post) : c.post[q] = i
  <2>1. q \in 1 .. Len(c.post) /\ c.post[q] = i
    BY <1>2
  <2>2. Invert(c, t).post[i] = q
    BY <1>1, <1>2
  <2> HIDE DEF q
  <2>3. i \notin Char
    BY NumbersAreNotChars, ChangeSetSizes
  <2>4. p = q
    BY <1>2, <2>1, <2>3, RetainedOnce
  <2>5. QED
    BY <2>2, <2>4
<1>3. QED
  BY <1>1, <1>2, InvertMakesChangeSet DEF Fits

LEMMA InvertBeside ==
  ASSUME NEW x, IsChangeSet(x), NEW s \in Text, Len(s) = x.pre,
         NEW y, IsChangeSet(y), NEW t \in Text, Len(t) = y.pre
  PROVE  Invert(Beside(x, y), s \o t) = Beside(Invert(x, s), Invert(y, t))
<1> DEFINE xy == Beside(x, y)
           A == Invert(x, s)
           B == Invert(y, t)
           L == Invert(xy, s \o t)
           R == Beside(A, B)
           k == Len(x.post)
           m == Len(y.post)
           n == x.pre
           o == y.pre
<1>1. /\ IsChangeSet(xy) /\ xy.pre = n + o /\ Len(xy.post) = k + m
      /\ \A i \in 1 .. k : xy.post[i] = x.post[i]
      /\ \A i \in 1 .. m : xy.post[k + i] = Shifted(y.post[i], n)
  BY BesideIsChangeSet, BesidePieces, Zenon
<1>2. k \in Nat /\ m \in Nat /\ n \in Nat /\ o \in Nat
  BY ChangeSetSizes
<1>3. /\ IsChangeSet(A) /\ A.pre = k /\ Len(A.post) = n
      /\ \A i \in 1 .. n, p \in 1 .. k : x.post[p] = i => A.post[i] = p
      /\ \A i \in 1 .. n : (\A p \in 1 .. k : x.post[p] # i) => A.post[i] = s[i]
  BY InvertPieces
<1>4. /\ IsChangeSet(B) /\ B.pre = m /\ Len(B.post) = o
      /\ \A i \in 1 .. o, p \in 1 .. m : y.post[p] = i => B.post[i] = p
      /\ \A i \in 1 .. o : (\A p \in 1 .. m : y.post[p] # i) => B.post[i] = t[i]
  BY InvertPieces
<1>5. /\ s \o t \in Text /\ Len(s \o t) = n + o
      /\ \A i \in 1 .. n : (s \o t)[i] = s[i]
      /\ \A i \in 1 .. o : (s \o t)[n + i] = t[i]
      /\ \A i \in 1 .. n : s[i] \in Char
      /\ \A i \in 1 .. o : t[i] \in Char
  <2>1. /\ s \o t \in Text /\ Len(s \o t) = Len(s) + Len(t)
        /\ \A i \in 1 .. Len(s) : (s \o t)[i] = s[i]
        /\ \A i \in 1 .. Len(t) : (s \o t)[Len(s) + i] = t[i]
    BY TextConcat, Zenon
  <2>2. (\A i \in 1 .. Len(s) : s[i] \in Char) /\ (\A i \in 1 .. Len(t) : t[i] \in Char)
    BY DEF Text
  <2>3. Len(s) = n /\ Len(t) = o
    OBVIOUS
  <2> HIDE DEF n, o
  <2>4. QED
    BY <2>1, <2>2, <2>3
<1> HIDE DEF xy, A, B
<1>6. /\ IsChangeSet(L) /\ L.pre = Len(xy.post) /\ Len(L.post) = xy.pre
      /\ \A i \in 1 .. xy.pre, p \in 1 .. Len(xy.post) : xy.post[p] = i => L.post[i] = p
      /\ \A i \in 1 .. xy.pre :
           (\A p \in 1 .. Len(xy.post) : xy.post[p] # i) => L.post[i] = (s \o t)[i]
  <2>1. IsChangeSet(xy) /\ s \o t \in Text /\ Len(s \o t) = xy.pre
    BY <1>1, <1>5
  <2>2. \A u \in Text : Len(u) = xy.pre =>
          /\ IsChangeSet(Invert(xy, u))
          /\ Invert(xy, u).pre = Len(xy.post) /\ Len(Invert(xy, u).post) = xy.pre
          /\ \A i \in 1 .. xy.pre, p \in 1 .. Len(xy.post) :
               xy.post[p] = i => Invert(xy, u).post[i] = p
          /\ \A i \in 1 .. xy.pre :
               (\A p \in 1 .. Len(xy.post) : xy.post[p] # i) =>
                 Invert(xy, u).post[i] = u[i]
    BY <2>1, InvertPieces
  <2>3. QED
    BY <2>1, <2>2, Zenon
<1>7. /\ IsChangeSet(R) /\ R.pre = A.pre + B.pre /\ Len(R.post) = Len(A.post) + Len(B.post)
      /\ \A i \in 1 .. Len(A.post) : R.post[i] = A.post[i]
      /\ \A i \in 1 .. Len(B.post) : R.post[Len(A.post) + i] = Shifted(B.post[i], A.pre)
  <2>1. IsChangeSet(A) /\ IsChangeSet(B)
    BY <1>3, <1>4
  <2> HIDE DEF k, m, n, o, L
  <2>2. IsChangeSet(R)
    BY <2>1, BesideIsChangeSet, Zenon
  <2>3. R.pre = A.pre + B.pre /\ Len(R.post) = Len(A.post) + Len(B.post)
    BY <2>1, BesideIsChangeSet, Zenon
  <2>4. /\ \A i \in 1 .. Len(A.post) : R.post[i] = A.post[i]
        /\ \A i \in 1 .. Len(B.post) : R.post[Len(A.post) + i] = Shifted(B.post[i], A.pre)
    BY <2>1, BesidePieces
  <2>5. QED
    BY <2>2, <2>3, <2>4
<1>8. /\ \A i \in 1 .. k : x.post[i] \notin Char => x.post[i] \in 1 .. n
      /\ \A i \in 1 .. m : y.post[i] \notin Char => y.post[i] \in 1 .. o
  BY PieceIsCharOrPosition
<1> HIDE DEF k, m, n, o, L, R
<1>9. \A i \in Nat : i \notin Char
  BY NumbersAreNotChars
<1>10. \A p \in 1 .. m :
         \/ y.post[p] \in Char /\ xy.post[k + p] \in Char
         \/ y.post[p] \in 1 .. o /\ xy.post[k + p] = n + y.post[p]
  BY <1>1, <1>2, <1>8 DEF Shifted
<1>11. \A p \in 1 .. k + m : p \in 1 .. k \/ \E q \in 1 .. m : p = k + q
  <2>1. ASSUME NEW p \in 1 .. k + m, p \notin 1 .. k
        PROVE  p - k \in 1 .. m /\ p = k + (p - k)
    BY <1>2, <2>1
  <2>2. QED
    BY <2>1
<1>12. ASSUME NEW i \in 1 .. n
       PROVE  L.post[i] = R.post[i]
  <2>0. i \in 1 .. n + o /\ R.post[i] = A.post[i]
    BY <1>2, <1>3, <1>7
  <2>1. CASE \E p \in 1 .. k : x.post[p] = i
    <3>1. PICK p \in 1 .. k : x.post[p] = i
      BY <2>1
    <3>2. p \in 1 .. k + m /\ xy.post[p] = i
      BY <1>1, <1>2, <3>1
    <3>3. QED
      BY <1>1, <1>3, <1>6, <2>0, <3>1, <3>2
  <2>2. CASE ~\E p \in 1 .. k : x.post[p] = i
    <3>1. ASSUME NEW p \in 1 .. k + m PROVE xy.post[p] # i
      <4>1. CASE p \in 1 .. k
        BY <1>1, <2>2, <4>1
      <4>2. CASE \E q \in 1 .. m : p = k + q
        <5>1. PICK q \in 1 .. m : p = k + q
          BY <4>2
        <5>2. i \notin Char
          BY <1>2, <1>9
        <5>3. CASE y.post[q] \in Char /\ xy.post[k + q] \in Char
          BY <5>1, <5>2, <5>3
        <5>4. CASE y.post[q] \in 1 .. o /\ xy.post[k + q] = n + y.post[q]
          <6>1. ASSUME NEW z \in 1 .. o
                PROVE  n + z # i
            <7>1. z > 0 /\ i <= n /\ n \in Nat /\ i \in Nat /\ z \in Nat
              BY <1>2
            <7>2. QED
              BY <7>1
          <6>2. QED
            BY <5>1, <5>4, <6>1
        <5>5. QED
          BY <1>10, <5>3, <5>4
      <4>3. QED
        BY <1>11, <4>1, <4>2
    <3>2. L.post[i] = (s \o t)[i]
      BY <1>1, <1>6, <2>0, <3>1, Zenon
    <3>3. QED
      BY <1>3, <1>5, <2>0, <2>2, <3>2, Zenon
  <2>3. QED
    BY <2>1, <2>2
<1>13. ASSUME NEW i \in 1 .. o
       PROVE  L.post[n + i] = R.post[n + i]
  <2>0. n + i \in 1 .. n + o /\ R.post[n + i] = Shifted(B.post[i], k)
    BY <1>2, <1>3, <1>4, <1>7
  <2>1. CASE \E p \in 1 .. m : y.post[p] = i
    <3>1. PICK p \in 1 .. m : y.post[p] = i
      BY <2>1
    <3>2. i \notin Char /\ p \notin Char
      BY <1>2, <1>9
    <3>3. k + p \in 1 .. k + m
      BY <1>2
    <3>7. xy.post[k + p] = n + i
      BY <1>2, <1>10, <3>1, <3>2
    <3>4. L.post[n + i] = k + p
      BY <1>1, <1>6, <2>0, <3>3, <3>7
    <3>5. B.post[i] = p
      BY <1>4, <3>1
    <3>6. QED
      BY <1>2, <2>0, <3>2, <3>4, <3>5 DEF Shifted
  <2>2. CASE ~\E p \in 1 .. m : y.post[p] = i
    <3>1. ASSUME NEW p \in 1 .. k + m PROVE xy.post[p] # n + i
      <4>0. n + i \notin Char /\ n + i \notin 1 .. n
        BY <1>2, <1>9
      <4>1. CASE p \in 1 .. k
        BY <1>1, <1>8, <4>0, <4>1
      <4>2. CASE \E q \in 1 .. m : p = k + q
        <5>1. PICK q \in 1 .. m : p = k + q
          BY <4>2
        <5>2. y.post[q] # i
          BY <2>2
        <5>3. QED
          BY <1>2, <1>10, <4>0, <5>1, <5>2
      <4>3. QED
        BY <1>11, <4>1, <4>2
    <3>2. L.post[n + i] = (s \o t)[n + i]
      BY <1>1, <1>6, <2>0, <3>1, Zenon
    <3>3. B.post[i] = t[i] /\ t[i] \in Char
      BY <1>4, <1>5, <2>2
    <3>4. QED
      BY <1>5, <2>0, <3>2, <3>3 DEF Shifted
  <2>3. QED
    BY <2>1, <2>2
<1>14. ASSUME NEW i \in 1 .. n + o
       PROVE  L.post[i] = R.post[i]
  <2>1. CASE i <= n
    BY <1>2, <1>12, <2>1
  <2>2. CASE i > n
    <3>1. i - n \in 1 .. o /\ n + (i - n) = i
      BY <1>2, <2>2
    <3>2. QED
      BY <1>13, <3>1
  <2>3. QED
    BY <1>2, <2>1, <2>2
<1>15. L = R
  <2>1. L.pre = R.pre /\ Len(L.post) = n + o /\ Len(R.post) = n + o
    BY <1>1, <1>3, <1>4, <1>6, <1>7
  <2>2. QED
    BY <1>6, <1>7, <1>14, <2>1, SameChangeSet
<1>16. QED
  BY <1>15 DEF L, R, A, B, xy

LEMMA TextAssociates ==
  ASSUME NEW s \in Text, NEW t \in Text, NEW u \in Text
  PROVE  (s \o t) \o u = s \o (t \o u)
<1> DEFINE L == (s \o t) \o u
           R == s \o (t \o u)
<1>1. \A v, w \in Text :
        /\ v \o w \in Text /\ Len(v \o w) = Len(v) + Len(w)
        /\ \A i \in 1 .. Len(v) : (v \o w)[i] = v[i]
        /\ \A i \in 1 .. Len(w) : (v \o w)[Len(v) + i] = w[i]
  BY TextConcat
<1>2. s \o t \in Text /\ t \o u \in Text
  BY <1>1
<1>3. Len(s) \in Nat /\ Len(t) \in Nat /\ Len(u) \in Nat
  BY DEF Text
<1> DEFINE k == Len(s)
           m == Len(t)
           n == Len(u)
<1>4. Len(s \o t) = k + m /\ Len(t \o u) = m + n
  BY <1>1
<1>5. /\ \A i \in 1 .. k : (s \o t)[i] = s[i]
      /\ \A i \in 1 .. m : (s \o t)[k + i] = t[i]
      /\ \A i \in 1 .. m : (t \o u)[i] = t[i]
      /\ \A i \in 1 .. n : (t \o u)[m + i] = u[i]
  BY <1>1
<1>6. /\ L \in Text /\ Len(L) = Len(s \o t) + n
      /\ \A i \in 1 .. Len(s \o t) : L[i] = (s \o t)[i]
      /\ \A i \in 1 .. n : L[Len(s \o t) + i] = u[i]
  BY <1>1, <1>2, Zenon
<1>7. /\ R \in Text /\ Len(R) = k + Len(t \o u)
      /\ \A i \in 1 .. k : R[i] = s[i]
      /\ \A i \in 1 .. Len(t \o u) : R[k + i] = (t \o u)[i]
  BY <1>1, <1>2, Zenon
<1> HIDE DEF L, R, k, m, n
<1>8. Len(L) = k + m + n /\ Len(R) = k + m + n /\ k \in Nat /\ m \in Nat /\ n \in Nat
  BY <1>3, <1>4, <1>6, <1>7 DEF k, m, n
<1>9. ASSUME NEW i \in 1 .. k PROVE L[i] = R[i]
  <2>1. i \in 1 .. k + m
    BY <1>8
  <2>2. QED
    BY <1>4, <1>5, <1>6, <1>7, <2>1
<1>10. ASSUME NEW i \in 1 .. m PROVE L[k + i] = R[k + i]
  <2>1. k + i \in 1 .. k + m /\ i \in 1 .. m + n
    BY <1>8
  <2>2. L[k + i] = (s \o t)[k + i]
    BY <1>4, <1>6, <2>1, Zenon
  <2>3. R[k + i] = (t \o u)[i]
    BY <1>4, <1>7, <2>1, Zenon
  <2>4. QED
    BY <1>5, <2>2, <2>3, Zenon
<1>11. ASSUME NEW i \in 1 .. n PROVE L[(k + m) + i] = R[(k + m) + i]
  <2>1. m + i \in 1 .. m + n /\ (k + m) + i = k + (m + i)
    BY <1>8
  <2>2. L[(k + m) + i] = u[i]
    BY <1>4, <1>6, Zenon
  <2>3. R[k + (m + i)] = (t \o u)[m + i]
    BY <1>4, <1>7, <2>1, Zenon
  <2>4. QED
    BY <1>5, <2>1, <2>2, <2>3, Zenon
<1>12. ASSUME NEW i \in 1 .. Len(L) PROVE L[i] = R[i]
  <2>1. \/ i \in 1 .. k
        \/ i - k \in 1 .. m /\ k + (i - k) = i
        \/ i - (k + m) \in 1 .. n /\ (k + m) + (i - (k + m)) = i
    BY <1>8
  <2>2. CASE i - k \in 1 .. m /\ k + (i - k) = i
    <3>1. L[k + (i - k)] = R[k + (i - k)]
      BY <1>10, <2>2, Zenon
    <3>2. QED
      BY <2>2, <3>1, Zenon
  <2>3. CASE i - (k + m) \in 1 .. n /\ (k + m) + (i - (k + m)) = i
    <3>1. L[(k + m) + (i - (k + m))] = R[(k + m) + (i - (k + m))]
      BY <1>11, <2>3, Zenon
    <3>2. QED
      BY <2>3, <3>1, Zenon
  <2>4. QED
    BY <1>9, <2>1, <2>2, <2>3, Zenon
<1>13. L = R
  BY <1>6, <1>7, <1>8, <1>12, SameText, Zenon
<1>14. QED
  BY <1>13 DEF L, R

Associate(s, t, u) == (s \o t) \o u = s \o (t \o u)

LEMMA TextsAssociate ==
  \A s, t, u \in Text : Associate(s, t, u)
BY TextAssociates DEF Associate

\* A text of two pieces is cut where they meet.
LEMMA TextCut ==
  ASSUME NEW s \in Text, NEW t \in Text
  PROVE  /\ SubSeq(s \o t, 1, Len(s)) = s
         /\ SubSeq(s \o t, Len(s) + 1, Len(s \o t)) = t
<1>1. /\ s \o t \in Text /\ Len(s \o t) = Len(s) + Len(t)
      /\ Len(s) \in Nat /\ Len(t) \in Nat
      /\ \A i \in 1 .. Len(s) : (s \o t)[i] = s[i]
      /\ \A i \in 1 .. Len(t) : (s \o t)[Len(s) + i] = t[i]
  BY TextConcat
<1>2. ASSUME NEW u \in Text, NEW k \in Nat, NEW m \in Nat, Len(u) = k + m
      PROVE  /\ SubSeq(u, 1, k) \in Text /\ Len(SubSeq(u, 1, k)) = k
             /\ \A i \in 1 .. k : SubSeq(u, 1, k)[i] = u[i]
             /\ SubSeq(u, k + 1, Len(u)) \in Text /\ Len(SubSeq(u, k + 1, Len(u))) = m
             /\ \A i \in 1 .. m : SubSeq(u, k + 1, Len(u))[i] = u[k + i]
  <2>1. u \in Seq(Char) /\ Len(u) = k + m
    BY <1>2 DEF Text
  <2>2. SubSeq(u, 1, k) \in Text /\ Len(SubSeq(u, 1, k)) = k
    BY <2>1 DEF Text
  <2>3. \A i \in 1 .. k : SubSeq(u, 1, k)[i] = u[i]
    BY <2>1
  <2>4. SubSeq(u, k + 1, k + m) \in Text /\ Len(SubSeq(u, k + 1, k + m)) = m
    BY <2>1 DEF Text
  <2>5. \A i \in 1 .. m : SubSeq(u, k + 1, k + m)[i] = u[k + i]
    <3>1. ASSUME NEW i \in 1 .. m
          PROVE  SubSeq(u, k + 1, k + m)[i] = u[k + 1 + i - 1]
      BY <2>1
    <3>2. \A i \in 1 .. m : k + 1 + i - 1 = k + i
      OBVIOUS
    <3>3. QED
      BY <3>1, <3>2
  <2>6. QED
    BY <1>2, <2>2, <2>3, <2>4, <2>5
<1> DEFINE u == s \o t
           p == SubSeq(u, 1, Len(s))
           q == SubSeq(u, Len(s) + 1, Len(u))
<1>3. /\ p \in Text /\ Len(p) = Len(s) /\ \A i \in 1 .. Len(s) : p[i] = u[i]
      /\ q \in Text /\ Len(q) = Len(t) /\ \A i \in 1 .. Len(t) : q[i] = u[Len(s) + i]
  <2>1. u \in Text /\ Len(u) = Len(s) + Len(t) /\ Len(s) \in Nat /\ Len(t) \in Nat
    BY <1>1
  <2> HIDE DEF u
  <2>2. \A k, m \in Nat : Len(u) = k + m =>
          /\ SubSeq(u, 1, k) \in Text /\ Len(SubSeq(u, 1, k)) = k
          /\ \A i \in 1 .. k : SubSeq(u, 1, k)[i] = u[i]
          /\ SubSeq(u, k + 1, Len(u)) \in Text /\ Len(SubSeq(u, k + 1, Len(u))) = m
          /\ \A i \in 1 .. m : SubSeq(u, k + 1, Len(u))[i] = u[k + i]
    BY <1>2, <2>1, Zenon
  <2>3. QED
    BY <2>1, <2>2, Zenon
<1> HIDE DEF u, p, q
<1>4. \A i \in 1 .. Len(s) : p[i] = s[i]
  BY <1>1, <1>3 DEF u
<1>5. \A i \in 1 .. Len(t) : q[i] = t[i]
  BY <1>1, <1>3 DEF u
<1>6. p = s
  BY <1>3, <1>4, SameText
<1>7. q = t
  BY <1>3, <1>5, SameText
<1>8. QED
  BY <1>6, <1>7 DEF p, q, u

LEMMA NoText ==
  /\ << >> \in Text /\ Len(<< >>) = 0
  /\ \A s \in Text : << >> \o s = s /\ s \o << >> = s
  /\ \A s \in Text : Len(s) = 0 => s = << >>
BY DEF Text

\* The pieces of a text of three.
HasPieces(s, t, u) ==
  /\ s \o (t \o u) \in Text
  /\ SubSeq(s \o (t \o u), 1, Len(s)) = s
  /\ SubSeq(s \o (t \o u), Len(s) + 1, Len(s) + Len(t)) = t
  /\ SubSeq(s \o (t \o u), Len(s) + Len(t) + 1, Len(s \o (t \o u))) = u

LEMMA TextInThree ==
  ASSUME NEW s \in Text, NEW t \in Text, NEW u \in Text
  PROVE  HasPieces(s, t, u)
<1> DEFINE w == s \o (t \o u)
           v == s \o t
<1>1. /\ \A x, y \in Text : x \o y \in Text /\ Len(x \o y) = Len(x) + Len(y)
      /\ Len(s) \in Nat /\ Len(t) \in Nat /\ Len(u) \in Nat
  BY TextConcat
<1>2. /\ t \o u \in Text /\ w \in Text /\ v \in Text /\ w = v \o u
  BY <1>1, TextAssociates, Zenon
<1>3. Len(v) = Len(s) + Len(t) /\ Len(w) = Len(v) + Len(u)
  BY <1>1, <1>2, Zenon
<1>4. \A x, y \in Text : SubSeq(x \o y, 1, Len(x)) = x
                         /\ SubSeq(x \o y, Len(x) + 1, Len(x \o y)) = y
  BY TextCut
<1>5. SubSeq(w, 1, Len(s)) = s
  BY <1>2, <1>4, Zenon
<1>6. SubSeq(w, Len(v) + 1, Len(w)) = u /\ SubSeq(w, 1, Len(v)) = v
  <2> HIDE DEF w, v
  <2>1. SubSeq(v \o u, Len(v) + 1, Len(v \o u)) = u /\ SubSeq(v \o u, 1, Len(v)) = v
    BY <1>2, <1>4, Zenon
  <2>2. QED
    BY <1>2, <2>1, Zenon
<1>7. SubSeq(w, Len(s) + 1, Len(s) + Len(t)) = t
  <2>1. SubSeq(v, Len(s) + 1, Len(v)) = t /\ SubSeq(w, 1, Len(v)) = v
    BY <1>4, <1>6
  <2> HIDE DEF w, v
  <2>2. \A x \in Text, k, m \in Nat : Len(x) >= k + m =>
          SubSeq(SubSeq(x, 1, k + m), k + 1, k + m) = SubSeq(x, k + 1, k + m)
    <3>1. SUFFICES ASSUME NEW x \in Seq(Char), NEW k \in Nat, NEW m \in Nat, Len(x) >= k + m
                   PROVE  SubSeq(SubSeq(x, 1, k + m), k + 1, k + m) = SubSeq(x, k + 1, k + m)
      BY DEF Text
    <3> DEFINE a == SubSeq(x, 1, k + m)
    <3>2. a \in Seq(Char) /\ Len(a) = k + m /\ \A i \in 1 .. k + m : a[i] = x[i]
      BY <3>1
    <3> HIDE DEF a
    <3>3. SubSeq(a, k + 1, k + m) = SubSeq(x, k + 1, k + m)
      BY <3>1, <3>2
    <3>4. QED
      BY <3>3 DEF a
  <2>3. Len(w) >= Len(s) + Len(t)
    BY <1>1, <1>3
  <2>4. SubSeq(SubSeq(w, 1, Len(s) + Len(t)), Len(s) + 1, Len(s) + Len(t))
          = SubSeq(w, Len(s) + 1, Len(s) + Len(t))
    BY <1>1, <1>2, <2>2, <2>3, Zenon
  <2>5. QED
    BY <1>3, <2>1, <2>4, Zenon
<1>8. QED
  BY <1>2, <1>3, <1>5, <1>6, <1>7, Zenon DEF HasPieces

=============================================================================
