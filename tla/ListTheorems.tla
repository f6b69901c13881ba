---------------------------- MODULE ListTheorems ----------------------------
(***************************************************************************)
(* What the lists of operations mean, for lists of every length.           *)
(*                                                                         *)
(* A list means the change sets of its operations side by side, each for   *)
(* the piece of the text it is at; what is done to two lists operation by  *)
(* operation is done to their meanings piece by piece.                     *)
(***************************************************************************)
EXTENDS ChangeSetOps, ChangeSetTheorems, InductionTheorems

(***************************************************************************)
(* Operations and lists of them.                                           *)
(***************************************************************************)

AnyOperation ==
  {Count(k, n) : k \in {"retain", "delete"}, n \in Nat} \cup {Insert(s) : s \in Text}

\* A list has no operation for nothing.
Operation == {op \in AnyOperation : SizeOf(op) # 0}

Of(op) == MeaningOf(Nothing, op)

LEMMA OperationKinds ==
  ASSUME NEW op \in AnyOperation
  PROVE  \/ op.kind = "retain" /\ op.n \in Nat /\ op = Count("retain", op.n) /\ SizeOf(op) = op.n
         \/ op.kind = "delete" /\ op.n \in Nat /\ op = Count("delete", op.n) /\ SizeOf(op) = op.n
         \/ op.kind = "insert" /\ op.text \in Text /\ op = Insert(op.text) /\ SizeOf(op) = Len(op.text)
BY DEF AnyOperation, Count, Insert, SizeOf

LEMMA CountIsOperation ==
  ASSUME NEW k \in {"retain", "delete"}, NEW n \in Nat
  PROVE  LET op == Count(k, n)
         IN  /\ op \in AnyOperation /\ op.kind = k /\ op.n = n /\ SizeOf(op) = n
             /\ n # 0 => op \in Operation
BY DEF Operation, AnyOperation, Count, SizeOf

LEMMA InsertIsOperation ==
  ASSUME NEW s \in Text
  PROVE  LET op == Insert(s)
         IN  /\ op \in AnyOperation /\ op.kind = "insert" /\ op.text = s
             /\ SizeOf(op) = Len(s)
             /\ s # << >> => op \in Operation
BY DEF Operation, AnyOperation, Insert, SizeOf, Text

LEMMA InsertMore ==
  ASSUME NEW ops, NEW i \in DOMAIN ops, NEW t, ops[i] = Insert(t), NEW s
  PROVE  MoreText(ops, i, s) = [ops EXCEPT ![i] = Insert(t \o s)]
<1>1. [Insert(t) EXCEPT !.text = @ \o s] = Insert(t \o s)
  <2>1. \A w : [Insert(t) EXCEPT !.text = w] = Insert(w)
    BY DEF Insert
  <2>2. Insert(t).text = t
    BY DEF Insert
  <2>3. QED
    BY <2>1, <2>2, Zenon
<1>2. MoreText(ops, i, s) = [ops EXCEPT ![i] = [ops[i] EXCEPT !.text = @ \o s]]
  BY DEF MoreText
<1>3. QED
  BY <1>1, <1>2, Zenon

LEMMA OfRetain ==
  ASSUME NEW n \in Nat
  PROVE  LET x == Of(Count("retain", n))
         IN  /\ IsChangeSet(x) /\ x.pre = n /\ Len(x.post) = n
             /\ \A i \in 1 .. n : x.post[i] = i /\ x.post[i] \notin Char
<1> DEFINE f == [i \in 1 .. n |-> i]
<1>1. Of(Count("retain", n)) = [pre |-> 0 + n, post |-> << >> \o [i \in 1 .. n |-> 0 + i]]
  BY DEF Of, MeaningOf, Count, Nothing
<1>2. [i \in 1 .. n |-> 0 + i] = f
  OBVIOUS
<1>3. f \in Seq(Int) /\ Len(f) = n
  OBVIOUS
<1>4. << >> \o f = f
  BY <1>3
<1>5. Of(Count("retain", n)) = [pre |-> n, post |-> f]
  BY <1>1, <1>2, <1>4
<1>6. \A i \in 1 .. n : f[i] = i /\ f[i] \notin Char
  BY NumbersAreNotChars
<1>7. IsChangeSet([pre |-> n, post |-> f]) /\ Len(f) = n
  BY <1>6, MakesChangeSet
<1> HIDE DEF f
<1>8. QED
  BY <1>5, <1>6, <1>7

LEMMA OfDelete ==
  ASSUME NEW n \in Nat
  PROVE  LET x == Of(Count("delete", n))
         IN  /\ x = [pre |-> n, post |-> << >>]
             /\ IsChangeSet(x) /\ x.pre = n /\ Len(x.post) = 0
<1>1. Of(Count("delete", n)) = [pre |-> n, post |-> << >>]
  BY DEF Of, MeaningOf, Count, Nothing
<1>2. IsChangeSet([pre |-> n, post |-> << >>])
  BY DEF IsChangeSet
<1>3. QED
  BY <1>1, <1>2

LEMMA TextIsChangeSet ==
  ASSUME NEW s \in Text
  PROVE  IsChangeSet([pre |-> 0, post |-> s]) /\ Len(s) \in Nat
<1>1. s \in Seq(Char)
  BY DEF Text
<1>2. \A i \in 1 .. Len(s) : s[i] \in Char
  BY <1>1
<1>3. s = [i \in 1 .. Len(s) |-> s[i]] /\ Len(s) \in Nat
  BY <1>1
<1>4. QED
  BY <1>2, <1>3, MakesChangeSet

LEMMA OfInsert ==
  ASSUME NEW s \in Text
  PROVE  LET x == Of(Insert(s))
         IN  /\ x = [pre |-> 0, post |-> s]
             /\ IsChangeSet(x) /\ x.pre = 0 /\ Len(x.post) = Len(s)
             /\ \A i \in 1 .. Len(s) : x.post[i] = s[i] /\ s[i] \in Char
<1>1. Of(Insert(s)) = [pre |-> 0, post |-> << >> \o s]
  BY DEF Of, MeaningOf, Insert, Nothing
<1>2. << >> \o s = s
  BY DEF Text
<1>3. \A i \in 1 .. Len(s) : s[i] \in Char
  BY DEF Text
<1>4. QED
  BY <1>1, <1>2, <1>3, TextIsChangeSet

LEMMA OfIsChangeSet ==
  ASSUME NEW op \in AnyOperation
  PROVE  IsChangeSet(Of(op))
<1>1. CASE op.kind = "retain"
  BY <1>1, OperationKinds, OfRetain
<1>2. CASE op.kind = "delete"
  BY <1>2, OperationKinds, OfDelete
<1>3. CASE op.kind = "insert"
  BY <1>3, OperationKinds, OfInsert
<1>4. QED
  BY <1>1, <1>2, <1>3, OperationKinds

LEMMA MeaningOfIsBeside ==
  ASSUME NEW x, IsChangeSet(x), NEW op \in AnyOperation
  PROVE  MeaningOf(x, op) = Beside(x, Of(op))
<1> DEFINE k == Len(x.post)
           L == MeaningOf(x, op)
           R == Beside(x, Of(op))
<1>1. /\ x.pre \in Nat /\ k \in Nat /\ x = [pre |-> x.pre, post |-> x.post]
      /\ x.post \in Seq(Piece(x.pre))
  BY DEF IsChangeSet
<1>2. /\ IsChangeSet(Of(op)) /\ IsChangeSet(R) /\ R.pre = x.pre + Of(op).pre
      /\ Len(R.post) = k + Len(Of(op).post)
      /\ \A i \in 1 .. k : R.post[i] = x.post[i]
      /\ \A i \in 1 .. Len(Of(op).post) : R.post[k + i] = Shifted(Of(op).post[i], x.pre)
  BY OfIsChangeSet, BesideIsChangeSet, BesidePieces, Zenon
<1>3. R = [pre |-> R.pre, post |-> R.post] /\ R.post = [i \in 1 .. Len(R.post) |-> R.post[i]]
  BY <1>2, ChangeSetParts, Zenon
<1> HIDE DEF R
<1>4. CASE op.kind = "retain"
  <2> DEFINE n == op.n
             f == [i \in 1 .. n |-> x.pre + i]
  <2>1. n \in Nat /\ op = Count("retain", n)
    BY <1>4, OperationKinds
  <2>2. L = [pre |-> x.pre + n, post |-> x.post \o f]
    BY <1>4 DEF MeaningOf
  <2>3. /\ Of(op).pre = n /\ Len(Of(op).post) = n
        /\ \A i \in 1 .. n : Of(op).post[i] = i /\ Of(op).post[i] \notin Char
    BY <2>1, OfRetain
  <2>4. f \in Seq(Int) /\ Len(f) = n /\ \A i \in 1 .. n : f[i] = x.pre + i
    BY <1>1, <2>1
  <2> HIDE DEF n, f
  <2>5. /\ Len(x.post \o f) = k + n
        /\ \A i \in 1 .. k : (x.post \o f)[i] = x.post[i]
        /\ \A i \in 1 .. n : (x.post \o f)[k + i] = f[i]
        /\ x.post \o f = [i \in 1 .. k + n |-> (x.post \o f)[i]]
    <3>1. /\ Len(x.post \o f) = Len(x.post) + Len(f)
          /\ \A i \in 1 .. Len(x.post) : (x.post \o f)[i] = x.post[i]
          /\ \A i \in 1 .. Len(f) : (x.post \o f)[Len(x.post) + i] = f[i]
          /\ x.post \o f = [i \in 1 .. Len(x.post) + Len(f) |-> (x.post \o f)[i]]
      <4>1. \E T : f \in Seq(T)
        BY <2>4
      <4>2. PICK T : f \in Seq(T)
        BY <4>1
      <4>3. x.post \in Seq(Piece(x.pre))
        BY <1>1
      <4>4. QED
        BY <4>2, <4>3, ConcatPieces
    <3>2. QED
      BY <2>4, <3>1, Zenon
  <2>6. \A i \in 1 .. n : R.post[k + i] = i + x.pre
    BY <1>2, <2>3 DEF Shifted
  <2>7. ASSUME NEW i \in 1 .. k + n
        PROVE  (x.post \o f)[i] = R.post[i]
    <3>1. CASE i <= k
      <4>1. i \in 1 .. k
        BY <1>1, <2>1, <3>1
      <4>2. QED
        BY <1>2, <2>5, <4>1
    <3>2. CASE i > k
      <4>1. i - k \in 1 .. n /\ k + (i - k) = i
        BY <1>1, <2>1, <3>2
      <4>2. (x.post \o f)[i] = x.pre + (i - k) /\ R.post[i] = (i - k) + x.pre
        BY <2>4, <2>5, <2>6, <4>1
      <4>3. QED
        BY <1>1, <2>1, <4>1, <4>2
    <3>3. i <= k \/ i > k
      BY <1>1, <2>1
    <3>4. QED
      BY <3>1, <3>2, <3>3, Zenon
  <2>8. x.post \o f = R.post
    <3>1. R.post = [i \in 1 .. k + n |-> R.post[i]]
      BY <1>2, <1>3, <2>3
    <3> HIDE DEF R, k
    <3>2. [i \in 1 .. k + n |-> (x.post \o f)[i]] = [i \in 1 .. k + n |-> R.post[i]]
      BY <2>7
    <3>3. QED
      BY <2>5, <3>1, <3>2, Zenon
  <2>9. QED
    BY <1>2, <1>3, <2>2, <2>3, <2>8 DEF R
<1>5. CASE op.kind = "delete"
  <2>1. op.n \in Nat /\ op = Count("delete", op.n)
    BY <1>5, OperationKinds
  <2>2. L = [pre |-> x.pre + op.n, post |-> x.post]
    BY <1>1, <1>5 DEF MeaningOf
  <2>3. Of(op).pre = op.n /\ Len(Of(op).post) = 0
    BY <2>1, OfDelete
  <2>4. IsChangeSet(L) /\ L.pre = R.pre /\ Len(L.post) = Len(R.post)
    <3>1. IsChangeSet([pre |-> x.pre + op.n, post |-> x.post])
      <4>1. \A i \in 1 .. k : x.post[i] \in Char \/ x.post[i] \in 1 .. x.pre + op.n
        <5>1. \A i \in 1 .. k : x.post[i] \notin Char => x.post[i] \in 1 .. x.pre
          BY PieceIsCharOrPosition
        <5>2. QED
          BY <1>1, <2>1, <5>1
      <4>2. /\ x.post = [i \in 1 .. k |-> x.post[i]]
            /\ \A i, j \in 1 .. k :
                 i < j /\ x.post[i] \notin Char /\ x.post[j] \notin Char
                   => x.post[i] < x.post[j]
        BY ChangeSetParts
      <4>3. x.pre + op.n \in Nat
        BY <1>1, <2>1
      <4>4. QED
        BY <1>1, <4>1, <4>2, <4>3, MakesChangeSet
    <3>2. QED
      BY <1>1, <1>2, <2>2, <2>3, <3>1
  <2>5. \A i \in 1 .. Len(L.post) : L.post[i] = R.post[i]
    BY <1>2, <2>2
  <2> HIDE DEF L, R
  <2>6. L = R
    BY <1>2, <2>4, <2>5, SameChangeSet, Zenon
  <2>7. QED
    BY <2>6 DEF L, R
<1>6. CASE op.kind = "insert"
  <2> DEFINE s == op.text
  <2>1. s \in Text /\ op = Insert(s) /\ s \in Seq(Char) /\ Len(s) \in Nat
    BY <1>6, OperationKinds DEF Text
  <2>2. L = [pre |-> x.pre, post |-> x.post \o s]
    BY <1>1, <1>6, Zenon DEF MeaningOf
  <2>3. /\ Of(op).pre = 0 /\ Len(Of(op).post) = Len(s)
        /\ \A i \in 1 .. Len(s) : Of(op).post[i] = s[i] /\ s[i] \in Char
    BY <2>1, OfInsert
  <2> HIDE DEF s
  <2>5. /\ Len(x.post \o s) = k + Len(s)
        /\ \A i \in 1 .. k : (x.post \o s)[i] = x.post[i]
        /\ \A i \in 1 .. Len(s) : (x.post \o s)[k + i] = s[i]
        /\ x.post \o s = [i \in 1 .. k + Len(s) |-> (x.post \o s)[i]]
    BY <1>1, <2>1, ConcatPieces
  <2>6. \A i \in 1 .. Len(s) : R.post[k + i] = s[i]
    BY <1>2, <2>3 DEF Shifted
  <2>7. ASSUME NEW i \in 1 .. k + Len(s)
        PROVE  (x.post \o s)[i] = R.post[i]
    <3>1. CASE i <= k
      BY <1>1, <1>2, <2>1, <2>5, <3>1
    <3>2. CASE i > k
      <4>1. i - k \in 1 .. Len(s) /\ k + (i - k) = i
        BY <1>1, <2>1, <3>2
      <4>2. QED
        BY <2>5, <2>6, <4>1
    <3>3. QED
      BY <1>1, <2>1, <3>1, <3>2
  <2>8. x.post \o s = R.post
    <3>1. R.post = [i \in 1 .. k + Len(s) |-> R.post[i]]
      BY <1>2, <1>3, <2>3
    <3>2. QED
      BY <2>5, <2>7, <3>1, Zenon
  <2>9. QED
    BY <1>1, <1>2, <1>3, <2>2, <2>3, <2>8 DEF R
<1>7. QED
  BY <1>4, <1>5, <1>6, OperationKinds

MeaningStep(c, x, op) == MeaningOf(x, op)

MeaningFolds == INSTANCE FoldTheorems WITH Op <- MeaningStep

LEMMA MeaningIsFold ==
  ASSUME NEW ops
  PROVE  Meaning(ops) = MeaningFolds!Fold(0, Nothing, ops)
BY DEF Meaning, Nothing, MeaningStep, MeaningFolds!Fold, MeaningFolds!FoldLeft,
       MeaningFolds!MapThenFoldSet, MeaningFolds!Max, FoldLeft, MapThenFoldSet, Max

LEMMA MeaningNone ==
  Meaning(<< >>) = Nothing
BY MeaningIsFold, MeaningFolds!FoldNone

LEMMA MeaningAppends ==
  ASSUME NEW ops \in Seq(Operation), NEW op \in Operation
  PROVE  Meaning(Append(ops, op)) = MeaningOf(Meaning(ops), op)
BY MeaningIsFold, MeaningFolds!FoldAppend DEF MeaningStep

LEMMA MeaningIsChangeSet ==
  ASSUME NEW ops \in Seq(Operation)
  PROVE  IsChangeSet(Meaning(ops))
<1> DEFINE Good == {s \in Seq(Operation) : IsChangeSet(Meaning(s))}
<1>1. << >> \in Good
  BY MeaningNone, NothingIsChangeSet
<1>2. ASSUME NEW s \in Seq(Operation), NEW op \in Operation, s \in Good
      PROVE  Append(s, op) \in Good
  <2>1. Meaning(Append(s, op)) = MeaningOf(Meaning(s), op)
    BY MeaningAppends
  <2>2. op \in AnyOperation /\ IsChangeSet(Meaning(s)) /\ IsChangeSet(Of(op))
    BY <1>2, OfIsChangeSet DEF Operation
  <2>3. IsChangeSet(Beside(Meaning(s), Of(op)))
    BY <2>2, BesideIsChangeSet, Zenon
  <2>4. QED
    BY <2>1, <2>2, <2>3, MeaningOfIsBeside
<1>3. \A s \in Seq(Operation) : s \in Good
  <2> HIDE DEF Good
  <2>1. QED
    BY <1>1, <1>2, OverSequences
<1>4. QED
  BY <1>3

LEMMA MeaningAppend ==
  ASSUME NEW ops \in Seq(Operation), NEW op \in Operation
  PROVE  Meaning(Append(ops, op)) = Beside(Meaning(ops), Of(op))
<1>1. IsChangeSet(Meaning(ops)) /\ op \in AnyOperation
  BY MeaningIsChangeSet DEF Operation
<1>2. QED
  BY <1>1, MeaningAppends, MeaningOfIsBeside

LEMMA MeaningConcat ==
  ASSUME NEW s \in Seq(Operation), NEW t \in Seq(Operation)
  PROVE  Meaning(s \o t) = Beside(Meaning(s), Meaning(t))
<1> DEFINE Good == {u \in Seq(Operation) : Meaning(s \o u) = Beside(Meaning(s), Meaning(u))}
<1>1. << >> \in Good
  <2>1. s \o << >> = s
    OBVIOUS
  <2>2. Beside(Meaning(s), Nothing) = Meaning(s)
    BY MeaningIsChangeSet, BesideNothing
  <2>3. Meaning(s \o << >>) = Beside(Meaning(s), Meaning(<< >>))
    BY <2>1, <2>2, MeaningNone
  <2>4. << >> \in Seq(Operation)
    OBVIOUS
  <2>5. QED
    BY <2>3, <2>4
<1>2. ASSUME NEW u \in Seq(Operation), NEW op \in Operation, u \in Good
      PROVE  Append(u, op) \in Good
  <2>1. s \o u \in Seq(Operation) /\ s \o Append(u, op) = Append(s \o u, op)
    BY MeaningFolds!AppendInside
  <2>2. Meaning(Append(s \o u, op)) = Beside(Meaning(s \o u), Of(op))
    <3>1. \A v \in Seq(Operation) : Meaning(Append(v, op)) = Beside(Meaning(v), Of(op))
      BY MeaningAppend
    <3>2. QED
      BY <2>1, <3>1, Zenon
  <2>3. Meaning(s \o u) = Beside(Meaning(s), Meaning(u))
    BY <1>2
  <2>4. Meaning(Append(u, op)) = Beside(Meaning(u), Of(op))
    BY MeaningAppend
  <2>5. Beside(Beside(Meaning(s), Meaning(u)), Of(op))
          = Beside(Meaning(s), Beside(Meaning(u), Of(op)))
    <3>1. IsChangeSet(Meaning(s)) /\ IsChangeSet(Meaning(u))
      BY MeaningIsChangeSet
    <3>2. IsChangeSet(Of(op))
      BY OfIsChangeSet DEF Operation
    <3>3. QED
      BY <3>1, <3>2, BesideAssociates
  <2>6. Meaning(s \o Append(u, op)) = Beside(Meaning(s), Meaning(Append(u, op)))
    BY <2>1, <2>2, <2>3, <2>4, <2>5, Zenon
  <2>7. Append(u, op) \in Seq(Operation)
    OBVIOUS
  <2>8. QED
    BY <2>6, <2>7
<1>3. \A u \in Seq(Operation) : u \in Good
  <2> HIDE DEF Good
  <2>1. QED
    BY <1>1, <1>2, OverSequences
<1>4. QED
  BY <1>3

(***************************************************************************)
(* Appending to a list.                                                    *)
(***************************************************************************)

IsList(l) ==
  /\ l = [ops |-> l.ops, pre |-> l.pre, after |-> l.after]
  /\ l.ops \in Seq(Operation)
  /\ l.pre = Meaning(l.ops).pre /\ l.after = Len(Meaning(l.ops).post)

Follows(before, kind) == before # kind /\ ~(before = "delete" /\ kind = "insert")

Tidy(ops) ==
  \A i \in 1 .. Len(ops) - 1 : Follows(ops[i].kind, ops[i + 1].kind)

LEMMA NoListIsList ==
  IsList(NoList) /\ Tidy(NoList.ops) /\ Meaning(NoList.ops) = Nothing
<1>1. NoList.ops = << >> /\ NoList.pre = 0 /\ NoList.after = 0
  BY DEF NoList
<1>2. Meaning(NoList.ops) = Nothing
  BY <1>1, MeaningNone
<1>3. Len(NoList.ops) = 0 /\ NoList.ops \in Seq(Operation)
  BY <1>1
<1>4. Tidy(NoList.ops)
  BY <1>3 DEF Tidy
<1>5. QED
  BY <1>1, <1>2, <1>3, <1>4, NothingIsChangeSet DEF IsList, NoList

\* A sequence is its front and its last element.
LEMMA LastApart ==
  ASSUME NEW S, NEW s \in Seq(S), s # << >>
  PROVE  /\ Front(s) \in Seq(S) /\ Last(s) \in S /\ s = Append(Front(s), Last(s))
         /\ Len(s) \in Nat \ {0} /\ Len(Front(s)) = Len(s) - 1
         /\ \A i \in 1 .. Len(s) - 1 : Front(s)[i] = s[i]
         /\ Last(s) = s[Len(s)]
         /\ \A e \in S : [s EXCEPT ![Len(s)] = e] = Append(Front(s), e)
<1>1. Len(s) \in Nat \ {0}
  OBVIOUS
<1>2. /\ Front(s) \in Seq(S) /\ Len(Front(s)) = Len(s) - 1
      /\ \A i \in 1 .. Len(s) - 1 : Front(s)[i] = s[i]
  <2>1. Len(s) - 1 \in 0 .. Len(s)
    BY <1>1
  <2>2. \A k \in 0 .. Len(s) : /\ SubSeq(s, 1, k) \in Seq(S) /\ Len(SubSeq(s, 1, k)) = k
                               /\ \A i \in 1 .. k : SubSeq(s, 1, k)[i] = s[i]
    OBVIOUS
  <2>3. QED
    BY <2>1, <2>2, Zenon DEF Front
<1>3. Last(s) = s[Len(s)] /\ Last(s) \in S
  BY <1>1 DEF Last
<1>4. s = Append(Front(s), Last(s))
  BY <1>1 DEF Front, Last
<1>5. ASSUME NEW e \in S
      PROVE  [s EXCEPT ![Len(s)] = e] = Append(Front(s), e)
  <2> DEFINE t == [s EXCEPT ![Len(s)] = e]
             u == Append(Front(s), e)
  <2>1. t \in Seq(S) /\ Len(t) = Len(s)
    BY <1>1
  <2>2. u \in Seq(S) /\ Len(u) = Len(s)
    BY <1>1, <1>2
  <2>3. \A i \in 1 .. Len(s) : t[i] = u[i]
    BY <1>1, <1>2
  <2> HIDE DEF t, u
  <2>4. t = u
    BY <2>1, <2>2, <2>3
  <2>5. QED
    BY <2>4 DEF t, u
<1>6. QED
  BY <1>1, <1>2, <1>3, <1>4, <1>5

LEMMA TidyAppend ==
  ASSUME NEW S, NEW s \in Seq(S), NEW e
  PROVE  /\ Tidy(Append(s, e)) <=> /\ Tidy(s)
                                   /\ s # << >> => Follows(s[Len(s)].kind, e.kind)
         /\ s # << >> => /\ KindAt(Append(s, e), Len(Append(s, e)) - 1) = s[Len(s)].kind
                         /\ Len(s) \in 1 .. Len(s)
         /\ KindAt(Append(s, e), Len(Append(s, e))) = e.kind
<1> DEFINE t == Append(s, e)
           n == Len(s)
<1>1. /\ n \in Nat /\ Len(t) = n + 1 /\ t[n + 1] = e
      /\ \A i \in 1 .. n : t[i] = s[i]
      /\ s # << >> <=> n # 0
  OBVIOUS
<1> HIDE DEF t, n
<1>2. Tidy(t) <=> \A i \in 1 .. n : Follows(t[i].kind, t[i + 1].kind)
  BY <1>1 DEF Tidy
<1>3. Tidy(s) <=> \A i \in 1 .. n - 1 : Follows(s[i].kind, s[i + 1].kind)
  BY DEF Tidy, n
<1>4. \A i \in 1 .. n - 1 : t[i] = s[i] /\ t[i + 1] = s[i + 1] /\ i \in 1 .. n
  BY <1>1
<1>5. n # 0 => t[n] = s[n] /\ n \in 1 .. n
  BY <1>1
<1>6. \A i \in 1 .. n : i \in 1 .. n - 1 \/ i = n
  BY <1>1
<1>7. Tidy(t) <=> Tidy(s) /\ (s # << >> => Follows(s[n].kind, e.kind))
  <2>1. CASE n = 0
    <3>1. 1 .. n = {} /\ 1 .. n - 1 = {}
      BY <2>1
    <3>2. QED
      BY <1>1, <1>2, <1>3, <2>1, <3>1
  <2>2. CASE n # 0
    <3>1. t[n] = s[n] /\ t[n + 1] = e /\ n \in 1 .. n
      BY <1>1, <1>5, <2>2
    <3>2. ASSUME Tidy(t) PROVE Tidy(s) /\ Follows(s[n].kind, e.kind)
      BY <1>2, <1>3, <1>4, <3>1, <3>2, Zenon
    <3>3. ASSUME Tidy(s), Follows(s[n].kind, e.kind)
          PROVE  \A i \in 1 .. n : Follows(t[i].kind, t[i + 1].kind)
      <4>1. ASSUME NEW i \in 1 .. n PROVE Follows(t[i].kind, t[i + 1].kind)
        <5>1. CASE i = n
          BY <3>1, <3>3, <5>1
        <5>2. CASE i \in 1 .. n - 1
          BY <1>3, <1>4, <3>3, <5>2
        <5>3. QED
          BY <1>6, <5>1, <5>2
      <4>2. QED
        BY <4>1
    <3>4. QED
      BY <1>1, <1>2, <2>2, <3>2, <3>3
  <2>3. QED
    BY <2>1, <2>2
<1>8. n # 0 => n \in 1 .. n + 1 /\ (n + 1) - 1 = n
  BY <1>1
<1>9. n + 1 \in 1 .. n + 1
  BY <1>1
<1>10. QED
  BY <1>1, <1>5, <1>7, <1>8, <1>9 DEF KindAt, t, n

\* What one operation does is what two do behind one another.
LEMMA CountsAdd ==
  ASSUME NEW k \in {"retain", "delete"}, NEW n \in Nat, NEW m \in Nat
  PROVE  Of(Count(k, n + m)) = Beside(Of(Count(k, n)), Of(Count(k, m)))
<1> DEFINE x == Of(Count(k, n))
           y == Of(Count(k, m))
           z == Of(Count(k, n + m))
<1>0. n + m \in Nat
  OBVIOUS
<1>1. CASE k = "retain"
  <2>1. /\ IsChangeSet(x) /\ x.pre = n /\ Len(x.post) = n
        /\ \A i \in 1 .. n : x.post[i] = i /\ x.post[i] \notin Char
    BY <1>1, OfRetain
  <2>2. /\ IsChangeSet(y) /\ y.pre = m /\ Len(y.post) = m
        /\ \A i \in 1 .. m : y.post[i] = i /\ y.post[i] \notin Char
    BY <1>1, OfRetain
  <2>3. /\ IsChangeSet(z) /\ z.pre = n + m /\ Len(z.post) = n + m
        /\ \A i \in 1 .. n + m : z.post[i] = i /\ z.post[i] \notin Char
    BY <1>0, <1>1, OfRetain
  <2> HIDE DEF x, y, z
  <2>4. /\ IsChangeSet(Beside(x, y)) /\ Beside(x, y).pre = n + m
        /\ Len(Beside(x, y).post) = n + m
        /\ \A i \in 1 .. n : Beside(x, y).post[i] = x.post[i]
        /\ \A i \in 1 .. m : Beside(x, y).post[n + i] = Shifted(y.post[i], n)
    <3>1. /\ IsChangeSet(Beside(x, y)) /\ Beside(x, y).pre = x.pre + y.pre
          /\ Len(Beside(x, y).post) = Len(x.post) + Len(y.post)
          /\ \A i \in 1 .. Len(x.post) : Beside(x, y).post[i] = x.post[i]
          /\ \A i \in 1 .. Len(y.post) :
               Beside(x, y).post[Len(x.post) + i] = Shifted(y.post[i], x.pre)
      <4>1. IsChangeSet(x) /\ IsChangeSet(y)
        BY <2>1, <2>2
      <4>2. QED
        BY <4>1, BesideIsChangeSet, BesidePieces, Zenon
    <3>2. QED
      BY <2>1, <2>2, <3>1
  <2>5. ASSUME NEW i \in 1 .. n + m
        PROVE  z.post[i] = Beside(x, y).post[i]
    <3>1. CASE i <= n
      <4>1. i \in 1 .. n
        BY <3>1
      <4>2. QED
        BY <2>1, <2>3, <2>4, <4>1, Zenon
    <3>2. CASE ~(i <= n)
      <4>1. i - n \in 1 .. m /\ n + (i - n) = i
        BY <3>2
      <4>2. Beside(x, y).post[i] = (i - n) + n
        BY <2>2, <2>4, <4>1, Zenon DEF Shifted
      <4>3. QED
        BY <2>3, <4>2
    <3>3. QED
      BY <3>1, <3>2
  <2>6. z = Beside(x, y)
    BY <2>3, <2>4, <2>5, SameChangeSet
  <2>7. QED
    BY <2>6 DEF x, y, z
<1>2. CASE k = "delete"
  <2>1. /\ IsChangeSet(x) /\ x.pre = n /\ Len(x.post) = 0
        /\ IsChangeSet(y) /\ y.pre = m /\ Len(y.post) = 0
    BY <1>2, OfDelete
  <2>2. IsChangeSet(z) /\ z.pre = n + m /\ Len(z.post) = 0
    BY <1>0, <1>2, OfDelete
  <2> HIDE DEF x, y, z
  <2>3. /\ IsChangeSet(Beside(x, y)) /\ Beside(x, y).pre = n + m
        /\ Len(Beside(x, y).post) = 0
    <3>1. /\ IsChangeSet(Beside(x, y)) /\ Beside(x, y).pre = x.pre + y.pre
          /\ Len(Beside(x, y).post) = Len(x.post) + Len(y.post)
      BY <2>1, BesideIsChangeSet, Zenon
    <3>2. QED
      BY <2>1, <3>1
  <2>4. z = Beside(x, y)
    BY <2>2, <2>3, SameChangeSet
  <2>5. QED
    BY <2>4 DEF x, y, z
<1>3. QED
  BY <1>1, <1>2

LEMMA InsertsAdd ==
  ASSUME NEW s \in Text, NEW t \in Text
  PROVE  s \o t \in Text /\ Of(Insert(s \o t)) = Beside(Of(Insert(s)), Of(Insert(t)))
<1> DEFINE x == Of(Insert(s))
           y == Of(Insert(t))
           z == Of(Insert(s \o t))
<1>1. s \in Seq(Char) /\ t \in Seq(Char) /\ s \o t \in Text /\ Len(s) \in Nat /\ Len(t) \in Nat
  BY DEF Text
<1>2. /\ IsChangeSet(x) /\ x.pre = 0 /\ Len(x.post) = Len(s)
      /\ \A i \in 1 .. Len(s) : x.post[i] = s[i] /\ s[i] \in Char
  BY OfInsert
<1>3. /\ IsChangeSet(y) /\ y.pre = 0 /\ Len(y.post) = Len(t)
      /\ \A i \in 1 .. Len(t) : y.post[i] = t[i] /\ t[i] \in Char
  BY OfInsert
<1>4. /\ IsChangeSet(z) /\ z.pre = 0 /\ Len(z.post) = Len(s \o t)
      /\ \A i \in 1 .. Len(s \o t) : z.post[i] = (s \o t)[i]
  BY <1>1, OfInsert, Zenon
<1>5. /\ Len(s \o t) = Len(s) + Len(t)
      /\ \A i \in 1 .. Len(s) : (s \o t)[i] = s[i]
      /\ \A i \in 1 .. Len(t) : (s \o t)[Len(s) + i] = t[i]
  BY <1>1
<1> HIDE DEF x, y, z
<1>6. /\ IsChangeSet(Beside(x, y)) /\ Beside(x, y).pre = 0
      /\ Len(Beside(x, y).post) = Len(s) + Len(t)
      /\ \A i \in 1 .. Len(s) : Beside(x, y).post[i] = x.post[i]
      /\ \A i \in 1 .. Len(t) : Beside(x, y).post[Len(s) + i] = Shifted(y.post[i], 0)
  <2>1. /\ IsChangeSet(Beside(x, y)) /\ Beside(x, y).pre = x.pre + y.pre
        /\ Len(Beside(x, y).post) = Len(x.post) + Len(y.post)
        /\ \A i \in 1 .. Len(x.post) : Beside(x, y).post[i] = x.post[i]
        /\ \A i \in 1 .. Len(y.post) :
             Beside(x, y).post[Len(x.post) + i] = Shifted(y.post[i], x.pre)
    BY <1>2, <1>3, BesideIsChangeSet, BesidePieces
  <2>2. QED
    BY <1>2, <1>3, <2>1
<1>7. ASSUME NEW i \in 1 .. Len(s) + Len(t)
      PROVE  z.post[i] = Beside(x, y).post[i]
  <2>0. z.post[i] = (s \o t)[i]
    BY <1>4, <1>5
  <2>1. CASE i <= Len(s)
    <3>1. i \in 1 .. Len(s)
      BY <1>1, <2>1
    <3>2. QED
      BY <1>2, <1>5, <1>6, <2>0, <3>1
  <2>2. CASE ~(i <= Len(s))
    <3>1. i - Len(s) \in 1 .. Len(t) /\ Len(s) + (i - Len(s)) = i
      BY <1>1, <2>2
    <3>2. Beside(x, y).post[i] = t[i - Len(s)]
      BY <1>3, <1>6, <3>1 DEF Shifted
    <3>3. (s \o t)[i] = t[i - Len(s)]
      BY <1>5, <3>1
    <3>4. QED
      BY <2>0, <3>2, <3>3
  <2>3. QED
    BY <2>1, <2>2
<1>8. z = Beside(x, y)
  BY <1>4, <1>5, <1>6, <1>7, SameChangeSet
<1>9. QED
  BY <1>1, <1>8 DEF x, y, z

\* A deletion and an insertion at the same place, either way round.
LEMMA InsertBeforeDelete ==
  ASSUME NEW s \in Text, NEW n \in Nat
  PROVE  Beside(Of(Insert(s)), Of(Count("delete", n)))
           = Beside(Of(Count("delete", n)), Of(Insert(s)))
<1> DEFINE x == Of(Insert(s))
           y == Of(Count("delete", n))
<1>1. /\ IsChangeSet(x) /\ x.pre = 0 /\ Len(x.post) = Len(s) /\ Len(s) \in Nat
      /\ \A i \in 1 .. Len(s) : x.post[i] = s[i] /\ s[i] \in Char
  BY OfInsert, TextIsChangeSet
<1>2. IsChangeSet(y) /\ y.pre = n /\ Len(y.post) = 0
  BY OfDelete
<1> HIDE DEF x, y
<1>3. /\ IsChangeSet(Beside(x, y)) /\ Beside(x, y).pre = n
      /\ Len(Beside(x, y).post) = Len(s)
      /\ \A i \in 1 .. Len(s) : Beside(x, y).post[i] = s[i]
  <2>1. /\ IsChangeSet(Beside(x, y)) /\ Beside(x, y).pre = x.pre + y.pre
        /\ Len(Beside(x, y).post) = Len(x.post) + Len(y.post)
        /\ \A i \in 1 .. Len(x.post) : Beside(x, y).post[i] = x.post[i]
        /\ \A i \in 1 .. Len(y.post) :
             Beside(x, y).post[Len(x.post) + i] = Shifted(y.post[i], x.pre)
    BY <1>1, <1>2, BesideIsChangeSet, BesidePieces, Zenon
  <2>2. QED
    BY <1>1, <1>2, <2>1
<1>4. /\ IsChangeSet(Beside(y, x)) /\ Beside(y, x).pre = n
      /\ Len(Beside(y, x).post) = Len(s)
  <2>1. /\ IsChangeSet(Beside(y, x)) /\ Beside(y, x).pre = y.pre + x.pre
        /\ Len(Beside(y, x).post) = Len(y.post) + Len(x.post)
    BY <1>1, <1>2, BesideIsChangeSet, Zenon
  <2>2. QED
    BY <1>1, <1>2, <2>1
<1>5. ASSUME NEW i \in 1 .. Len(s)
      PROVE  Beside(y, x).post[i] = s[i]
  <2>1. Beside(y, x).post[0 + i] = Shifted(x.post[i], n)
    BY <1>1, <1>2, BesidePieces
  <2>2. QED
    BY <1>1, <2>1 DEF Shifted
<1>6. Beside(x, y) = Beside(y, x)
  BY <1>3, <1>4, <1>5, SameChangeSet
<1>7. QED
  BY <1>6 DEF x, y

\* An operation for nothing does nothing.
LEMMA OfNothing ==
  ASSUME NEW op \in AnyOperation, SizeOf(op) = 0
  PROVE  Of(op) = Nothing
<1>1. IsChangeSet(Of(op)) /\ Of(op).pre = 0 /\ Len(Of(op).post) = 0
  <2>1. CASE op.kind = "retain"
    BY <2>1, OperationKinds, OfRetain
  <2>2. CASE op.kind = "delete"
    BY <2>2, OperationKinds, OfDelete
  <2>3. CASE op.kind = "insert"
    BY <2>3, OperationKinds, OfInsert
  <2>4. QED
    BY <2>1, <2>2, <2>3, OperationKinds
<1>2. QED
  BY <1>1, NothingIsChangeSet, SameChangeSet

\* A list is one when it means a list and one operation more.
LEMMA MakesList ==
  ASSUME NEW l, IsList(l), NEW op \in AnyOperation, NEW r,
         r = [ops |-> r.ops, pre |-> r.pre, after |-> r.after],
         r.ops \in Seq(Operation),
         Meaning(r.ops) = Beside(Meaning(l.ops), Of(op)),
         r.pre = l.pre + Of(op).pre, r.after = l.after + Len(Of(op).post)
  PROVE  IsList(r)
<1>1. IsChangeSet(Meaning(l.ops)) /\ IsChangeSet(Of(op))
  BY MeaningIsChangeSet, OfIsChangeSet DEF IsList
<1>2. /\ Meaning(r.ops).pre = Meaning(l.ops).pre + Of(op).pre
      /\ Len(Meaning(r.ops).post) = Len(Meaning(l.ops).post) + Len(Of(op).post)
  BY <1>1, BesideIsChangeSet, Zenon
<1>3. QED
  BY <1>2, Zenon DEF IsList

LEMMA AppendCountMeans ==
  ASSUME NEW l, IsList(l), NEW k \in {"retain", "delete"}, NEW n \in Nat
  PROVE  LET r == AppendCount(l, k, n)
         IN  /\ IsList(r) /\ Meaning(r.ops) = Beside(Meaning(l.ops), Of(Count(k, n)))
             /\ r.pre = l.pre + n
             /\ Tidy(l.ops) => Tidy(r.ops)
<1> DEFINE ops == l.ops
           op == Count(k, n)
           r == AppendCount(l, k, n)
<1>1. /\ ops \in Seq(Operation) /\ IsChangeSet(Meaning(ops))
      /\ l.pre = Meaning(ops).pre /\ l.after = Len(Meaning(ops).post)
      /\ l = [ops |-> ops, pre |-> l.pre, after |-> l.after]
  BY MeaningIsChangeSet DEF IsList
<1>2. l.pre \in Nat /\ l.after \in Nat
  BY <1>1, ChangeSetSizes
<1>3. /\ op \in AnyOperation /\ IsChangeSet(Of(op)) /\ Of(op).pre = n
      /\ Len(Of(op).post) = IF k = "retain" THEN n ELSE 0
      /\ op.kind = k /\ op.n = n /\ SizeOf(op) = n
  <2>1. op \in AnyOperation /\ op.kind = k /\ op.n = n /\ SizeOf(op) = n
    BY CountIsOperation
  <2>2. QED
    BY <2>1, OfRetain, OfDelete
<1>4. CASE n = 0
  <2>1. r = l
    BY <1>4 DEF AppendCount
  <2>2. Of(op) = Nothing
    BY <1>3, <1>4, OfNothing
  <2>3. Meaning(ops) = Beside(Meaning(ops), Of(op))
    BY <1>1, <2>2, BesideNothing
  <2>4. QED
    BY <1>2, <1>4, <2>1, <2>3
<1>5. CASE n # 0
  <2>1. op \in Operation
    BY <1>3, <1>5 DEF Operation
  <2>2. /\ r.pre = l.pre + n
        /\ r.after = l.after + Len(Of(op).post)
        /\ r = [ops |-> r.ops, pre |-> r.pre, after |-> r.after]
        /\ r.ops = IF KindAt(ops, Len(ops)) = k
                   THEN [ops EXCEPT ![Len(ops)].n = @ + n] ELSE Append(ops, op)
    BY <1>2, <1>3, <1>5 DEF AppendCount
  <2>3. CASE KindAt(ops, Len(ops)) = k
    <3> DEFINE f == Front(ops)
               e == Last(ops)
               d == Count(k, e.n + n)
    <3>1. ops # << >> /\ Len(ops) \in 1 .. Len(ops)
      BY <1>1, <2>3 DEF KindAt
    <3>2. /\ f \in Seq(Operation) /\ e \in Operation /\ ops = Append(f, e)
          /\ e = ops[Len(ops)]
          /\ \A c \in Operation : [ops EXCEPT ![Len(ops)] = c] = Append(f, c)
      BY <1>1, <3>1, LastApart
    <3>3. e.kind = k /\ e \in AnyOperation
      BY <2>3, <3>1, <3>2 DEF KindAt, Operation
    <3>4. e = Count(k, e.n) /\ e.n \in Nat
      BY <3>3, OperationKinds
    <3>5. d = [e EXCEPT !.n = @ + n] /\ d \in Operation /\ d.kind = k
      <4>1. e = [kind |-> k, n |-> e.n, text |-> << >>]
        BY <3>4 DEF Count
      <4>2. d = [e EXCEPT !.n = @ + n]
        BY <4>1 DEF Count
      <4>3. e.n + n \in Nat /\ e.n + n # 0
        BY <1>5, <3>4
      <4>4. QED
        BY <4>2, <4>3, CountIsOperation
    <3>6. r.ops = Append(f, d)
      <4>1. [ops EXCEPT ![Len(ops)].n = @ + n] = [ops EXCEPT ![Len(ops)] = d]
        BY <3>2, <3>5
      <4>2. QED
        BY <2>2, <2>3, <3>2, <3>5, <4>1
    <3> HIDE DEF f, e, d
    <3>7. Meaning(r.ops) = Beside(Meaning(f), Of(d))
      BY <3>2, <3>5, <3>6, MeaningAppend
    <3>8. Meaning(ops) = Beside(Meaning(f), Of(e))
      BY <3>2, MeaningAppend
    <3>9. Of(d) = Beside(Of(e), Of(op))
      BY <3>4, CountsAdd DEF d
    <3>10. Beside(Beside(Meaning(f), Of(e)), Of(op)) = Beside(Meaning(f), Beside(Of(e), Of(op)))
      <4>1. IsChangeSet(Meaning(f)) /\ IsChangeSet(Of(e))
        BY <3>2, <3>3, MeaningIsChangeSet, OfIsChangeSet
      <4>2. QED
        BY <1>3, <4>1, BesideAssociates
    <3>11. Meaning(r.ops) = Beside(Meaning(ops), Of(op))
      BY <3>7, <3>8, <3>9, <3>10
    <3>12. r.ops \in Seq(Operation)
      BY <3>2, <3>5, <3>6
    <3>13. IsList(r)
      <4> HIDE DEF r, ops, op
      <4>1. QED
        BY <1>3, <2>2, <3>11, <3>12, MakesList, Zenon DEF ops
    <3>14. Tidy(ops) => Tidy(r.ops)
      <4>1. Tidy(ops) <=> Tidy(f) /\ (f # << >> => Follows(f[Len(f)].kind, e.kind))
        BY <3>2, TidyAppend
      <4>2. Tidy(Append(f, d)) <=> Tidy(f) /\ (f # << >> => Follows(f[Len(f)].kind, d.kind))
        BY <3>2, TidyAppend
      <4>3. QED
        BY <3>3, <3>5, <3>6, <4>1, <4>2
    <3>15. QED
      BY <2>2, <3>11, <3>13, <3>14
  <2>4. CASE KindAt(ops, Len(ops)) # k
    <3>1. r.ops = Append(ops, op) /\ r.ops \in Seq(Operation)
      BY <1>1, <2>1, <2>2, <2>4
    <3>2. Meaning(r.ops) = Beside(Meaning(ops), Of(op))
      BY <1>1, <2>1, <3>1, MeaningAppend
    <3>3. IsList(r)
      <4> HIDE DEF r, ops, op
      <4>1. QED
        BY <1>3, <2>2, <3>1, <3>2, MakesList, Zenon DEF ops
    <3>4. Tidy(ops) => Tidy(r.ops)
      <4>1. Tidy(r.ops) <=> Tidy(ops) /\ (ops # << >> => Follows(ops[Len(ops)].kind, op.kind))
        BY <1>1, <3>1, TidyAppend
      <4>2. ops # << >> => KindAt(ops, Len(ops)) = ops[Len(ops)].kind
        BY <1>1 DEF KindAt
      <4>3. QED
        BY <1>3, <2>4, <4>1, <4>2 DEF Follows
    <3>5. QED
      BY <2>2, <3>2, <3>3, <3>4
  <2>5. QED
    BY <2>3, <2>4
<1>6. QED
  BY <1>4, <1>5

\* An insertion that goes into or before the operations at the end.
LEMMA AppendInsertMeans ==
  ASSUME NEW l, IsList(l), NEW s \in Text
  PROVE  LET r == AppendInsert(l, s)
         IN  /\ IsList(r) /\ Meaning(r.ops) = Beside(Meaning(l.ops), Of(Insert(s)))
             /\ r.pre = l.pre
             /\ Tidy(l.ops) => Tidy(r.ops)
<1> DEFINE ops == l.ops
           op == Insert(s)
           r == AppendInsert(l, s)
           k == Len(ops)
<1>1. /\ ops \in Seq(Operation) /\ IsChangeSet(Meaning(ops))
      /\ l.pre = Meaning(ops).pre /\ l.after = Len(Meaning(ops).post)
      /\ l = [ops |-> ops, pre |-> l.pre, after |-> l.after]
  BY MeaningIsChangeSet DEF IsList
<1>2. l.pre \in Nat /\ l.after \in Nat /\ k \in Nat
  BY <1>1, ChangeSetSizes
<1>3. /\ op \in AnyOperation /\ IsChangeSet(Of(op)) /\ Of(op).pre = 0
      /\ Len(Of(op).post) = Len(s) /\ SizeOf(op) = Len(s) /\ Len(s) \in Nat
      /\ op.kind = "insert"
      /\ s # << >> => op \in Operation
  BY InsertIsOperation, OfInsert, TextIsChangeSet
<1>4. CASE s = << >>
  <2>1. r = l /\ SizeOf(op) = 0
    BY <1>3, <1>4 DEF AppendInsert
  <2>2. Of(op) = Nothing
    BY <1>3, <2>1, OfNothing
  <2>3. Meaning(ops) = Beside(Meaning(ops), Of(op))
    BY <1>1, <2>2, BesideNothing
  <2>4. QED
    BY <2>1, <2>3
<1>5. ASSUME s # << >>, NEW new \in Seq(Operation),
             new = r.ops,
             Meaning(new) = Beside(Meaning(ops), Of(op)),
             Tidy(ops) => Tidy(new)
      PROVE  /\ IsList(r) /\ Meaning(r.ops) = Beside(Meaning(l.ops), Of(Insert(s)))
             /\ r.pre = l.pre
             /\ Tidy(l.ops) => Tidy(r.ops)
  <2>1. /\ r.pre = l.pre /\ r.after = l.after + Len(s)
        /\ r = [ops |-> r.ops, pre |-> r.pre, after |-> r.after]
    BY <1>1, <1>5, Zenon DEF AppendInsert
  <2>2. IsList(r)
    <3>1. r.pre = l.pre + Of(op).pre /\ r.after = l.after + Len(Of(op).post)
      BY <1>2, <1>3, <2>1
    <3> HIDE DEF r, ops, op
    <3>2. QED
      BY <1>3, <1>5, <2>1, <3>1, MakesList DEF ops
  <2>3. QED
    BY <1>5, <2>1, <2>2
<1>6. CASE s # << >> /\ KindAt(ops, k) = "insert"
  <2> DEFINE f == Front(ops)
             e == Last(ops)
             d == Insert(e.text \o s)
  <2>1. ops # << >> /\ k \in 1 .. k
    BY <1>1, <1>6 DEF KindAt
  <2>2. /\ f \in Seq(Operation) /\ e \in Operation /\ ops = Append(f, e)
        /\ e = ops[k]
        /\ \A c \in Operation : [ops EXCEPT ![k] = c] = Append(f, c)
    BY <1>1, <2>1, LastApart
  <2>3. e.kind = "insert" /\ e \in AnyOperation
    BY <1>6, <2>1, <2>2 DEF KindAt, Operation
  <2>4. e = Insert(e.text) /\ e.text \in Text
    BY <2>3, OperationKinds
  <2>5. /\ e.text \o s \in Text /\ e.text \o s # << >>
        /\ Of(d) = Beside(Of(e), Of(op))
    <3>1. e.text \o s \in Text /\ Of(d) = Beside(Of(Insert(e.text)), Of(op))
      BY <2>4, InsertsAdd
    <3>2. Len(e.text \o s) = Len(e.text) + Len(s) /\ Len(e.text) \in Nat /\ Len(s) # 0
      BY <1>6, <2>4 DEF Text
    <3>3. e.text \o s # << >>
      BY <1>3, <3>2
    <3>4. QED
      BY <2>4, <3>1, <3>3
  <2>6. d \in Operation /\ d.kind = "insert"
    BY <2>5, InsertIsOperation, Zenon
  <2>7. r.ops = Append(f, d)
    <3>1. r.ops = MoreText(ops, k, s)
      BY <1>1, <1>6 DEF AppendInsert
    <3>2. MoreText(ops, k, s) = [ops EXCEPT ![k] = d]
      <4>1. k \in DOMAIN ops /\ ops[k] = Insert(e.text)
        BY <1>1, <2>1, <2>2, <2>4
      <4> HIDE DEF ops, k, e
      <4>2. QED
        BY <4>1, InsertMore
    <3>3. QED
      BY <2>2, <2>6, <3>1, <3>2
  <2> HIDE DEF f, e, d
  <2>8. Meaning(Append(f, d)) = Beside(Meaning(ops), Of(op))
    <3>1. Meaning(Append(f, d)) = Beside(Meaning(f), Of(d))
      BY <2>2, <2>6, MeaningAppend
    <3>2. Meaning(ops) = Beside(Meaning(f), Of(e))
      BY <2>2, MeaningAppend
    <3>3. IsChangeSet(Meaning(f)) /\ IsChangeSet(Of(e))
      BY <2>2, <2>3, MeaningIsChangeSet, OfIsChangeSet
    <3>4. Beside(Beside(Meaning(f), Of(e)), Of(op)) = Beside(Meaning(f), Beside(Of(e), Of(op)))
      BY <1>3, <3>3, BesideAssociates
    <3>5. QED
      BY <2>5, <3>1, <3>2, <3>4
  <2>9. Tidy(ops) => Tidy(Append(f, d))
    <3>1. Tidy(ops) <=> Tidy(f) /\ (f # << >> => Follows(f[Len(f)].kind, e.kind))
      BY <2>2, TidyAppend
    <3>2. Tidy(Append(f, d)) <=> Tidy(f) /\ (f # << >> => Follows(f[Len(f)].kind, d.kind))
      BY <2>2, TidyAppend
    <3>3. QED
      BY <2>3, <2>6, <3>1, <3>2
  <2>10. Append(f, d) \in Seq(Operation)
    BY <2>2, <2>6
  <2>11. QED
    BY <1>5, <1>6, <2>7, <2>8, <2>9, <2>10, Zenon
<1>7. CASE s # << >> /\ KindAt(ops, k) = "delete"
  <2> DEFINE f == Front(ops)
             e == Last(ops)
  <2>1. ops # << >> /\ k \in 1 .. k
    BY <1>1, <1>7 DEF KindAt
  <2>2. /\ f \in Seq(Operation) /\ e \in Operation /\ ops = Append(f, e)
        /\ e = ops[k] /\ Len(f) = k - 1
        /\ \A i \in 1 .. k - 1 : f[i] = ops[i]
    BY <1>1, <2>1, LastApart
  <2> HIDE DEF f, e
  <2>3. e.kind = "delete" /\ e \in AnyOperation
    BY <1>7, <2>1, <2>2 DEF KindAt, Operation
  <2>4. e = Count("delete", e.n) /\ e.n \in Nat
    BY <2>3, OperationKinds
  <2>5. IsChangeSet(Meaning(f)) /\ IsChangeSet(Of(e))
    BY <2>2, <2>3, MeaningIsChangeSet, OfIsChangeSet
  <2>6. Beside(Of(op), Of(e)) = Beside(Of(e), Of(op))
    BY <2>4, InsertBeforeDelete
  <2>7. Meaning(ops) = Beside(Meaning(f), Of(e))
    BY <2>2, MeaningAppend
  <2>8. Beside(Meaning(ops), Of(op)) = Beside(Beside(Meaning(f), Of(op)), Of(e))
    <3>1. Beside(Beside(Meaning(f), Of(e)), Of(op)) = Beside(Meaning(f), Beside(Of(e), Of(op)))
      BY <1>3, <2>5, BesideAssociates
    <3>2. Beside(Beside(Meaning(f), Of(op)), Of(e)) = Beside(Meaning(f), Beside(Of(op), Of(e)))
      BY <1>3, <2>5, BesideAssociates
    <3>3. QED
      BY <2>6, <2>7, <3>1, <3>2
  <2>9. k - 1 \in 1 .. k => KindAt(ops, k - 1) = f[Len(f)].kind /\ f # << >>
    BY <1>2, <2>2 DEF KindAt
  <2>10. CASE KindAt(ops, k - 1) = "insert"
    <3> DEFINE g == Front(f)
               c == Last(f)
               d == Insert(c.text \o s)
    <3>1. k - 1 \in 1 .. k /\ f # << >> /\ f[Len(f)].kind = "insert"
      BY <2>2, <2>9, <2>10 DEF KindAt
    <3>2. /\ g \in Seq(Operation) /\ c \in Operation /\ f = Append(g, c)
          /\ c = f[Len(f)]
          /\ \A x \in Operation : [f EXCEPT ![Len(f)] = x] = Append(g, x)
      <4>1. \A x \in Seq(Operation) : x # << >> =>
              /\ Front(x) \in Seq(Operation) /\ Last(x) \in Operation
              /\ x = Append(Front(x), Last(x)) /\ Last(x) = x[Len(x)]
              /\ \A y \in Operation : [x EXCEPT ![Len(x)] = y] = Append(Front(x), y)
        BY LastApart
      <4>2. QED
        BY <2>2, <3>1, <4>1, Zenon
    <3>3. c.kind = "insert" /\ c \in AnyOperation
      BY <3>1, <3>2 DEF Operation
    <3>4. c = Insert(c.text) /\ c.text \in Text
      BY <3>3, OperationKinds
    <3>5. /\ c.text \o s \in Text /\ c.text \o s # << >>
          /\ Of(d) = Beside(Of(c), Of(op))
      <4>1. c.text \o s \in Text /\ Of(d) = Beside(Of(Insert(c.text)), Of(op))
        BY <3>4, InsertsAdd
      <4>2. Len(c.text \o s) = Len(c.text) + Len(s) /\ Len(c.text) \in Nat /\ Len(s) # 0
        BY <1>7, <3>4 DEF Text
      <4>3. c.text \o s # << >>
        BY <1>3, <4>2
      <4>4. QED
        BY <3>4, <4>1, <4>3
    <3>6. d \in Operation /\ d.kind = "insert"
      BY <3>5, InsertIsOperation, Zenon
    <3>7. r.ops = Append(Append(g, d), e)
      <4>1. r.ops = MoreText(ops, k - 1, s)
        BY <1>1, <1>7, <2>10 DEF AppendInsert
      <4>2. ops[k - 1] = c /\ k - 1 \in DOMAIN ops /\ k - 1 \in 1 .. k - 1
        <5>1. k - 1 \in 1 .. k - 1
          BY <1>2, <3>1
        <5>2. f[k - 1] = ops[k - 1] /\ f[k - 1] = c
          BY <2>2, <3>2, <5>1
        <5>3. QED
          BY <1>1, <3>1, <5>1, <5>2
      <4>3. MoreText(ops, k - 1, s) = [ops EXCEPT ![k - 1] = d]
        <5>1. ops[k - 1] = Insert(c.text)
          BY <3>4, <4>2
        <5> HIDE DEF ops, k, c
        <5>2. QED
          BY <4>2, <5>1, InsertMore
      <4>4. [f EXCEPT ![k - 1] = d] = Append(g, d)
        BY <2>2, <3>2, <3>6
      <4>5. [ops EXCEPT ![k - 1] = d] = Append(Append(g, d), e)
        <5> DEFINE w == [f EXCEPT ![k - 1] = d]
                   u == [ops EXCEPT ![k - 1] = d]
        <5>1. /\ u \in Seq(Operation) /\ Len(u) = k
              /\ \A i \in 1 .. k : u[i] = IF i = k - 1 THEN d ELSE ops[i]
          BY <1>1, <3>1, <3>6
        <5>2. w \in Seq(Operation)
          <6>1. Append(g, d) \in Seq(Operation)
            BY <3>2, <3>6, AppendPieces
          <6>2. QED
            BY <4>4, <6>1, Zenon
        <5>3. Len(w) = k - 1 /\ \A i \in 1 .. k - 1 : w[i] = IF i = k - 1 THEN d ELSE f[i]
          BY <2>2
        <5> HIDE DEF u, w
        <5>4. /\ Append(w, e) \in Seq(Operation) /\ Len(Append(w, e)) = (k - 1) + 1
              /\ Append(w, e)[(k - 1) + 1] = e
              /\ \A i \in 1 .. k - 1 : Append(w, e)[i] = w[i]
          <6>1. /\ Append(w, e) \in Seq(Operation) /\ Len(Append(w, e)) = Len(w) + 1
                /\ Append(w, e)[Len(w) + 1] = e
                /\ \A i \in 1 .. Len(w) : Append(w, e)[i] = w[i]
            BY <2>2, <5>2, AppendPieces
          <6>2. QED
            BY <5>3, <6>1
        <5>5. ASSUME NEW i \in 1 .. k
              PROVE  u[i] = Append(w, e)[i]
          <6>1. CASE i = k
            <7>1. (k - 1) + 1 = k
              BY <1>2
            <7>2. u[k] = e /\ Append(w, e)[k] = e
              BY <1>2, <2>2, <5>1, <5>4, <7>1
            <7>3. QED
              BY <6>1, <7>2
          <6>2. CASE i # k
            <7>1. i \in 1 .. k - 1
              BY <1>2, <6>2
            <7>2. QED
              BY <2>2, <5>1, <5>3, <5>4, <7>1
          <6>3. QED
            BY <6>1, <6>2, Zenon
        <5>6. (k - 1) + 1 = k
          BY <1>2
        <5>7. \A i \in 1 .. k : u[i] = Append(w, e)[i]
          BY <5>5, Zenon
        <5>8. u = Append(w, e)
          BY <5>1, <5>4, <5>6, <5>7, SameSequence
        <5>9. QED
          BY <4>4, <5>8 DEF u, w
      <4>6. QED
        BY <4>1, <4>3, <4>5
    <3> HIDE DEF g, c, d
    <3>8. Append(g, d) \in Seq(Operation) /\ Append(Append(g, d), e) \in Seq(Operation)
      BY <2>2, <3>2, <3>6
    <3>9. Meaning(Append(Append(g, d), e)) = Beside(Meaning(ops), Of(op))
      <4>1. Meaning(Append(Append(g, d), e)) = Beside(Meaning(Append(g, d)), Of(e))
        <5>1. \A u \in Seq(Operation) : Meaning(Append(u, e)) = Beside(Meaning(u), Of(e))
          BY <2>2, MeaningAppend
        <5>2. QED
          BY <3>8, <5>1, Zenon
      <4>2. Meaning(Append(g, d)) = Beside(Meaning(g), Of(d))
        BY <3>2, <3>6, MeaningAppend
      <4>3. Meaning(f) = Beside(Meaning(g), Of(c))
        BY <3>2, MeaningAppend
      <4>4. Beside(Beside(Meaning(g), Of(c)), Of(op)) = Beside(Meaning(g), Beside(Of(c), Of(op)))
        <5>1. IsChangeSet(Meaning(g)) /\ IsChangeSet(Of(c))
          BY <3>2, <3>3, MeaningIsChangeSet, OfIsChangeSet
        <5>2. QED
          BY <1>3, <5>1, BesideAssociates
      <4>5. QED
        BY <2>8, <3>5, <4>1, <4>2, <4>3, <4>4
    <3>10. Tidy(ops) => Tidy(Append(Append(g, d), e))
      <4>0. \A u \in Seq(Operation) :
              Tidy(Append(u, e)) <=> Tidy(u) /\ (u # << >> => Follows(u[Len(u)].kind, e.kind))
        BY TidyAppend
      <4>1. Tidy(ops) <=> Tidy(f) /\ (f # << >> => Follows(f[Len(f)].kind, e.kind))
        BY <2>2, <4>0, Zenon
      <4>2. Tidy(f) <=> Tidy(g) /\ (g # << >> => Follows(g[Len(g)].kind, c.kind))
        BY <3>2, TidyAppend
      <4>3. Tidy(Append(g, d)) <=> Tidy(g) /\ (g # << >> => Follows(g[Len(g)].kind, d.kind))
        BY <3>2, TidyAppend
      <4>4. \A u \in Seq(Operation) :
              Tidy(Append(u, e)) <=> Tidy(u) /\ (u # << >> => Follows(u[Len(u)].kind, e.kind))
        BY TidyAppend
      <4>5. /\ Append(g, d)[Len(Append(g, d))] = d
        BY <3>2, <3>6
      <4>6. Follows("insert", e.kind)
        BY <2>3 DEF Follows
      <4>7. Tidy(ops) => Tidy(Append(g, d))
        BY <3>3, <3>6, <4>1, <4>2, <4>3
      <4>8. Tidy(Append(g, d)) => Tidy(Append(Append(g, d), e))
        BY <3>6, <3>8, <4>4, <4>5, <4>6, Zenon
      <4>9. QED
        BY <4>7, <4>8
    <3>11. QED
      BY <1>5, <1>7, <3>7, <3>8, <3>9, <3>10, Zenon
  <2>11. CASE KindAt(ops, k - 1) # "insert"
    <3>1. r.ops = f \o <<op, e>>
      BY <1>1, <1>7, <2>11 DEF AppendInsert, f, e
    <3>2. op \in Operation /\ Append(f, op) \in Seq(Operation)
      BY <1>3, <1>7, <2>2
    <3>3. f \o <<op, e>> = Append(Append(f, op), e)
      BY <2>2, <3>2
    <3>4. Append(Append(f, op), e) \in Seq(Operation)
      BY <2>2, <3>2
    <3>5. Meaning(Append(Append(f, op), e)) = Beside(Meaning(ops), Of(op))
      <4>1. Meaning(Append(Append(f, op), e)) = Beside(Meaning(Append(f, op)), Of(e))
        <5>1. \A u \in Seq(Operation) : Meaning(Append(u, e)) = Beside(Meaning(u), Of(e))
          BY <2>2, MeaningAppend
        <5>2. QED
          BY <3>2, <5>1, Zenon
      <4>2. Meaning(Append(f, op)) = Beside(Meaning(f), Of(op))
        BY <2>2, <3>2, MeaningAppend
      <4>3. QED
        BY <2>8, <4>1, <4>2
    <3>6. Tidy(ops) => Tidy(Append(Append(f, op), e))
      <4>0. \A u \in Seq(Operation) :
              Tidy(Append(u, e)) <=> Tidy(u) /\ (u # << >> => Follows(u[Len(u)].kind, e.kind))
        BY TidyAppend
      <4>1. Tidy(ops) <=> Tidy(f) /\ (f # << >> => Follows(f[Len(f)].kind, e.kind))
        BY <2>2, <4>0, Zenon
      <4>2. Tidy(Append(f, op)) <=> Tidy(f) /\ (f # << >> => Follows(f[Len(f)].kind, op.kind))
        BY <2>2, TidyAppend
      <4>3. \A u \in Seq(Operation) :
              Tidy(Append(u, e)) <=> Tidy(u) /\ (u # << >> => Follows(u[Len(u)].kind, e.kind))
        BY TidyAppend
      <4>4. Append(f, op)[Len(Append(f, op))] = op
        BY <2>2, <3>2
      <4>5. f # << >> => f[Len(f)].kind # "insert"
        <5>1. f # << >> => k - 1 \in 1 .. k
          BY <1>2, <2>2
        <5>2. QED
          BY <2>9, <2>11, <5>1
      <4>6. Tidy(ops) => Tidy(Append(f, op))
        BY <1>3, <2>3, <4>1, <4>2, <4>5 DEF Follows
      <4>7. Follows(op.kind, e.kind)
        BY <1>3, <2>3 DEF Follows
      <4>8. Tidy(Append(f, op)) => Tidy(Append(Append(f, op), e))
        BY <3>2, <4>3, <4>4, <4>7, Zenon
      <4>9. QED
        BY <4>6, <4>8
    <3>7. QED
      BY <1>5, <1>7, <3>1, <3>3, <3>4, <3>5, <3>6, Zenon
  <2>12. QED
    BY <2>10, <2>11
<1>8. CASE s # << >> /\ KindAt(ops, k) \notin {"insert", "delete"}
  <2>1. r.ops = Append(ops, op)
    BY <1>1, <1>8 DEF AppendInsert
  <2>2. op \in Operation /\ Append(ops, op) \in Seq(Operation)
    BY <1>1, <1>3, <1>8
  <2>3. Meaning(Append(ops, op)) = Beside(Meaning(ops), Of(op))
    BY <1>1, <2>2, MeaningAppend
  <2>4. Tidy(ops) => Tidy(Append(ops, op))
    <3>1. Tidy(Append(ops, op)) <=> Tidy(ops) /\ (ops # << >> => Follows(ops[k].kind, op.kind))
      BY <1>1, TidyAppend
    <3>2. ops # << >> => KindAt(ops, k) = ops[k].kind
      BY <1>1 DEF KindAt
    <3>3. QED
      BY <1>3, <1>8, <3>1, <3>2 DEF Follows
  <2>5. QED
    BY <1>5, <1>8, <2>1, <2>2, <2>3, <2>4, Zenon
<1>9. QED
  BY <1>4, <1>6, <1>7, <1>8

(***************************************************************************)
(* Making a list from changes.                                             *)
(***************************************************************************)

Change(n) == [from : 0 .. n, to : 0 .. n, text : Text]

AddStep(c, x, change) == AddChange(x, change)

AddFolds == INSTANCE FoldTheorems WITH Op <- AddStep

Added(changes) == AddFolds!Fold(0, [list |-> NoList, last |-> 0], changes)

LEMMA AddedNone ==
  Added(<< >>) = [list |-> NoList, last |-> 0]
BY AddFolds!FoldNone DEF Added

LEMMA AddedAppend ==
  ASSUME NEW S, NEW cs \in Seq(S), NEW c \in S
  PROVE  Added(Append(cs, c)) = AddChange(Added(cs), c)
BY AddFolds!FoldAppend DEF Added, AddStep

LEMMA FromChangesIsAdded ==
  ASSUME NEW n, NEW cs
  PROVE  FromChanges(n, cs) = AppendCount(Added(cs).list, "retain", n - Added(cs).last)
BY DEF FromChanges, Added, AddStep, AddFolds!Fold, AddFolds!FoldLeft,
       AddFolds!MapThenFoldSet, AddFolds!Max, FoldLeft, MapThenFoldSet, Max

LEMMA AddChangeMeans ==
  ASSUME NEW x, IsList(x.list), Tidy(x.list.ops), x.last \in Nat, x.list.pre = x.last,
         NEW n \in Nat, NEW c \in Change(n), x.last <= c.from, c.from <= c.to
  PROVE  LET r == AddChange(x, c)
         IN  /\ IsList(r.list) /\ Tidy(r.list.ops)
             /\ r.last = c.to /\ r.list.pre = c.to
<1> DEFINE kept == AppendCount(x.list, "retain", c.from - x.last)
           with == AppendInsert(kept, c.text)
           done == AppendCount(with, "delete", c.to - c.from)
<1>1. /\ c.from \in Nat /\ c.to \in Nat /\ c.text \in Text
      /\ c.from - x.last \in Nat /\ c.to - c.from \in Nat
  BY DEF Change
<1>2. /\ IsList(kept) /\ kept.pre = x.list.pre + (c.from - x.last) /\ Tidy(kept.ops)
  <2>1. \A m \in Nat :
          LET r == AppendCount(x.list, "retain", m)
          IN  IsList(r) /\ r.pre = x.list.pre + m /\ Tidy(r.ops)
    BY AppendCountMeans, Zenon
  <2>2. QED
    BY <1>1, <2>1, Zenon
<1>3. kept.pre = c.from
  BY <1>1, <1>2
<1> HIDE DEF kept
<1>4. IsList(with) /\ with.pre = c.from /\ Tidy(with.ops)
  <2>1. \A t \in Text :
          LET r == AppendInsert(kept, t)
          IN  IsList(r) /\ r.pre = kept.pre /\ Tidy(r.ops)
    BY <1>2, AppendInsertMeans
  <2>2. QED
    BY <1>1, <1>3, <2>1, Zenon
<1> HIDE DEF with
<1>5. IsList(done) /\ done.pre = with.pre + (c.to - c.from) /\ Tidy(done.ops)
  <2>1. \A m \in Nat :
          LET r == AppendCount(with, "delete", m)
          IN  IsList(r) /\ r.pre = with.pre + m /\ Tidy(r.ops)
    BY <1>4, AppendCountMeans, Zenon
  <2>2. QED
    BY <1>1, <2>1, Zenon
<1>6. done.pre = c.to
  BY <1>1, <1>4, <1>5
<1> HIDE DEF done
<1>7. AddChange(x, c) = [list |-> done, last |-> c.to]
  BY DEF AddChange, done, with, kept
<1>8. QED
  BY <1>5, <1>6, <1>7

LEMMA AddedIsList ==
  ASSUME NEW n \in Nat, NEW cs \in Seq(Change(n)), InOrder(n, cs)
  PROVE  /\ IsList(Added(cs).list) /\ Tidy(Added(cs).list.ops)
         /\ Added(cs).list.pre = Added(cs).last
         /\ Added(cs).last \in 0 .. n
         /\ Added(cs).last = IF cs = << >> THEN 0 ELSE cs[Len(cs)].to
<1> DEFINE Fine(s) == /\ IsList(Added(s).list) /\ Tidy(Added(s).list.ops)
                      /\ Added(s).list.pre = Added(s).last
                      /\ Added(s).last \in 0 .. n
                      /\ Added(s).last = IF s = << >> THEN 0 ELSE s[Len(s)].to
           Good == {s \in Seq(Change(n)) : InOrder(n, s) => Fine(s)}
<1>1. << >> \in Good
  <2>1. /\ Added(<< >>).list = NoList /\ Added(<< >>).last = 0 /\ NoList.pre = 0
    BY AddedNone DEF NoList
  <2>2. << >> \in Seq(Change(n))
    OBVIOUS
  <2>3. QED
    BY <2>1, <2>2, NoListIsList
<1>2. ASSUME NEW s \in Seq(Change(n)), NEW c \in Change(n), s \in Good
      PROVE  Append(s, c) \in Good
  <2> DEFINE t == Append(s, c)
  <2>1. /\ t \in Seq(Change(n)) /\ Len(t) = Len(s) + 1 /\ t[Len(t)] = c /\ t # << >>
        /\ \A i \in 1 .. Len(s) : t[i] = s[i]
        /\ DOMAIN s = 1 .. Len(s) /\ DOMAIN t = 1 .. Len(s) + 1 /\ Len(s) \in Nat
        /\ s # << >> => Len(s) # 0
    OBVIOUS
  <2> HIDE DEF t
  <2>2. CASE ~InOrder(n, t)
    BY <2>1, <2>2 DEF t
  <2>3. CASE InOrder(n, t)
    <3>1. InOrder(n, s)
      <4>1. ASSUME NEW i \in DOMAIN s
            PROVE  /\ s[i].from >= IF i = 1 THEN 0 ELSE s[i - 1].to
                   /\ s[i].from <= s[i].to /\ s[i].to <= n
        <5>1. i \in DOMAIN t /\ t[i] = s[i]
          BY <2>1
        <5>2. /\ t[i].from >= IF i = 1 THEN 0 ELSE t[i - 1].to
              /\ t[i].from <= t[i].to /\ t[i].to <= n
          BY <2>3, <5>1 DEF InOrder
        <5>3. i # 1 => t[i - 1] = s[i - 1]
          BY <2>1
        <5>4. s[i].from >= IF i = 1 THEN 0 ELSE s[i - 1].to
          BY <5>1, <5>2, <5>3, Zenon
        <5>5. QED
          BY <5>1, <5>2, <5>4, Zenon
      <4>2. QED
        BY <4>1 DEF InOrder
    <3>2. Fine(s)
      BY <1>2, <3>1
    <3>3. /\ c.from >= IF s = << >> THEN 0 ELSE s[Len(s)].to
          /\ c.from <= c.to /\ c.to <= n
      <4>1. Len(s) + 1 \in DOMAIN t /\ t[Len(s) + 1] = c
        BY <2>1
      <4>2. /\ c.from >= IF Len(s) + 1 = 1 THEN 0 ELSE t[Len(s) + 1 - 1].to
            /\ c.from <= c.to /\ c.to <= n
        BY <2>3, <4>1 DEF InOrder
      <4>3. s = << >> => Len(s) = 0
        OBVIOUS
      <4>4. s # << >> => t[Len(s) + 1 - 1] = s[Len(s)] /\ Len(s) + 1 # 1
        BY <2>1
      <4>5. QED
        BY <4>2, <4>3, <4>4
    <3>4. Added(s).last <= c.from /\ Added(s).last \in Nat
      BY <3>2, <3>3
    <3>5. /\ IsList(AddChange(Added(s), c).list) /\ Tidy(AddChange(Added(s), c).list.ops)
          /\ AddChange(Added(s), c).last = c.to
          /\ AddChange(Added(s), c).list.pre = c.to
      BY <3>2, <3>3, <3>4, AddChangeMeans
    <3>6. Added(t) = AddChange(Added(s), c)
      BY AddedAppend DEF t
    <3>7. c.to \in 0 .. n
      BY DEF Change
    <3>8. Fine(t)
      BY <2>1, <3>5, <3>6, <3>7
    <3>9. QED
      BY <2>1, <3>8, Zenon DEF t
  <2>4. QED
    BY <2>2, <2>3
<1>3. \A s \in Seq(Change(n)) : s \in Good
  <2> HIDE DEF Good
  <2>1. QED
    BY <1>1, <1>2, OverSequences
<1>4. cs \in Good
  <2> HIDE DEF Good
  <2>1. QED
    BY <1>3
<1>5. QED
  BY <1>4

LEMMA FromChangesMakesList ==
  ASSUME NEW n \in Nat, NEW cs \in Seq(Change(n)), InOrder(n, cs)
  PROVE  LET l == FromChanges(n, cs)
         IN  IsList(l) /\ Tidy(l.ops) /\ l.pre = n
<1>1. /\ IsList(Added(cs).list) /\ Tidy(Added(cs).list.ops)
      /\ Added(cs).list.pre = Added(cs).last
      /\ Added(cs).last \in 0 .. n
  BY AddedIsList
<1>2. n - Added(cs).last \in Nat /\ Added(cs).last + (n - Added(cs).last) = n
  BY <1>1
<1>3. \A m \in Nat :
        LET r == AppendCount(Added(cs).list, "retain", m)
        IN  IsList(r) /\ Tidy(r.ops) /\ r.pre = Added(cs).list.pre + m
  BY <1>1, AppendCountMeans, Zenon
<1>4. LET r == AppendCount(Added(cs).list, "retain", n - Added(cs).last)
      IN  IsList(r) /\ Tidy(r.ops) /\ r.pre = Added(cs).list.pre + (n - Added(cs).last)
  BY <1>2, <1>3, Zenon
<1>5. QED
  BY <1>1, <1>2, <1>4, FromChangesIsAdded

LEMMA ListsForAreLists ==
  ASSUME NEW n \in Nat, NEW l \in ListsFor(n)
  PROVE  IsList(l) /\ Tidy(l.ops) /\ l.pre = n
<1>1. PICK cs \in Changes(n) : l = FromChanges(n, cs)
  BY DEF ListsFor
<1>2. cs \in Seq(Change(n)) /\ InOrder(n, cs)
  <2> DEFINE One == [from : 0 .. n, to : 0 .. n, text : Insertions \cup {<< >>}]
  <2>1. << >> \in Text
    BY DEF Text
  <2>2. One \subseteq Change(n)
    BY <2>1, ChangeSetOpsAssumption DEF Change
  <2>3. PICK k \in 0 .. MaxChanges : cs \in [1 .. k -> One]
    BY DEF Changes
  <2> HIDE DEF One
  <2>4. cs \in [1 .. k -> Change(n)] /\ k \in Nat
    BY <2>2, <2>3, ChangeSetOpsAssumption
  <2>5. cs \in Seq(Change(n))
    BY <2>4
  <2>6. QED
    BY <2>5 DEF Changes
<1>3. QED
  BY <1>1, <1>2, FromChangesMakesList

(***************************************************************************)
(* Taking a list from its front.                                           *)
(***************************************************************************)

LEMMA FrontApart ==
  ASSUME NEW S, NEW s \in Seq(S), s # << >>
  PROVE  /\ Head(s) \in S /\ Tail(s) \in Seq(S) /\ s = <<Head(s)>> \o Tail(s)
         /\ Head(s) = s[1] /\ Len(s) \in Nat \ {0}
         /\ \A e \in S : [s EXCEPT ![1] = e] = <<e>> \o Tail(s)
<1>1. Len(s) \in Nat \ {0} /\ Head(s) = s[1] /\ Head(s) \in S /\ Tail(s) \in Seq(S)
  OBVIOUS
<1>2. Len(Tail(s)) = Len(s) - 1 /\ \A i \in 1 .. Len(s) - 1 : Tail(s)[i] = s[i + 1]
  OBVIOUS
<1>3. ASSUME NEW e \in S
      PROVE  [s EXCEPT ![1] = e] = <<e>> \o Tail(s)
  <2> DEFINE t == [s EXCEPT ![1] = e]
             u == <<e>> \o Tail(s)
  <2>1. t \in Seq(S) /\ Len(t) = Len(s)
    BY <1>1
  <2>2. t[1] = e /\ \A i \in 2 .. Len(s) : t[i] = s[i]
    BY <1>1
  <2>3. <<e>> \in Seq(S) /\ Len(<<e>>) = 1 /\ <<e>>[1] = e
    OBVIOUS
  <2>4. \A v \in Seq(S) : /\ <<e>> \o v \in Seq(S) /\ Len(<<e>> \o v) = 1 + Len(v)
                          /\ (<<e>> \o v)[1] = e
                          /\ \A i \in 1 .. Len(v) : (<<e>> \o v)[i + 1] = v[i]
    OBVIOUS
  <2>5. /\ u \in Seq(S) /\ Len(u) = 1 + Len(Tail(s)) /\ u[1] = e
        /\ \A i \in 1 .. Len(Tail(s)) : u[i + 1] = Tail(s)[i]
    BY <1>1, <2>4, Zenon
  <2>6. Len(u) = Len(s) /\ \A i \in 1 .. Len(s) - 1 : u[i + 1] = s[i + 1]
    BY <1>1, <1>2, <2>5
  <2> HIDE DEF t, u
  <2>7. ASSUME NEW i \in 1 .. Len(s) PROVE t[i] = u[i]
    <3>1. CASE i = 1
      BY <2>2, <2>5, <3>1
    <3>2. CASE i \in 2 .. Len(s)
      <4>1. i - 1 \in 1 .. Len(s) - 1 /\ (i - 1) + 1 = i
        BY <1>1, <3>2
      <4>2. u[(i - 1) + 1] = s[(i - 1) + 1]
        BY <2>6, <4>1, Zenon
      <4>3. QED
        BY <2>2, <3>2, <4>1, <4>2
    <3>3. QED
      BY <1>1, <3>1, <3>2
  <2>8. t = u
    BY <2>1, <2>5, <2>6, <2>7, SameSequence
  <2>9. QED
    BY <2>8 DEF t, u
<1>4. s = <<Head(s)>> \o Tail(s)
  <2>1. [s EXCEPT ![1] = Head(s)] = s
    BY <1>1
  <2>2. QED
    BY <1>1, <1>3, <2>1, Zenon
<1>5. QED
  BY <1>1, <1>3, <1>4

LEMMA MeaningOne ==
  ASSUME NEW op \in Operation
  PROVE  <<op>> \in Seq(Operation) /\ Meaning(<<op>>) = Of(op)
<1>1. << >> \in Seq(Operation) /\ Append(<< >>, op) = <<op>>
  OBVIOUS
<1>2. Meaning(Append(<< >>, op)) = Beside(Meaning(<< >>), Of(op))
  BY <1>1, MeaningAppend, Zenon
<1>3. IsChangeSet(Of(op))
  BY OfIsChangeSet DEF Operation
<1>4. QED
  BY <1>1, <1>2, <1>3, MeaningNone, BesideNothing

LEMMA MeaningBehind ==
  ASSUME NEW op \in Operation, NEW ops \in Seq(Operation)
  PROVE  /\ <<op>> \o ops \in Seq(Operation)
         /\ Meaning(<<op>> \o ops) = Beside(Of(op), Meaning(ops))
<1>1. \A t, u \in Seq(Operation) : Meaning(t \o u) = Beside(Meaning(t), Meaning(u))
  BY MeaningConcat
<1>2. Meaning(<<op>> \o ops) = Beside(Meaning(<<op>>), Meaning(ops))
  BY <1>1, MeaningOne, Zenon
<1>3. <<op>> \o ops \in Seq(Operation)
  OBVIOUS
<1>4. QED
  BY <1>2, <1>3, MeaningOne

LEMMA MeaningFront ==
  ASSUME NEW ops \in Seq(Operation), ops # << >>
  PROVE  /\ Head(ops) \in Operation /\ Tail(ops) \in Seq(Operation)
         /\ Meaning(ops) = Beside(Of(Head(ops)), Meaning(Tail(ops)))
<1>1. Head(ops) \in Operation /\ Tail(ops) \in Seq(Operation) /\ ops = <<Head(ops)>> \o Tail(ops)
  BY FrontApart
<1>2. Meaning(<<Head(ops)>> \o Tail(ops)) = Beside(Of(Head(ops)), Meaning(Tail(ops)))
  BY <1>1, MeaningBehind, Zenon
<1>3. QED
  BY <1>1, <1>2, Zenon

\* The first n characters of an operation, and what Use leaves of it.
First(op, n) ==
  IF op.kind = "insert" THEN Insert(SubSeq(op.text, 1, n)) ELSE Count(op.kind, n)

Remainder(op, n) ==
  IF op.kind = "insert" THEN Insert(SubSeq(op.text, n + 1, Len(op.text)))
  ELSE Count(op.kind, op.n - n)

LEMMA OperationApart ==
  ASSUME NEW op \in Operation, NEW n \in Nat, n # 0, n < SizeOf(op)
  PROVE  /\ First(op, n) \in Operation /\ Remainder(op, n) \in Operation
         /\ Of(op) = Beside(Of(First(op, n)), Of(Remainder(op, n)))
<1>1. op \in AnyOperation
  BY DEF Operation
<1>2. CASE op.kind \in {"retain", "delete"}
  <2> DEFINE m == op.n - n
  <2>1. op = Count(op.kind, op.n) /\ op.n \in Nat /\ SizeOf(op) = op.n
    BY <1>1, <1>2, OperationKinds
  <2>2. m \in Nat /\ m # 0 /\ op.n = n + m
    BY <2>1
  <2> HIDE DEF m
  <2>3. First(op, n) = Count(op.kind, n) /\ Remainder(op, n) = Count(op.kind, m)
    BY <1>2 DEF First, Remainder, m
  <2>4. Count(op.kind, n) \in Operation /\ Count(op.kind, m) \in Operation
    BY <1>2, <2>2, CountIsOperation
  <2>5. Of(Count(op.kind, n + m)) = Beside(Of(Count(op.kind, n)), Of(Count(op.kind, m)))
    BY <1>2, <2>2, CountsAdd, Zenon
  <2>6. QED
    BY <2>1, <2>2, <2>3, <2>4, <2>5
<1>3. CASE op.kind = "insert"
  <2> DEFINE s == SubSeq(op.text, 1, n)
             t == SubSeq(op.text, n + 1, Len(op.text))
  <2>1. op = Insert(op.text) /\ op.text \in Text /\ SizeOf(op) = Len(op.text)
    BY <1>1, <1>3, OperationKinds
  <2>2. Len(op.text) \in Nat /\ Len(op.text) = n + (Len(op.text) - n)
        /\ Len(op.text) - n \in Nat /\ Len(op.text) - n # 0
    BY <2>1 DEF Text
  <2>3. /\ s \in Text /\ Len(s) = n /\ t \in Text /\ Len(t) = Len(op.text) - n
        /\ op.text = s \o t
    <3>1. LET u == SubSeq(op.text, 1, n)
              v == SubSeq(op.text, n + 1, n + (Len(op.text) - n))
          IN  /\ u \in Text /\ Len(u) = n /\ v \in Text /\ Len(v) = Len(op.text) - n
              /\ op.text = u \o v
      BY <2>1, <2>2, TextApart, Zenon
    <3>2. QED
      BY <2>2, <3>1, Zenon
  <2>4. s # << >> /\ t # << >>
    BY <2>2, <2>3, Zenon
  <2> HIDE DEF s, t
  <2>5. First(op, n) = Insert(s) /\ Remainder(op, n) = Insert(t)
    BY <1>3 DEF First, Remainder, s, t
  <2>6. Insert(s) \in Operation /\ Insert(t) \in Operation
    BY <2>3, <2>4, InsertIsOperation
  <2>7. Of(Insert(s \o t)) = Beside(Of(Insert(s)), Of(Insert(t)))
    BY <2>3, InsertsAdd
  <2>8. op = Insert(s \o t)
    BY <2>1, <2>3
  <2>9. QED
    BY <2>5, <2>6, <2>7, <2>8
<1>4. QED
  BY <1>1, <1>2, <1>3, OperationKinds

LEMMA FirstIsAll ==
  ASSUME NEW op \in Operation
  PROVE  First(op, SizeOf(op)) = op /\ SizeOf(op) \in Nat \ {0}
<1>1. op \in AnyOperation /\ SizeOf(op) # 0
  BY DEF Operation
<1>2. CASE op.kind \in {"retain", "delete"}
  BY <1>1, <1>2, OperationKinds DEF First
<1>3. CASE op.kind = "insert"
  <2>1. op.text \in Text /\ op = Insert(op.text) /\ SizeOf(op) = Len(op.text)
    BY <1>1, <1>3, OperationKinds
  <2>2. SubSeq(op.text, 1, Len(op.text)) = op.text /\ Len(op.text) \in Nat
    BY <2>1 DEF Text
  <2>3. QED
    BY <1>1, <1>3, <2>1, <2>2, Zenon DEF First
<1>4. QED
  BY <1>1, <1>2, <1>3, OperationKinds

\* Use takes the first characters off what a list means.
LEMMA UseMeans ==
  ASSUME NEW ops \in Seq(Operation), ops # << >>,
         NEW n \in Nat, n # 0, n <= SizeOf(Head(ops))
  PROVE  /\ First(Head(ops), n) \in Operation /\ Use(ops, n) \in Seq(Operation)
         /\ Meaning(ops) = Beside(Of(First(Head(ops), n)), Meaning(Use(ops, n)))
<1> DEFINE op == Head(ops)
           rest == Tail(ops)
<1>1. /\ op \in Operation /\ rest \in Seq(Operation)
      /\ Meaning(ops) = Beside(Of(op), Meaning(rest))
  BY MeaningFront
<1>2. SizeOf(op) \in Nat /\ First(op, SizeOf(op)) = op
  BY <1>1, FirstIsAll
<1>3. CASE n = SizeOf(op)
  <2>1. Use(ops, n) = rest
    BY <1>3 DEF Use
  <2>2. QED
    BY <1>1, <1>2, <1>3, <2>1, Zenon
<1>4. CASE n < SizeOf(op)
  <2> DEFINE f == First(op, n)
             r == Remainder(op, n)
  <2>1. f \in Operation /\ r \in Operation /\ Of(op) = Beside(Of(f), Of(r))
    BY <1>1, <1>4, OperationApart
  <2>2. Use(ops, n) = [ops EXCEPT ![1] = r]
    BY <1>2, <1>4 DEF Use, Remainder
  <2> HIDE DEF f, r
  <2>3. Use(ops, n) = <<r>> \o rest
    BY <2>1, <2>2, FrontApart
  <2>4. <<r>> \o rest \in Seq(Operation) /\ Meaning(<<r>> \o rest) = Beside(Of(r), Meaning(rest))
    BY <1>1, <2>1, MeaningBehind, Zenon
  <2>5. IsChangeSet(Of(f)) /\ IsChangeSet(Of(r)) /\ IsChangeSet(Meaning(rest))
    BY <1>1, <2>1, OfIsChangeSet, MeaningIsChangeSet, Zenon DEF Operation
  <2>6. Beside(Beside(Of(f), Of(r)), Meaning(rest)) = Beside(Of(f), Beside(Of(r), Meaning(rest)))
    BY <2>5, BesideAssociates
  <2>7. QED
    BY <1>1, <2>1, <2>3, <2>4, <2>6 DEF f
<1>5. QED
  BY <1>2, <1>3, <1>4

LEMMA NoOpsMeans ==
  ASSUME NEW ops \in Seq(Operation)
  PROVE  NoOps(Meaning(ops)) <=> ops = << >>
<1>1. CASE ops = << >>
  BY <1>1, MeaningNone DEF NoOps, Nothing
<1>2. CASE ops # << >>
  <2> DEFINE op == Head(ops)
             rest == Tail(ops)
  <2>1. /\ op \in Operation /\ rest \in Seq(Operation)
        /\ Meaning(ops) = Beside(Of(op), Meaning(rest))
    BY <1>2, MeaningFront
  <2>2. IsChangeSet(Of(op)) /\ IsChangeSet(Meaning(rest)) /\ op \in AnyOperation
    BY <2>1, OfIsChangeSet, MeaningIsChangeSet, Zenon DEF Operation
  <2> HIDE DEF op, rest
  <2>3. /\ Meaning(ops).pre = Of(op).pre + Meaning(rest).pre
        /\ Len(Meaning(ops).post) = Len(Of(op).post) + Len(Meaning(rest).post)
    BY <2>1, <2>2, BesideIsChangeSet, Zenon
  <2>4. /\ Of(op).pre \in Nat /\ Len(Of(op).post) \in Nat
        /\ Meaning(rest).pre \in Nat /\ Len(Meaning(rest).post) \in Nat
    BY <2>2, ChangeSetSizes
  <2>5. Of(op).pre # 0 \/ Len(Of(op).post) # 0
    <3>1. SizeOf(op) # 0
      BY <2>1 DEF Operation
    <3>2. CASE op.kind = "retain"
      BY <2>2, <3>1, <3>2, OperationKinds, OfRetain
    <3>3. CASE op.kind = "delete"
      BY <2>2, <3>1, <3>3, OperationKinds, OfDelete
    <3>4. CASE op.kind = "insert"
      BY <2>2, <3>1, <3>4, OperationKinds, OfInsert
    <3>5. QED
      BY <2>2, <3>2, <3>3, <3>4, OperationKinds
  <2>6. Meaning(ops).pre # 0 \/ Len(Meaning(ops).post) # 0
    <3>1. \A m, k \in Nat : m # 0 => m + k # 0
      OBVIOUS
    <3>2. \/ Of(op).pre + Meaning(rest).pre # 0
          \/ Len(Of(op).post) + Len(Meaning(rest).post) # 0
      BY <2>4, <2>5, <3>1, Zenon
    <3>3. QED
      BY <2>3, <3>2, Zenon
  <2>7. Len(<< >>) = 0
    OBVIOUS
  <2>8. QED
    BY <1>2, <2>6, <2>7 DEF NoOps
<1>3. QED
  BY <1>1, <1>2

(***************************************************************************)
(* Composing.                                                              *)
(***************************************************************************)

\* What has been walked of two lists composes to what has been put out, and
\* what is left of them is beside it.
WalkedTo(p, q, opsA, opsB, put, leftA, leftB) ==
  /\ IsChangeSet(p) /\ IsChangeSet(q) /\ Len(p.post) = q.pre
  /\ Meaning(opsA) = Beside(p, Meaning(leftA))
  /\ Meaning(opsB) = Beside(q, Meaning(leftB))
  /\ Meaning(put) = Through(p, q)

Walked(opsA, opsB, put, leftA, leftB) ==
  \E p, q : WalkedTo(p, q, opsA, opsB, put, leftA, leftB)

LEMMA WalkOn ==
  ASSUME NEW opsA, NEW opsB, NEW put, NEW leftA, NEW leftB,
         Walked(opsA, opsB, put, leftA, leftB),
         NEW nextA \in Seq(Operation), NEW nextB \in Seq(Operation), NEW more,
         NEW x, IsChangeSet(x), NEW y, IsChangeSet(y), Len(x.post) = y.pre,
         Meaning(leftA) = Beside(x, Meaning(nextA)),
         Meaning(leftB) = Beside(y, Meaning(nextB)),
         Meaning(more) = Beside(Meaning(put), Through(x, y))
  PROVE  Walked(opsA, opsB, more, nextA, nextB)
<1>1. PICK p, q : WalkedTo(p, q, opsA, opsB, put, leftA, leftB)
  BY DEF Walked
<1>2. IsChangeSet(p) /\ IsChangeSet(q) /\ Len(p.post) = q.pre
  BY <1>1 DEF WalkedTo
<1> DEFINE p2 == Beside(p, x)
           q2 == Beside(q, y)
<1>3. /\ IsChangeSet(p2) /\ Len(p2.post) = Len(p.post) + Len(x.post)
      /\ IsChangeSet(q2) /\ q2.pre = q.pre + y.pre
  BY <1>2, BesideIsChangeSet, Zenon
<1>4. Len(p2.post) = q2.pre
  BY <1>2, <1>3
<1>5. IsChangeSet(Meaning(nextA)) /\ IsChangeSet(Meaning(nextB))
  BY MeaningIsChangeSet
<1>6. Beside(p2, Meaning(nextA)) = Beside(p, Beside(x, Meaning(nextA)))
  BY <1>2, <1>5, BesideAssociates
<1>7. Beside(q2, Meaning(nextB)) = Beside(q, Beside(y, Meaning(nextB)))
  BY <1>2, <1>5, BesideAssociates
<1>8. Through(p2, q2) = Beside(Through(p, q), Through(x, y))
  BY <1>2, ThroughBeside
<1> HIDE DEF p2, q2
<1>9. WalkedTo(p2, q2, opsA, opsB, more, nextA, nextB)
  BY <1>1, <1>3, <1>4, <1>6, <1>7, <1>8 DEF WalkedTo
<1>10. QED
  BY <1>9 DEF Walked

\* Two operations that meet.
LEMMA ThroughOperations ==
  ASSUME NEW n \in Nat
  PROVE  LET retain == Of(Count("retain", n))
             delete == Of(Count("delete", n))
         IN  /\ Through(delete, Nothing) = delete
             /\ Through(retain, retain) = retain
             /\ Through(retain, delete) = delete
             /\ \A s \in Text : Through(Nothing, Of(Insert(s))) = Of(Insert(s))
             /\ \A s \in Text : Len(s) = n => Through(Of(Insert(s)), retain) = Of(Insert(s))
             /\ \A s \in Text : Len(s) = n => Through(Of(Insert(s)), delete) = Nothing
<1> DEFINE retain == Of(Count("retain", n))
           delete == Of(Count("delete", n))
<1>1. /\ IsChangeSet(retain) /\ retain.pre = n /\ Len(retain.post) = n
      /\ \A i \in 1 .. n : retain.post[i] = i /\ retain.post[i] \notin Char
  BY OfRetain
<1>2. IsChangeSet(delete) /\ delete.pre = n /\ Len(delete.post) = 0
  BY OfDelete
<1>3. IsChangeSet(Nothing) /\ Nothing.pre = 0 /\ Len(Nothing.post) = 0
  BY NothingIsChangeSet
<1> HIDE DEF retain, delete
<1>4. Through(delete, Nothing) = delete
  <2>1. /\ IsChangeSet(Through(delete, Nothing)) /\ Through(delete, Nothing).pre = n
        /\ Len(Through(delete, Nothing).post) = 0
    BY <1>2, <1>3, ThroughIsChangeSet
  <2>2. QED
    BY <1>2, <2>1, SameChangeSet
<1>5. Through(retain, retain) = retain
  <2>1. /\ IsChangeSet(Through(retain, retain)) /\ Through(retain, retain).pre = n
        /\ Len(Through(retain, retain).post) = n
        /\ \A i \in 1 .. n : Through(retain, retain).post[i] =
             IF retain.post[i] \in Char THEN retain.post[i] ELSE retain.post[retain.post[i]]
    BY <1>1, ThroughIsChangeSet
  <2>2. \A i \in 1 .. n : Through(retain, retain).post[i] = retain.post[i]
    BY <1>1, <2>1
  <2>3. QED
    BY <1>1, <2>1, <2>2, SameChangeSet
<1>6. Through(retain, delete) = delete
  <2>1. /\ IsChangeSet(Through(retain, delete)) /\ Through(retain, delete).pre = n
        /\ Len(Through(retain, delete).post) = 0
    BY <1>1, <1>2, ThroughIsChangeSet
  <2>2. QED
    BY <1>2, <2>1, SameChangeSet
<1>7. ASSUME NEW s \in Text
      PROVE  /\ Through(Nothing, Of(Insert(s))) = Of(Insert(s))
             /\ Len(s) = n => /\ Through(Of(Insert(s)), retain) = Of(Insert(s))
                              /\ Through(Of(Insert(s)), delete) = Nothing
  <2> DEFINE ins == Of(Insert(s))
  <2>1. /\ IsChangeSet(ins) /\ ins.pre = 0 /\ Len(ins.post) = Len(s)
        /\ \A i \in 1 .. Len(s) : ins.post[i] = s[i] /\ s[i] \in Char
    BY OfInsert
  <2> HIDE DEF ins
  <2>2. Through(Nothing, ins) = ins
    <3>1. /\ IsChangeSet(Through(Nothing, ins)) /\ Through(Nothing, ins).pre = 0
          /\ Len(Through(Nothing, ins).post) = Len(ins.post)
          /\ \A i \in 1 .. Len(ins.post) : Through(Nothing, ins).post[i] =
               IF ins.post[i] \in Char THEN ins.post[i] ELSE Nothing.post[ins.post[i]]
      BY <1>3, <2>1, ThroughIsChangeSet
    <3>2. \A i \in 1 .. Len(ins.post) : Through(Nothing, ins).post[i] = ins.post[i]
      BY <2>1, <3>1
    <3>3. QED
      BY <2>1, <3>1, <3>2, SameChangeSet
  <2>3. ASSUME Len(s) = n
        PROVE  Through(ins, retain) = ins
    <3>1. /\ IsChangeSet(Through(ins, retain)) /\ Through(ins, retain).pre = 0
          /\ Len(Through(ins, retain).post) = n
          /\ \A i \in 1 .. n : Through(ins, retain).post[i] =
               IF retain.post[i] \in Char THEN retain.post[i] ELSE ins.post[retain.post[i]]
      BY <1>1, <2>1, <2>3, ThroughIsChangeSet
    <3>2. \A i \in 1 .. n : Through(ins, retain).post[i] = ins.post[i]
      BY <1>1, <3>1
    <3>3. QED
      BY <2>1, <2>3, <3>1, <3>2, SameChangeSet
  <2>4. ASSUME Len(s) = n
        PROVE  Through(ins, delete) = Nothing
    <3>1. /\ IsChangeSet(Through(ins, delete)) /\ Through(ins, delete).pre = 0
          /\ Len(Through(ins, delete).post) = 0
      BY <1>2, <2>1, <2>4, ThroughIsChangeSet
    <3>2. QED
      BY <1>3, <3>1, SameChangeSet
  <2>5. QED
    BY <2>2, <2>3, <2>4 DEF ins
<1>8. QED
  BY <1>4, <1>5, <1>6, <1>7 DEF retain, delete

LEMMA WalkStarts ==
  ASSUME NEW opsA \in Seq(Operation), NEW opsB \in Seq(Operation)
  PROVE  Walked(opsA, opsB, << >>, opsA, opsB)
<1>1. IsChangeSet(Nothing) /\ Len(Nothing.post) = Nothing.pre
  BY NothingIsChangeSet
<1>2. /\ Meaning(opsA) = Beside(Nothing, Meaning(opsA))
      /\ Meaning(opsB) = Beside(Nothing, Meaning(opsB))
  BY MeaningIsChangeSet, BesideNothing
<1>3. Through(Nothing, Nothing) = Nothing
  <2>1. /\ IsChangeSet(Through(Nothing, Nothing)) /\ Through(Nothing, Nothing).pre = 0
        /\ Len(Through(Nothing, Nothing).post) = 0
    BY NothingIsChangeSet, ThroughIsChangeSet
  <2>2. QED
    BY <2>1, NothingIsChangeSet, SameChangeSet
<1>4. WalkedTo(Nothing, Nothing, opsA, opsB, << >>, opsA, opsB)
  BY <1>1, <1>2, <1>3, MeaningNone DEF WalkedTo
<1>5. QED
  BY <1>4 DEF Walked

LEMMA KindAtFront ==
  ASSUME NEW ops \in Seq(Operation)
  PROVE  /\ KindAt(ops, 1) = "none" <=> ops = << >>
         /\ ops # << >> => KindAt(ops, 1) = Head(ops).kind
         /\ KindAt(ops, 1) \in {"none", "retain", "delete", "insert"}
<1>1. CASE ops = << >>
  <2>1. Len(ops) = 0
    BY <1>1
  <2>2. KindAt(ops, 1) = "none"
    BY <2>1 DEF KindAt
  <2>3. QED
    BY <1>1, <2>2
<1>2. CASE ops # << >>
  <2>1. Head(ops) \in Operation /\ Head(ops) = ops[1] /\ Len(ops) \in Nat \ {0}
    BY <1>2, FrontApart
  <2>2. KindAt(ops, 1) = Head(ops).kind
    BY <2>1 DEF KindAt
  <2>3. Head(ops).kind \in {"retain", "delete", "insert"}
    BY <2>1, OperationKinds DEF Operation
  <2>4. QED
    BY <1>2, <2>2, <2>3
<1>3. QED
  BY <1>1, <1>2

\* What ComposesAsPromised and NothingLost rest on.
ComposeInv ==
  /\ sample \in Text
  /\ IsList(a) /\ Tidy(a.ops) /\ a.pre = Len(sample)
  /\ IsList(b) /\ Tidy(b.ops)
  /\ IsList(out) /\ Tidy(out.ops)
  /\ left = [a |-> left.a, b |-> left.b]
  /\ left.a \in Seq(Operation) /\ left.b \in Seq(Operation)
  /\ outcome = "running" /\ a.ops # << >> /\ b.ops # << >>
       => Walked(a.ops, b.ops, out.ops, left.a, left.b)
  /\ ComposesAsPromised

LEMMA ComposeInvStarts ==
  ComposeInit => ComposeInv
<1> SUFFICES ASSUME ComposeInit
             PROVE  ComposeInv
  OBVIOUS
<1>1. sample \in Text /\ Len(sample) \in Nat
  BY ChangeSetOpsAssumption DEF ComposeInit, Text
<1>2. IsList(a) /\ Tidy(a.ops) /\ a.pre = Len(sample)
  BY <1>1, ListsForAreLists DEF ComposeInit
<1>3. IsList(b) /\ Tidy(b.ops)
  <2>1. PICK n \in 0 .. MaxMiddle : b \in ListsFor(n)
    BY DEF ComposeInit, Seconds
  <2>2. n \in Nat
    BY ChangeSetOpsAssumption
  <2>3. QED
    BY <2>1, <2>2, ListsForAreLists
<1>4. IsList(out) /\ Tidy(out.ops) /\ out.ops = << >>
  BY NoListIsList DEF ComposeInit, NoList
<1>5. a.ops \in Seq(Operation) /\ b.ops \in Seq(Operation) /\ left.a = a.ops /\ left.b = b.ops
  BY <1>2, <1>3 DEF IsList, ComposeInit
<1>6. Walked(a.ops, b.ops, << >>, a.ops, b.ops)
  BY <1>5, WalkStarts
<1>7. ComposesAsPromised
  BY DEF ComposeInit, ComposesAsPromised
<1>8. left = [a |-> left.a, b |-> left.b]
  BY <1>5 DEF ComposeInit
<1>9. QED
  BY <1>1, <1>2, <1>3, <1>4, <1>5, <1>6, <1>7, <1>8 DEF ComposeInv

LEMMA WalkStep ==
  ASSUME ComposeInv, Walking, UNCHANGED outcome,
         NEW nextA \in Seq(Operation), NEW nextB \in Seq(Operation),
         left' = [a |-> nextA, b |-> nextB],
         NEW x, IsChangeSet(x), NEW y, IsChangeSet(y), Len(x.post) = y.pre,
         Meaning(left.a) = Beside(x, Meaning(nextA)),
         Meaning(left.b) = Beside(y, Meaning(nextB)),
         IsList(out'), Tidy(out'.ops),
         Meaning(out'.ops) = Beside(Meaning(out.ops), Through(x, y))
  PROVE  ComposeInv'
<1>1. Walked(a.ops, b.ops, out.ops, left.a, left.b)
  BY DEF ComposeInv, Walking
<1>2. Walked(a.ops, b.ops, out'.ops, nextA, nextB)
  BY <1>1, WalkOn
<1>3. left'.a = nextA /\ left'.b = nextB /\ outcome' = "running"
      /\ sample' = sample /\ a' = a /\ b' = b
  BY DEF Walking
<1>4. ComposesAsPromised'
  BY <1>3 DEF ComposesAsPromised
<1>5. QED
  BY <1>2, <1>3, <1>4 DEF ComposeInv

\* What appending to the output means, for the operations the steps append.
LEMMA PutCount ==
  ASSUME ComposeInv, NEW k \in {"retain", "delete"}, NEW n \in Nat,
         out' = AppendCount(out, k, n)
  PROVE  /\ IsList(out') /\ Tidy(out'.ops)
         /\ Meaning(out'.ops) = Beside(Meaning(out.ops), Of(Count(k, n)))
BY AppendCountMeans, Zenon DEF ComposeInv

LEMMA PutInsert ==
  ASSUME ComposeInv, NEW s \in Text, out' = AppendInsert(out, s)
  PROVE  /\ IsList(out') /\ Tidy(out'.ops)
         /\ Meaning(out'.ops) = Beside(Meaning(out.ops), Of(Insert(s)))
BY AppendInsertMeans DEF ComposeInv

LEMMA PutNothing ==
  ASSUME ComposeInv, UNCHANGED out
  PROVE  /\ IsList(out') /\ Tidy(out'.ops)
         /\ Meaning(out'.ops) = Beside(Meaning(out.ops), Nothing)
<1>1. IsChangeSet(Meaning(out.ops))
  BY MeaningIsChangeSet DEF ComposeInv, IsList
<1>2. QED
  BY <1>1, BesideNothing DEF ComposeInv

\* The operation a walk is at.
LEMMA AtOperation ==
  ASSUME NEW ops \in Seq(Operation), KindAt(ops, 1) # "none"
  PROVE  /\ ops # << >> /\ Head(ops) \in Operation /\ Head(ops) \in AnyOperation
         /\ Head(ops).kind = KindAt(ops, 1) /\ Tail(ops) \in Seq(Operation)
         /\ Meaning(ops) = Beside(Of(Head(ops)), Meaning(Tail(ops)))
         /\ SizeOf(Head(ops)) \in Nat \ {0}
<1>1. ops # << >> /\ Head(ops).kind = KindAt(ops, 1)
  BY KindAtFront
<1>2. Head(ops) \in Operation /\ Tail(ops) \in Seq(Operation)
      /\ Meaning(ops) = Beside(Of(Head(ops)), Meaning(Tail(ops)))
  BY <1>1, MeaningFront
<1>3. Head(ops) \in AnyOperation
  BY <1>2 DEF Operation
<1>4. SizeOf(Head(ops)) \in Nat \ {0}
  BY <1>2, FirstIsAll
<1>5. QED
  BY <1>1, <1>2, <1>3, <1>4

LEMMA DeletedByAKeeps ==
  ASSUME ComposeInv, DeletedByA
  PROVE  ComposeInv'
<1> DEFINE op == Head(left.a)
           rest == Tail(left.a)
<1>1. left.a \in Seq(Operation) /\ left.b \in Seq(Operation) /\ left = [a |-> left.a, b |-> left.b]
  BY DEF ComposeInv
<1>2. /\ op \in AnyOperation /\ op.kind = "delete" /\ rest \in Seq(Operation)
      /\ Meaning(left.a) = Beside(Of(op), Meaning(rest))
  BY <1>1, AtOperation DEF DeletedByA, AKind
<1>3. op = Count("delete", op.n) /\ op.n \in Nat
  BY <1>2, OperationKinds
<1>4. left' = [a |-> rest, b |-> left.b] /\ out' = AppendCount(out, "delete", op.n)
      /\ Walking /\ UNCHANGED outcome
  BY <1>1, Zenon DEF DeletedByA
<1> HIDE DEF op, rest
<1>5. IsChangeSet(Of(op)) /\ Len(Of(op).post) = 0 /\ Through(Of(op), Nothing) = Of(op)
  BY <1>3, OfDelete, ThroughOperations
<1>6. Meaning(left.b) = Beside(Nothing, Meaning(left.b))
  BY <1>1, MeaningIsChangeSet, BesideNothing
<1>7. /\ IsList(out') /\ Tidy(out'.ops)
      /\ Meaning(out'.ops) = Beside(Meaning(out.ops), Of(op))
  BY <1>3, <1>4, PutCount
<1>8. Meaning(out'.ops) = Beside(Meaning(out.ops), Through(Of(op), Nothing))
  BY <1>5, <1>7
<1>9. IsChangeSet(Nothing) /\ Len(Of(op).post) = Nothing.pre
  BY <1>5, NothingIsChangeSet
<1>10. QED
  BY <1>1, <1>2, <1>4, <1>5, <1>6, <1>7, <1>8, <1>9, WalkStep

LEMMA InsertedByBKeeps ==
  ASSUME ComposeInv, InsertedByB
  PROVE  ComposeInv'
<1> DEFINE op == Head(left.b)
           rest == Tail(left.b)
<1>1. left.a \in Seq(Operation) /\ left.b \in Seq(Operation) /\ left = [a |-> left.a, b |-> left.b]
  BY DEF ComposeInv
<1>2. /\ op \in AnyOperation /\ op.kind = "insert" /\ rest \in Seq(Operation)
      /\ Meaning(left.b) = Beside(Of(op), Meaning(rest))
  BY <1>1, AtOperation DEF InsertedByB, BKind
<1>3. op = Insert(op.text) /\ op.text \in Text
  BY <1>2, OperationKinds
<1>4. left' = [a |-> left.a, b |-> rest] /\ out' = AppendInsert(out, op.text)
      /\ Walking /\ UNCHANGED outcome
  BY <1>1, Zenon DEF InsertedByB
<1> HIDE DEF op, rest
<1>5. IsChangeSet(Of(op)) /\ Of(op).pre = 0 /\ Through(Nothing, Of(op)) = Of(op)
  <2>1. IsChangeSet(Of(op)) /\ Of(op).pre = 0
    BY <1>3, OfInsert
  <2>2. 0 \in Nat
    OBVIOUS
  <2>3. \A s \in Text : Through(Nothing, Of(Insert(s))) = Of(Insert(s))
    BY <2>2, ThroughOperations
  <2>4. QED
    BY <1>3, <2>1, <2>3
<1>6. Meaning(left.a) = Beside(Nothing, Meaning(left.a))
  BY <1>1, MeaningIsChangeSet, BesideNothing
<1>7. /\ IsList(out') /\ Tidy(out'.ops)
      /\ Meaning(out'.ops) = Beside(Meaning(out.ops), Of(op))
  BY <1>3, <1>4, PutInsert
<1>8. Meaning(out'.ops) = Beside(Meaning(out.ops), Through(Nothing, Of(op)))
  BY <1>5, <1>7
<1>9. IsChangeSet(Nothing) /\ Len(Nothing.post) = Of(op).pre
  BY <1>5, NothingIsChangeSet
<1>10. QED
  BY <1>1, <1>2, <1>4, <1>5, <1>6, <1>7, <1>8, <1>9, WalkStep

\* Two operations of which as much is used as both have.
LEMMA BothAreUsed ==
  ASSUME ComposeInv, AKind # "none", BKind # "none"
  PROVE  LET x == First(Head(left.a), Both)
             y == First(Head(left.b), Both)
         IN  /\ Both \in Nat \ {0}
             /\ Both <= SizeOf(Head(left.a)) /\ Both <= SizeOf(Head(left.b))
             /\ Use(left.a, Both) \in Seq(Operation) /\ Use(left.b, Both) \in Seq(Operation)
             /\ Meaning(left.a) = Beside(Of(x), Meaning(Use(left.a, Both)))
             /\ Meaning(left.b) = Beside(Of(y), Meaning(Use(left.b, Both)))
             /\ IsChangeSet(Of(x)) /\ IsChangeSet(Of(y))
             /\ Head(left.a).kind = AKind /\ Head(left.b).kind = BKind
             /\ Head(left.a) \in AnyOperation /\ Head(left.b) \in AnyOperation
<1>1. left.a \in Seq(Operation) /\ left.b \in Seq(Operation)
  BY DEF ComposeInv
<1>2. /\ left.a # << >> /\ Head(left.a).kind = AKind /\ Head(left.a) \in AnyOperation
      /\ SizeOf(Head(left.a)) \in Nat \ {0}
  BY <1>1, AtOperation DEF AKind
<1>3. /\ left.b # << >> /\ Head(left.b).kind = BKind /\ Head(left.b) \in AnyOperation
      /\ SizeOf(Head(left.b)) \in Nat \ {0}
  BY <1>1, AtOperation DEF BKind
<1>4. /\ Both \in Nat \ {0}
      /\ Both <= SizeOf(Head(left.a)) /\ Both <= SizeOf(Head(left.b))
  BY <1>2, <1>3 DEF Both
<1>5. ASSUME NEW ops \in Seq(Operation), ops # << >>, Both <= SizeOf(Head(ops))
      PROVE  /\ Use(ops, Both) \in Seq(Operation)
             /\ Meaning(ops) = Beside(Of(First(Head(ops), Both)), Meaning(Use(ops, Both)))
             /\ IsChangeSet(Of(First(Head(ops), Both)))
  <2>1. \A n \in Nat \ {0} : n <= SizeOf(Head(ops)) =>
          /\ First(Head(ops), n) \in Operation /\ Use(ops, n) \in Seq(Operation)
          /\ Meaning(ops) = Beside(Of(First(Head(ops), n)), Meaning(Use(ops, n)))
    BY <1>5, UseMeans
  <2>2. /\ First(Head(ops), Both) \in Operation /\ Use(ops, Both) \in Seq(Operation)
        /\ Meaning(ops) = Beside(Of(First(Head(ops), Both)), Meaning(Use(ops, Both)))
    BY <1>4, <1>5, <2>1, Zenon
  <2>3. QED
    BY <2>2, OfIsChangeSet DEF Operation
<1>6. QED
  BY <1>1, <1>2, <1>3, <1>4, <1>5, Zenon

LEMMA FirstInsert ==
  ASSUME NEW op \in AnyOperation, op.kind = "insert", NEW n \in Nat, n <= SizeOf(op)
  PROVE  LET s == SubSeq(op.text, 1, n)
         IN  s \in Text /\ Len(s) = n /\ First(op, n) = Insert(s)
<1>1. op.text \in Text /\ SizeOf(op) = Len(op.text)
  BY OperationKinds
<1>2. QED
  BY <1>1 DEF First, Text

LEMMA RetainedByBothKeeps ==
  ASSUME ComposeInv, RetainedByBoth
  PROVE  ComposeInv'
<1> DEFINE x == Of(First(Head(left.a), Both))
           y == Of(First(Head(left.b), Both))
<1>1. /\ Both \in Nat
      /\ Use(left.a, Both) \in Seq(Operation) /\ Use(left.b, Both) \in Seq(Operation)
      /\ Meaning(left.a) = Beside(x, Meaning(Use(left.a, Both)))
      /\ Meaning(left.b) = Beside(y, Meaning(Use(left.b, Both)))
      /\ Head(left.a).kind = "retain" /\ Head(left.b).kind = "retain"
  BY BothAreUsed DEF RetainedByBoth
<1>2. x = Of(Count("retain", Both)) /\ y = Of(Count("retain", Both))
  BY <1>1 DEF First
<1>3. IsChangeSet(x) /\ IsChangeSet(y) /\ Len(x.post) = y.pre /\ Through(x, y) = Of(Count("retain", Both))
  <2>1. \A n \in Nat :
          LET r == Of(Count("retain", n))
          IN  IsChangeSet(r) /\ Len(r.post) = r.pre /\ Through(r, r) = r
    BY OfRetain, ThroughOperations
  <2>2. QED
    BY <1>1, <1>2, <2>1, Zenon
<1> HIDE DEF x, y
<1>4. /\ IsList(out') /\ Tidy(out'.ops)
      /\ Meaning(out'.ops) = Beside(Meaning(out.ops), Of(Count("retain", Both)))
  <2>1. out' = AppendCount(out, "retain", Both)
    BY DEF RetainedByBoth
  <2>2. QED
    BY <1>1, <2>1, PutCount
<1>5. Meaning(out'.ops) = Beside(Meaning(out.ops), Through(x, y))
  BY <1>3, <1>4
<1>6. Walking /\ UNCHANGED outcome /\ left' = [a |-> Use(left.a, Both), b |-> Use(left.b, Both)]
  BY DEF RetainedByBoth, UseBoth
<1>7. QED
  BY <1>1, <1>3, <1>4, <1>5, <1>6, WalkStep

LEMMA InsertedByAKeeps ==
  ASSUME ComposeInv, InsertedByA
  PROVE  ComposeInv'
<1> DEFINE x == Of(First(Head(left.a), Both))
           y == Of(First(Head(left.b), Both))
           s == SubSeq(Head(left.a).text, 1, Both)
<1>1. /\ Both \in Nat /\ Both <= SizeOf(Head(left.a)) /\ Head(left.a) \in AnyOperation
      /\ Use(left.a, Both) \in Seq(Operation) /\ Use(left.b, Both) \in Seq(Operation)
      /\ Meaning(left.a) = Beside(x, Meaning(Use(left.a, Both)))
      /\ Meaning(left.b) = Beside(y, Meaning(Use(left.b, Both)))
      /\ Head(left.a).kind = "insert" /\ Head(left.b).kind = "retain"
      /\ IsChangeSet(x) /\ IsChangeSet(y)
  BY BothAreUsed DEF InsertedByA
<1>2. s \in Text /\ Len(s) = Both /\ x = Of(Insert(s))
  BY <1>1, FirstInsert
<1>3. y = Of(Count("retain", Both))
  BY <1>1 DEF First
<1>4. out' = AppendInsert(out, s) /\ Walking /\ UNCHANGED outcome
      /\ left' = [a |-> Use(left.a, Both), b |-> Use(left.b, Both)]
  BY DEF InsertedByA, UseBoth
<1> HIDE DEF x, y, s
<1>5. Len(x.post) = y.pre
  BY <1>1, <1>2, <1>3, OfInsert, OfRetain
<1>6. Through(x, y) = Of(Insert(s))
  <2>1. \A n \in Nat : \A t \in Text :
          Len(t) = n => Through(Of(Insert(t)), Of(Count("retain", n))) = Of(Insert(t))
    BY ThroughOperations
  <2>2. QED
    BY <1>1, <1>2, <1>3, <2>1, Zenon
<1>7. /\ IsList(out') /\ Tidy(out'.ops)
      /\ Meaning(out'.ops) = Beside(Meaning(out.ops), Of(Insert(s)))
  BY <1>2, <1>4, PutInsert
<1>8. Meaning(out'.ops) = Beside(Meaning(out.ops), Through(x, y))
  BY <1>6, <1>7
<1>9. QED
  BY <1>1, <1>4, <1>5, <1>7, <1>8, WalkStep

LEMMA InsertedThenDeletedKeeps ==
  ASSUME ComposeInv, InsertedThenDeleted
  PROVE  ComposeInv'
<1> DEFINE x == Of(First(Head(left.a), Both))
           y == Of(First(Head(left.b), Both))
           s == SubSeq(Head(left.a).text, 1, Both)
<1>1. /\ Both \in Nat /\ Both <= SizeOf(Head(left.a)) /\ Head(left.a) \in AnyOperation
      /\ Use(left.a, Both) \in Seq(Operation) /\ Use(left.b, Both) \in Seq(Operation)
      /\ Meaning(left.a) = Beside(x, Meaning(Use(left.a, Both)))
      /\ Meaning(left.b) = Beside(y, Meaning(Use(left.b, Both)))
      /\ Head(left.a).kind = "insert" /\ Head(left.b).kind = "delete"
      /\ IsChangeSet(x) /\ IsChangeSet(y)
  BY BothAreUsed DEF InsertedThenDeleted
<1>2. s \in Text /\ Len(s) = Both /\ x = Of(Insert(s))
  BY <1>1, FirstInsert
<1>3. y = Of(Count("delete", Both))
  BY <1>1 DEF First
<1>4. UNCHANGED out /\ Walking /\ UNCHANGED outcome
      /\ left' = [a |-> Use(left.a, Both), b |-> Use(left.b, Both)]
  BY DEF InsertedThenDeleted, UseBoth
<1> HIDE DEF x, y, s
<1>5. Len(x.post) = y.pre
  BY <1>1, <1>2, <1>3, OfInsert, OfDelete
<1>6. Through(x, y) = Nothing
  <2>1. \A n \in Nat : \A t \in Text :
          Len(t) = n => Through(Of(Insert(t)), Of(Count("delete", n))) = Nothing
    BY ThroughOperations
  <2>2. QED
    BY <1>1, <1>2, <1>3, <2>1, Zenon
<1>7. /\ IsList(out') /\ Tidy(out'.ops)
      /\ Meaning(out'.ops) = Beside(Meaning(out.ops), Nothing)
  BY <1>4, PutNothing
<1>8. Meaning(out'.ops) = Beside(Meaning(out.ops), Through(x, y))
  BY <1>6, <1>7
<1>9. QED
  BY <1>1, <1>4, <1>5, <1>7, <1>8, WalkStep

LEMMA DeletedByBKeeps ==
  ASSUME ComposeInv, DeletedByB
  PROVE  ComposeInv'
<1> DEFINE x == Of(First(Head(left.a), Both))
           y == Of(First(Head(left.b), Both))
<1>1. /\ Both \in Nat
      /\ Use(left.a, Both) \in Seq(Operation) /\ Use(left.b, Both) \in Seq(Operation)
      /\ Meaning(left.a) = Beside(x, Meaning(Use(left.a, Both)))
      /\ Meaning(left.b) = Beside(y, Meaning(Use(left.b, Both)))
      /\ Head(left.a).kind = "retain" /\ Head(left.b).kind = "delete"
      /\ IsChangeSet(x) /\ IsChangeSet(y)
  BY BothAreUsed DEF DeletedByB
<1>2. x = Of(Count("retain", Both)) /\ y = Of(Count("delete", Both))
  BY <1>1 DEF First
<1>3. out' = AppendCount(out, "delete", Both) /\ Walking /\ UNCHANGED outcome
      /\ left' = [a |-> Use(left.a, Both), b |-> Use(left.b, Both)]
  BY DEF DeletedByB, UseBoth
<1> HIDE DEF x, y
<1>4. Len(x.post) = y.pre /\ Through(x, y) = Of(Count("delete", Both))
  <2>1. \A n \in Nat :
          LET r == Of(Count("retain", n))
              d == Of(Count("delete", n))
          IN  Len(r.post) = d.pre /\ Through(r, d) = d
    BY OfRetain, OfDelete, ThroughOperations
  <2>2. QED
    BY <1>1, <1>2, <2>1, Zenon
<1>5. /\ IsList(out') /\ Tidy(out'.ops)
      /\ Meaning(out'.ops) = Beside(Meaning(out.ops), Of(Count("delete", Both)))
  BY <1>1, <1>3, PutCount
<1>6. Meaning(out'.ops) = Beside(Meaning(out.ops), Through(x, y))
  BY <1>4, <1>5
<1>7. QED
  BY <1>1, <1>3, <1>4, <1>5, <1>6, WalkStep

\* The composition of lists that both have operations.
LEMMA ComposeIsThrough ==
  ASSUME NEW opsA \in Seq(Operation), opsA # << >>,
         NEW opsB \in Seq(Operation), opsB # << >>
  PROVE  /\ ~NoOps(Meaning(opsA)) /\ ~NoOps(Meaning(opsB))
         /\ Compose(Meaning(opsA), Meaning(opsB)) = Through(Meaning(opsA), Meaning(opsB))
         /\ Composable(Meaning(opsA), Meaning(opsB))
              <=> Len(Meaning(opsA).post) = Meaning(opsB).pre
<1>1. ~NoOps(Meaning(opsA)) /\ ~NoOps(Meaning(opsB))
  BY NoOpsMeans
<1>2. QED
  BY <1>1 DEF Compose, Composable, Through

LEMMA TakeOtherKeeps ==
  ASSUME ComposeInv, TakeOther
  PROVE  ComposeInv'
<1>1. a.ops \in Seq(Operation) /\ b.ops \in Seq(Operation)
  BY DEF ComposeInv, IsList
<1>2. (NoOps(Meaning(a.ops)) <=> a.ops = << >>) /\ (NoOps(Meaning(b.ops)) <=> b.ops = << >>)
  BY <1>1, NoOpsMeans
<1>3. /\ out' = (IF a.ops = << >> THEN b ELSE a) /\ outcome' = "composed"
      /\ a.ops = << >> \/ b.ops = << >>
      /\ UNCHANGED <<sample, a, b, left>>
  BY DEF TakeOther
<1>4. CanCompose
  BY <1>2, <1>3 DEF CanCompose, Composable
<1>5. Meaning(out'.ops) = Compose(Meaning(a.ops), Meaning(b.ops))
  BY <1>2, <1>3 DEF Compose
<1>6. ComposesAsPromised'
  BY <1>3, <1>4, <1>5 DEF ComposesAsPromised, CanCompose
<1>7. IsList(out') /\ Tidy(out'.ops)
  BY <1>3 DEF ComposeInv
<1>8. QED
  BY <1>3, <1>6, <1>7 DEF ComposeInv

LEMMA FinishedKeeps ==
  ASSUME ComposeInv, Finished
  PROVE  ComposeInv'
<1>1. /\ a.ops \in Seq(Operation) /\ b.ops \in Seq(Operation)
      /\ left.a \in Seq(Operation) /\ left.b \in Seq(Operation)
  BY DEF ComposeInv, IsList
<1>2. /\ a.ops # << >> /\ b.ops # << >> /\ outcome = "running" /\ outcome' = "composed"
      /\ UNCHANGED <<sample, a, b, left, out>>
  BY DEF Finished, Walking
<1>3. Meaning(left.a) = Nothing /\ Meaning(left.b) = Nothing
  BY <1>1, KindAtFront, MeaningNone DEF Finished, AKind, BKind
<1>4. PICK p, q : WalkedTo(p, q, a.ops, b.ops, out.ops, left.a, left.b)
  BY <1>2 DEF ComposeInv, Walked
<1>5. /\ IsChangeSet(p) /\ IsChangeSet(q) /\ Len(p.post) = q.pre
      /\ Meaning(out.ops) = Through(p, q)
      /\ Meaning(a.ops) = Beside(p, Nothing) /\ Meaning(b.ops) = Beside(q, Nothing)
  BY <1>3, <1>4 DEF WalkedTo
<1>6. Meaning(a.ops) = p /\ Meaning(b.ops) = q
  BY <1>5, BesideNothing
<1>7. CanCompose /\ Meaning(out.ops) = Compose(Meaning(a.ops), Meaning(b.ops))
  BY <1>1, <1>2, <1>5, <1>6, ComposeIsThrough DEF CanCompose
<1>8. ComposesAsPromised'
  BY <1>2, <1>7 DEF ComposesAsPromised, CanCompose
<1>9. QED
  BY <1>2, <1>8 DEF ComposeInv

\* What is left of a list has characters on the side its first operation has.
LEMMA SomethingLeft ==
  ASSUME NEW ops \in Seq(Operation)
  PROVE  /\ KindAt(ops, 1) \in {"retain", "delete"} => Meaning(ops).pre \in Nat \ {0}
         /\ KindAt(ops, 1) \in {"retain", "insert"} => Len(Meaning(ops).post) \in Nat \ {0}
<1> DEFINE op == Head(ops)
           rest == Tail(ops)
<1>1. SUFFICES ASSUME KindAt(ops, 1) # "none"
               PROVE  /\ op.kind \in {"retain", "delete"} => Meaning(ops).pre \in Nat \ {0}
                      /\ op.kind \in {"retain", "insert"} => Len(Meaning(ops).post) \in Nat \ {0}
  BY AtOperation
<1>2. /\ op \in Operation /\ op \in AnyOperation /\ rest \in Seq(Operation)
      /\ Meaning(ops) = Beside(Of(op), Meaning(rest))
      /\ SizeOf(op) \in Nat \ {0}
  BY <1>1, AtOperation
<1> HIDE DEF op, rest
<1>3. IsChangeSet(Of(op)) /\ IsChangeSet(Meaning(rest))
  BY <1>2, OfIsChangeSet, MeaningIsChangeSet
<1>4. /\ Meaning(ops).pre = Of(op).pre + Meaning(rest).pre
      /\ Len(Meaning(ops).post) = Len(Of(op).post) + Len(Meaning(rest).post)
  BY <1>2, <1>3, BesideIsChangeSet, Zenon
<1>5. Meaning(rest).pre \in Nat /\ Len(Meaning(rest).post) \in Nat
  BY <1>3, ChangeSetSizes
<1>6. /\ op.kind \in {"retain", "delete"} => Of(op).pre \in Nat \ {0}
      /\ op.kind \in {"retain", "insert"} => Len(Of(op).post) \in Nat \ {0}
  <2>1. CASE op.kind = "retain"
    BY <1>2, <2>1, OperationKinds, OfRetain
  <2>2. CASE op.kind = "delete"
    BY <1>2, <2>2, OperationKinds, OfDelete
  <2>3. CASE op.kind = "insert"
    BY <1>2, <2>3, OperationKinds, OfInsert
  <2>4. QED
    BY <1>2, <2>1, <2>2, <2>3, OperationKinds
<1>7. \A m \in Nat \ {0}, k \in Nat : m + k \in Nat \ {0}
  OBVIOUS
<1>8. QED
  BY <1>4, <1>5, <1>6, <1>7, Zenon

LEMMA LengthsDisagreeKeeps ==
  ASSUME ComposeInv, LengthsDisagree
  PROVE  ComposeInv'
<1>1. /\ a.ops \in Seq(Operation) /\ b.ops \in Seq(Operation)
      /\ left.a \in Seq(Operation) /\ left.b \in Seq(Operation)
  BY DEF ComposeInv, IsList
<1>2. /\ a.ops # << >> /\ b.ops # << >> /\ outcome = "running" /\ outcome' = "mismatch"
      /\ UNCHANGED <<sample, a, b, left, out>>
  BY DEF LengthsDisagree, Walking
<1> DEFINE restA == Meaning(left.a)
           restB == Meaning(left.b)
<1>3. IsChangeSet(restA) /\ IsChangeSet(restB)
  BY <1>1, MeaningIsChangeSet
<1>4. PICK p, q : WalkedTo(p, q, a.ops, b.ops, out.ops, left.a, left.b)
  BY <1>2 DEF ComposeInv, Walked
<1>5. /\ IsChangeSet(p) /\ IsChangeSet(q) /\ Len(p.post) = q.pre
      /\ Meaning(a.ops) = Beside(p, restA) /\ Meaning(b.ops) = Beside(q, restB)
  BY <1>4 DEF WalkedTo
<1>6. Len(restA.post) # restB.pre
  <2>1. CASE AKind = "none" /\ BKind \in {"retain", "delete"}
    <3>1. restA = Nothing /\ restB.pre \in Nat \ {0}
      BY <1>1, <2>1, KindAtFront, MeaningNone, SomethingLeft DEF AKind, BKind
    <3>2. QED
      BY <3>1, NothingIsChangeSet
  <2>2. CASE AKind \in {"retain", "insert"} /\ BKind = "none"
    <3>1. restB = Nothing /\ Len(restA.post) \in Nat \ {0}
      BY <1>1, <2>2, KindAtFront, MeaningNone, SomethingLeft DEF AKind, BKind
    <3>2. QED
      BY <3>1, NothingIsChangeSet
  <2>3. QED
    BY <2>1, <2>2 DEF LengthsDisagree
<1> HIDE DEF restA, restB
<1>7. Len(Meaning(a.ops).post) # Meaning(b.ops).pre
  <2>1. /\ Len(Meaning(a.ops).post) = Len(p.post) + Len(restA.post)
        /\ Meaning(b.ops).pre = q.pre + restB.pre
    BY <1>3, <1>5, BesideIsChangeSet, Zenon
  <2>2. q.pre \in Nat /\ Len(restA.post) \in Nat /\ restB.pre \in Nat
    BY <1>3, <1>5, ChangeSetSizes
  <2>3. q.pre + Len(restA.post) # q.pre + restB.pre
    <3>1. \A m, k, n \in Nat : k # n => m + k # m + n
      OBVIOUS
    <3>2. QED
      BY <1>6, <2>2, <3>1, Zenon
  <2>4. QED
    BY <1>5, <2>1, <2>3
<1>8. ~CanCompose
  BY <1>1, <1>2, <1>7, ComposeIsThrough DEF CanCompose
<1>9. ComposesAsPromised'
  BY <1>2, <1>8 DEF ComposesAsPromised, CanCompose
<1>10. QED
  BY <1>2, <1>9 DEF ComposeInv

LEMMA ComposeInvHolds ==
  ComposeSpec => []ComposeInv
<1>1. ComposeInit => ComposeInv
  BY ComposeInvStarts
<1>2. ComposeInv /\ [ComposeNext]_composeVars => ComposeInv'
  <2> SUFFICES ASSUME ComposeInv, [ComposeNext]_composeVars
               PROVE  ComposeInv'
    OBVIOUS
  <2>1. CASE TakeOther
    BY <2>1, TakeOtherKeeps
  <2>2. CASE DeletedByA
    BY <2>2, DeletedByAKeeps
  <2>3. CASE InsertedByB
    BY <2>3, InsertedByBKeeps
  <2>4. CASE RetainedByBoth
    BY <2>4, RetainedByBothKeeps
  <2>5. CASE InsertedByA
    BY <2>5, InsertedByAKeeps
  <2>6. CASE InsertedThenDeleted
    BY <2>6, InsertedThenDeletedKeeps
  <2>7. CASE DeletedByB
    BY <2>7, DeletedByBKeeps
  <2>8. CASE Finished
    BY <2>8, FinishedKeeps
  <2>9. CASE LengthsDisagree
    BY <2>9, LengthsDisagreeKeeps
  <2>10. CASE UNCHANGED composeVars
    BY <2>10 DEF ComposeInv, ComposesAsPromised, CanCompose, composeVars
  <2>11. QED
    BY <2>1, <2>2, <2>3, <2>4, <2>5, <2>6, <2>7, <2>8, <2>9, <2>10 DEF ComposeNext
<1>3. QED
  BY <1>1, <1>2, PTL DEF ComposeSpec

\* Compose on two lists makes the composition of what they mean, and refuses
\* exactly those that do not meet in the middle.
THEOREM ComposesAsPromisedHolds ==
  ComposeSpec => []ComposesAsPromised
<1>1. ComposeInv => ComposesAsPromised
  BY DEF ComposeInv
<1>2. QED
  BY <1>1, ComposeInvHolds, PTL

LEMMA NothingIsLost ==
  ComposeInv => NothingLost
<1> SUFFICES ASSUME ComposeInv, outcome = "running", a.ops # << >>, b.ops # << >>, CanCompose
             PROVE  Apply(Meaning(out.ops), SubSeq(sample, 1, out.pre))
                      \o Apply(Meaning(left.b), Apply(Meaning(left.a),
                                   SubSeq(sample, out.pre + 1, Len(sample))))
                    = Apply(Meaning(b.ops), Apply(Meaning(a.ops), sample))
  BY DEF NothingLost
<1> DEFINE restA == Meaning(left.a)
           restB == Meaning(left.b)
<1>1. /\ a.ops \in Seq(Operation) /\ b.ops \in Seq(Operation)
      /\ left.a \in Seq(Operation) /\ left.b \in Seq(Operation)
      /\ sample \in Text /\ Meaning(a.ops).pre = Len(sample) /\ out.pre = Meaning(out.ops).pre
  BY DEF ComposeInv, IsList
<1>2. IsChangeSet(restA) /\ IsChangeSet(restB)
  BY <1>1, MeaningIsChangeSet
<1>3. PICK p, q : WalkedTo(p, q, a.ops, b.ops, out.ops, left.a, left.b)
  BY DEF ComposeInv, Walked
<1>4. /\ IsChangeSet(p) /\ IsChangeSet(q) /\ Len(p.post) = q.pre
      /\ Meaning(a.ops) = Beside(p, restA) /\ Meaning(b.ops) = Beside(q, restB)
      /\ Meaning(out.ops) = Through(p, q)
  BY <1>3 DEF WalkedTo
<1>5. Len(Meaning(a.ops).post) = Meaning(b.ops).pre
  BY <1>1, ComposeIsThrough DEF CanCompose
<1> HIDE DEF restA, restB
<1>6. /\ Meaning(a.ops).pre = p.pre + restA.pre
      /\ Len(Meaning(a.ops).post) = Len(p.post) + Len(restA.post)
      /\ Meaning(b.ops).pre = q.pre + restB.pre
  BY <1>2, <1>4, BesideIsChangeSet, Zenon
<1>7. /\ p.pre \in Nat /\ q.pre \in Nat /\ restA.pre \in Nat /\ restB.pre \in Nat
      /\ Len(restA.post) \in Nat
  BY <1>2, <1>4, ChangeSetSizes
<1>8. out.pre = p.pre /\ Len(sample) = p.pre + restA.pre
  BY <1>1, <1>4, <1>6, ThroughIsChangeSet
<1>9. Len(restA.post) = restB.pre
  <2>1. \A m, k, n \in Nat : m + k = m + n => k = n
    OBVIOUS
  <2>2. q.pre + Len(restA.post) = q.pre + restB.pre
    BY <1>4, <1>5, <1>6, Zenon
  <2>3. QED
    BY <1>7, <2>1, <2>2, Zenon
<1> DEFINE s == SubSeq(sample, 1, out.pre)
           t == SubSeq(sample, out.pre + 1, Len(sample))
<1>10. /\ s \in Text /\ Len(s) = p.pre /\ t \in Text /\ Len(t) = restA.pre
       /\ sample = s \o t
  <2>1. LET u == SubSeq(sample, 1, p.pre)
            v == SubSeq(sample, p.pre + 1, p.pre + restA.pre)
        IN  /\ u \in Text /\ Len(u) = p.pre /\ v \in Text /\ Len(v) = restA.pre
            /\ sample = u \o v
    <3>1. Parts(sample, p.pre, restA.pre)
      BY <1>1, <1>7, <1>8, TextParts, Zenon
    <3>2. QED
      BY <3>1 DEF Parts
  <2>2. QED
    BY <1>8, <2>1, Zenon
<1> HIDE DEF s, t
<1>11. Apply(Meaning(a.ops), sample) = Apply(p, s) \o Apply(restA, t)
  BY <1>2, <1>4, <1>10, ApplyBeside
<1>12. /\ Apply(p, s) \in Text /\ Len(Apply(p, s)) = q.pre
       /\ Apply(restA, t) \in Text /\ Len(Apply(restA, t)) = restB.pre
  BY <1>2, <1>4, <1>9, <1>10, ApplyPieces, Zenon
<1>13. Apply(Beside(q, restB), Apply(p, s) \o Apply(restA, t))
         = Apply(q, Apply(p, s)) \o Apply(restB, Apply(restA, t))
  <2>1. \A u, v \in Text : Len(u) = q.pre /\ Len(v) = restB.pre =>
          Apply(Beside(q, restB), u \o v) = Apply(q, u) \o Apply(restB, v)
    BY <1>2, <1>4, ApplyBeside
  <2>2. QED
    BY <1>12, <2>1, Zenon
<1>14. Apply(Meaning(out.ops), s) = Apply(q, Apply(p, s))
  BY <1>4, <1>10, ApplyThrough
<1>15. Apply(Meaning(out.ops), s) \o Apply(restB, Apply(restA, t))
         = Apply(Meaning(b.ops), Apply(Meaning(a.ops), sample))
  BY <1>4, <1>11, <1>13, <1>14
<1>16. QED
  BY <1>15 DEF s, t, restA, restB

\* Half way, nothing of the text that is composed for is lost or taken twice.
THEOREM NothingLostHolds ==
  ComposeSpec => []NothingLost
BY NothingIsLost, ComposeInvHolds, PTL

(***************************************************************************)
(* Applying a list.                                                        *)
(***************************************************************************)

ApplyStep(c, x, op) == ApplyOp(x, op)

ApplyFolds == INSTANCE FoldTheorems WITH Op <- ApplyStep

Applied(ops, t) == ApplyFolds!Fold(0, [text |-> t, at |-> 0], ops)

LEMMA ApplyListIsApplied ==
  ASSUME NEW l, NEW t
  PROVE  ApplyList(l, t) = Applied(l.ops, t).text
BY DEF ApplyList, Applied, ApplyStep, ApplyFolds!Fold, ApplyFolds!FoldLeft,
       ApplyFolds!MapThenFoldSet, ApplyFolds!Max, FoldLeft, MapThenFoldSet, Max

LEMMA AppliedNone ==
  ASSUME NEW t
  PROVE  Applied(<< >>, t) = [text |-> t, at |-> 0]
BY ApplyFolds!FoldNone DEF Applied

LEMMA AppliedAppend ==
  ASSUME NEW t, NEW ops \in Seq(Operation), NEW op \in Operation
  PROVE  Applied(Append(ops, op), t) = ApplyOp(Applied(ops, t), op)
BY ApplyFolds!FoldAppend DEF Applied, ApplyStep

\* One operation, at the end of what is done.
AppliesTo(op, done, t, rest) ==
  ApplyOp([text |-> done \o (t \o rest), at |-> Len(done)], op)
    = [text |-> done \o (Apply(Of(op), t) \o rest),
       at |-> Len(done) + Len(Of(op).post)]

LEMMA ApplyOpMeans ==
  ASSUME NEW op \in AnyOperation, NEW done \in Text, NEW t \in Text, NEW rest \in Text,
         Len(t) = Of(op).pre
  PROVE  AppliesTo(op, done, t, rest)
<1> DEFINE w == done \o (t \o rest)
<1>1. /\ w \in Text /\ SubSeq(w, 1, Len(done)) = done
      /\ SubSeq(w, Len(done) + Len(t) + 1, Len(w)) = rest
  <2>1. HasPieces(done, t, rest)
    BY TextInThree
  <2>2. QED
    BY <2>1, Zenon DEF HasPieces
<1>2. Len(done) \in Nat /\ Len(t) \in Nat
  BY DEF Text
<1>3. CASE op.kind = "retain"
  <2>1. op = Count("retain", op.n) /\ op.n \in Nat
    BY <1>3, OperationKinds
  <2>2. /\ IsChangeSet(Of(op)) /\ Of(op).pre = op.n /\ Len(Of(op).post) = op.n
        /\ \A i \in 1 .. op.n : Of(op).post[i] = i /\ Of(op).post[i] \notin Char
    BY <2>1, OfRetain
  <2>3. /\ Apply(Of(op), t) \in Text /\ Len(Apply(Of(op), t)) = op.n
        /\ \A i \in 1 .. op.n : Apply(Of(op), t)[i] = t[i]
    BY <2>2, ApplyPieces
  <2>4. Apply(Of(op), t) = t
    BY <2>2, <2>3, SameText
  <2> HIDE DEF w
  <2>5. ApplyOp([text |-> w, at |-> Len(done)], op) = [text |-> w, at |-> Len(done) + op.n]
    BY <1>3 DEF ApplyOp
  <2>6. QED
    BY <2>2, <2>4, <2>5 DEF w, AppliesTo
<1>4. CASE op.kind = "delete"
  <2>1. op = Count("delete", op.n) /\ op.n \in Nat
    BY <1>4, OperationKinds
  <2>2. IsChangeSet(Of(op)) /\ Of(op).pre = op.n /\ Len(Of(op).post) = 0
    BY <2>1, OfDelete
  <2>3. Apply(Of(op), t) = << >>
    BY <2>2, ApplyPieces, NoText
  <2>4. Apply(Of(op), t) \o rest = rest
    BY <2>3, NoText
  <2> HIDE DEF w
  <2>5. ApplyOp([text |-> w, at |-> Len(done)], op)
          = [text |-> SubSeq(w, 1, Len(done)) \o SubSeq(w, Len(done) + op.n + 1, Len(w)),
             at |-> Len(done)]
    BY <1>4, Zenon DEF ApplyOp
  <2>6. ApplyOp([text |-> w, at |-> Len(done)], op) = [text |-> done \o rest, at |-> Len(done)]
    BY <1>1, <2>2, <2>5, Zenon
  <2>7. Len(done) + Len(Of(op).post) = Len(done)
    BY <1>2, <2>2
  <2>8. QED
    BY <2>4, <2>6, <2>7, Zenon DEF w, AppliesTo
<1>5. CASE op.kind = "insert"
  <2>1. op = Insert(op.text) /\ op.text \in Text
    BY <1>5, OperationKinds
  <2>2. /\ IsChangeSet(Of(op)) /\ Of(op).pre = 0 /\ Len(Of(op).post) = Len(op.text)
        /\ \A i \in 1 .. Len(op.text) : Of(op).post[i] = op.text[i] /\ op.text[i] \in Char
    BY <2>1, OfInsert
  <2>3. Apply(Of(op), t) = op.text
    <3>1. /\ Apply(Of(op), t) \in Text /\ Len(Apply(Of(op), t)) = Len(op.text)
          /\ \A i \in 1 .. Len(op.text) : Apply(Of(op), t)[i] = op.text[i]
      BY <2>2, ApplyPieces
    <3>2. QED
      BY <2>1, <3>1, SameText
  <2>4. (done \o op.text) \o rest = done \o (op.text \o rest)
    <3>1. Associate(done, op.text, rest)
      BY <2>1, TextsAssociate, Zenon
    <3>2. QED
      BY <3>1 DEF Associate
  <2>5. SubSeq(w, Len(done) + 1, Len(w)) = rest
    <3>1. Len(t) = 0 /\ Len(done) + Len(t) + 1 = Len(done) + 1
      BY <1>2, <2>2
    <3>2. QED
      BY <1>1, <3>1
  <2> HIDE DEF w
  <2>6. ApplyOp([text |-> w, at |-> Len(done)], op)
          = [text |-> SubSeq(w, 1, Len(done)) \o op.text \o SubSeq(w, Len(done) + 1, Len(w)),
             at |-> Len(done) + Len(op.text)]
    BY <1>5 DEF ApplyOp
  <2>7. ApplyOp([text |-> w, at |-> Len(done)], op)
          = [text |-> (done \o op.text) \o rest, at |-> Len(done) + Len(op.text)]
    BY <1>1, <2>5, <2>6, Zenon
  <2>8. QED
    BY <2>2, <2>3, <2>4, <2>7 DEF w, AppliesTo
<1>6. QED
  BY <1>3, <1>4, <1>5, OperationKinds

LEMMA AppliedMeans ==
  ASSUME NEW ops \in Seq(Operation)
  PROVE  \A s, rest \in Text : Len(s) = Meaning(ops).pre =>
           Applied(ops, s \o rest)
             = [text |-> Apply(Meaning(ops), s) \o rest, at |-> Len(Meaning(ops).post)]
<1> DEFINE Fine(p) == \A t, u \in Text : Len(t) = Meaning(p).pre =>
                        Applied(p, t \o u) = [text |-> Apply(Meaning(p), t) \o u,
                                              at |-> Len(Meaning(p).post)]
           Good == {p \in Seq(Operation) : Fine(p)}
<1>1. << >> \in Good
  <2>1. Meaning(<< >>) = Nothing /\ IsChangeSet(Nothing) /\ Nothing.pre = 0
        /\ Len(Nothing.post) = 0
    BY MeaningNone, NothingIsChangeSet
  <2>2. ASSUME NEW t \in Text, NEW u \in Text, Len(t) = Meaning(<< >>).pre
        PROVE  Applied(<< >>, t \o u) = [text |-> Apply(Meaning(<< >>), t) \o u,
                                         at |-> Len(Meaning(<< >>).post)]
    <3>1. Apply(Nothing, t) \in Text /\ Len(Apply(Nothing, t)) = 0 /\ Len(t) = 0
      BY <2>1, <2>2, ApplyPieces
    <3>2. Apply(Nothing, t) = t
      BY <3>1, NoText
    <3>3. QED
      BY <2>1, <3>2, AppliedNone, Zenon
  <2>3. << >> \in Seq(Operation)
    OBVIOUS
  <2>4. Fine(<< >>)
    BY <2>2
  <2> HIDE DEF Fine
  <2>5. QED
    BY <2>3, <2>4
<1>2. ASSUME NEW p \in Seq(Operation), NEW op \in Operation, p \in Good
      PROVE  Append(p, op) \in Good
  <2> DEFINE r == Append(p, op)
             M == Meaning(p)
             O == Of(op)
  <2>1. /\ r \in Seq(Operation) /\ Meaning(r) = Beside(M, O)
        /\ IsChangeSet(M) /\ IsChangeSet(O) /\ op \in AnyOperation
    BY MeaningAppend, MeaningIsChangeSet, OfIsChangeSet DEF Operation
  <2> HIDE DEF r, M, O
  <2>2. /\ Meaning(r).pre = M.pre + O.pre /\ Len(Meaning(r).post) = Len(M.post) + Len(O.post)
        /\ M.pre \in Nat /\ O.pre \in Nat
    BY <2>1, BesideIsChangeSet, ChangeSetSizes, Zenon
  <2>3. ASSUME NEW t \in Text, NEW u \in Text, Len(t) = Meaning(r).pre
        PROVE  Applied(r, t \o u) = [text |-> Apply(Meaning(r), t) \o u,
                                     at |-> Len(Meaning(r).post)]
    <3>1. PICK x, y \in Text : Len(x) = M.pre /\ Len(y) = O.pre /\ t = x \o y
      <4>1. Cuts(t, M.pre, O.pre)
        BY <2>2, TextsAreCut, Zenon
      <4>2. QED
        BY <2>2, <2>3, <4>1, Zenon DEF Cuts
    <3>2. t \o u = x \o (y \o u) /\ y \o u \in Text
      <4>1. (x \o y) \o u = x \o (y \o u)
        <5>1. Associate(x, y, u)
          BY TextsAssociate, Zenon
        <5>2. QED
          BY <5>1 DEF Associate
      <4>2. y \o u \in Text
        BY TextConcat, Zenon
      <4>3. QED
        BY <3>1, <4>1, <4>2
    <3>3. Applied(p, x \o (y \o u)) = [text |-> Apply(M, x) \o (y \o u), at |-> Len(M.post)]
      <4>1. \A v, w \in Text : Len(v) = M.pre =>
              Applied(p, v \o w) = [text |-> Apply(M, v) \o w, at |-> Len(M.post)]
        BY <1>2, Zenon DEF M
      <4>2. QED
        BY <3>1, <3>2, <4>1, Zenon
    <3>4. Apply(M, x) \in Text /\ Len(Apply(M, x)) = Len(M.post)
          /\ Apply(O, y) \in Text
      BY <2>1, <3>1, ApplyPieces
    <3>5. ApplyOp([text |-> Apply(M, x) \o (y \o u), at |-> Len(Apply(M, x))], op)
            = [text |-> Apply(M, x) \o (Apply(O, y) \o u),
               at |-> Len(Apply(M, x)) + Len(O.post)]
      <4>1. Len(y) = Of(op).pre
        BY <3>1 DEF O
      <4>2. AppliesTo(op, Apply(M, x), y, u)
        BY <2>1, <3>4, <4>1, ApplyOpMeans
      <4>3. QED
        BY <4>2 DEF AppliesTo, O
    <3>6. Applied(r, t \o u) = ApplyOp(Applied(p, t \o u), op)
      BY AppliedAppend DEF r
    <3>7. Applied(r, t \o u) = [text |-> Apply(M, x) \o (Apply(O, y) \o u),
                                at |-> Len(M.post) + Len(O.post)]
      BY <3>2, <3>3, <3>4, <3>5, <3>6, Zenon
    <3>8. Apply(Meaning(r), t) = Apply(M, x) \o Apply(O, y)
      BY <2>1, <3>1, ApplyBeside
    <3>9. Apply(M, x) \o (Apply(O, y) \o u) = (Apply(M, x) \o Apply(O, y)) \o u
      <4>1. Associate(Apply(M, x), Apply(O, y), u)
        BY <3>4, TextsAssociate, Zenon
      <4>2. QED
        BY <4>1 DEF Associate
    <3>10. QED
      BY <2>2, <3>7, <3>8, <3>9
  <2>4. Fine(r)
    BY <2>3
  <2> HIDE DEF Fine
  <2>5. QED
    BY <2>1, <2>4 DEF r
<1>3. \A p \in Seq(Operation) : p \in Good
  <2> HIDE DEF Good
  <2>1. QED
    BY <1>1, <1>2, OverSequences
<1>4. Fine(ops)
  <2> HIDE DEF Fine
  <2>1. QED
    BY <1>3
<1>5. QED
  BY <1>4

LEMMA ApplyListMeans ==
  ASSUME NEW l, l.ops \in Seq(Operation), NEW t \in Text, Len(t) = Meaning(l.ops).pre
  PROVE  ApplyList(l, t) = Apply(Meaning(l.ops), t)
<1>1. << >> \in Text /\ t \o << >> = t
  BY NoText
<1>2. Applied(l.ops, t \o << >>)
        = [text |-> Apply(Meaning(l.ops), t) \o << >>, at |-> Len(Meaning(l.ops).post)]
  BY <1>1, AppliedMeans, Zenon
<1>3. Apply(Meaning(l.ops), t) \in Text
  BY MeaningIsChangeSet, ApplyPieces
<1>4. Apply(Meaning(l.ops), t) \o << >> = Apply(Meaning(l.ops), t)
  BY <1>3, NoText
<1>5. QED
  BY <1>1, <1>2, <1>4, ApplyListIsApplied

(***************************************************************************)
(* Inverting a list.                                                       *)
(***************************************************************************)

InvertStep(t, x, op) == InvertOp(t, x, op)

InvertFolds == INSTANCE FoldTheorems WITH Op <- InvertStep

Inverted(ops, t) == InvertFolds!Fold(t, [list |-> NoList, at |-> 0], ops)

LEMMA InvertListIsInverted ==
  ASSUME NEW l, NEW t
  PROVE  InvertList(l, t) = Inverted(l.ops, t).list
BY DEF InvertList, Inverted, InvertStep, InvertFolds!Fold, InvertFolds!FoldLeft,
       InvertFolds!MapThenFoldSet, InvertFolds!Max, FoldLeft, MapThenFoldSet, Max

LEMMA InvertedNone ==
  ASSUME NEW t
  PROVE  Inverted(<< >>, t) = [list |-> NoList, at |-> 0]
BY InvertFolds!FoldNone DEF Inverted

LEMMA InvertedAppend ==
  ASSUME NEW t, NEW ops \in Seq(Operation), NEW op \in Operation
  PROVE  Inverted(Append(ops, op), t) = InvertOp(t, Inverted(ops, t), op)
BY InvertFolds!FoldAppend DEF Inverted, InvertStep

\* The inverse of one operation.
LEMMA InvertOf ==
  ASSUME NEW op \in AnyOperation, NEW t \in Text, Len(t) = Of(op).pre
  PROVE  /\ op.kind = "retain" => Invert(Of(op), t) = Of(Count("retain", op.n))
         /\ op.kind = "delete" => Invert(Of(op), t) = Of(Insert(t))
         /\ op.kind = "insert" => Invert(Of(op), t) = Of(Count("delete", Len(op.text)))
<1> DEFINE inv == Invert(Of(op), t)
<1>1. IsChangeSet(Of(op))
  BY OfIsChangeSet
<1>2. /\ IsChangeSet(inv)
      /\ inv.pre = Len(Of(op).post) /\ Len(inv.post) = Of(op).pre
      /\ \A i \in 1 .. Of(op).pre, p \in 1 .. Len(Of(op).post) :
           Of(op).post[p] = i => inv.post[i] = p
      /\ \A i \in 1 .. Of(op).pre :
           (\A p \in 1 .. Len(Of(op).post) : Of(op).post[p] # i) => inv.post[i] = t[i]
  BY <1>1, InvertPieces
<1> HIDE DEF inv
<1>3. ASSUME op.kind = "retain"
      PROVE  inv = Of(Count("retain", op.n))
  <2>1. op = Count("retain", op.n) /\ op.n \in Nat
    BY <1>3, OperationKinds
  <2>2. /\ IsChangeSet(Of(op)) /\ Of(op).pre = op.n /\ Len(Of(op).post) = op.n
        /\ \A i \in 1 .. op.n : Of(op).post[i] = i
    BY <2>1, OfRetain
  <2>3. \A i \in 1 .. op.n : inv.post[i] = i
    BY <1>2, <2>2
  <2>4. inv = Of(op)
    BY <1>2, <2>2, <2>3, SameChangeSet
  <2>5. QED
    BY <2>1, <2>4
<1>4. ASSUME op.kind = "delete"
      PROVE  inv = Of(Insert(t))
  <2>1. op = Count("delete", op.n) /\ op.n \in Nat
    BY <1>4, OperationKinds
  <2>2. Of(op).pre = op.n /\ Len(Of(op).post) = 0
    BY <2>1, OfDelete
  <2>3. inv.pre = 0 /\ Len(inv.post) = Len(t) /\ \A i \in 1 .. Len(t) : inv.post[i] = t[i]
    BY <1>2, <2>2
  <2>4. /\ IsChangeSet(Of(Insert(t))) /\ Of(Insert(t)).pre = 0
        /\ Len(Of(Insert(t)).post) = Len(t)
        /\ \A i \in 1 .. Len(t) : Of(Insert(t)).post[i] = t[i]
    BY OfInsert
  <2>5. QED
    BY <1>2, <2>3, <2>4, SameChangeSet
<1>5. ASSUME op.kind = "insert"
      PROVE  inv = Of(Count("delete", Len(op.text)))
  <2>1. op = Insert(op.text) /\ op.text \in Text /\ Len(op.text) \in Nat
    BY <1>5, OperationKinds DEF Text
  <2>2. Of(op).pre = 0 /\ Len(Of(op).post) = Len(op.text)
    BY <2>1, OfInsert
  <2>3. /\ IsChangeSet(Of(Count("delete", Len(op.text))))
        /\ Of(Count("delete", Len(op.text))).pre = Len(op.text)
        /\ Len(Of(Count("delete", Len(op.text))).post) = 0
    BY <2>1, OfDelete
  <2>4. inv.pre = Len(op.text) /\ Len(inv.post) = 0
    BY <1>2, <2>2
  <2>5. QED
    BY <1>2, <2>3, <2>4, SameChangeSet
<1>6. QED
  BY <1>3, <1>4, <1>5 DEF inv

\* One operation of a list for a text.
LEMMA InvertOpMeans ==
  ASSUME NEW op \in AnyOperation, NEW done \in Text, NEW t \in Text, NEW rest \in Text,
         Len(t) = Of(op).pre,
         NEW l, IsList(l), Tidy(l.ops)
  PROVE  LET r == InvertOp(done \o (t \o rest), [list |-> l, at |-> Len(done)], op)
         IN  /\ IsList(r.list) /\ Tidy(r.list.ops)
             /\ Meaning(r.list.ops) = Beside(Meaning(l.ops), Invert(Of(op), t))
             /\ r.at = Len(done) + Len(t)
<1> DEFINE w == done \o (t \o rest)
           r == InvertOp(w, [list |-> l, at |-> Len(done)], op)
<1>1. w \in Text /\ SubSeq(w, Len(done) + 1, Len(done) + Len(t)) = t
  <2>1. HasPieces(done, t, rest)
    BY TextInThree
  <2>2. QED
    BY <2>1, Zenon DEF HasPieces
<1>2. Len(done) \in Nat /\ Len(t) \in Nat
  BY DEF Text
<1> HIDE DEF w
<1>3. CASE op.kind = "retain"
  <2>1. op = Count("retain", op.n) /\ op.n \in Nat
    BY <1>3, OperationKinds
  <2>2. r = [list |-> AppendCount(l, "retain", op.n), at |-> Len(done) + op.n]
    BY <1>3 DEF InvertOp
  <2>3. Invert(Of(op), t) = Of(Count("retain", op.n))
    BY <1>3, InvertOf
  <2>4. Len(t) = op.n
    BY <2>1, OfRetain
  <2>5. LET k == AppendCount(l, "retain", op.n)
        IN  IsList(k) /\ Tidy(k.ops) /\ Meaning(k.ops) = Beside(Meaning(l.ops), Of(Count("retain", op.n)))
    BY <2>1, AppendCountMeans, Zenon
  <2>6. QED
    BY <2>2, <2>3, <2>4, <2>5 DEF w
<1>4. CASE op.kind = "delete"
  <2>1. op = Count("delete", op.n) /\ op.n \in Nat
    BY <1>4, OperationKinds
  <2>2. Len(t) = op.n
    BY <2>1, OfDelete
  <2>3. r = [list |-> AppendInsert(l, SubSeq(w, Len(done) + 1, Len(done) + op.n)),
             at |-> Len(done) + op.n]
    BY <1>4 DEF InvertOp
  <2>4. r = [list |-> AppendInsert(l, t), at |-> Len(done) + Len(t)]
    BY <1>1, <2>2, <2>3, Zenon
  <2>5. Invert(Of(op), t) = Of(Insert(t))
    BY <1>4, InvertOf
  <2>6. LET k == AppendInsert(l, t)
        IN  IsList(k) /\ Tidy(k.ops) /\ Meaning(k.ops) = Beside(Meaning(l.ops), Of(Insert(t)))
    BY AppendInsertMeans
  <2>7. QED
    BY <2>4, <2>5, <2>6 DEF w
<1>5. CASE op.kind = "insert"
  <2>1. op = Insert(op.text) /\ op.text \in Text /\ Len(op.text) \in Nat
    BY <1>5, OperationKinds DEF Text
  <2>2. Len(t) = 0
    BY <2>1, OfInsert
  <2>3. r = [list |-> AppendCount(l, "delete", Len(op.text)), at |-> Len(done)]
    BY <1>5 DEF InvertOp
  <2>4. Invert(Of(op), t) = Of(Count("delete", Len(op.text)))
    BY <1>5, InvertOf
  <2>5. LET k == AppendCount(l, "delete", Len(op.text))
        IN  /\ IsList(k) /\ Tidy(k.ops)
            /\ Meaning(k.ops) = Beside(Meaning(l.ops), Of(Count("delete", Len(op.text))))
    BY <2>1, AppendCountMeans, Zenon
  <2>6. Len(done) + Len(t) = Len(done)
    BY <1>2, <2>2
  <2>7. QED
    BY <2>3, <2>4, <2>5, <2>6 DEF w
<1>6. QED
  BY <1>3, <1>4, <1>5, OperationKinds DEF w

LEMMA InvertedMeans ==
  ASSUME NEW ops \in Seq(Operation), NEW s \in Text, Len(s) = Meaning(ops).pre,
         NEW rest \in Text
  PROVE  LET r == Inverted(ops, s \o rest)
         IN  /\ r = [list |-> r.list, at |-> r.at]
             /\ IsList(r.list) /\ Tidy(r.list.ops)
             /\ Meaning(r.list.ops) = Invert(Meaning(ops), s)
             /\ r.at = Len(s)
<1> DEFINE Is(r, p, t) == /\ r = [list |-> r.list, at |-> r.at]
                          /\ IsList(r.list) /\ Tidy(r.list.ops)
                          /\ Meaning(r.list.ops) = Invert(Meaning(p), t)
                          /\ r.at = Len(t)
           Fine(p) == \A t, u \in Text :
                        Len(t) = Meaning(p).pre => Is(Inverted(p, t \o u), p, t)
           Good == {p \in Seq(Operation) : Fine(p)}
<1>1. << >> \in Good
  <2>1. Meaning(<< >>) = Nothing /\ IsChangeSet(Nothing) /\ Nothing.pre = 0
        /\ Len(Nothing.post) = 0
    BY MeaningNone, NothingIsChangeSet
  <2>2. ASSUME NEW t \in Text, NEW u \in Text, Len(t) = Meaning(<< >>).pre
        PROVE  Is(Inverted(<< >>, t \o u), << >>, t)
    <3>1. Len(t) = 0
      BY <2>1, <2>2
    <3>2. IsChangeSet(Invert(Nothing, t)) /\ Invert(Nothing, t).pre = 0
          /\ Len(Invert(Nothing, t).post) = 0
      BY <2>1, <3>1, InvertPieces
    <3>3. Invert(Nothing, t) = Nothing
      BY <2>1, <3>2, SameChangeSet
    <3>4. Inverted(<< >>, t \o u) = [list |-> NoList, at |-> 0]
      BY InvertedNone
    <3>5. QED
      BY <2>1, <3>1, <3>3, <3>4, NoListIsList
  <2>3. << >> \in Seq(Operation)
    OBVIOUS
  <2>4. Fine(<< >>)
    BY <2>2
  <2> HIDE DEF Fine
  <2>5. QED
    BY <2>3, <2>4
<1>2. ASSUME NEW p \in Seq(Operation), NEW op \in Operation, p \in Good
      PROVE  Append(p, op) \in Good
  <2> DEFINE r == Append(p, op)
             M == Meaning(p)
             O == Of(op)
  <2>1. /\ r \in Seq(Operation) /\ Meaning(r) = Beside(M, O)
        /\ IsChangeSet(M) /\ IsChangeSet(O) /\ op \in AnyOperation
    BY MeaningAppend, MeaningIsChangeSet, OfIsChangeSet DEF Operation
  <2> HIDE DEF r, M, O
  <2>2. Meaning(r).pre = M.pre + O.pre /\ M.pre \in Nat /\ O.pre \in Nat
    BY <2>1, BesideIsChangeSet, ChangeSetSizes, Zenon
  <2>3. ASSUME NEW t \in Text, NEW u \in Text, Len(t) = Meaning(r).pre
        PROVE  Is(Inverted(r, t \o u), r, t)
    <3>1. PICK x, y \in Text : Len(x) = M.pre /\ Len(y) = O.pre /\ t = x \o y
      <4>1. Cuts(t, M.pre, O.pre)
        BY <2>2, TextsAreCut, Zenon
      <4>2. QED
        BY <2>2, <2>3, <4>1, Zenon DEF Cuts
    <3>2. t \o u = x \o (y \o u) /\ y \o u \in Text
      <4>1. (x \o y) \o u = x \o (y \o u)
        <5>1. Associate(x, y, u)
          BY TextsAssociate, Zenon
        <5>2. QED
          BY <5>1 DEF Associate
      <4>2. y \o u \in Text
        BY TextConcat, Zenon
      <4>3. QED
        BY <3>1, <4>1, <4>2
    <3> DEFINE before == Inverted(p, t \o u)
    <3>3. Is(before, p, x)
      <4>1. \A v, w \in Text : Len(v) = M.pre => Is(Inverted(p, v \o w), p, v)
        BY <1>2, Zenon DEF M
      <4> HIDE DEF Is
      <4>2. Is(Inverted(p, x \o (y \o u)), p, x)
        BY <3>1, <3>2, <4>1, Zenon
      <4>3. QED
        BY <3>2, <4>2
    <3>4. /\ before = [list |-> before.list, at |-> Len(x)]
          /\ IsList(before.list) /\ Tidy(before.list.ops)
          /\ Meaning(before.list.ops) = Invert(M, x)
      BY <3>3 DEF M
    <3> HIDE DEF before
    <3> DEFINE after == InvertOp(x \o (y \o u), [list |-> before.list, at |-> Len(x)], op)
    <3>5. /\ IsList(after.list) /\ Tidy(after.list.ops)
          /\ Meaning(after.list.ops) = Beside(Meaning(before.list.ops), Invert(O, y))
          /\ after.at = Len(x) + Len(y)
      BY <2>1, <3>1, <3>4, InvertOpMeans DEF O
    <3>6. Inverted(r, t \o u) = InvertOp(t \o u, before, op)
      BY InvertedAppend DEF r, before
    <3>7. Inverted(r, t \o u) = after
      BY <3>2, <3>4, <3>6
    <3>8. Invert(Meaning(r), t) = Beside(Invert(M, x), Invert(O, y))
      BY <2>1, <3>1, InvertBeside
    <3>9. Len(t) = Len(x) + Len(y)
      BY <2>2, <2>3, <3>1
    <3>10. after = [list |-> after.list, at |-> after.at]
      BY <2>1, OperationKinds DEF InvertOp
    <3> HIDE DEF after
    <3>11. QED
      BY <3>4, <3>5, <3>7, <3>8, <3>9, <3>10
  <2>4. Fine(r)
    BY <2>3
  <2> HIDE DEF Fine
  <2>5. QED
    BY <2>1, <2>4 DEF r
<1>3. \A p \in Seq(Operation) : p \in Good
  <2> HIDE DEF Good
  <2>1. QED
    BY <1>1, <1>2, OverSequences
<1>4. Fine(ops)
  <2> HIDE DEF Fine
  <2>1. QED
    BY <1>3
<1>5. QED
  BY <1>4

LEMMA InvertListMeans ==
  ASSUME NEW l, l.ops \in Seq(Operation), NEW t \in Text, Len(t) = Meaning(l.ops).pre
  PROVE  LET inv == InvertList(l, t)
         IN  /\ IsList(inv) /\ Tidy(inv.ops)
             /\ Meaning(inv.ops) = Invert(Meaning(l.ops), t)
<1>1. << >> \in Text /\ t \o << >> = t
  BY NoText
<1>2. LET r == Inverted(l.ops, t \o << >>)
      IN  /\ IsList(r.list) /\ Tidy(r.list.ops)
          /\ Meaning(r.list.ops) = Invert(Meaning(l.ops), t)
  BY <1>1, InvertedMeans, Zenon
<1>3. QED
  BY <1>1, <1>2, InvertListIsInverted

\* A list applied, and then its inverse, is as if nothing had been done.
LEMMA InvertListUndoes ==
  ASSUME NEW l, l.ops \in Seq(Operation), NEW t \in Text, Len(t) = Meaning(l.ops).pre
  PROVE  ApplyList(InvertList(l, t), ApplyList(l, t)) = t
<1> DEFINE c == Meaning(l.ops)
           inv == InvertList(l, t)
<1>1. IsChangeSet(c)
  BY MeaningIsChangeSet
<1>2. ApplyList(l, t) = Apply(c, t) /\ Apply(c, t) \in Text /\ Len(Apply(c, t)) = Len(c.post)
  BY <1>1, ApplyListMeans, ApplyPieces
<1>3. inv.ops \in Seq(Operation) /\ Meaning(inv.ops) = Invert(c, t)
  BY InvertListMeans DEF IsList
<1>4. Invert(c, t).pre = Len(c.post)
  BY <1>1, InvertPieces
<1> HIDE DEF c, inv
<1>5. ApplyList(inv, Apply(c, t)) = Apply(Meaning(inv.ops), Apply(c, t))
  BY <1>2, <1>3, <1>4, ApplyListMeans
<1>6. Apply(Invert(c, t), Apply(c, t)) = t
  BY <1>1, InvertUndoesApply DEF Fits, c
<1>7. QED
  BY <1>2, <1>3, <1>5, <1>6 DEF inv

(***************************************************************************)
(* Lists that change nothing.                                              *)
(***************************************************************************)

\* Operations that insert nothing take no more than they leave, and leave as
\* much as they take only when they retain.
LEMMA WithoutInserts ==
  ASSUME NEW ops \in Seq(Operation),
         \A i \in 1 .. Len(Meaning(ops).post) : Meaning(ops).post[i] \notin Char
  PROVE  /\ \A i \in 1 .. Len(ops) : ops[i].kind # "insert"
         /\ Len(Meaning(ops).post) <= Meaning(ops).pre
         /\ Len(Meaning(ops).post) = Meaning(ops).pre =>
              \A i \in 1 .. Len(ops) : ops[i].kind = "retain"
<1> DEFINE None(p) == \A i \in 1 .. Len(Meaning(p).post) : Meaning(p).post[i] \notin Char
           Fine(p) == /\ \A i \in 1 .. Len(p) : p[i].kind # "insert"
                      /\ Len(Meaning(p).post) <= Meaning(p).pre
                      /\ Len(Meaning(p).post) = Meaning(p).pre =>
                           \A i \in 1 .. Len(p) : p[i].kind = "retain"
           Good == {p \in Seq(Operation) : None(p) => Fine(p)}
<1>1. << >> \in Good
  <2>1. Meaning(<< >>).pre = 0 /\ Len(Meaning(<< >>).post) = 0
    BY MeaningNone, NothingIsChangeSet
  <2>2. << >> \in Seq(Operation) /\ Len(<< >>) = 0
    OBVIOUS
  <2>3. Fine(<< >>)
    BY <2>1, <2>2
  <2> HIDE DEF Fine, None
  <2>4. QED
    BY <2>2, <2>3
<1>2. ASSUME NEW p \in Seq(Operation), NEW op \in Operation, p \in Good
      PROVE  Append(p, op) \in Good
  <2> DEFINE r == Append(p, op)
             M == Meaning(p)
             O == Of(op)
  <2>1. /\ r \in Seq(Operation) /\ Meaning(r) = Beside(M, O)
        /\ IsChangeSet(M) /\ IsChangeSet(O) /\ op \in AnyOperation /\ SizeOf(op) # 0
    BY MeaningAppend, MeaningIsChangeSet, OfIsChangeSet DEF Operation
  <2>2. /\ Len(r) = Len(p) + 1 /\ r[Len(p) + 1] = op /\ Len(p) \in Nat
        /\ \A i \in 1 .. Len(p) : r[i] = p[i]
    OBVIOUS
  <2> HIDE DEF r, M, O
  <2>3. /\ Meaning(r).pre = M.pre + O.pre /\ Len(Meaning(r).post) = Len(M.post) + Len(O.post)
        /\ \A i \in 1 .. Len(M.post) : Meaning(r).post[i] = M.post[i]
        /\ \A i \in 1 .. Len(O.post) :
             Meaning(r).post[Len(M.post) + i] = Shifted(O.post[i], M.pre)
    <3>1. IsChangeSet(M) /\ IsChangeSet(O)
      BY <2>1
    <3>2. /\ Beside(M, O).pre = M.pre + O.pre
          /\ Len(Beside(M, O).post) = Len(M.post) + Len(O.post)
      BY <3>1, BesideIsChangeSet, Zenon
    <3>3. /\ \A i \in 1 .. Len(M.post) : Beside(M, O).post[i] = M.post[i]
          /\ \A i \in 1 .. Len(O.post) :
               Beside(M, O).post[Len(M.post) + i] = Shifted(O.post[i], M.pre)
      BY <3>1, BesidePieces
    <3>4. QED
      BY <2>1, <3>2, <3>3
  <2>4. /\ M.pre \in Nat /\ Len(M.post) \in Nat /\ O.pre \in Nat /\ Len(O.post) \in Nat
    BY <2>1, ChangeSetSizes
  <2>5. ASSUME None(r)
        PROVE  Fine(r)
    <3>1. None(p)
      <4>1. ASSUME NEW i \in 1 .. Len(M.post)
            PROVE  M.post[i] \notin Char
        <5>1. i \in 1 .. Len(Meaning(r).post)
          <6>1. i \in 1 .. Len(M.post) + Len(O.post)
            <7>1. \A k, m \in Nat : \A j \in 1 .. k : j \in 1 .. k + m
              OBVIOUS
            <7>2. QED
              BY <2>4, <7>1, Zenon
          <6>2. QED
            BY <2>3, <6>1, Zenon
        <5>2. QED
          BY <2>3, <2>5, <5>1, Zenon
      <4>2. QED
        BY <4>1 DEF M
    <3>2. Fine(p)
      BY <1>2, <3>1
    <3>3. Len(M.post) <= M.pre
          /\ (Len(M.post) = M.pre => \A i \in 1 .. Len(p) : p[i].kind = "retain")
          /\ \A i \in 1 .. Len(p) : p[i].kind # "insert"
      BY <3>2 DEF M
    <3>4. op.kind # "insert"
      <4>1. SUFFICES ASSUME op.kind = "insert" PROVE FALSE
        OBVIOUS
      <4>2. op = Insert(op.text) /\ op.text \in Text /\ Len(op.text) # 0
        BY <2>1, <4>1, OperationKinds
      <4>3. /\ Len(O.post) = Len(op.text) /\ Len(O.post) \in Nat
            /\ \A i \in 1 .. Len(op.text) : O.post[i] = op.text[i] /\ op.text[i] \in Char
        BY <2>4, <4>2, OfInsert DEF O
      <4>4. 1 \in 1 .. Len(O.post)
        BY <4>2, <4>3
      <4>5. Meaning(r).post[Len(M.post) + 1] \in Char
        BY <2>3, <4>3, <4>4, Zenon DEF Shifted
      <4>6. Len(M.post) + 1 \in 1 .. Len(Meaning(r).post)
        <5>1. Len(M.post) + 1 \in 1 .. Len(M.post) + Len(O.post)
          <6>1. \A k, m \in Nat : \A j \in 1 .. m : k + 1 \in 1 .. k + m
            OBVIOUS
          <6>2. QED
            BY <2>4, <4>4, <6>1, Zenon
        <5>2. QED
          BY <2>3, <5>1, Zenon
      <4>7. QED
        BY <2>5, <4>5, <4>6
    <3>5. \/ op.kind = "retain" /\ Len(O.post) = O.pre
          \/ op.kind = "delete" /\ Len(O.post) = 0 /\ O.pre # 0
      <4>1. CASE op.kind = "retain"
        BY <2>1, <4>1, OperationKinds, OfRetain DEF O
      <4>2. CASE op.kind = "delete"
        BY <2>1, <4>2, OperationKinds, OfDelete DEF O
      <4>3. QED
        BY <2>1, <3>4, <4>1, <4>2, OperationKinds
    <3>6. Len(Meaning(r).post) <= Meaning(r).pre
          /\ (Len(Meaning(r).post) = Meaning(r).pre => op.kind = "retain" /\ Len(M.post) = M.pre)
      <4>1. \A k, m, n, o \in Nat :
              /\ k <= m /\ n = o => k + n <= m + o /\ (k + n = m + o => k = m)
              /\ k <= m /\ n = 0 /\ o # 0 => k + n <= m + o /\ k + n # m + o
        OBVIOUS
      <4>2. \/ op.kind = "retain" /\ Len(M.post) + Len(O.post) <= M.pre + O.pre
               /\ (Len(M.post) + Len(O.post) = M.pre + O.pre => Len(M.post) = M.pre)
            \/ Len(M.post) + Len(O.post) <= M.pre + O.pre
               /\ Len(M.post) + Len(O.post) # M.pre + O.pre
        BY <2>4, <3>3, <3>5, <4>1, Zenon
      <4>3. QED
        BY <2>3, <4>2, Zenon
    <3>7. ASSUME NEW i \in 1 .. Len(r)
          PROVE  r[i].kind # "insert"
      BY <2>2, <3>3, <3>4
    <3>8. ASSUME Len(Meaning(r).post) = Meaning(r).pre, NEW i \in 1 .. Len(r)
          PROVE  r[i].kind = "retain"
      BY <2>2, <3>3, <3>6, <3>8
    <3>9. QED
      BY <3>6, <3>7, <3>8
  <2> HIDE DEF Fine, None
  <2>6. QED
    BY <2>1, <2>5 DEF r
<1>3. \A p \in Seq(Operation) : p \in Good
  <2> HIDE DEF Good
  <2>1. QED
    BY <1>1, <1>2, OverSequences
<1>4. Fine(ops)
  <2>1. None(ops)
    OBVIOUS
  <2> HIDE DEF Fine, None
  <2>2. QED
    BY <1>3, <2>1
<1>5. QED
  BY <1>4

LEMMA RetainIsIdentity ==
  ASSUME NEW n \in Nat
  PROVE  IsEmpty(Of(Count("retain", n)))
<1> DEFINE x == Of(Count("retain", n))
<1>1. /\ IsChangeSet(x) /\ x.pre = n /\ Len(x.post) = n
      /\ \A i \in 1 .. n : x.post[i] = i
  BY OfRetain
<1> HIDE DEF x
<1>2. x = [pre |-> x.pre, post |-> x.post] /\ x.post = [i \in 1 .. Len(x.post) |-> x.post[i]]
  BY <1>1, ChangeSetParts
<1>3. x.post = [i \in 1 .. n |-> i]
  BY <1>1, <1>2
<1>4. QED
  BY <1>1, <1>2, <1>3 DEF IsEmpty, Identity, x

\* IsEmpty looks at one operation only, which is enough for a tidy list.
LEMMA EmptyListMeans ==
  ASSUME NEW l, IsList(l), Tidy(l.ops)
  PROVE  IsEmptyList(l) <=> IsEmpty(Meaning(l.ops))
<1> DEFINE ops == l.ops
           c == Meaning(ops)
<1>1. ops \in Seq(Operation) /\ l.pre = c.pre /\ IsChangeSet(c)
  BY MeaningIsChangeSet DEF IsList
<1>2. c.pre \in Nat
  BY <1>1, ChangeSetSizes
<1>3. CASE ops = << >>
  <2>1. c = Nothing
    BY <1>3, MeaningNone
  <2>2. Nothing = Identity(0)
    BY DEF Nothing, Identity
  <2>3. IsEmpty(Nothing)
    BY <2>2 DEF IsEmpty, Nothing
  <2>4. QED
    BY <1>3, <2>1, <2>3 DEF IsEmptyList
<1>4. CASE ops # << >>
  <2>1. ASSUME ops = <<Count("retain", l.pre)>>
        PROVE  IsEmpty(c)
    <3>1. Head(ops) \in Operation /\ Head(ops) = Count("retain", l.pre)
      BY <1>1, <1>4, <2>1, FrontApart
    <3>2. c = Of(Count("retain", l.pre))
      BY <2>1, <3>1, MeaningOne
    <3>3. QED
      BY <1>1, <1>2, <3>2, RetainIsIdentity
  <2>2. ASSUME IsEmpty(c)
        PROVE  ops = <<Count("retain", l.pre)>>
    <3> HIDE DEF c
    <3>0. c = [pre |-> c.pre, post |-> [i \in 1 .. c.pre |-> i]]
      BY <2>2 DEF IsEmpty, Identity
    <3>1. c.post = [i \in 1 .. c.pre |-> i]
      <4>1. \A f, n : [pre |-> n, post |-> f].post = f
        OBVIOUS
      <4>2. QED
        BY <3>0, <4>1, Zenon
    <3>2. Len(c.post) = c.pre /\ \A i \in 1 .. c.pre : c.post[i] = i
      BY <1>2, <3>1
    <3>3. \A i \in 1 .. Len(c.post) : c.post[i] \notin Char
      BY <1>2, <3>2, NumbersAreNotChars
    <3>4. \A i \in 1 .. Len(ops) : ops[i].kind = "retain"
      BY <1>1, <3>2, <3>3, WithoutInserts DEF c
    <3>5. Len(ops) \in Nat \ {0} /\ Head(ops) = ops[1] /\ Head(ops) \in Operation
      BY <1>1, <1>4, FrontApart
    <3>6. Len(ops) = 1
      <4>1. SUFFICES ASSUME Len(ops) # 1 PROVE FALSE
        OBVIOUS
      <4>2. 1 \in 1 .. Len(ops) - 1 /\ 1 \in 1 .. Len(ops) /\ 1 + 1 \in 1 .. Len(ops)
        <5>1. \A n \in Nat \ {0} :
                n # 1 => 1 \in 1 .. n - 1 /\ 1 \in 1 .. n /\ 1 + 1 \in 1 .. n
          OBVIOUS
        <5>2. QED
          BY <3>5, <4>1, <5>1, Zenon
      <4>3. ops[1].kind # ops[1 + 1].kind
        BY <4>2 DEF Tidy, Follows
      <4>4. QED
        BY <3>4, <4>2, <4>3
    <3>7. ops = <<Head(ops)>>
      BY <1>1, <3>5, <3>6
    <3>8. Head(ops).kind = "retain"
      BY <3>4, <3>5
    <3>9. Head(ops) = Count("retain", Head(ops).n) /\ Head(ops).n \in Nat
      BY <3>5, <3>8, OperationKinds DEF Operation
    <3>10. c = Of(Head(ops))
      BY <3>5, <3>7, MeaningOne, Zenon DEF c
    <3>11. c.pre = Head(ops).n
      BY <3>9, <3>10, OfRetain
    <3>12. QED
      BY <1>1, <3>7, <3>9, <3>11
  <2>3. QED
    BY <1>4, <2>1, <2>2 DEF IsEmptyList
<1>5. QED
  BY <1>3, <1>4

(***************************************************************************)
(* A list turned into changes and back.                                    *)
(***************************************************************************)

AnyChange == [from : Nat, to : Nat, text : Text]

ToStep(l, x, i) == ChangeOf(l, x, i)

ToFolds == INSTANCE FoldTheorems WITH Op <- ToStep

Told(l, k) == ToFolds!Fold(l, [changes |-> << >>, at |-> 0], [i \in 1 .. k |-> i])

LEMMA ToChangesIsTold ==
  ASSUME NEW l, l.ops \in Seq(Operation)
  PROVE  ToChanges(l) = Told(l, Len(l.ops)).changes
<1>1. DOMAIN l.ops = 1 .. Len(l.ops)
  OBVIOUS
<1>2. ToChanges(l) = ToFolds!Fold(l, [changes |-> << >>, at |-> 0],
                                  [i \in DOMAIN l.ops |-> i]).changes
  BY DEF ToChanges, ToStep, FoldLeftDomain, ToFolds!Fold, ToFolds!FoldLeft,
         ToFolds!MapThenFoldSet, ToFolds!Max, FoldLeft, MapThenFoldSet, Max
<1>3. QED
  BY <1>1, <1>2 DEF Told

LEMMA ToldNone ==
  ASSUME NEW l
  PROVE  Told(l, 0) = [changes |-> << >>, at |-> 0]
<1>1. [i \in 1 .. 0 |-> i] = << >>
  OBVIOUS
<1>2. QED
  BY <1>1, ToFolds!FoldNone DEF Told

LEMMA ToldNext ==
  ASSUME NEW l, NEW k \in Nat
  PROVE  Told(l, k + 1) = ChangeOf(l, Told(l, k), k + 1)
<1> DEFINE s == [i \in 1 .. k |-> i]
<1>1. s \in Seq(Nat) /\ k + 1 \in Nat /\ Len(s) = k
  OBVIOUS
<1>2. [i \in 1 .. k + 1 |-> i] = Append(s, k + 1)
  <2>1. /\ [i \in 1 .. k + 1 |-> i] \in Seq(Nat) /\ Len([i \in 1 .. k + 1 |-> i]) = k + 1
        /\ Append(s, k + 1) \in Seq(Nat) /\ Len(Append(s, k + 1)) = k + 1
    BY <1>1
  <2>2. \A j \in 1 .. k + 1 : [i \in 1 .. k + 1 |-> i][j] = Append(s, k + 1)[j]
    BY <1>1
  <2>3. QED
    BY <2>1, <2>2
<1> HIDE DEF s
<1>3. ToFolds!Fold(l, [changes |-> << >>, at |-> 0], Append(s, k + 1))
        = ToStep(l, ToFolds!Fold(l, [changes |-> << >>, at |-> 0], s), k + 1)
  BY <1>1, ToFolds!FoldAppend
<1>4. QED
  BY <1>2, <1>3, Zenon DEF Told, ToStep, s

LEMMA SameList ==
  ASSUME NEW x, IsList(x), NEW y, IsList(y), x.ops = y.ops
  PROVE  x = y
BY DEF IsList

\* The list of the first k operations.
Prefix(l, k) ==
  LET ops == SubSeq(l.ops, 1, k)
  IN  [ops |-> ops, pre |-> Meaning(ops).pre, after |-> Len(Meaning(ops).post)]

LEMMA PrefixIsList ==
  ASSUME NEW l, IsList(l), NEW k \in 0 .. Len(l.ops)
  PROVE  /\ IsList(Prefix(l, k)) /\ Prefix(l, k).ops = SubSeq(l.ops, 1, k)
         /\ Len(Prefix(l, k).ops) = k
         /\ KindAt(Prefix(l, k).ops, k) = KindAt(l.ops, k)
         /\ KindAt(Prefix(l, k).ops, Len(Prefix(l, k).ops)) = KindAt(l.ops, k)
         /\ Prefix(l, k).pre \in Nat
<1> DEFINE p == SubSeq(l.ops, 1, k)
<1>1. l.ops \in Seq(Operation) /\ Len(l.ops) \in Nat
  BY DEF IsList
<1>2. p \in Seq(Operation) /\ Len(p) = k /\ \A i \in 1 .. k : p[i] = l.ops[i]
  BY <1>1
<1> HIDE DEF p
<1>3. Prefix(l, k) = [ops |-> p, pre |-> Meaning(p).pre, after |-> Len(Meaning(p).post)]
  BY DEF Prefix, p
<1>4. Prefix(l, k).ops = p /\ IsList(Prefix(l, k))
  BY <1>2, <1>3 DEF IsList
<1>5. KindAt(p, k) = KindAt(l.ops, k)
  <2>1. CASE k = 0
    BY <1>1, <1>2, <2>1 DEF KindAt
  <2>2. CASE k # 0
    <3>1. k \in 1 .. Len(l.ops) /\ k \in 1 .. Len(p) /\ p[k] = l.ops[k]
      BY <1>1, <1>2, <2>2
    <3>2. QED
      BY <3>1 DEF KindAt
  <2>3. QED
    BY <2>1, <2>2
<1>6. Meaning(p).pre \in Nat
  BY <1>2, MeaningIsChangeSet, ChangeSetSizes
<1>7. QED
  BY <1>2, <1>3, <1>4, <1>5, <1>6 DEF p

LEMMA PrefixEnds ==
  ASSUME NEW l, IsList(l)
  PROVE  Prefix(l, 0) = NoList /\ Prefix(l, Len(l.ops)) = l
<1>1. l.ops \in Seq(Operation) /\ Len(l.ops) \in Nat
  BY DEF IsList
<1>2. SubSeq(l.ops, 1, 0) = << >> /\ SubSeq(l.ops, 1, Len(l.ops)) = l.ops
  BY <1>1
<1>3. 0 \in 0 .. Len(l.ops) /\ Len(l.ops) \in 0 .. Len(l.ops)
  BY <1>1
<1>4. Prefix(l, Len(l.ops)) = l
  BY <1>2, <1>3, PrefixIsList, SameList
<1>5. NoList.ops = << >> /\ IsList(NoList)
  BY NoListIsList DEF NoList
<1>6. Prefix(l, 0) = NoList
  BY <1>2, <1>3, <1>5, PrefixIsList, SameList
<1>7. QED
  BY <1>4, <1>6

LEMMA PrefixMore ==
  ASSUME NEW l, IsList(l), NEW k \in 0 .. Len(l.ops) - 1,
         NEW r, IsList(r), r.ops = Append(Prefix(l, k).ops, l.ops[k + 1])
  PROVE  r = Prefix(l, k + 1)
<1>1. l.ops \in Seq(Operation) /\ Len(l.ops) \in Nat /\ k + 1 \in 0 .. Len(l.ops)
      /\ k \in 0 .. Len(l.ops)
  BY DEF IsList
<1>2. SubSeq(l.ops, 1, k + 1) = Append(SubSeq(l.ops, 1, k), l.ops[k + 1])
  BY <1>1
<1>3. r.ops = Prefix(l, k + 1).ops /\ IsList(Prefix(l, k + 1))
  BY <1>1, <1>2, PrefixIsList, Zenon
<1>4. QED
  BY <1>3, SameList

LEMMA PrefixCount ==
  ASSUME NEW l, IsList(l), NEW k \in 0 .. Len(l.ops) - 1,
         NEW kind \in {"retain", "delete"}, NEW n \in Nat \ {0},
         l.ops[k + 1] = Count(kind, n), KindAt(l.ops, k) # kind
  PROVE  /\ AppendCount(Prefix(l, k), kind, n) = Prefix(l, k + 1)
         /\ Prefix(l, k + 1).pre = Prefix(l, k).pre + n
<1> DEFINE p == Prefix(l, k)
           r == AppendCount(p, kind, n)
<1>1. /\ IsList(p) /\ Len(p.ops) = k
      /\ KindAt(p.ops, Len(p.ops)) = KindAt(l.ops, k)
  <2>1. k \in 0 .. Len(l.ops) /\ Len(l.ops) \in Nat
    BY DEF IsList
  <2>2. QED
    BY <2>1, PrefixIsList
<1> HIDE DEF p
<1>2. IsList(r) /\ r.pre = p.pre + n
  BY <1>1, AppendCountMeans, Zenon
<1>3. r.ops = Append(p.ops, l.ops[k + 1])
  BY <1>1 DEF AppendCount
<1> HIDE DEF r
<1>4. r = Prefix(l, k + 1)
  BY <1>2, <1>3, PrefixMore DEF p
<1>5. QED
  BY <1>2, <1>4 DEF r, p

LEMMA PrefixInsert ==
  ASSUME NEW l, IsList(l), NEW k \in 0 .. Len(l.ops) - 1,
         NEW s \in Text, s # << >>,
         l.ops[k + 1] = Insert(s), KindAt(l.ops, k) \notin {"insert", "delete"}
  PROVE  /\ AppendInsert(Prefix(l, k), s) = Prefix(l, k + 1)
         /\ Prefix(l, k + 1).pre = Prefix(l, k).pre
<1> DEFINE p == Prefix(l, k)
           r == AppendInsert(p, s)
<1>1. /\ IsList(p) /\ Len(p.ops) = k
      /\ KindAt(p.ops, Len(p.ops)) = KindAt(l.ops, k)
  <2>1. k \in 0 .. Len(l.ops) /\ Len(l.ops) \in Nat
    BY DEF IsList
  <2>2. QED
    BY <2>1, PrefixIsList
<1> HIDE DEF p
<1>2. IsList(r) /\ r.pre = p.pre
  BY <1>1, AppendInsertMeans
<1>3. r.ops = Append(p.ops, l.ops[k + 1])
  <2>1. KindAt(p.ops, Len(p.ops)) # "insert" /\ KindAt(p.ops, Len(p.ops)) # "delete"
    BY <1>1
  <2>2. p = [ops |-> p.ops, pre |-> p.pre, after |-> p.after]
    BY <1>1 DEF IsList
  <2>3. r = [ops |-> Append(p.ops, Insert(s)), pre |-> p.pre, after |-> p.after + Len(s)]
    BY <2>1, <2>2, Zenon DEF AppendInsert
  <2>4. QED
    BY <2>3
<1> HIDE DEF r
<1>4. r = Prefix(l, k + 1)
  BY <1>2, <1>3, PrefixMore DEF p
<1>5. QED
  BY <1>2, <1>4 DEF r, p

\* How many operations the changes stand for that the first k have become.
Covered(ops, k) ==
  IF KindAt(ops, k) = "insert" /\ KindAt(ops, k + 1) = "delete" THEN k + 1 ELSE k

\* The changes made of the first k operations bring them back.
BringsBack(l, k) ==
  LET x  == Told(l, k)
      to == Prefix(l, Covered(l.ops, k))
  IN  /\ x = [changes |-> x.changes, at |-> x.at]
      /\ x.changes \in Seq(AnyChange) /\ x.at = to.pre
      /\ Added(x.changes).last \in 0 .. x.at
      /\ AppendCount(Added(x.changes).list, "retain", x.at - Added(x.changes).last) = to
      /\ KindAt(l.ops, Covered(l.ops, k)) # "retain" => Added(x.changes).last = x.at

LEMMA KindsOfTidy ==
  ASSUME NEW ops \in Seq(Operation), Tidy(ops), NEW k \in 0 .. Len(ops) - 1
  PROVE  /\ KindAt(ops, k + 1) = ops[k + 1].kind /\ ops[k + 1] \in Operation
         /\ KindAt(ops, k) # ops[k + 1].kind
         /\ ops[k + 1].kind = "insert" => KindAt(ops, k) # "delete"
<1>1. Len(ops) \in Nat
  OBVIOUS
<1>2. k + 1 \in 1 .. Len(ops)
  BY <1>1
<1>3. KindAt(ops, k + 1) = ops[k + 1].kind /\ ops[k + 1] \in Operation
  BY <1>2 DEF KindAt
<1>4. CASE k = 0
  <2>1. KindAt(ops, k) = "none"
    BY <1>4 DEF KindAt
  <2>2. ops[k + 1].kind # "none"
    BY <1>3, OperationKinds DEF Operation
  <2>3. QED
    BY <1>3, <2>1, <2>2
<1>5. CASE k # 0
  <2>1. k \in 1 .. Len(ops) - 1 /\ k \in 1 .. Len(ops)
    BY <1>1, <1>5
  <2>2. KindAt(ops, k) = ops[k].kind
    BY <2>1 DEF KindAt
  <2>3. Follows(ops[k].kind, ops[k + 1].kind)
    BY <2>1 DEF Tidy
  <2>4. QED
    BY <1>3, <2>2, <2>3 DEF Follows
<1>6. QED
  BY <1>4, <1>5

LEMMA BringsBackRetain ==
  ASSUME NEW l, IsList(l), Tidy(l.ops), NEW k \in 0 .. Len(l.ops) - 1,
         BringsBack(l, k), l.ops[k + 1].kind = "retain"
  PROVE  BringsBack(l, k + 1)
<1> DEFINE op == l.ops[k + 1]
           x == Told(l, k)
           y == Told(l, k + 1)
           A == Added(x.changes)
<1>1. /\ l.ops \in Seq(Operation) /\ k \in Nat /\ Len(l.ops) \in Nat /\ k \in 0 .. Len(l.ops)
  BY DEF IsList
<1>2. /\ KindAt(l.ops, k + 1) = "retain" /\ op \in Operation /\ KindAt(l.ops, k) # "retain"
  BY <1>1, KindsOfTidy
<1>3. op = Count("retain", op.n) /\ op.n \in Nat \ {0}
  BY <1>2, OperationKinds DEF Operation
<1>4. Covered(l.ops, k) = k /\ Covered(l.ops, k + 1) = k + 1
  BY <1>2 DEF Covered
<1>5. /\ x = [changes |-> x.changes, at |-> x.at]
      /\ x.changes \in Seq(AnyChange) /\ x.at = Prefix(l, k).pre
      /\ A.last \in 0 .. x.at
      /\ AppendCount(A.list, "retain", x.at - A.last) = Prefix(l, k)
      /\ A.last = x.at
  BY <1>2, <1>4 DEF BringsBack
<1>6. /\ AppendCount(Prefix(l, k), "retain", op.n) = Prefix(l, k + 1)
      /\ Prefix(l, k + 1).pre = Prefix(l, k).pre + op.n
  BY <1>2, <1>3, PrefixCount
<1>7. x.at \in Nat
  BY <1>1, <1>5, PrefixIsList
<1>8. y = ChangeOf(l, x, k + 1)
  BY <1>1, ToldNext
<1>9. y = [changes |-> x.changes, at |-> x.at + op.n]
  <2> HIDE DEF x
  <2>1. ChangeOf(l, x, k + 1) = [x EXCEPT !.at = @ + op.n]
    BY DEF ChangeOf
  <2>2. QED
    BY <1>5, <1>8, <2>1
<1> HIDE DEF x, y, op
<1>10. A.list = Prefix(l, k)
  <2>1. x.at - A.last = 0
    BY <1>5, <1>7
  <2>2. QED
    BY <1>5, <2>1 DEF AppendCount
<1>11. y.at - A.last = op.n /\ A.last \in 0 .. y.at
  BY <1>3, <1>5, <1>7, <1>9
<1>12. AppendCount(A.list, "retain", y.at - A.last) = Prefix(l, k + 1)
  BY <1>6, <1>10, <1>11
<1>13. y.at = Prefix(l, k + 1).pre /\ y.changes = x.changes
       /\ y = [changes |-> y.changes, at |-> y.at]
  BY <1>5, <1>6, <1>9
<1>14. QED
  BY <1>2, <1>4, <1>5, <1>11, <1>12, <1>13 DEF BringsBack, y

\* The list made of changes, with one more change.
Grows(l, k, x, n, s) ==
  LET changes == Append(x.changes, [from |-> x.at, to |-> x.at + n, text |-> s])
  IN  /\ changes \in Seq(AnyChange)
      /\ Added(changes).last = x.at + n
      /\ Added(changes).list
           = AppendCount(AppendInsert(Prefix(l, k), s), "delete", n)

LEMMA OneMoreChange ==
  ASSUME NEW l, IsList(l), NEW k \in 0 .. Len(l.ops), NEW x,
         x.changes \in Seq(AnyChange), x.at \in Nat,
         Added(x.changes).last \in 0 .. x.at,
         AppendCount(Added(x.changes).list, "retain", x.at - Added(x.changes).last)
           = Prefix(l, k),
         NEW n \in Nat, NEW s \in Text
  PROVE  Grows(l, k, x, n, s)
<1> DEFINE c == [from |-> x.at, to |-> x.at + n, text |-> s]
           A == Added(x.changes)
<1>1. c \in AnyChange /\ c.from = x.at /\ c.to = x.at + n /\ c.text = s
  BY DEF AnyChange
<1>2. c.to - c.from = n
  BY <1>1
<1>3. Added(Append(x.changes, c)) = AddChange(A, c)
  BY <1>1, AddedAppend
<1>4. Append(x.changes, c) \in Seq(AnyChange)
  BY <1>1
<1> HIDE DEF c
<1>5. AddChange(A, c)
        = [list |-> AppendCount(AppendInsert(AppendCount(A.list, "retain", c.from - A.last),
                                             c.text), "delete", c.to - c.from),
           last |-> c.to]
  BY DEF AddChange
<1>6. AddChange(A, c)
        = [list |-> AppendCount(AppendInsert(Prefix(l, k), s), "delete", n),
           last |-> x.at + n]
  BY <1>1, <1>2, <1>5
<1>7. QED
  BY <1>3, <1>4, <1>6 DEF Grows, c

LEMMA BringsBackInsert ==
  ASSUME NEW l, IsList(l), Tidy(l.ops), NEW k \in 0 .. Len(l.ops) - 1,
         BringsBack(l, k), l.ops[k + 1].kind = "insert"
  PROVE  BringsBack(l, k + 1)
<1> DEFINE op == l.ops[k + 1]
           x == Told(l, k)
           y == Told(l, k + 1)
           with == IF KindAt(l.ops, k + 2) = "delete" THEN l.ops[k + 2].n ELSE 0
           c == [from |-> x.at, to |-> x.at + with, text |-> op.text]
           to == Covered(l.ops, k + 1)
<1>1. /\ l.ops \in Seq(Operation) /\ k \in Nat /\ Len(l.ops) \in Nat /\ k \in 0 .. Len(l.ops)
  BY DEF IsList
<1>2. /\ KindAt(l.ops, k + 1) = "insert" /\ op \in Operation
      /\ KindAt(l.ops, k) \notin {"insert", "delete"}
  BY <1>1, KindsOfTidy
<1>3. op = Insert(op.text) /\ op.text \in Text /\ op.text # << >>
  <2>1. op \in AnyOperation /\ SizeOf(op) # 0
    BY <1>2 DEF Operation
  <2>2. op = Insert(op.text) /\ op.text \in Text /\ Len(op.text) # 0
    BY <2>1, OperationKinds
  <2>3. QED
    BY <2>2, NoText
<1>4. Covered(l.ops, k) = k
  BY <1>2 DEF Covered
<1>5. /\ x = [changes |-> x.changes, at |-> x.at]
      /\ x.changes \in Seq(AnyChange) /\ x.at = Prefix(l, k).pre
      /\ Added(x.changes).last \in 0 .. x.at
      /\ AppendCount(Added(x.changes).list, "retain", x.at - Added(x.changes).last)
           = Prefix(l, k)
  BY <1>4 DEF BringsBack
<1>6. x.at \in Nat
  BY <1>1, <1>5, PrefixIsList
<1>7. /\ AppendInsert(Prefix(l, k), op.text) = Prefix(l, k + 1)
      /\ Prefix(l, k + 1).pre = x.at
  BY <1>2, <1>3, <1>5, PrefixInsert
<1>8. k + 1 + 1 = k + 2
  OBVIOUS
<1>9. /\ with \in Nat
      /\ AppendCount(Prefix(l, k + 1), "delete", with) = Prefix(l, to)
      /\ Prefix(l, to).pre = x.at + with
      /\ KindAt(l.ops, k + 2) = "delete" => to = k + 2
      /\ KindAt(l.ops, k + 2) # "delete" => to = k + 1
  <2>1. CASE KindAt(l.ops, k + 2) = "delete"
    <3>1. k + 2 \in 1 .. Len(l.ops) /\ with = l.ops[k + 2].n /\ l.ops[k + 2].kind = "delete"
      BY <2>1 DEF KindAt
    <3>2. k + 1 \in 0 .. Len(l.ops) - 1 /\ l.ops[k + 2] \in Operation
      BY <1>1, <3>1
    <3>3. with \in Nat \ {0} /\ l.ops[k + 2] = Count("delete", with)
      BY <3>1, <3>2, OperationKinds DEF Operation
    <3>4. to = k + 2
      BY <1>2, <1>8, <2>1 DEF Covered
    <3> HIDE DEF with, to
    <3>5. /\ AppendCount(Prefix(l, k + 1), "delete", with) = Prefix(l, k + 1 + 1)
          /\ Prefix(l, k + 1 + 1).pre = Prefix(l, k + 1).pre + with
      BY <1>2, <1>8, <3>2, <3>3, PrefixCount
    <3>6. QED
      BY <1>7, <1>8, <2>1, <3>3, <3>4, <3>5
  <2>2. CASE KindAt(l.ops, k + 2) # "delete"
    <3>1. with = 0 /\ to = k + 1
      BY <1>8, <2>2 DEF Covered
    <3> HIDE DEF with, to
    <3>2. AppendCount(Prefix(l, k + 1), "delete", with) = Prefix(l, k + 1)
      BY <3>1 DEF AppendCount
    <3>3. x.at + with = x.at
      BY <1>6, <3>1
    <3>4. QED
      BY <1>7, <2>2, <3>1, <3>2, <3>3
  <2>3. QED
    BY <2>1, <2>2
<1>10. y = [changes |-> Append(x.changes, c), at |-> x.at + with]
  <2>1. y = ChangeOf(l, x, k + 1)
    BY <1>1, ToldNext
  <2> HIDE DEF x
  <2>2. ChangeOf(l, x, k + 1) = [changes |-> Append(x.changes, c), at |-> x.at + with]
    BY <1>8, Zenon DEF ChangeOf
  <2>3. QED
    BY <2>1, <2>2
<1> HIDE DEF x, y, op, with, to
<1>11. /\ Append(x.changes, c) \in Seq(AnyChange)
       /\ Added(Append(x.changes, c)).last = x.at + with
       /\ Added(Append(x.changes, c)).list
            = AppendCount(AppendInsert(Prefix(l, k), op.text), "delete", with)
  <2>1. Grows(l, k, x, with, op.text)
    BY <1>1, <1>3, <1>5, <1>6, <1>9, OneMoreChange, Zenon
  <2>2. QED
    BY <2>1 DEF Grows
<1> HIDE DEF c
<1>12. /\ y = [changes |-> y.changes, at |-> y.at] /\ y.changes = Append(x.changes, c)
       /\ y.at = x.at + with /\ y.changes \in Seq(AnyChange)
       /\ Added(y.changes).last = y.at /\ Added(y.changes).list = Prefix(l, to)
       /\ y.at = Prefix(l, to).pre
  BY <1>7, <1>9, <1>10, <1>11
<1>13. y.at \in Nat
  BY <1>6, <1>9, <1>12
<1>14. y.at - Added(y.changes).last = 0 /\ Added(y.changes).last \in 0 .. y.at
  BY <1>12, <1>13
<1>15. AppendCount(Added(y.changes).list, "retain", y.at - Added(y.changes).last)
         = Prefix(l, to)
  BY <1>12, <1>14 DEF AppendCount
<1>16. QED
  BY <1>12, <1>14, <1>15 DEF BringsBack, y, to

LEMMA BringsBackDelete ==
  ASSUME NEW l, IsList(l), Tidy(l.ops), NEW k \in 0 .. Len(l.ops) - 1,
         BringsBack(l, k), l.ops[k + 1].kind = "delete"
  PROVE  BringsBack(l, k + 1)
<1> DEFINE op == l.ops[k + 1]
           x == Told(l, k)
           y == Told(l, k + 1)
           c == [from |-> x.at, to |-> x.at + op.n, text |-> << >>]
<1>1. /\ l.ops \in Seq(Operation) /\ k \in Nat /\ Len(l.ops) \in Nat /\ k \in 0 .. Len(l.ops)
  BY DEF IsList
<1>2. KindAt(l.ops, k + 1) = "delete" /\ op \in Operation /\ KindAt(l.ops, k) # "delete"
  BY <1>1, KindsOfTidy
<1>3. op = Count("delete", op.n) /\ op.n \in Nat \ {0}
  BY <1>2, OperationKinds DEF Operation
<1>4. Covered(l.ops, k + 1) = k + 1
  BY <1>2 DEF Covered
<1>5. y = ChangeOf(l, x, k + 1) /\ k + 1 - 1 = k
  BY <1>1, ToldNext
<1>6. CASE KindAt(l.ops, k) = "insert"
  <2>1. Covered(l.ops, k) = k + 1
    BY <1>2, <1>6 DEF Covered
  <2>2. y = x
    <3> HIDE DEF x, y
    <3>1. ChangeOf(l, x, k + 1) = x
      BY <1>5, <1>6 DEF ChangeOf
    <3>2. QED
      BY <1>5, <3>1
  <2>3. QED
    BY <1>4, <2>1, <2>2 DEF BringsBack
<1>7. CASE KindAt(l.ops, k) # "insert"
  <2>1. Covered(l.ops, k) = k
    BY <1>7 DEF Covered
  <2>2. /\ x = [changes |-> x.changes, at |-> x.at]
        /\ x.changes \in Seq(AnyChange) /\ x.at = Prefix(l, k).pre
        /\ Added(x.changes).last \in 0 .. x.at
        /\ AppendCount(Added(x.changes).list, "retain", x.at - Added(x.changes).last)
             = Prefix(l, k)
    BY <2>1 DEF BringsBack
  <2>3. x.at \in Nat
    BY <1>1, <2>2, PrefixIsList
  <2>4. /\ AppendCount(Prefix(l, k), "delete", op.n) = Prefix(l, k + 1)
        /\ Prefix(l, k + 1).pre = x.at + op.n
    BY <1>2, <1>3, <2>2, PrefixCount
  <2>5. AppendInsert(Prefix(l, k), << >>) = Prefix(l, k)
    BY DEF AppendInsert
  <2>6. y = [changes |-> Append(x.changes, c), at |-> x.at + op.n]
    <3> HIDE DEF x, y
    <3>1. ChangeOf(l, x, k + 1) = [changes |-> Append(x.changes, c), at |-> x.at + op.n]
      BY <1>5, <1>7 DEF ChangeOf
    <3>2. QED
      BY <1>5, <3>1
  <2> HIDE DEF x, y, op
  <2>7. /\ Append(x.changes, c) \in Seq(AnyChange)
        /\ Added(Append(x.changes, c)).last = x.at + op.n
        /\ Added(Append(x.changes, c)).list
             = AppendCount(AppendInsert(Prefix(l, k), << >>), "delete", op.n)
    <3>1. << >> \in Text
      BY NoText
    <3>2. Grows(l, k, x, op.n, << >>)
      BY <1>1, <1>3, <2>2, <2>3, <3>1, OneMoreChange, Zenon
    <3>3. QED
      BY <3>2 DEF Grows
  <2> HIDE DEF c
  <2>8. /\ y = [changes |-> y.changes, at |-> y.at] /\ y.changes = Append(x.changes, c)
        /\ y.at = x.at + op.n /\ y.changes \in Seq(AnyChange)
        /\ Added(y.changes).last = y.at /\ Added(y.changes).list = Prefix(l, k + 1)
        /\ y.at = Prefix(l, k + 1).pre
    BY <2>4, <2>5, <2>6, <2>7
  <2>9. y.at \in Nat
    BY <1>3, <2>3, <2>8
  <2>10. y.at - Added(y.changes).last = 0 /\ Added(y.changes).last \in 0 .. y.at
    BY <2>8, <2>9
  <2>11. AppendCount(Added(y.changes).list, "retain", y.at - Added(y.changes).last)
           = Prefix(l, k + 1)
    BY <2>8, <2>10 DEF AppendCount
  <2>12. QED
    BY <1>4, <2>8, <2>10, <2>11 DEF BringsBack, y
<1>8. QED
  BY <1>6, <1>7

LEMMA AllBringBack ==
  ASSUME NEW l, IsList(l), Tidy(l.ops)
  PROVE  \A k \in 0 .. Len(l.ops) : BringsBack(l, k)
<1> DEFINE T == {k \in 0 .. Len(l.ops) : BringsBack(l, k)}
<1>1. l.ops \in Seq(Operation) /\ Len(l.ops) \in Nat
  BY DEF IsList
<1>2. 0 \in T
  <2>1. KindAt(l.ops, 0) = "none" /\ Covered(l.ops, 0) = 0
    BY DEF KindAt, Covered
  <2>2. Told(l, 0).changes = << >> /\ Told(l, 0).at = 0
        /\ Told(l, 0) = [changes |-> Told(l, 0).changes, at |-> Told(l, 0).at]
    BY ToldNone
  <2>3. Added(<< >>).list = NoList /\ Added(<< >>).last = 0
    BY AddedNone
  <2>4. Prefix(l, 0) = NoList /\ NoList.pre = 0
    BY PrefixEnds DEF NoList
  <2>5. AppendCount(NoList, "retain", 0) = NoList /\ 0 - 0 = 0 /\ 0 \in 0 .. 0
        /\ << >> \in Seq(AnyChange)
    BY DEF AppendCount
  <2>6. BringsBack(l, 0)
    BY <2>1, <2>2, <2>3, <2>4, <2>5, Zenon DEF BringsBack
  <2>7. QED
    BY <1>1, <2>6
<1>3. ASSUME NEW k \in 0 .. Len(l.ops), k < Len(l.ops), k \in T
      PROVE  k + 1 \in T
  <2>1. k \in 0 .. Len(l.ops) - 1 /\ k + 1 \in 0 .. Len(l.ops) /\ k + 1 \in 1 .. Len(l.ops)
    BY <1>1, <1>3
  <2>2. l.ops[k + 1].kind \in {"retain", "delete", "insert"}
    <3>1. l.ops[k + 1] \in Operation
      BY <1>1, <2>1
    <3>2. QED
      BY <3>1, OperationKinds DEF Operation
  <2>3. BringsBack(l, k)
    BY <1>3
  <2>4. BringsBack(l, k + 1)
    BY <2>1, <2>2, <2>3, BringsBackRetain, BringsBackInsert, BringsBackDelete, Zenon
  <2>5. QED
    BY <2>1, <2>4
<1>4. \A k \in 0 .. Len(l.ops) : k \in T
  <2> HIDE DEF T
  <2>1. QED
    BY <1>1, <1>2, <1>3, UpTo, Zenon
<1>5. QED
  BY <1>4

\* A tidy list survives being turned into changes.
LEMMA ChangesBringBack ==
  ASSUME NEW l, IsList(l), Tidy(l.ops)
  PROVE  FromChanges(l.pre, ToChanges(l)) = l
<1> DEFINE n == Len(l.ops)
           x == Told(l, n)
<1>1. l.ops \in Seq(Operation) /\ n \in Nat /\ n \in 0 .. n
  BY DEF IsList
<1>2. BringsBack(l, n)
  BY <1>1, AllBringBack
<1>3. Covered(l.ops, n) = n
  BY <1>1 DEF Covered, KindAt
<1>4. Prefix(l, n) = l
  BY PrefixEnds
<1>5. /\ x.at = l.pre
      /\ AppendCount(Added(x.changes).list, "retain", x.at - Added(x.changes).last) = l
  BY <1>2, <1>3, <1>4 DEF BringsBack
<1>6. ToChanges(l) = x.changes
  BY <1>1, ToChangesIsTold
<1> HIDE DEF x
<1>7. QED
  BY <1>5, <1>6, FromChangesIsAdded

(***************************************************************************)
(* What a list of operations is.                                           *)
(***************************************************************************)

LEMMA ListsAreCanonical ==
  ComposeInv => Canonical
<1> SUFFICES ASSUME ComposeInv, NEW l \in {a, b, out, InvertList(a, sample)},
                    NEW i \in 1 .. Len(l.ops) - 1
             PROVE  /\ l.ops[i].kind # l.ops[i + 1].kind
                    /\ <<l.ops[i].kind, l.ops[i + 1].kind>> # <<"delete", "insert">>
  BY DEF Canonical
<1>1. sample \in Text /\ a.ops \in Seq(Operation) /\ Len(sample) = Meaning(a.ops).pre
  BY DEF ComposeInv, IsList
<1>2. Tidy(InvertList(a, sample).ops)
  BY <1>1, InvertListMeans
<1>3. Tidy(l.ops)
  BY <1>2 DEF ComposeInv
<1>4. Follows(l.ops[i].kind, l.ops[i + 1].kind)
  BY <1>3 DEF Tidy
<1>5. QED
  BY <1>4 DEF Follows

\* Whatever is built, composed or inverted has the form in which IsEmpty and
\* Changes, which look at one operation and at its neighbour, are right.
THEOREM CanonicalHolds ==
  ComposeSpec => []Canonical
BY ListsAreCanonical, ComposeInvHolds, PTL

LEMMA ListsMean ==
  ComposeInv => ListsMeanChangeSets
<1> SUFFICES ASSUME ComposeInv
             PROVE  ListsMeanChangeSets
  OBVIOUS
<1>1. /\ sample \in Text /\ IsList(a) /\ Tidy(a.ops) /\ a.pre = Len(sample)
      /\ a.ops \in Seq(Operation) /\ Len(sample) = Meaning(a.ops).pre
  BY DEF ComposeInv, IsList
<1>2. ApplyList(a, sample) = Apply(Meaning(a.ops), sample)
  BY <1>1, ApplyListMeans
<1>3. Meaning(InvertList(a, sample).ops) = Invert(Meaning(a.ops), sample)
  BY <1>1, InvertListMeans
<1>4. ApplyList(InvertList(a, sample), ApplyList(a, sample)) = sample
  BY <1>1, InvertListUndoes
<1>5. IsEmptyList(a) <=> IsEmpty(Meaning(a.ops))
  BY <1>1, EmptyListMeans
<1>6. FromChanges(Len(sample), ToChanges(a)) = a
  BY <1>1, ChangesBringBack
<1>7. QED
  BY <1>2, <1>3, <1>4, <1>5, <1>6 DEF ListsMeanChangeSets

\* Editing in place, inverting and turning into changes are, for every list
\* that is built, what they are for the change set the list stands for.
THEOREM ListsMeanChangeSetsHolds ==
  ComposeSpec => []ListsMeanChangeSets
BY ListsMean, ComposeInvHolds, PTL

(***************************************************************************)
(* A position carried over a list.                                         *)
(***************************************************************************)

\* Of the numbers up to n that start a run, one is where the run ends.
LEMMA RunEnds ==
  ASSUME NEW n \in Nat, NEW Run, 0 \in Run,
         \A k \in 0 .. n : k \in Run => \A j \in 0 .. k : j \in Run
  PROVE  \E k \in 0 .. n : k \in Run /\ (k = n \/ k + 1 \notin Run)
<1>1. SUFFICES ASSUME \A k \in 0 .. n : k \in Run => k # n /\ k + 1 \in Run
               PROVE  FALSE
  OBVIOUS
<1>2. \A k \in 0 .. n : k < n /\ k \in Run => k + 1 \in Run
  BY <1>1
<1>3. \A k \in 0 .. n : k \in Run
  BY <1>2, UpTo
<1>4. n \in 0 .. n
  OBVIOUS
<1>5. QED
  BY <1>1, <1>3, <1>4

WordsIn(s, i, j) == \A k \in i .. j : s[k] \in Word

LEMMA PrefixOfWords ==
  ASSUME NEW s \in Text
  PROVE  \E n \in 0 .. Len(s) :
           WordsIn(s, 1, n) /\ (n = Len(s) \/ s[n + 1] \notin Word)
<1> DEFINE Run == {k \in 0 .. Len(s) : WordsIn(s, 1, k)}
<1>1. Len(s) \in Nat
  BY DEF Text
<1>2. 0 \in Run
  BY <1>1 DEF WordsIn
<1>3. \A k \in 0 .. Len(s) : k \in Run => \A j \in 0 .. k : j \in Run
  BY <1>1 DEF WordsIn
<1>4. \E k \in 0 .. Len(s) : k \in Run /\ (k = Len(s) \/ k + 1 \notin Run)
  <2> HIDE DEF Run
  <2>1. QED
    BY <1>1, <1>2, <1>3, RunEnds, Zenon
<1>5. PICK n \in 0 .. Len(s) : n \in Run /\ (n = Len(s) \/ n + 1 \notin Run)
  BY <1>4
<1>6. n # Len(s) => s[n + 1] \notin Word
  <2>1. SUFFICES ASSUME n # Len(s), s[n + 1] \in Word
                 PROVE  FALSE
    OBVIOUS
  <2>2. n + 1 \in 0 .. Len(s) /\ ~WordsIn(s, 1, n + 1) /\ WordsIn(s, 1, n)
    BY <1>1, <1>5, <2>1
  <2>3. \A k \in 1 .. n + 1 : k \in 1 .. n \/ k = n + 1
    BY <1>1
  <2>4. QED
    BY <2>1, <2>2, <2>3 DEF WordsIn
<1>7. QED
  BY <1>5, <1>6

LEMMA SuffixOfWords ==
  ASSUME NEW s \in Text
  PROVE  \E n \in 0 .. Len(s) :
           WordsIn(s, Len(s) - n + 1, Len(s)) /\ (n = Len(s) \/ s[Len(s) - n] \notin Word)
<1> DEFINE m == Len(s)
           Run == {k \in 0 .. m : WordsIn(s, m - k + 1, m)}
<1>1. m \in Nat
  BY DEF Text
<1> HIDE DEF m
<1>2. 0 \in Run
  BY <1>1 DEF WordsIn
<1>3. \A k \in 0 .. m : k \in Run => \A j \in 0 .. k : j \in Run
  BY <1>1 DEF WordsIn
<1>4. \E k \in 0 .. m : k \in Run /\ (k = m \/ k + 1 \notin Run)
  <2> HIDE DEF Run
  <2>1. QED
    BY <1>1, <1>2, <1>3, RunEnds, Zenon
<1>5. PICK n \in 0 .. m : n \in Run /\ (n = m \/ n + 1 \notin Run)
  BY <1>4
<1>6. n # m => s[m - n] \notin Word
  <2>1. SUFFICES ASSUME n # m, s[m - n] \in Word
                 PROVE  FALSE
    OBVIOUS
  <2>2. n + 1 \in 0 .. m /\ ~WordsIn(s, m - (n + 1) + 1, m) /\ WordsIn(s, m - n + 1, m)
    BY <1>1, <1>5, <2>1
  <2>3. \A k \in m - (n + 1) + 1 .. m : k \in m - n + 1 .. m \/ k = m - n
    BY <1>1
  <2>4. QED
    BY <2>1, <2>2, <2>3 DEF WordsIn
<1>7. QED
  BY <1>5, <1>6 DEF m

\* A position at the start of what is inserted is carried into it or past it.
LEMMA InsertOffsets ==
  ASSUME NEW s \in Text
  PROVE  /\ \A assoc \in Assocs : InsertOffset(assoc, s) \in 0 .. Len(s)
         /\ InsertOffset("before", s) = 0 /\ InsertOffset("after", s) = Len(s)
<1> DEFINE p == CHOOSE n \in 0 .. Len(s) :
                  WordsIn(s, 1, n) /\ (n = Len(s) \/ s[n + 1] \notin Word)
           q == CHOOSE n \in 0 .. Len(s) :
                  WordsIn(s, Len(s) - n + 1, Len(s))
                    /\ (n = Len(s) \/ s[Len(s) - n] \notin Word)
<1>1. Len(s) \in Nat
  BY DEF Text
<1>2. p \in 0 .. Len(s)
  BY PrefixOfWords
<1>3. q \in 0 .. Len(s)
  BY SuffixOfWords
<1>4. /\ InsertOffset("after", s) = Len(s) /\ InsertOffset("before", s) = 0
      /\ InsertOffset("afterWord", s) = p /\ InsertOffset("beforeWord", s) = Len(s) - q
  BY DEF InsertOffset, WordsIn
<1> HIDE DEF p, q
<1>5. QED
  BY <1>1, <1>2, <1>3, <1>4 DEF Assocs

\* What comes before the operation that follows the first k.
OldAt(l, k) == Prefix(l, k).pre
NewAt(l, k) == Prefix(l, k).after

LEMMA PrefixAppends ==
  ASSUME NEW l, IsList(l), NEW k \in 0 .. Len(l.ops) - 1
  PROVE  /\ SubSeq(l.ops, 1, k) \in Seq(Operation) /\ l.ops[k + 1] \in Operation
         /\ SubSeq(l.ops, 1, k + 1) = Append(SubSeq(l.ops, 1, k), l.ops[k + 1])
         /\ IsChangeSet(Meaning(SubSeq(l.ops, 1, k)))
         /\ Meaning(SubSeq(l.ops, 1, k + 1))
              = Beside(Meaning(SubSeq(l.ops, 1, k)), Of(l.ops[k + 1]))
<1>1. l.ops \in Seq(Operation) /\ Len(l.ops) \in Nat
  BY DEF IsList
<1>2. /\ SubSeq(l.ops, 1, k) \in Seq(Operation) /\ l.ops[k + 1] \in Operation
      /\ SubSeq(l.ops, 1, k + 1) = Append(SubSeq(l.ops, 1, k), l.ops[k + 1])
  BY <1>1
<1>3. \A s \in Seq(Operation), op \in Operation :
        Meaning(Append(s, op)) = Beside(Meaning(s), Of(op))
  BY MeaningAppend
<1>4. \A s \in Seq(Operation) : IsChangeSet(Meaning(s))
  BY MeaningIsChangeSet
<1>5. QED
  BY <1>2, <1>3, <1>4, Zenon

\* How far an operation goes in the old text and in the new one.
Goes(l, k, op) ==
  /\ OldAt(l, k) \in Nat /\ NewAt(l, k) \in Nat
  /\ op.kind \in {"retain", "delete", "insert"}
  /\ op.kind = "retain" =>
       /\ op.n \in Nat \ {0} /\ OldAt(l, k + 1) = OldAt(l, k) + op.n
       /\ NewAt(l, k + 1) = NewAt(l, k) + op.n
  /\ op.kind = "delete" =>
       /\ op.n \in Nat \ {0} /\ OldAt(l, k + 1) = OldAt(l, k) + op.n
       /\ NewAt(l, k + 1) = NewAt(l, k)
  /\ op.kind = "insert" =>
       /\ op.text \in Text /\ Len(op.text) \in Nat \ {0}
       /\ OldAt(l, k + 1) = OldAt(l, k)
       /\ NewAt(l, k + 1) = NewAt(l, k) + Len(op.text)

LEMMA OpGoes ==
  ASSUME NEW l, IsList(l), NEW k \in 0 .. Len(l.ops) - 1
  PROVE  Goes(l, k, l.ops[k + 1])
<1> DEFINE op == l.ops[k + 1]
           x == Meaning(SubSeq(l.ops, 1, k))
           y == Meaning(SubSeq(l.ops, 1, k + 1))
<1>1. op \in Operation /\ IsChangeSet(x) /\ y = Beside(x, Of(op))
  BY PrefixAppends
<1>2. /\ OldAt(l, k) = x.pre /\ NewAt(l, k) = Len(x.post)
      /\ OldAt(l, k + 1) = y.pre /\ NewAt(l, k + 1) = Len(y.post)
  BY DEF OldAt, NewAt, Prefix
<1> HIDE DEF op, x, y
<1>3. op \in AnyOperation /\ SizeOf(op) # 0
  BY <1>1 DEF Operation
<1>4. /\ x.pre \in Nat /\ Len(x.post) \in Nat
      /\ y.pre = x.pre + Of(op).pre /\ Len(y.post) = Len(x.post) + Len(Of(op).post)
  BY <1>1, <1>3, OfIsChangeSet, BesideIsChangeSet, ChangeSetSizes, Zenon
<1>5. ASSUME op.kind = "retain"
      PROVE  Goes(l, k, op)
  <2>1. op.n \in Nat \ {0} /\ op = Count("retain", op.n)
    BY <1>3, <1>5, OperationKinds
  <2>2. Of(op).pre = op.n /\ Len(Of(op).post) = op.n
    BY <2>1, OfRetain
  <2>3. QED
    BY <1>2, <1>4, <1>5, <2>1, <2>2 DEF Goes
<1>6. ASSUME op.kind = "delete"
      PROVE  Goes(l, k, op)
  <2>1. op.n \in Nat \ {0} /\ op = Count("delete", op.n)
    BY <1>3, <1>6, OperationKinds
  <2>2. Of(op).pre = op.n /\ Len(Of(op).post) = 0
    BY <2>1, OfDelete
  <2>3. QED
    BY <1>2, <1>4, <1>6, <2>1, <2>2 DEF Goes
<1>7. ASSUME op.kind = "insert"
      PROVE  Goes(l, k, op)
  <2>1. op.text \in Text /\ op = Insert(op.text) /\ Len(op.text) # 0 /\ Len(op.text) \in Nat
    <3>1. op.text \in Text /\ op = Insert(op.text) /\ Len(op.text) # 0
      BY <1>3, <1>7, OperationKinds
    <3>2. QED
      BY <3>1, TextIsChangeSet
  <2>2. Of(op).pre = 0 /\ Len(Of(op).post) = Len(op.text)
    BY <2>1, OfInsert
  <2>3. /\ OldAt(l, k) \in Nat /\ NewAt(l, k) \in Nat
        /\ NewAt(l, k + 1) = NewAt(l, k) + Len(op.text)
    BY <1>2, <1>4, <2>2, Zenon
  <2>4. OldAt(l, k + 1) = OldAt(l, k)
    BY <1>2, <1>4, <2>2
  <2>5. op.kind # "retain" /\ op.kind # "delete"
    BY <1>7
  <2>6. QED
    BY <1>7, <2>1, <2>3, <2>4, <2>5, Zenon DEF Goes
<1>8. op.kind \in {"retain", "delete", "insert"}
  BY <1>3, OperationKinds
<1>9. Goes(l, k, op)
  BY <1>5, <1>6, <1>7, <1>8
<1>10. QED
  BY <1>9 DEF op

LEMMA ListEnds ==
  ASSUME NEW l, IsList(l)
  PROVE  /\ Len(l.ops) \in Nat /\ l.pre \in Nat /\ l.after \in Nat
         /\ OldAt(l, 0) = 0 /\ NewAt(l, 0) = 0
         /\ OldAt(l, Len(l.ops)) = l.pre /\ NewAt(l, Len(l.ops)) = l.after
<1>1. /\ l.ops \in Seq(Operation)
      /\ l.pre = Meaning(l.ops).pre /\ l.after = Len(Meaning(l.ops).post)
  BY DEF IsList
<1>2. l.pre \in Nat /\ l.after \in Nat
  BY <1>1, MeaningIsChangeSet, ChangeSetSizes
<1>3. Len(l.ops) \in Nat
  BY <1>1
<1>4. Prefix(l, 0) = NoList /\ Prefix(l, Len(l.ops)) = l
  BY PrefixEnds
<1>5. QED
  BY <1>2, <1>3, <1>4 DEF OldAt, NewAt, NoList

\* Operations go forward.
LEMMA OpsGoForward ==
  ASSUME NEW l, IsList(l)
  PROVE  \A k \in 0 .. Len(l.ops) :
           /\ OldAt(l, k) \in Nat /\ NewAt(l, k) \in Nat
           /\ \A j \in 0 .. k : OldAt(l, j) <= OldAt(l, k) /\ NewAt(l, j) <= NewAt(l, k)
<1> DEFINE Good(k) == /\ OldAt(l, k) \in Nat /\ NewAt(l, k) \in Nat
                      /\ \A j \in 0 .. k : OldAt(l, j) <= OldAt(l, k)
                                           /\ NewAt(l, j) <= NewAt(l, k)
           T == {k \in 0 .. Len(l.ops) : Good(k)}
<1>1. Len(l.ops) \in Nat
  BY ListEnds
<1>2. 0 \in T
  BY <1>1, ListEnds
<1>3. ASSUME NEW k \in 0 .. Len(l.ops), k < Len(l.ops), k \in T
      PROVE  k + 1 \in T
  <2>1. Good(k) /\ k \in 0 .. Len(l.ops) - 1 /\ k + 1 \in 0 .. Len(l.ops)
    BY <1>1, <1>3
  <2>2. /\ OldAt(l, k + 1) \in Nat /\ OldAt(l, k + 1) >= OldAt(l, k)
        /\ NewAt(l, k + 1) \in Nat /\ NewAt(l, k + 1) >= NewAt(l, k)
    <3>1. PICK op : op = l.ops[k + 1]
      OBVIOUS
    <3>2. Goes(l, k, op)
      BY <2>1, <3>1, OpGoes
    <3>3. QED
      BY <2>1, <3>2 DEF Goes
  <2>3. ASSUME NEW j \in 0 .. k + 1
        PROVE  OldAt(l, j) <= OldAt(l, k + 1) /\ NewAt(l, j) <= NewAt(l, k + 1)
    <3>1. CASE j = k + 1
      BY <2>2, <3>1
    <3>2. CASE j # k + 1
      <4>1. j \in 0 .. k
        BY <3>2, <1>1
      <4>2. /\ OldAt(l, j) <= OldAt(l, k) /\ NewAt(l, j) <= NewAt(l, k)
            /\ OldAt(l, j) \in Int /\ NewAt(l, j) \in Int
        <5>1. j \in 0 .. Len(l.ops)
          BY <4>1, <1>1
        <5>2. IsList(Prefix(l, j))
          BY <5>1, PrefixIsList
        <5>3. OldAt(l, j) \in Nat /\ NewAt(l, j) \in Nat
          BY <5>2, ListEnds DEF OldAt, NewAt
        <5>4. QED
          BY <2>1, <4>1, <5>3
      <4>3. QED
        BY <2>1, <2>2, <4>2
    <3>3. QED
      BY <3>1, <3>2
  <2>4. QED
    BY <2>1, <2>2, <2>3
<1>4. \A k \in 0 .. Len(l.ops) : k \in T
  <2> HIDE DEF T
  <2>1. QED
    BY <1>1, <1>2, <1>3, UpTo, Zenon
<1>5. QED
  BY <1>4

LEMMA SequenceCut ==
  ASSUME NEW S, NEW s \in Seq(S), NEW k \in 0 .. Len(s)
  PROVE  /\ SubSeq(s, 1, k) \in Seq(S) /\ SubSeq(s, k + 1, Len(s)) \in Seq(S)
         /\ s = SubSeq(s, 1, k) \o SubSeq(s, k + 1, Len(s))
<1> DEFINE p == SubSeq(s, 1, k)
           q == SubSeq(s, k + 1, Len(s))
<1>1. Len(s) \in Nat
  OBVIOUS
<1>2. p \in Seq(S) /\ Len(p) = k /\ \A i \in 1 .. k : p[i] = s[i]
  BY <1>1
<1>3. q \in Seq(S) /\ Len(q) = Len(s) - k /\ \A i \in 1 .. Len(s) - k : q[i] = s[k + i]
  BY <1>1
<1> HIDE DEF p, q
<1>4. p \o q \in Seq(S) /\ Len(p \o q) = Len(s)
  BY <1>1, <1>2, <1>3
<1>5. ASSUME NEW i \in 1 .. Len(s)
      PROVE  (p \o q)[i] = s[i]
  <2>1. CASE i <= k
    <3>1. i \in 1 .. k
      BY <1>1, <2>1
    <3>2. (p \o q)[i] = p[i]
      BY <1>2, <1>3, <3>1
    <3>3. QED
      BY <1>2, <3>1, <3>2
  <2>2. CASE i > k
    <3>1. (p \o q)[i] = q[i - k] /\ i - k \in 1 .. Len(s) - k /\ k + (i - k) = i
      BY <1>1, <1>2, <1>3, <2>2
    <3>2. QED
      BY <1>3, <3>1
  <2>3. i <= k \/ i > k
    BY <1>1
  <2>4. QED
    BY <2>1, <2>2, <2>3, Zenon
<1>6. s = p \o q
  BY <1>4, <1>5, SameSequence, Zenon
<1>7. QED
  BY <1>2, <1>3, <1>6, Zenon DEF p, q

LEMMA CutAt ==
  ASSUME NEW l, IsList(l), NEW k \in 0 .. Len(l.ops)
  PROVE  LET x == Meaning(SubSeq(l.ops, 1, k))
             y == Meaning(SubSeq(l.ops, k + 1, Len(l.ops)))
         IN  /\ IsChangeSet(x) /\ IsChangeSet(y) /\ Meaning(l.ops) = Beside(x, y)
             /\ OldAt(l, k) = x.pre /\ NewAt(l, k) = Len(x.post)
             /\ l.after = Len(x.post) + Len(y.post)
<1> DEFINE s == SubSeq(l.ops, 1, k)
           t == SubSeq(l.ops, k + 1, Len(l.ops))
<1>1. l.ops \in Seq(Operation) /\ Len(l.ops) \in Nat /\ l.after = Len(Meaning(l.ops).post)
  BY DEF IsList
<1>2. s \in Seq(Operation) /\ t \in Seq(Operation) /\ l.ops = s \o t
  BY <1>1, SequenceCut, Zenon
<1>3. OldAt(l, k) = Meaning(s).pre /\ NewAt(l, k) = Len(Meaning(s).post)
  BY DEF OldAt, NewAt, Prefix
<1> HIDE DEF s, t
<1>4. IsChangeSet(Meaning(s)) /\ IsChangeSet(Meaning(t))
      /\ Meaning(l.ops) = Beside(Meaning(s), Meaning(t))
  BY <1>2, MeaningConcat, MeaningIsChangeSet
<1>5. l.after = Len(Meaning(s).post) + Len(Meaning(t).post)
  BY <1>1, <1>4, BesideIsChangeSet, Zenon
<1>6. QED
  BY <1>3, <1>4, <1>5 DEF s, t

\* What is retained stays on its side of an operation.
LEMMA RetainedApart ==
  ASSUME NEW l, IsList(l), NEW k \in 0 .. Len(l.ops),
         NEW i \in 1 .. l.after, Meaning(l.ops).post[i] \notin Char
  PROVE  /\ Meaning(l.ops).post[i] \in 1 .. l.pre
         /\ i <= NewAt(l, k) => Meaning(l.ops).post[i] <= OldAt(l, k)
         /\ i > NewAt(l, k) => Meaning(l.ops).post[i] > OldAt(l, k)
<1> DEFINE x == Meaning(SubSeq(l.ops, 1, k))
           y == Meaning(SubSeq(l.ops, k + 1, Len(l.ops)))
           z == Meaning(l.ops)
<1>1. /\ IsChangeSet(x) /\ IsChangeSet(y) /\ z = Beside(x, y)
      /\ OldAt(l, k) = x.pre /\ NewAt(l, k) = Len(x.post)
      /\ l.after = Len(x.post) + Len(y.post)
  BY CutAt, Zenon
<1>2. IsChangeSet(z) /\ l.after = Len(z.post) /\ l.pre = z.pre
  BY MeaningIsChangeSet DEF IsList
<1> HIDE DEF x, y, z
<1>3. x.pre \in Nat /\ Len(x.post) \in Nat /\ Len(y.post) \in Nat
  BY <1>1, ChangeSetSizes
<1>4. z.post[i] \notin Char
  BY DEF z
<1>5. z.post[i] \in 1 .. l.pre
  BY <1>2, <1>4, ChangeSetParts, Zenon
<1>6. ASSUME i <= Len(x.post)
      PROVE  z.post[i] <= x.pre
  <2>1. i \in 1 .. Len(x.post)
    BY <1>3, <1>6
  <2>2. z.post[i] = x.post[i]
    BY <1>1, <2>1, BesidePieces
  <2>3. x.post[i] \in 1 .. x.pre
    BY <1>1, <1>4, <2>1, <2>2, ChangeSetParts, Zenon
  <2>4. QED
    BY <1>3, <2>2, <2>3
<1>7. ASSUME i > Len(x.post)
      PROVE  z.post[i] > x.pre
  <2>1. PICK j \in 1 .. Len(y.post) : i = Len(x.post) + j
    <3>1. \A m, n \in Nat : \A d \in 1 .. m + n :
            d > m => d - m \in 1 .. n /\ d = m + (d - m)
      OBVIOUS
    <3>2. i \in 1 .. Len(x.post) + Len(y.post)
      BY <1>1, Zenon
    <3>3. i - Len(x.post) \in 1 .. Len(y.post) /\ i = Len(x.post) + (i - Len(x.post))
      BY <1>3, <1>7, <3>1, <3>2, Zenon
    <3>4. QED
      BY <3>3, Zenon
  <2>2. z.post[i] = Shifted(y.post[j], x.pre)
    BY <1>1, <2>1, BesidePieces
  <2>3. y.post[j] \notin Char
    BY <1>4, <2>2 DEF Shifted
  <2>4. z.post[i] = y.post[j] + x.pre
    BY <2>2, <2>3 DEF Shifted
  <2>5. y.post[j] \in 1 .. y.pre
    BY <1>1, <2>3, ChangeSetParts, Zenon
  <2>6. QED
    BY <1>3, <2>4, <2>5
<1>8. QED
  BY <1>1, <1>5, <1>6, <1>7 DEF z

\* What stands where an operation stands.
LEMMA PiecesOfOp ==
  ASSUME NEW l, IsList(l), NEW k \in 0 .. Len(l.ops) - 1,
         NEW i \in 1 .. Len(Of(l.ops[k + 1]).post)
  PROVE  /\ NewAt(l, k) + i \in 1 .. l.after
         /\ Meaning(l.ops).post[NewAt(l, k) + i]
              = Shifted(Of(l.ops[k + 1]).post[i], OldAt(l, k))
<1> DEFINE x == Meaning(SubSeq(l.ops, 1, k))
           w == Of(l.ops[k + 1])
           xw == Meaning(SubSeq(l.ops, 1, k + 1))
           y == Meaning(SubSeq(l.ops, k + 1 + 1, Len(l.ops)))
           z == Meaning(l.ops)
<1>1. Len(l.ops) \in Nat /\ k \in 0 .. Len(l.ops) /\ k + 1 \in 0 .. Len(l.ops)
  BY ListEnds
<1>2. IsChangeSet(x) /\ OldAt(l, k) = x.pre /\ NewAt(l, k) = Len(x.post)
  BY <1>1, CutAt, Zenon
<1>3. /\ IsChangeSet(xw) /\ IsChangeSet(y) /\ z = Beside(xw, y)
      /\ l.after = Len(xw.post) + Len(y.post)
  <2> HIDE DEF y
  <2>1. \A j \in 0 .. Len(l.ops) :
          LET p == Meaning(SubSeq(l.ops, 1, j))
              q == Meaning(SubSeq(l.ops, j + 1, Len(l.ops)))
          IN  /\ IsChangeSet(p) /\ IsChangeSet(q) /\ Meaning(l.ops) = Beside(p, q)
              /\ l.after = Len(p.post) + Len(q.post)
    BY CutAt, Zenon
  <2>2. QED
    BY <1>1, <2>1, Zenon DEF y
<1>4. IsChangeSet(w) /\ xw = Beside(x, w)
  <2>1. l.ops[k + 1] \in Operation /\ xw = Beside(x, w)
    BY PrefixAppends
  <2>2. \A op \in Operation : IsChangeSet(Of(op))
    BY OfIsChangeSet DEF Operation
  <2>3. QED
    BY <2>1, <2>2, Zenon
<1>5. i \in 1 .. Len(w.post)
  OBVIOUS
<1> HIDE DEF x, w, xw, y, z
<1>6. /\ Len(x.post) \in Nat /\ Len(w.post) \in Nat /\ Len(y.post) \in Nat
      /\ Len(xw.post) = Len(x.post) + Len(w.post)
  BY <1>2, <1>3, <1>4, ChangeSetSizes, BesideIsChangeSet, Zenon
<1>7. PICK j : j = Len(x.post) + i
  OBVIOUS
<1>8. j \in 1 .. Len(xw.post) /\ j \in 1 .. l.after
  <2>1. \A m, n, o \in Nat : \A d \in 1 .. n :
          m + d \in 1 .. m + n /\ m + d \in 1 .. m + n + o
    OBVIOUS
  <2>2. QED
    BY <1>3, <1>5, <1>6, <1>7, <2>1, Zenon
<1>9. z.post[j] = xw.post[j]
  BY <1>3, <1>8, BesidePieces
<1>10. xw.post[j] = Shifted(w.post[i], x.pre)
  BY <1>2, <1>4, <1>5, <1>7, BesidePieces
<1>11. QED
  BY <1>2, <1>7, <1>8, <1>9, <1>10 DEF w, z

LEMMA RetainedAt ==
  ASSUME NEW l, IsList(l), NEW k \in 0 .. Len(l.ops) - 1,
         l.ops[k + 1].kind = "retain", NEW i \in 1 .. l.ops[k + 1].n
  PROVE  /\ NewAt(l, k) + i \in 1 .. l.after
         /\ Meaning(l.ops).post[NewAt(l, k) + i] = OldAt(l, k) + i
<1>1. PICK op : op = l.ops[k + 1]
  OBVIOUS
<1>2. op \in AnyOperation /\ OldAt(l, k) \in Nat
  BY <1>1, PrefixAppends, OpGoes DEF Operation, Goes
<1>3. op = Count("retain", op.n) /\ op.n \in Nat /\ i \in 1 .. op.n
  BY <1>1, <1>2, OperationKinds
<1>4. Len(Of(op).post) = op.n /\ Of(op).post[i] = i /\ Of(op).post[i] \notin Char
  BY <1>3, OfRetain
<1>5. /\ NewAt(l, k) + i \in 1 .. l.after
      /\ Meaning(l.ops).post[NewAt(l, k) + i] = Shifted(Of(op).post[i], OldAt(l, k))
  BY <1>1, <1>3, <1>4, PiecesOfOp, Zenon
<1>6. Shifted(Of(op).post[i], OldAt(l, k)) = OldAt(l, k) + i
  BY <1>2, <1>4 DEF Shifted
<1>7. QED
  BY <1>5, <1>6

LEMMA InsertedAt ==
  ASSUME NEW l, IsList(l), NEW k \in 0 .. Len(l.ops) - 1,
         l.ops[k + 1].kind = "insert",
         NEW i \in NewAt(l, k) + 1 .. NewAt(l, k + 1)
  PROVE  Meaning(l.ops).post[i] \in Char
<1>1. PICK op : op = l.ops[k + 1]
  OBVIOUS
<1>2. op \in AnyOperation /\ Goes(l, k, op)
  BY <1>1, PrefixAppends, OpGoes, Zenon DEF Operation
<1>3. op = Insert(op.text) /\ op.text \in Text
  BY <1>1, <1>2, OperationKinds
<1>4. /\ Len(Of(op).post) = Len(op.text)
      /\ \A j \in 1 .. Len(op.text) : Of(op).post[j] \in Char
  BY <1>3, OfInsert
<1>5. NewAt(l, k) \in Nat /\ Len(op.text) \in Nat /\ NewAt(l, k + 1) = NewAt(l, k) + Len(op.text)
  BY <1>1, <1>2 DEF Goes
<1>6. PICK j \in 1 .. Len(op.text) : i = NewAt(l, k) + j
  <2>1. i - NewAt(l, k) \in 1 .. Len(op.text) /\ i = NewAt(l, k) + (i - NewAt(l, k))
    BY <1>5
  <2>2. QED
    BY <2>1, Zenon
<1>7. Meaning(l.ops).post[i] = Shifted(Of(op).post[j], OldAt(l, k))
  BY <1>1, <1>4, <1>6, PiecesOfOp
<1>8. QED
  BY <1>4, <1>7 DEF Shifted

CarryStep(c, x, i) == CarryOver(c.l, c.pos, c.assoc, x, i)

CarryFolds == INSTANCE FoldTheorems WITH Op <- CarryStep

\* How far the first k operations carry a position.
Carried(l, pos, assoc, k) ==
  CarryFolds!Fold([l |-> l, pos |-> pos, assoc |-> assoc],
                  [old |-> 0, new |-> 0, at |-> Nowhere], [i \in 1 .. k |-> i])

LEMMA MapPosIsCarried ==
  ASSUME NEW l, l.ops \in Seq(Operation), NEW pos, NEW assoc
  PROVE  LET end == Carried(l, pos, assoc, Len(l.ops))
         IN  MapPos(l, pos, assoc) = IF end.at = Nowhere THEN end.new ELSE end.at
<1>1. DOMAIN l.ops = 1 .. Len(l.ops)
  OBVIOUS
<1> DEFINE c == [l |-> l, pos |-> pos, assoc |-> assoc]
           end == CarryFolds!Fold(c, [old |-> 0, new |-> 0, at |-> Nowhere],
                                  [i \in DOMAIN l.ops |-> i])
<1>2. c.l = l /\ c.pos = pos /\ c.assoc = assoc
  OBVIOUS
<1>3. MapPos(l, pos, assoc) = IF end.at = Nowhere THEN end.new ELSE end.at
  BY DEF MapPos, CarryStep, FoldLeftDomain, CarryFolds!Fold, CarryFolds!FoldLeft,
         CarryFolds!MapThenFoldSet, CarryFolds!Max, FoldLeft, MapThenFoldSet, Max
<1>4. QED
  BY <1>1, <1>3 DEF Carried

LEMMA CarriedNone ==
  ASSUME NEW l, NEW pos, NEW assoc
  PROVE  Carried(l, pos, assoc, 0) = [old |-> 0, new |-> 0, at |-> Nowhere]
<1>1. [i \in 1 .. 0 |-> i] = << >>
  OBVIOUS
<1>2. QED
  BY <1>1, CarryFolds!FoldNone DEF Carried

LEMMA CarriedNext ==
  ASSUME NEW l, NEW pos, NEW assoc, NEW k \in Nat
  PROVE  Carried(l, pos, assoc, k + 1)
           = CarryOver(l, pos, assoc, Carried(l, pos, assoc, k), k + 1)
<1> DEFINE s == [i \in 1 .. k |-> i]
           c == [l |-> l, pos |-> pos, assoc |-> assoc]
           start == [old |-> 0, new |-> 0, at |-> Nowhere]
<1>1. s \in Seq(Nat) /\ k + 1 \in Nat /\ Len(s) = k
  OBVIOUS
<1>2. [i \in 1 .. k + 1 |-> i] = Append(s, k + 1)
  <2>1. /\ [i \in 1 .. k + 1 |-> i] \in Seq(Nat) /\ Len([i \in 1 .. k + 1 |-> i]) = k + 1
        /\ Append(s, k + 1) \in Seq(Nat) /\ Len(Append(s, k + 1)) = k + 1
    BY <1>1
  <2>2. \A j \in 1 .. k + 1 : [i \in 1 .. k + 1 |-> i][j] = Append(s, k + 1)[j]
    BY <1>1
  <2>3. QED
    BY <2>1, <2>2
<1>3. c.l = l /\ c.pos = pos /\ c.assoc = assoc
  OBVIOUS
<1> HIDE DEF s, c, start
<1>4. CarryFolds!Fold(c, start, Append(s, k + 1))
        = CarryStep(c, CarryFolds!Fold(c, start, s), k + 1)
  BY <1>1, CarryFolds!FoldAppend
<1>5. CarryStep(c, CarryFolds!Fold(c, start, s), k + 1)
        = CarryOver(l, pos, assoc, CarryFolds!Fold(c, start, s), k + 1)
  BY <1>3 DEF CarryStep
<1>6. QED
  BY <1>2, <1>4, <1>5, Zenon DEF Carried, s, c, start

\* A position gets past the first k operations ...
Passes(l, pos, k) ==
  /\ pos >= OldAt(l, k)
  /\ KindAt(l.ops, k) = "insert" => pos > OldAt(l, k)
  /\ KindAt(l.ops, k) = "retain" /\ k = Len(l.ops) => pos > OldAt(l, k)

\* ... or stops at the j-th of them, whatever side it is asked to stay on,
StopsAt(l, pos, j) ==
  /\ Passes(l, pos, j - 1)
  /\ l.ops[j].kind = "retain" =>
       pos < OldAt(l, j) \/ (pos = OldAt(l, j) /\ j = Len(l.ops))
  /\ l.ops[j].kind = "delete" => pos < OldAt(l, j)
  /\ l.ops[j].kind = "insert" => pos = OldAt(l, j - 1)

\* where it comes to stand.
Landing(l, pos, assoc, j) ==
  CASE l.ops[j].kind = "retain" -> NewAt(l, j - 1) + pos - OldAt(l, j - 1)
    [] l.ops[j].kind = "delete" -> NewAt(l, j - 1)
    [] l.ops[j].kind = "insert" ->
         NewAt(l, j - 1) + InsertOffset(assoc, l.ops[j].text)

CarriedTo(l, pos, k) ==
  \/ /\ Passes(l, pos, k)
     /\ \A assoc \in Assocs :
          Carried(l, pos, assoc, k)
            = [old |-> OldAt(l, k), new |-> NewAt(l, k), at |-> Nowhere]
  \/ \E j \in 1 .. k :
       /\ StopsAt(l, pos, j)
       /\ \A assoc \in Assocs : Carried(l, pos, assoc, k).at = Landing(l, pos, assoc, j)

LEMMA LandingInRange ==
  ASSUME NEW l, IsList(l), NEW pos \in Nat, NEW j \in 1 .. Len(l.ops),
         StopsAt(l, pos, j), NEW assoc \in Assocs
  PROVE  Landing(l, pos, assoc, j) \in NewAt(l, j - 1) .. NewAt(l, j)
<1>1. PICK k \in 0 .. Len(l.ops) - 1 : k = j - 1 /\ j = k + 1
  <2>1. Len(l.ops) \in Nat
    BY ListEnds
  <2>2. j - 1 \in 0 .. Len(l.ops) - 1 /\ j = (j - 1) + 1
    BY <2>1
  <2>3. QED
    BY <2>2, Zenon
<1>2. PICK op : op = l.ops[j]
  OBVIOUS
<1>3. Goes(l, k, op)
  BY <1>1, <1>2, OpGoes
<1>4. /\ OldAt(l, k) \in Nat /\ NewAt(l, k) \in Nat /\ pos >= OldAt(l, k)
  BY <1>1, <1>3 DEF StopsAt, Passes, Goes
<1>5. CASE op.kind = "retain"
  <2>1. /\ op.n \in Nat /\ OldAt(l, j) = OldAt(l, k) + op.n
        /\ NewAt(l, j) = NewAt(l, k) + op.n
    BY <1>1, <1>3, <1>5 DEF Goes
  <2>2. pos <= OldAt(l, j)
    <3>1. pos < OldAt(l, j) \/ pos = OldAt(l, j)
      BY <1>2, <1>5 DEF StopsAt
    <3>2. OldAt(l, j) \in Nat
      BY <1>4, <2>1
    <3>3. QED
      BY <3>1, <3>2
  <2>3. Landing(l, pos, assoc, j) = NewAt(l, k) + pos - OldAt(l, k)
    BY <1>1, <1>2, <1>5 DEF Landing
  <2>4. QED
    BY <1>1, <1>4, <2>1, <2>2, <2>3
<1>6. CASE op.kind = "delete"
  <2>1. NewAt(l, j) = NewAt(l, k)
    BY <1>1, <1>3, <1>6 DEF Goes
  <2>2. Landing(l, pos, assoc, j) = NewAt(l, k)
    BY <1>1, <1>2, <1>6 DEF Landing
  <2>3. QED
    BY <1>1, <1>4, <2>1, <2>2
<1>7. CASE op.kind = "insert"
  <2>1. op.text \in Text /\ Len(op.text) \in Nat /\ NewAt(l, j) = NewAt(l, k) + Len(op.text)
    BY <1>1, <1>3, <1>7 DEF Goes
  <2>2. Landing(l, pos, assoc, j) = NewAt(l, k) + InsertOffset(assoc, op.text)
    BY <1>1, <1>2, <1>7 DEF Landing
  <2>3. InsertOffset(assoc, op.text) \in 0 .. Len(op.text)
    BY <2>1, InsertOffsets
  <2>4. QED
    BY <1>1, <1>4, <2>1, <2>2, <2>3
<1>8. QED
  BY <1>3, <1>5, <1>6, <1>7 DEF Goes

\* One operation more.
LEMMA CarriedFurther ==
  ASSUME NEW l, IsList(l), NEW pos \in Nat, NEW k \in 0 .. Len(l.ops) - 1,
         CarriedTo(l, pos, k)
  PROVE  CarriedTo(l, pos, k + 1)
<1> DEFINE At(assoc) == Carried(l, pos, assoc, k)
           Next(assoc) == Carried(l, pos, assoc, k + 1)
<1>1. PICK m : m = k + 1
  OBVIOUS
<1>2. /\ k \in Nat /\ Len(l.ops) \in Nat /\ m \in 1 .. Len(l.ops) /\ m - 1 = k
      /\ m \in 1 .. m
  BY <1>1, ListEnds
<1>3. \A assoc : Next(assoc) = CarryOver(l, pos, assoc, At(assoc), m)
  BY <1>1, <1>2, CarriedNext
<1>4. PICK op : op = l.ops[m]
  OBVIOUS
<1>5. Goes(l, k, op)
  BY <1>1, <1>4, OpGoes
<1>6. KindAt(l.ops, m) = op.kind
  BY <1>2, <1>4 DEF KindAt
<1> HIDE DEF At, Next
<1>7. SUFFICES CarriedTo(l, pos, m)
  BY <1>1
<1>8. ASSUME NEW j \in 1 .. k, StopsAt(l, pos, j),
             \A assoc \in Assocs : At(assoc).at = Landing(l, pos, assoc, j)
      PROVE  CarriedTo(l, pos, m)
  <2>1. j \in 1 .. Len(l.ops) /\ j \in 1 .. m
    BY <1>1, <1>2
  <2>2. ASSUME NEW assoc \in Assocs
        PROVE  Next(assoc).at = Landing(l, pos, assoc, j)
    <3>1. Landing(l, pos, assoc, j) \in Nat
      <4>1. IsList(Prefix(l, j - 1)) /\ j - 1 \in 0 .. Len(l.ops)
        BY <1>2, <2>1, PrefixIsList
      <4>2. NewAt(l, j - 1) \in Nat
        BY <1>2, <2>1, OpsGoForward
      <4>3. Landing(l, pos, assoc, j) \in NewAt(l, j - 1) .. NewAt(l, j)
        BY <1>8, <2>1, LandingInRange
      <4>4. NewAt(l, j) \in Nat
        BY <1>2, <2>1, OpsGoForward
      <4>5. QED
        BY <4>2, <4>3, <4>4
    <3>2. At(assoc).at # Nowhere
      BY <1>8, <3>1 DEF Nowhere
    <3>3. CarryOver(l, pos, assoc, At(assoc), m) = At(assoc)
      BY <3>2 DEF CarryOver
    <3>4. QED
      BY <1>3, <1>8, <3>3
  <2>3. QED
    BY <1>1, <1>8, <2>1, <2>2 DEF CarriedTo, Next
<1>9. ASSUME Passes(l, pos, k),
             \A assoc \in Assocs :
               At(assoc) = [old |-> OldAt(l, k), new |-> NewAt(l, k), at |-> Nowhere]
      PROVE  CarriedTo(l, pos, m)
  <2>1. /\ OldAt(l, k) \in Nat /\ NewAt(l, k) \in Nat /\ pos >= OldAt(l, k)
    BY <1>5, <1>9 DEF Goes, Passes
  <2>2. \A assoc \in Assocs :
          /\ At(assoc).old = OldAt(l, k) /\ At(assoc).new = NewAt(l, k)
          /\ At(assoc).at = Nowhere
          /\ At(assoc) = [old |-> At(assoc).old, new |-> At(assoc).new, at |-> At(assoc).at]
    BY <1>9
  <2>3. CASE StopsAt(l, pos, m)
    <3>1. ASSUME NEW assoc \in Assocs
          PROVE  Next(assoc).at = Landing(l, pos, assoc, m)
      <4>1. /\ At(assoc).old = OldAt(l, k) /\ At(assoc).new = NewAt(l, k)
            /\ At(assoc).at = Nowhere
            /\ At(assoc) = [old |-> At(assoc).old, new |-> At(assoc).new,
                            at |-> At(assoc).at]
        BY <2>2
      <4>2. CASE op.kind = "retain"
        <5>1. op.n \in Nat /\ OldAt(l, m) = OldAt(l, k) + op.n
          BY <1>1, <1>5, <4>2 DEF Goes
        <5>2. pos < OldAt(l, k) + op.n \/ (pos = OldAt(l, k) + op.n /\ m = Len(l.ops))
          BY <1>4, <2>3, <4>2, <5>1 DEF StopsAt
        <5>3. CarryOver(l, pos, assoc, At(assoc), m)
                = [At(assoc) EXCEPT !.at = At(assoc).new + pos - At(assoc).old]
          BY <1>4, <4>1, <4>2, <5>2 DEF CarryOver
        <5>4. Landing(l, pos, assoc, m) = NewAt(l, k) + pos - OldAt(l, k)
          BY <1>2, <1>4, <4>2 DEF Landing
        <5>5. QED
          BY <1>3, <4>1, <5>3, <5>4
      <4>3. CASE op.kind = "delete"
        <5>1. op.n \in Nat /\ OldAt(l, m) = OldAt(l, k) + op.n
          BY <1>1, <1>5, <4>3 DEF Goes
        <5>2. pos < OldAt(l, k) + op.n
          BY <1>4, <2>3, <4>3, <5>1 DEF StopsAt
        <5>3. CarryOver(l, pos, assoc, At(assoc), m)
                = [At(assoc) EXCEPT !.at = At(assoc).new]
          BY <1>4, <4>1, <4>3, <5>2 DEF CarryOver
        <5>4. Landing(l, pos, assoc, m) = NewAt(l, k)
          BY <1>2, <1>4, <4>3 DEF Landing
        <5>5. QED
          BY <1>3, <4>1, <5>3, <5>4
      <4>4. CASE op.kind = "insert"
        <5>1. pos = OldAt(l, k)
          BY <1>2, <1>4, <2>3, <4>4 DEF StopsAt
        <5>2. CarryOver(l, pos, assoc, At(assoc), m)
                = [At(assoc) EXCEPT !.at = At(assoc).new + InsertOffset(assoc, op.text)]
          BY <1>4, <4>1, <4>4, <5>1 DEF CarryOver
        <5>3. Landing(l, pos, assoc, m) = NewAt(l, k) + InsertOffset(assoc, op.text)
          BY <1>2, <1>4, <4>4 DEF Landing
        <5>4. QED
          BY <1>3, <4>1, <5>2, <5>3
      <4>5. QED
        BY <1>5, <4>2, <4>3, <4>4 DEF Goes
    <3>2. QED
      BY <1>1, <1>2, <2>3, <3>1 DEF CarriedTo, Next
  <2>4. CASE ~StopsAt(l, pos, m)
    <3>1. \/ op.kind = "retain" /\ ~(pos < OldAt(l, m) \/ (pos = OldAt(l, m) /\ m = Len(l.ops)))
          \/ op.kind = "delete" /\ ~(pos < OldAt(l, m))
          \/ op.kind = "insert" /\ pos # OldAt(l, k)
      BY <1>2, <1>4, <1>9, <2>4 DEF StopsAt
    <3>2. OldAt(l, m) \in Nat /\ NewAt(l, m) \in Nat
      BY <1>2, OpsGoForward
    <3>3. Passes(l, pos, m)
      <4>1. CASE op.kind = "retain"
        BY <1>6, <3>1, <3>2, <4>1 DEF Passes
      <4>2. CASE op.kind = "delete"
        BY <1>6, <3>1, <3>2, <4>2 DEF Passes
      <4>3. CASE op.kind = "insert"
        <5>1. OldAt(l, m) = OldAt(l, k)
          BY <1>1, <1>5, <4>3 DEF Goes
        <5>2. QED
          BY <1>6, <2>1, <3>1, <4>3, <5>1 DEF Passes
      <4>4. QED
        BY <1>5, <4>1, <4>2, <4>3 DEF Goes
    <3>4. ASSUME NEW assoc \in Assocs
          PROVE  Next(assoc) = [old |-> OldAt(l, m), new |-> NewAt(l, m), at |-> Nowhere]
      <4>1. /\ At(assoc).old = OldAt(l, k) /\ At(assoc).new = NewAt(l, k)
            /\ At(assoc).at = Nowhere
            /\ At(assoc) = [old |-> OldAt(l, k), new |-> NewAt(l, k), at |-> Nowhere]
        BY <1>9, <2>2
      <4>2. CASE op.kind = "retain"
        <5>1. /\ op.n \in Nat /\ OldAt(l, m) = OldAt(l, k) + op.n
              /\ NewAt(l, m) = NewAt(l, k) + op.n
          BY <1>1, <1>5, <4>2 DEF Goes
        <5>2. ~(pos < OldAt(l, k) + op.n \/ (pos = OldAt(l, k) + op.n /\ m = Len(l.ops)))
          BY <3>1, <4>2, <5>1
        <5>3. CarryOver(l, pos, assoc, At(assoc), m)
                = [old |-> OldAt(l, k) + op.n, new |-> NewAt(l, k) + op.n, at |-> Nowhere]
          BY <1>4, <4>1, <4>2, <5>2, Zenon DEF CarryOver
        <5>4. QED
          BY <1>3, <5>1, <5>3
      <4>3. CASE op.kind = "delete"
        <5>1. /\ op.n \in Nat /\ OldAt(l, m) = OldAt(l, k) + op.n
              /\ NewAt(l, m) = NewAt(l, k)
          BY <1>1, <1>5, <4>3 DEF Goes
        <5>2. ~(pos < OldAt(l, k) + op.n)
          BY <3>1, <4>3, <5>1
        <5>3. CarryOver(l, pos, assoc, At(assoc), m)
                = [old |-> OldAt(l, k) + op.n, new |-> NewAt(l, k), at |-> Nowhere]
          BY <1>4, <4>1, <4>3, <5>2 DEF CarryOver
        <5>4. QED
          BY <1>3, <5>1, <5>3
      <4>4. CASE op.kind = "insert"
        <5>1. /\ OldAt(l, m) = OldAt(l, k) /\ NewAt(l, m) = NewAt(l, k) + Len(op.text)
          BY <1>1, <1>5, <4>4 DEF Goes
        <5>2. pos # OldAt(l, k)
          BY <3>1, <4>4
        <5>3. CarryOver(l, pos, assoc, At(assoc), m)
                = [old |-> OldAt(l, k), new |-> NewAt(l, k) + Len(op.text), at |-> Nowhere]
          BY <1>4, <4>1, <4>4, <5>2 DEF CarryOver
        <5>4. QED
          BY <1>3, <5>1, <5>3
      <4>5. QED
        BY <1>5, <4>2, <4>3, <4>4 DEF Goes
    <3>5. QED
      BY <1>1, <3>3, <3>4 DEF CarriedTo, Next
  <2>5. QED
    BY <2>3, <2>4
<1>10. QED
  BY <1>8, <1>9 DEF CarriedTo, At

LEMMA CarriedThrough ==
  ASSUME NEW l, IsList(l), NEW pos \in Nat
  PROVE  CarriedTo(l, pos, Len(l.ops))
<1> DEFINE T == {k \in 0 .. Len(l.ops) : CarriedTo(l, pos, k)}
<1>1. Len(l.ops) \in Nat
  BY ListEnds
<1>2. 0 \in T
  <2>1. Passes(l, pos, 0)
    <3>1. KindAt(l.ops, 0) = "none" /\ OldAt(l, 0) = 0
      BY <1>1, ListEnds DEF KindAt
    <3>2. QED
      BY <3>1 DEF Passes
  <2>2. OldAt(l, 0) = 0 /\ NewAt(l, 0) = 0
    BY ListEnds
  <2>3. CarriedTo(l, pos, 0)
    BY <2>1, <2>2, CarriedNone DEF CarriedTo
  <2>4. QED
    BY <1>1, <2>3
<1>3. \A k \in 0 .. Len(l.ops) : k < Len(l.ops) /\ k \in T => k + 1 \in T
  <2>1. ASSUME NEW k \in 0 .. Len(l.ops), k < Len(l.ops), k \in T
        PROVE  k + 1 \in T
    <3>1. k \in 0 .. Len(l.ops) - 1 /\ k + 1 \in 0 .. Len(l.ops)
      BY <1>1, <2>1
    <3>2. QED
      BY <2>1, <3>1, CarriedFurther
  <2>2. QED
    BY <2>1
<1>4. \A k \in 0 .. Len(l.ops) : k \in T
  <2> HIDE DEF T
  <2>1. QED
    BY <1>1, <1>2, <1>3, UpTo, Zenon
<1>5. QED
  BY <1>1, <1>4

\* A position comes to stand at an operation, or behind the last one.
LEMMA MapPosLands ==
  ASSUME NEW l, IsList(l), NEW pos \in 0 .. l.pre
  PROVE  \/ /\ Passes(l, pos, Len(l.ops)) /\ pos = l.pre
            /\ \A assoc \in Assocs : MapPos(l, pos, assoc) = l.after
         \/ \E j \in 1 .. Len(l.ops) :
              /\ StopsAt(l, pos, j)
              /\ \A assoc \in Assocs : MapPos(l, pos, assoc) = Landing(l, pos, assoc, j)
<1> DEFINE n == Len(l.ops)
<1>1. /\ n \in Nat /\ l.pre \in Nat /\ l.after \in Nat /\ pos \in Nat
      /\ OldAt(l, n) = l.pre /\ NewAt(l, n) = l.after /\ l.ops \in Seq(Operation)
  BY ListEnds DEF IsList
<1> HIDE DEF n
<1>2. CarriedTo(l, pos, n)
  BY <1>1, CarriedThrough DEF n
<1>3. \A assoc : MapPos(l, pos, assoc) =
        LET end == Carried(l, pos, assoc, n)
        IN  IF end.at = Nowhere THEN end.new ELSE end.at
  BY <1>1, MapPosIsCarried DEF n
<1>4. CASE /\ Passes(l, pos, n)
           /\ \A assoc \in Assocs :
                Carried(l, pos, assoc, n)
                  = [old |-> OldAt(l, n), new |-> NewAt(l, n), at |-> Nowhere]
  <2>1. pos = l.pre
    BY <1>1, <1>4 DEF Passes
  <2>2. ASSUME NEW assoc \in Assocs
        PROVE  MapPos(l, pos, assoc) = l.after
    <3>1. Carried(l, pos, assoc, n).at = Nowhere /\ Carried(l, pos, assoc, n).new = l.after
      BY <1>1, <1>4
    <3>2. QED
      BY <1>3, <3>1
  <2>3. QED
    BY <1>4, <2>1, <2>2 DEF n
<1>5. CASE \E j \in 1 .. n :
             /\ StopsAt(l, pos, j)
             /\ \A assoc \in Assocs : Carried(l, pos, assoc, n).at = Landing(l, pos, assoc, j)
  <2>1. PICK j \in 1 .. n :
             /\ StopsAt(l, pos, j)
             /\ \A assoc \in Assocs : Carried(l, pos, assoc, n).at = Landing(l, pos, assoc, j)
    BY <1>5
  <2>2. ASSUME NEW assoc \in Assocs
        PROVE  MapPos(l, pos, assoc) = Landing(l, pos, assoc, j)
    <3>1. Landing(l, pos, assoc, j) \in NewAt(l, j - 1) .. NewAt(l, j)
      BY <1>1, <2>1, LandingInRange DEF n
    <3>2. j - 1 \in 0 .. n /\ j \in 0 .. n
      BY <1>1
    <3>3. NewAt(l, j - 1) \in Nat /\ NewAt(l, j) \in Nat
      BY <3>2, OpsGoForward DEF n
    <3>4. Landing(l, pos, assoc, j) \in Nat
      BY <3>1, <3>3
    <3>5. Carried(l, pos, assoc, n).at # Nowhere
      BY <2>1, <3>4 DEF Nowhere
    <3>6. QED
      BY <1>3, <2>1, <3>5
  <2>3. QED
    BY <2>1, <2>2 DEF n
<1>6. QED
  BY <1>2, <1>4, <1>5 DEF CarriedTo

\* What is known where a position stops.
LEMMA StopsBetween ==
  ASSUME NEW l, IsList(l), NEW pos \in Nat, NEW j \in 1 .. Len(l.ops), StopsAt(l, pos, j)
  PROVE  /\ j - 1 \in 0 .. Len(l.ops) - 1 /\ j \in 0 .. Len(l.ops)
         /\ OldAt(l, j - 1) \in Nat /\ OldAt(l, j) \in Nat
         /\ NewAt(l, j - 1) \in Nat /\ NewAt(l, j) \in Nat
         /\ Goes(l, j - 1, l.ops[j])
         /\ OldAt(l, j - 1) <= pos /\ pos <= OldAt(l, j)
         /\ NewAt(l, j - 1) <= NewAt(l, j)
<1>1. PICK k : k = j - 1
  OBVIOUS
<1>2. /\ k \in 0 .. Len(l.ops) - 1 /\ k \in 0 .. Len(l.ops) /\ j \in 0 .. Len(l.ops)
      /\ j = k + 1 /\ k \in 0 .. j
  BY <1>1, ListEnds
<1>3. /\ OldAt(l, k) \in Nat /\ OldAt(l, j) \in Nat
      /\ NewAt(l, k) \in Nat /\ NewAt(l, j) \in Nat /\ NewAt(l, k) <= NewAt(l, j)
      /\ OldAt(l, k) <= OldAt(l, j)
  BY <1>2, OpsGoForward
<1>4. PICK op : op = l.ops[j]
  OBVIOUS
<1>5. Goes(l, k, op)
  BY <1>2, <1>4, OpGoes
<1>6. pos >= OldAt(l, k)
  BY <1>1 DEF StopsAt, Passes
<1>7. op.kind \in {"retain", "delete", "insert"}
  BY <1>5 DEF Goes
<1>8. pos <= OldAt(l, j)
  <2>1. CASE op.kind = "retain"
    BY <1>3, <1>4, <2>1 DEF StopsAt
  <2>2. CASE op.kind = "delete"
    BY <1>3, <1>4, <2>2 DEF StopsAt
  <2>3. CASE op.kind = "insert"
    BY <1>1, <1>3, <1>4, <2>3 DEF StopsAt
  <2>4. QED
    BY <1>7, <2>1, <2>2, <2>3
<1>9. QED
  BY <1>1, <1>2, <1>3, <1>4, <1>5, <1>6, <1>8

LEMMA MapPosFits ==
  ASSUME NEW l, IsList(l), NEW pos \in 0 .. l.pre, NEW assoc \in Assocs
  PROVE  /\ MapPos(l, pos, assoc) \in 0 .. l.after
         /\ MapPos(l, pos, "before") <= MapPos(l, pos, assoc)
         /\ MapPos(l, pos, assoc) <= MapPos(l, pos, "after")
<1>1. /\ l.after \in Nat /\ l.pre \in Nat /\ pos \in Nat /\ Len(l.ops) \in Nat
      /\ NewAt(l, Len(l.ops)) = l.after
  BY ListEnds
<1>2. "before" \in Assocs /\ "after" \in Assocs
  BY DEF Assocs
<1>3. CASE \A s \in Assocs : MapPos(l, pos, s) = l.after
  BY <1>1, <1>2, <1>3
<1>4. CASE \E j \in 1 .. Len(l.ops) :
             /\ StopsAt(l, pos, j)
             /\ \A s \in Assocs : MapPos(l, pos, s) = Landing(l, pos, s, j)
  <2>1. PICK j \in 1 .. Len(l.ops) :
             /\ StopsAt(l, pos, j)
             /\ \A s \in Assocs : MapPos(l, pos, s) = Landing(l, pos, s, j)
    BY <1>4
  <2>2. /\ NewAt(l, j - 1) \in Nat /\ NewAt(l, j) \in Nat /\ j \in 0 .. Len(l.ops)
        /\ Goes(l, j - 1, l.ops[j])
    BY <1>1, <2>1, StopsBetween
  <2>3. NewAt(l, j) <= l.after
    <3>1. Len(l.ops) \in 0 .. Len(l.ops)
      BY <1>1
    <3>2. QED
      BY <1>1, <2>2, <3>1, OpsGoForward, Zenon
  <2>4. \A s \in Assocs : Landing(l, pos, s, j) \in NewAt(l, j - 1) .. NewAt(l, j)
    BY <1>1, <2>1, LandingInRange
  <2>5. MapPos(l, pos, assoc) \in 0 .. l.after
    BY <1>1, <2>1, <2>2, <2>3, <2>4
  <2>6. PICK op : op = l.ops[j]
    OBVIOUS
  <2>7. Goes(l, j - 1, op)
    BY <2>2, <2>6
  <2>8. CASE op.kind = "insert"
    <3>1. op.text \in Text /\ Len(op.text) \in Nat
      BY <2>7, <2>8 DEF Goes
    <3>2. \A s \in Assocs :
            MapPos(l, pos, s) = NewAt(l, j - 1) + InsertOffset(s, op.text)
      BY <2>1, <2>6, <2>8 DEF Landing
    <3>3. /\ InsertOffset(assoc, op.text) \in 0 .. Len(op.text)
          /\ InsertOffset("before", op.text) = 0
          /\ InsertOffset("after", op.text) = Len(op.text)
      BY <3>1, InsertOffsets
    <3>4. QED
      BY <1>2, <2>2, <2>5, <3>1, <3>2, <3>3
  <2>9. CASE op.kind # "insert"
    <3>1. op.kind = "retain" \/ op.kind = "delete"
      BY <2>7, <2>9 DEF Goes
    <3>2. \A s \in Assocs : MapPos(l, pos, s) = MapPos(l, pos, assoc)
      BY <2>1, <2>6, <3>1 DEF Landing
    <3>3. QED
      BY <1>1, <1>2, <2>5, <3>2
  <2>10. QED
    BY <2>8, <2>9
<1>5. QED
  BY <1>3, <1>4, MapPosLands

\* Positions do not overtake one another.
LEMMA MapPosKeepsOrder ==
  ASSUME NEW l, IsList(l), NEW p \in 0 .. l.pre, NEW q \in 0 .. l.pre, p < q,
         NEW s \in Assocs, NEW t \in Assocs
  PROVE  MapPos(l, p, s) <= MapPos(l, q, t)
<1>1. /\ l.after \in Nat /\ l.pre \in Nat /\ p \in Nat /\ q \in Nat /\ Len(l.ops) \in Nat
  BY ListEnds
<1>2. MapPos(l, p, s) \in 0 .. l.after /\ MapPos(l, q, t) \in 0 .. l.after
  BY MapPosFits
<1>3. CASE MapPos(l, q, t) = l.after
  BY <1>1, <1>2, <1>3
<1>4. CASE MapPos(l, q, t) # l.after
  <2>1. PICK j \in 1 .. Len(l.ops) :
             StopsAt(l, p, j) /\ MapPos(l, p, s) = Landing(l, p, s, j)
    <3>1. p # l.pre
      BY <1>1
    <3>2. QED
      BY <3>1, MapPosLands
  <2>2. PICK m \in 1 .. Len(l.ops) :
             StopsAt(l, q, m) /\ MapPos(l, q, t) = Landing(l, q, t, m)
    BY <1>4, MapPosLands
  <2>3. /\ j \in 0 .. Len(l.ops) /\ j - 1 \in 0 .. Len(l.ops)
        /\ OldAt(l, j - 1) \in Nat /\ NewAt(l, j - 1) \in Nat /\ NewAt(l, j) \in Nat
        /\ OldAt(l, j - 1) <= p /\ Goes(l, j - 1, l.ops[j])
        /\ Landing(l, p, s, j) \in NewAt(l, j - 1) .. NewAt(l, j)
    <3>1. Landing(l, p, s, j) \in NewAt(l, j - 1) .. NewAt(l, j)
      BY <1>1, <2>1, LandingInRange
    <3>2. j - 1 \in 0 .. Len(l.ops)
      BY <1>1
    <3>3. /\ j \in 0 .. Len(l.ops)
          /\ OldAt(l, j - 1) \in Nat /\ NewAt(l, j - 1) \in Nat /\ NewAt(l, j) \in Nat
          /\ OldAt(l, j - 1) <= p /\ Goes(l, j - 1, l.ops[j])
      BY <1>1, <2>1, StopsBetween
    <3>4. QED
      BY <3>1, <3>2, <3>3
  <2>4. /\ m \in 0 .. Len(l.ops) /\ m - 1 \in 0 .. Len(l.ops)
        /\ NewAt(l, m - 1) \in Nat /\ NewAt(l, m) \in Nat /\ OldAt(l, m) \in Nat
        /\ q <= OldAt(l, m)
        /\ Landing(l, q, t, m) \in NewAt(l, m - 1) .. NewAt(l, m)
    <3>1. Landing(l, q, t, m) \in NewAt(l, m - 1) .. NewAt(l, m)
      BY <1>1, <2>2, LandingInRange
    <3>2. m - 1 \in 0 .. Len(l.ops)
      BY <1>1
    <3>3. /\ m \in 0 .. Len(l.ops)
          /\ NewAt(l, m - 1) \in Nat /\ NewAt(l, m) \in Nat /\ OldAt(l, m) \in Nat
          /\ q <= OldAt(l, m)
      BY <1>1, <2>2, StopsBetween
    <3>4. QED
      BY <3>1, <3>2, <3>3
  <2>5. CASE j < m
    <3>1. j \in 0 .. m - 1
      BY <2>3, <2>4, <2>5
    <3>2. NewAt(l, j) <= NewAt(l, m - 1)
      BY <2>4, <3>1, OpsGoForward, Zenon
    <3>3. QED
      BY <2>1, <2>2, <2>3, <2>4, <3>2
  <2>6. CASE m < j
    <3>1. m \in 0 .. j - 1
      BY <2>3, <2>4, <2>6
    <3>2. OldAt(l, m) <= OldAt(l, j - 1)
      BY <2>3, <3>1, OpsGoForward
    <3>3. QED
      BY <1>1, <2>3, <2>4, <3>2
  <2>7. CASE j = m
    <3>1. PICK op : op = l.ops[j]
      OBVIOUS
    <3>2. op.kind \in {"retain", "delete", "insert"}
      BY <2>3, <3>1 DEF Goes
    <3>3. CASE op.kind = "retain"
      <4>1. Landing(l, p, s, j) = NewAt(l, j - 1) + p - OldAt(l, j - 1)
        BY <3>1, <3>3 DEF Landing
      <4>2. Landing(l, q, t, m) = NewAt(l, j - 1) + q - OldAt(l, j - 1)
        BY <2>7, <3>1, <3>3 DEF Landing
      <4>3. QED
        BY <1>1, <2>1, <2>2, <2>3, <4>1, <4>2
    <3>4. CASE op.kind = "delete"
      <4>1. Landing(l, p, s, j) = NewAt(l, j - 1) /\ Landing(l, q, t, m) = NewAt(l, j - 1)
        BY <2>7, <3>1, <3>4 DEF Landing
      <4>2. QED
        BY <2>1, <2>2, <2>3, <4>1
    <3>5. CASE op.kind = "insert"
      <4>1. p = OldAt(l, j - 1) /\ q = OldAt(l, j - 1)
        BY <2>1, <2>2, <2>7, <3>1, <3>5 DEF StopsAt
      <4>2. QED
        BY <1>1, <4>1
    <3>6. QED
      BY <3>2, <3>3, <3>4, <3>5
  <2>8. QED
    BY <2>3, <2>4, <2>5, <2>6, <2>7
<1>5. QED
  BY <1>3, <1>4

\* Where a position stands that stops at an operation, the k + 1st.
StandsAt(l, pos, k, op) ==
  /\ op = l.ops[k + 1] /\ Goes(l, k, op) /\ Passes(l, pos, k)
  /\ OldAt(l, k + 1) \in Nat /\ NewAt(l, k + 1) \in Nat
  /\ OldAt(l, k) <= pos /\ pos <= OldAt(l, k + 1)
  /\ \A s \in Assocs : MapPos(l, pos, s) \in NewAt(l, k) .. NewAt(l, k + 1)
  /\ op.kind = "retain" =>
       /\ pos < OldAt(l, k + 1) \/ k + 1 = Len(l.ops)
       /\ \A s \in Assocs : MapPos(l, pos, s) = NewAt(l, k) + pos - OldAt(l, k)
  /\ op.kind = "delete" =>
       /\ pos < OldAt(l, k + 1)
       /\ \A s \in Assocs : MapPos(l, pos, s) = NewAt(l, k)
  /\ op.kind = "insert" =>
       /\ pos = OldAt(l, k)
       /\ MapPos(l, pos, "before") = NewAt(l, k)
       /\ MapPos(l, pos, "after") = NewAt(l, k + 1)

LEMMA MapPosStands ==
  ASSUME NEW l, IsList(l), NEW pos \in 0 .. l.pre
  PROVE  \/ /\ Passes(l, pos, Len(l.ops)) /\ pos = l.pre
            /\ \A s \in Assocs : MapPos(l, pos, s) = l.after
         \/ \E k \in 0 .. Len(l.ops) - 1 : \E op \in Operation : StandsAt(l, pos, k, op)
<1>1. /\ Len(l.ops) \in Nat /\ l.pre \in Nat /\ pos \in Nat
  BY ListEnds
<1>2. CASE \E j \in 1 .. Len(l.ops) :
             /\ StopsAt(l, pos, j)
             /\ \A s \in Assocs : MapPos(l, pos, s) = Landing(l, pos, s, j)
  <2>1. PICK j \in 1 .. Len(l.ops) :
             /\ StopsAt(l, pos, j)
             /\ \A s \in Assocs : MapPos(l, pos, s) = Landing(l, pos, s, j)
    BY <1>2
  <2>2. \A s \in Assocs : Landing(l, pos, s, j) \in NewAt(l, j - 1) .. NewAt(l, j)
    BY <1>1, <2>1, LandingInRange
  <2>3. /\ OldAt(l, j - 1) \in Nat /\ OldAt(l, j) \in Nat
        /\ NewAt(l, j - 1) \in Nat /\ NewAt(l, j) \in Nat
        /\ Goes(l, j - 1, l.ops[j])
        /\ OldAt(l, j - 1) <= pos /\ pos <= OldAt(l, j)
    BY <1>1, <2>1, StopsBetween
  <2>4. PICK k \in 0 .. Len(l.ops) - 1 : k = j - 1 /\ j = k + 1
    <3>1. j - 1 \in 0 .. Len(l.ops) - 1 /\ j = (j - 1) + 1
      BY <1>1
    <3>2. QED
      BY <3>1, Zenon
  <2>5. PICK op \in Operation : op = l.ops[j]
    BY <2>4, PrefixAppends, Zenon
  <2>6. /\ op = l.ops[k + 1] /\ Goes(l, k, op) /\ Passes(l, pos, k)
        /\ OldAt(l, k + 1) \in Nat /\ NewAt(l, k + 1) \in Nat
        /\ OldAt(l, k) <= pos /\ pos <= OldAt(l, k + 1)
    BY <2>1, <2>3, <2>4, <2>5 DEF StopsAt
  <2>7. \A s \in Assocs : MapPos(l, pos, s) \in NewAt(l, k) .. NewAt(l, k + 1)
    BY <2>1, <2>2, <2>4
  <2>8. ASSUME op.kind = "retain"
        PROVE  /\ pos < OldAt(l, k + 1) \/ k + 1 = Len(l.ops)
               /\ \A s \in Assocs : MapPos(l, pos, s) = NewAt(l, k) + pos - OldAt(l, k)
    <3>1. l.ops[j].kind = "retain"
      BY <2>5, <2>8
    <3>2. pos < OldAt(l, j) \/ j = Len(l.ops)
      BY <2>1, <3>1 DEF StopsAt
    <3>3. \A s \in Assocs : Landing(l, pos, s, j) = NewAt(l, j - 1) + pos - OldAt(l, j - 1)
      BY <3>1 DEF Landing
    <3>4. QED
      BY <2>1, <2>4, <3>2, <3>3
  <2>9. ASSUME op.kind = "delete"
        PROVE  /\ pos < OldAt(l, k + 1)
               /\ \A s \in Assocs : MapPos(l, pos, s) = NewAt(l, k)
    <3>1. l.ops[j].kind = "delete"
      BY <2>5, <2>9
    <3>2. pos < OldAt(l, j)
      BY <2>1, <3>1 DEF StopsAt
    <3>3. \A s \in Assocs : Landing(l, pos, s, j) = NewAt(l, j - 1)
      BY <3>1 DEF Landing
    <3>4. QED
      BY <2>1, <2>4, <3>2, <3>3
  <2>10. ASSUME op.kind = "insert"
         PROVE  /\ pos = OldAt(l, k)
                /\ MapPos(l, pos, "before") = NewAt(l, k)
                /\ MapPos(l, pos, "after") = NewAt(l, k + 1)
    <3>1. l.ops[j].kind = "insert"
      BY <2>5, <2>10
    <3>2. pos = OldAt(l, j - 1)
      BY <2>1, <3>1 DEF StopsAt
    <3>3. \A s \in Assocs :
            Landing(l, pos, s, j) = NewAt(l, j - 1) + InsertOffset(s, op.text)
      BY <2>5, <3>1 DEF Landing
    <3>4. /\ op.text \in Text /\ Len(op.text) \in Nat /\ NewAt(l, k) \in Nat
          /\ NewAt(l, k + 1) = NewAt(l, k) + Len(op.text)
      BY <2>6, <2>10 DEF Goes
    <3>5. InsertOffset("before", op.text) = 0 /\ InsertOffset("after", op.text) = Len(op.text)
      BY <3>4, InsertOffsets
    <3>6. "before" \in Assocs /\ "after" \in Assocs
      BY DEF Assocs
    <3>7. /\ MapPos(l, pos, "before") = NewAt(l, k) + InsertOffset("before", op.text)
          /\ MapPos(l, pos, "after") = NewAt(l, k) + InsertOffset("after", op.text)
      BY <2>1, <2>4, <3>3, <3>6
    <3>8. QED
      BY <2>4, <3>2, <3>4, <3>5, <3>7
  <2>11. StandsAt(l, pos, k, op)
    BY <2>6, <2>7, <2>8, <2>9, <2>10 DEF StandsAt
  <2>12. QED
    BY <2>11
<1>3. QED
  BY <1>2, MapPosLands

\* What is retained stays on its side of a position.
LEMMA RetainedStays ==
  ASSUME NEW l, IsList(l), NEW pos \in 0 .. l.pre, NEW s \in Assocs,
         NEW i \in 1 .. l.after, Meaning(l.ops).post[i] \notin Char
  PROVE  Meaning(l.ops).post[i] <= pos <=> i <= MapPos(l, pos, s)
<1> DEFINE post == Meaning(l.ops).post
<1>1. /\ Len(l.ops) \in Nat /\ l.pre \in Nat /\ l.after \in Nat /\ pos \in Nat
  BY ListEnds
<1>2. /\ post[i] \in 1 .. l.pre
      /\ \A k \in 0 .. Len(l.ops) :
           /\ i <= NewAt(l, k) => post[i] <= OldAt(l, k)
           /\ i > NewAt(l, k) => post[i] > OldAt(l, k)
  <2>1. 0 \in 0 .. Len(l.ops)
    BY <1>1
  <2>2. QED
    BY <2>1, RetainedApart
<1>3. CASE pos = l.pre /\ MapPos(l, pos, s) = l.after
  BY <1>1, <1>2, <1>3
<1>4. ASSUME NEW k \in 0 .. Len(l.ops) - 1, NEW op \in Operation, StandsAt(l, pos, k, op)
      PROVE  post[i] <= pos <=> i <= MapPos(l, pos, s)
  <2>1. k \in 0 .. Len(l.ops) /\ k + 1 \in 0 .. Len(l.ops)
    BY <1>1
  <2>2. /\ OldAt(l, k) \in Nat /\ NewAt(l, k) \in Nat
        /\ OldAt(l, k + 1) \in Nat /\ NewAt(l, k + 1) \in Nat
        /\ OldAt(l, k) <= pos /\ pos <= OldAt(l, k + 1)
        /\ MapPos(l, pos, s) \in NewAt(l, k) .. NewAt(l, k + 1)
        /\ Goes(l, k, op) /\ op = l.ops[k + 1]
    BY <1>4 DEF StandsAt, Goes
  <2>3. /\ i <= NewAt(l, k) => post[i] <= OldAt(l, k)
        /\ i > NewAt(l, k + 1) => post[i] > OldAt(l, k + 1)
    BY <1>2, <2>1
  <2>4. PICK v \in Nat, m \in Nat, o \in Nat, w \in Nat, oo \in Nat, ww \in Nat :
             /\ v = post[i] /\ m = MapPos(l, pos, s)
             /\ o = OldAt(l, k) /\ w = NewAt(l, k)
             /\ oo = OldAt(l, k + 1) /\ ww = NewAt(l, k + 1)
    <3>1. post[i] \in Nat
      BY <1>1, <1>2
    <3>2. MapPos(l, pos, s) \in Nat
      BY <2>2
    <3>3. QED
      BY <2>2, <3>1, <3>2, Zenon
  <2>5. /\ o <= pos /\ pos <= oo /\ w <= m /\ m <= ww /\ i \in Nat
        /\ (i <= w => v <= o) /\ (i > ww => v > oo)
    <3>1. o <= pos /\ pos <= oo /\ m \in w .. ww
      BY <2>2, <2>4
    <3>2. (i <= w => v <= o) /\ (i > ww => v > oo)
      BY <2>3, <2>4
    <3>3. QED
      BY <1>1, <2>4, <3>1, <3>2
  <2>6. ASSUME i > w, i <= ww
        PROVE  v <= pos <=> i <= m
    <3>1. i \in NewAt(l, k) + 1 .. NewAt(l, k + 1)
      BY <2>4, <2>5, <2>6
    <3>2. op.kind # "insert"
      BY <2>2, <3>1, InsertedAt, Zenon
    <3>3. op.kind # "delete"
      <4>1. op.kind = "delete" => ww = w
        BY <2>2, <2>4 DEF Goes
      <4>2. ww # w
        BY <2>5, <2>6
      <4>3. QED
        BY <4>1, <4>2
    <3>4. op.kind = "retain"
      BY <2>2, <3>2, <3>3 DEF Goes
    <3>5. op.n \in Nat /\ ww = w + op.n
      BY <2>2, <2>4, <3>4, Zenon DEF Goes
    <3>6. PICK d \in 1 .. op.n : i = w + d
      <4>1. \A x, y, n \in Nat :
              x > y /\ x <= y + n => x - y \in 1 .. n /\ x = y + (x - y)
        OBVIOUS
      <4>2. i - w \in 1 .. op.n /\ i = w + (i - w)
        BY <2>5, <2>6, <3>5, <4>1
      <4>3. QED
        BY <4>2, Zenon
    <3>7. v = o + d
      BY <2>2, <2>4, <3>4, <3>6, RetainedAt, Zenon
    <3>8. m = w + pos - o
      BY <1>4, <2>4, <3>4 DEF StandsAt
    <3>9. d \in Nat /\ pos \in Nat
      BY <1>1, <3>5
    <3>10. QED
      BY <3>6, <3>7, <3>8, <3>9
  <2>7. v <= pos <=> i <= m
    BY <1>1, <2>5, <2>6
  <2>8. QED
    BY <2>4, <2>7
<1>5. QED
  BY <1>3, <1>4, MapPosStands

\* What is deleted is nowhere.
LEMMA DeletedIsNowhere ==
  ASSUME NEW l, IsList(l), NEW k \in 0 .. Len(l.ops) - 1, NEW op, Goes(l, k, op),
         op.kind = "delete", NEW p \in Nat, p > OldAt(l, k), p <= OldAt(l, k + 1),
         NEW i \in 1 .. l.after
  PROVE  Meaning(l.ops).post[i] # p
<1>1. SUFFICES ASSUME Meaning(l.ops).post[i] = p
               PROVE  FALSE
  OBVIOUS
<1>2. Len(l.ops) \in Nat /\ l.after \in Nat
  BY ListEnds
<1>3. k \in 0 .. Len(l.ops) /\ k + 1 \in 0 .. Len(l.ops)
  BY <1>2
<1>4. Meaning(l.ops).post[i] \notin Char
  BY <1>1, NumbersAreNotChars
<1>5. /\ OldAt(l, k) \in Nat /\ NewAt(l, k) \in Nat /\ NewAt(l, k + 1) = NewAt(l, k)
      /\ OldAt(l, k + 1) \in Nat
  BY <1>3, OpsGoForward DEF Goes
<1>6. i <= NewAt(l, k) => p <= OldAt(l, k)
  BY <1>1, <1>3, <1>4, RetainedApart
<1>7. i > NewAt(l, k + 1) => p > OldAt(l, k + 1)
  BY <1>1, <1>3, <1>4, RetainedApart
<1>8. ~(p <= OldAt(l, k)) /\ ~(p > OldAt(l, k + 1))
  BY <1>5
<1>9. QED
  BY <1>2, <1>5, <1>6, <1>7, <1>8

\* The letter a number stands for is kept.
Kept(l, p) == \E i \in 1 .. l.after : Meaning(l.ops).post[i] = p

\* Where a position comes to the end of an operation that inserts nothing, the
\* letter before it is the one that was there.
LEMMA BoundaryKeeps ==
  ASSUME NEW l, IsList(l), NEW k \in 0 .. Len(l.ops), NEW p \in Nat,
         p = OldAt(l, k), KindAt(l.ops, k) # "insert",
         p # 0 => Kept(l, p)
  PROVE  IF p = 0 THEN NewAt(l, k) = 0 ELSE Meaning(l.ops).post[NewAt(l, k)] = p
<1>1. Len(l.ops) \in Nat /\ OldAt(l, 0) = 0 /\ NewAt(l, 0) = 0
  BY ListEnds
<1>2. CASE k = 0
  BY <1>1, <1>2
<1>3. CASE k # 0
  <2>1. PICK j \in 0 .. Len(l.ops) - 1 : k = j + 1
    <3>1. k - 1 \in 0 .. Len(l.ops) - 1 /\ k = (k - 1) + 1
      BY <1>1, <1>3
    <3>2. QED
      BY <3>1, Zenon
  <2>2. PICK op : op = l.ops[j + 1]
    OBVIOUS
  <2>3. Goes(l, j, op)
    BY <2>2, OpGoes
  <2>4. op.kind # "insert"
    <3>1. KindAt(l.ops, k) = l.ops[k].kind
      BY <1>1, <1>3 DEF KindAt
    <3>2. QED
      BY <2>1, <2>2, <3>1
  <2>5. CASE op.kind = "retain"
    <3>1. op.n \in 1 .. op.n
      BY <2>3, <2>5 DEF Goes
    <3>2. Meaning(l.ops).post[NewAt(l, j) + op.n] = OldAt(l, j) + op.n
      BY <2>2, <2>5, <3>1, RetainedAt
    <3>3. /\ OldAt(l, k) = OldAt(l, j) + op.n /\ NewAt(l, k) = NewAt(l, j) + op.n
          /\ OldAt(l, j) \in Nat /\ op.n \in Nat \ {0}
      BY <2>1, <2>3, <2>5 DEF Goes
    <3>4. QED
      BY <3>2, <3>3
  <2>6. CASE op.kind = "delete"
    <3>1. /\ OldAt(l, k) = OldAt(l, j) + op.n
          /\ OldAt(l, j) \in Nat /\ op.n \in Nat \ {0}
      BY <2>1, <2>3, <2>6 DEF Goes
    <3>2. p > OldAt(l, j) /\ p <= OldAt(l, j + 1) /\ p # 0
      BY <2>1, <3>1
    <3>3. PICK i \in 1 .. l.after : Meaning(l.ops).post[i] = p
      BY <3>2 DEF Kept
    <3>4. QED
      BY <2>3, <2>6, <3>2, <3>3, DeletedIsNowhere, Zenon
  <2>7. QED
    BY <2>3, <2>4, <2>5, <2>6 DEF Goes
<1>4. QED
  BY <1>2, <1>3

\* The letter before a position stays before it ...
LEMMA LetterBefore ==
  ASSUME NEW l, IsList(l), NEW p \in 0 .. l.pre, p # 0 => Kept(l, p)
  PROVE  LET q == MapPos(l, p, "before")
         IN  IF p = 0 THEN q = 0 ELSE Meaning(l.ops).post[q] = p
<1>1. /\ Len(l.ops) \in Nat /\ l.pre \in Nat /\ p \in Nat /\ "before" \in Assocs
      /\ OldAt(l, Len(l.ops)) = l.pre /\ NewAt(l, Len(l.ops)) = l.after
  BY ListEnds DEF Assocs
<1>2. PICK q : q = MapPos(l, p, "before")
  OBVIOUS
<1>3. ASSUME Passes(l, p, Len(l.ops)), p = l.pre, q = l.after
      PROVE  IF p = 0 THEN q = 0 ELSE Meaning(l.ops).post[q] = p
  <2>1. Len(l.ops) \in 0 .. Len(l.ops)
    BY <1>1
  <2>2. KindAt(l.ops, Len(l.ops)) # "insert"
    BY <1>1, <1>3 DEF Passes
  <2>3. IF p = 0 THEN NewAt(l, Len(l.ops)) = 0
                 ELSE Meaning(l.ops).post[NewAt(l, Len(l.ops))] = p
    BY <1>1, <1>3, <2>1, <2>2, BoundaryKeeps
  <2>4. QED
    BY <1>1, <1>3, <2>3
<1>4. ASSUME NEW k \in 0 .. Len(l.ops) - 1, NEW op \in Operation, StandsAt(l, p, k, op)
      PROVE  IF p = 0 THEN q = 0 ELSE Meaning(l.ops).post[q] = p
  <2>1. /\ op = l.ops[k + 1] /\ Goes(l, k, op) /\ Passes(l, p, k)
        /\ OldAt(l, k) <= p /\ p <= OldAt(l, k + 1)
        /\ OldAt(l, k) \in Nat /\ NewAt(l, k) \in Nat /\ OldAt(l, k + 1) \in Nat
    BY <1>4 DEF StandsAt, Goes
  <2>2. k \in 0 .. Len(l.ops)
    BY <1>1
  <2>3. ASSUME p = OldAt(l, k), q = NewAt(l, k)
        PROVE  IF p = 0 THEN q = 0 ELSE Meaning(l.ops).post[q] = p
    <3>1. KindAt(l.ops, k) # "insert"
      BY <2>1, <2>3 DEF Passes
    <3>2. QED
      BY <2>2, <2>3, <3>1, BoundaryKeeps
  <2>4. CASE op.kind = "retain"
    <3>1. q = NewAt(l, k) + p - OldAt(l, k)
      BY <1>1, <1>2, <1>4, <2>4 DEF StandsAt
    <3>2. CASE p = OldAt(l, k)
      <4>1. q = NewAt(l, k)
        BY <1>1, <2>1, <3>1, <3>2
      <4>2. QED
        BY <2>3, <3>2, <4>1
    <3>3. CASE p # OldAt(l, k)
      <4>1. op.n \in Nat /\ OldAt(l, k + 1) = OldAt(l, k) + op.n
        BY <2>1, <2>4 DEF Goes
      <4>2. PICK o \in Nat, w \in Nat, n \in Nat :
                 o = OldAt(l, k) /\ w = NewAt(l, k) /\ n = op.n
        BY <2>1, <4>1
      <4>3. o <= p /\ p # o /\ p <= o + n /\ q = w + p - o
        BY <2>1, <3>1, <3>3, <4>1, <4>2, Zenon
      <4>4. PICK d \in 1 .. n : d = p - o
        BY <1>1, <4>3
      <4>5. o + d = p /\ q = w + d /\ p # 0
        BY <1>1, <4>3, <4>4
      <4>6. Meaning(l.ops).post[w + d] = o + d
        BY <2>1, <2>4, <4>2, RetainedAt, Zenon
      <4>7. QED
        BY <4>5, <4>6
    <3>4. QED
      BY <3>2, <3>3
  <2>5. CASE op.kind = "delete"
    <3>1. q = NewAt(l, k)
      BY <1>1, <1>2, <1>4, <2>5 DEF StandsAt
    <3>2. p = OldAt(l, k)
      <4>1. SUFFICES ASSUME p # OldAt(l, k)
                     PROVE  FALSE
        OBVIOUS
      <4>2. p > OldAt(l, k) /\ p # 0
        BY <1>1, <2>1, <4>1
      <4>3. PICK i \in 1 .. l.after : Meaning(l.ops).post[i] = p
        BY <4>2 DEF Kept
      <4>4. QED
        BY <1>1, <2>1, <2>5, <4>2, <4>3, DeletedIsNowhere, Zenon
    <3>3. QED
      BY <2>3, <3>1, <3>2
  <2>6. CASE op.kind = "insert"
    <3>1. q = NewAt(l, k) /\ p = OldAt(l, k)
      BY <1>2, <1>4, <2>6 DEF StandsAt
    <3>2. QED
      BY <2>3, <3>1
  <2>7. QED
    BY <2>1, <2>4, <2>5, <2>6 DEF Goes
<1>5. IF p = 0 THEN q = 0 ELSE Meaning(l.ops).post[q] = p
  <2>1. (Passes(l, p, Len(l.ops)) /\ p = l.pre /\ q = l.after)
        \/ \E k \in 0 .. Len(l.ops) - 1 : \E op \in Operation : StandsAt(l, p, k, op)
    BY <1>1, <1>2, MapPosStands
  <2>2. QED
    BY <1>3, <1>4, <2>1
<1>6. QED
  BY <1>2, <1>5

\* ... and the letter behind it behind it.
LEMMA LetterBehind ==
  ASSUME NEW l, IsList(l), Tidy(l.ops), NEW p \in 0 .. l.pre,
         p # l.pre => Kept(l, p + 1)
  PROVE  LET r == MapPos(l, p, "after")
         IN  IF p = l.pre THEN r = l.after ELSE Meaning(l.ops).post[r + 1] = p + 1
<1>1. /\ Len(l.ops) \in Nat /\ l.pre \in Nat /\ p \in Nat /\ "after" \in Assocs
      /\ OldAt(l, Len(l.ops)) = l.pre /\ NewAt(l, Len(l.ops)) = l.after
  BY ListEnds DEF Assocs
<1>2. PICK r : r = MapPos(l, p, "after")
  OBVIOUS
<1>3. ASSUME NEW k \in 0 .. Len(l.ops) - 1, NEW op, op = l.ops[k + 1], Goes(l, k, op),
             op.kind = "delete", OldAt(l, k) <= p, p < OldAt(l, k + 1), p # l.pre
      PROVE  FALSE
  <2>1. OldAt(l, k) \in Nat /\ OldAt(l, k + 1) \in Nat
    BY <1>3 DEF Goes
  <2>2. p + 1 > OldAt(l, k) /\ p + 1 <= OldAt(l, k + 1) /\ p + 1 \in Nat
    <3>1. \A x, y \in Nat : x <= p => p + 1 > x /\ (p < y => p + 1 <= y)
      BY <1>1
    <3>2. QED
      BY <1>1, <1>3, <2>1, <3>1
  <2>3. PICK i \in 1 .. l.after : Meaning(l.ops).post[i] = p + 1
    BY <1>3 DEF Kept
  <2>4. QED
    BY <1>3, <2>2, <2>3, DeletedIsNowhere
<1>4. ASSUME NEW k \in 0 .. Len(l.ops) - 1, NEW op \in Operation, StandsAt(l, p, k, op)
      PROVE  IF p = l.pre THEN r = l.after ELSE Meaning(l.ops).post[r + 1] = p + 1
  <2>1. /\ op = l.ops[k + 1] /\ Goes(l, k, op)
        /\ OldAt(l, k) <= p /\ p <= OldAt(l, k + 1)
        /\ OldAt(l, k) \in Nat /\ NewAt(l, k) \in Nat
        /\ OldAt(l, k + 1) \in Nat /\ NewAt(l, k + 1) \in Nat
    BY <1>4 DEF StandsAt, Goes
  <2>2. OldAt(l, k + 1) <= l.pre
    <3>1. k + 1 \in 0 .. Len(l.ops) /\ Len(l.ops) \in 0 .. Len(l.ops)
      BY <1>1
    <3>2. QED
      BY <1>1, <3>1, OpsGoForward, Zenon
  <2>3. CASE op.kind = "retain"
    <3>1. r = NewAt(l, k) + p - OldAt(l, k)
      BY <1>1, <1>2, <1>4, <2>3 DEF StandsAt
    <3>2. /\ op.n \in Nat /\ OldAt(l, k + 1) = OldAt(l, k) + op.n
          /\ NewAt(l, k + 1) = NewAt(l, k) + op.n
      BY <2>1, <2>3 DEF Goes
    <3>3. CASE p < OldAt(l, k + 1)
      <4>1. PICK o \in Nat, w \in Nat, n \in Nat :
                 o = OldAt(l, k) /\ w = NewAt(l, k) /\ n = op.n
        BY <2>1, <3>2
      <4>2. o <= p /\ p < o + n /\ r = w + p - o
        BY <2>1, <3>1, <3>2, <3>3, <4>1, Zenon
      <4>3. PICK d \in 1 .. n : d = (p - o) + 1
        BY <1>1, <4>2
      <4>4. o + d = p + 1 /\ r + 1 = w + d
        BY <1>1, <4>2, <4>3
      <4>5. Meaning(l.ops).post[w + d] = o + d
        BY <2>1, <2>3, <4>1, RetainedAt, Zenon
      <4>6. p # l.pre
        BY <1>1, <2>1, <2>2, <3>3
      <4>7. QED
        BY <4>4, <4>5, <4>6
    <3>4. CASE ~(p < OldAt(l, k + 1))
      <4>1. k + 1 = Len(l.ops) /\ p = OldAt(l, k + 1)
        BY <1>1, <1>4, <2>1, <2>3, <3>4 DEF StandsAt
      <4>2. p = l.pre /\ NewAt(l, k + 1) = l.after
        BY <1>1, <4>1
      <4>3. r = NewAt(l, k + 1)
        <5>1. PICK o \in Nat, w \in Nat, n \in Nat :
                   o = OldAt(l, k) /\ w = NewAt(l, k) /\ n = op.n
          BY <2>1, <3>2
        <5>2. r = w + p - o /\ p = o + n /\ NewAt(l, k + 1) = w + n
          BY <3>1, <3>2, <4>1, <5>1
        <5>3. QED
          BY <5>1, <5>2
      <4>4. QED
        BY <4>2, <4>3
    <3>5. QED
      BY <3>3, <3>4
  <2>4. CASE op.kind = "delete"
    <3>1. p < OldAt(l, k + 1)
      BY <1>4, <2>4 DEF StandsAt
    <3>2. p # l.pre
      BY <1>1, <2>1, <2>2, <3>1
    <3>3. QED
      BY <1>3, <2>1, <2>4, <3>1, <3>2, Zenon
  <2>5. CASE op.kind = "insert"
    <3>1. r = NewAt(l, k + 1) /\ p = OldAt(l, k + 1)
      BY <1>2, <1>4, <2>1, <2>5 DEF StandsAt, Goes
    <3>2. CASE k + 1 = Len(l.ops)
      <4>1. p = l.pre /\ r = l.after
        BY <1>1, <3>1, <3>2
      <4>2. QED
        BY <4>1
    <3>3. CASE k + 1 # Len(l.ops)
      <4>1. PICK j \in 0 .. Len(l.ops) - 1 : j = k + 1 /\ j \in 1 .. Len(l.ops) - 1
        BY <1>1, <3>3
      <4>2. PICK next : next = l.ops[j + 1]
        OBVIOUS
      <4>3. Goes(l, j, next)
        BY <4>1, <4>2, OpGoes
      <4>4. next.kind # "insert"
        <5>1. Follows(l.ops[j].kind, l.ops[j + 1].kind)
          BY <4>1 DEF Tidy
        <5>2. QED
          BY <2>1, <2>5, <4>1, <4>2, <5>1, Zenon DEF Follows
      <4>5. OldAt(l, j) = p /\ NewAt(l, j) = r
        BY <3>1, <4>1
      <4>6. /\ OldAt(l, j + 1) \in Nat /\ OldAt(l, j + 1) <= l.pre
        <5>1. j + 1 \in 0 .. Len(l.ops) /\ Len(l.ops) \in 0 .. Len(l.ops)
          BY <1>1
        <5>2. QED
          BY <1>1, <5>1, OpsGoForward, Zenon
      <4>7. CASE next.kind = "retain"
        <5>1. next.n \in Nat \ {0} /\ OldAt(l, j + 1) = p + next.n
          BY <4>3, <4>5, <4>7 DEF Goes
        <5>2. 1 \in 1 .. next.n
          BY <5>1
        <5>3. Meaning(l.ops).post[NewAt(l, j) + 1] = OldAt(l, j) + 1
          BY <4>2, <4>7, <5>2, RetainedAt
        <5>4. p # l.pre
          BY <1>1, <4>6, <5>1
        <5>5. QED
          BY <4>5, <5>3, <5>4
      <4>8. CASE next.kind = "delete"
        <5>1. next.n \in Nat \ {0} /\ OldAt(l, j + 1) = p + next.n
          BY <4>3, <4>5, <4>8 DEF Goes
        <5>2. p # l.pre /\ OldAt(l, j) <= p /\ p < OldAt(l, j + 1)
          BY <1>1, <4>5, <4>6, <5>1
        <5>3. QED
          BY <1>3, <4>2, <4>3, <4>8, <5>2
      <4>9. QED
        BY <4>3, <4>4, <4>7, <4>8 DEF Goes
    <3>4. QED
      BY <3>2, <3>3
  <2>6. QED
    BY <2>1, <2>3, <2>4, <2>5 DEF Goes
<1>5. IF p = l.pre THEN r = l.after ELSE Meaning(l.ops).post[r + 1] = p + 1
  <2>1. (p = l.pre /\ r = l.after)
        \/ \E k \in 0 .. Len(l.ops) - 1 : \E op \in Operation : StandsAt(l, p, k, op)
    BY <1>1, <1>2, MapPosStands
  <2>2. QED
    BY <1>4, <2>1
<1>6. QED
  BY <1>2, <1>5

\* The ends of a selection keep their order.
LEMMA RangesKeepOrder ==
  ASSUME NEW l, IsList(l), NEW p \in 0 .. l.pre, NEW q \in 0 .. l.pre, p <= q
  PROVE  LET to == MapRange(l, [anchor |-> p, head |-> q])
             fro == MapRange(l, [anchor |-> q, head |-> p])
         IN  to.anchor <= to.head /\ fro.head <= fro.anchor
<1>1. /\ l.pre \in Nat /\ p \in Nat /\ q \in Nat /\ l.after \in Nat
      /\ "before" \in Assocs /\ "after" \in Assocs
  BY ListEnds DEF Assocs
<1> DEFINE to == MapRange(l, [anchor |-> p, head |-> q])
           fro == MapRange(l, [anchor |-> q, head |-> p])
<1>2. CASE p = q
  <2>1. ~(p < q) /\ ~(q < p)
    BY <1>1, <1>2
  <2>2. /\ to.anchor = MapPos(l, p, "after") /\ to.head = MapPos(l, p, "after")
        /\ fro.anchor = MapPos(l, p, "after") /\ fro.head = MapPos(l, p, "after")
    BY <1>1, <1>2, <2>1 DEF MapRange
  <2>3. MapPos(l, p, "after") \in 0 .. l.after
    BY <1>1, MapPosFits
  <2>4. MapPos(l, p, "after") <= MapPos(l, p, "after")
    BY <1>1, <2>3
  <2>5. QED
    BY <2>2, <2>4
<1>3. CASE p # q
  <2>1. p < q /\ ~(q < p) /\ ~(q <= p)
    BY <1>1, <1>3
  <2>2. /\ to.anchor = MapPos(l, p, "after") /\ to.head = MapPos(l, q, "before")
        /\ fro.anchor = MapPos(l, q, "before") /\ fro.head = MapPos(l, p, "after")
    BY <2>1 DEF MapRange
  <2>3. MapPos(l, p, "after") <= MapPos(l, q, "before")
    BY <1>1, <2>1, MapPosKeepsOrder
  <2>4. QED
    BY <2>2, <2>3
<1>4. QED
  BY <1>2, <1>3

LEMMA PositionsAreFollowed ==
  ComposeInv => PositionsFollow
<1> SUFFICES ASSUME ComposeInv, Starting
             PROVE  PositionsFollow
  BY DEF PositionsFollow
<1> DEFINE post == Meaning(a.ops).post
           pos == 0 .. a.pre
           Undeleted(p) == \A i \in {p, p + 1} \cap 1 .. a.pre :
                             \E j \in DOMAIN post : post[j] = i
<1>1. IsList(a) /\ Tidy(a.ops)
  BY DEF ComposeInv
<1>2. /\ a.pre \in Nat /\ a.after \in Nat /\ DOMAIN post = 1 .. a.after
  <2>1. IsChangeSet(Meaning(a.ops)) /\ a.after = Len(post)
    BY <1>1, MeaningIsChangeSet DEF IsList
  <2>2. DOMAIN post = 1 .. Len(post)
    BY <2>1, ChangeSetParts
  <2>3. QED
    BY <1>1, <2>1, <2>2, ListEnds
<1>3. ASSUME NEW p \in pos, NEW s \in Assocs
      PROVE  LET q == MapPos(a, p, s)
             IN  /\ q \in 0 .. a.after
                 /\ \A i \in DOMAIN post :
                      post[i] \notin Char => (post[i] <= p <=> i <= q)
                 /\ p < a.pre => q <= MapPos(a, p + 1, s)
                 /\ MapPos(a, p, "before") <= q /\ q <= MapPos(a, p, "after")
  <2>1. /\ MapPos(a, p, s) \in 0 .. a.after
        /\ MapPos(a, p, "before") <= MapPos(a, p, s)
        /\ MapPos(a, p, s) <= MapPos(a, p, "after")
    BY <1>1, MapPosFits
  <2>2. \A i \in DOMAIN post :
          post[i] \notin Char => (post[i] <= p <=> i <= MapPos(a, p, s))
    BY <1>1, <1>2, RetainedStays
  <2>3. ASSUME p < a.pre
        PROVE  MapPos(a, p, s) <= MapPos(a, p + 1, s)
    <3>1. PICK q \in 0 .. a.pre : q = p + 1 /\ p < q
      BY <1>2, <2>3
    <3>2. QED
      BY <1>1, <3>1, MapPosKeepsOrder
  <2>4. QED
    BY <2>1, <2>2, <2>3
<1>4. ASSUME NEW p \in pos, Undeleted(p)
      PROVE  LET q == MapPos(a, p, "before")
                 r == MapPos(a, p, "after")
             IN  /\ IF p = 0 THEN q = 0 ELSE post[q] = p
                 /\ IF p = a.pre THEN r = a.after ELSE post[r + 1] = p + 1
  <2>1. p # 0 => Kept(a, p)
    BY <1>2, <1>4 DEF Kept
  <2>2. p # a.pre => Kept(a, p + 1)
    BY <1>2, <1>4 DEF Kept
  <2> HIDE DEF post, pos
  <2>3. p \in 0 .. a.pre
    BY DEF pos
  <2>4. LET q == MapPos(a, p, "before") IN IF p = 0 THEN q = 0 ELSE post[q] = p
    BY <1>1, <2>1, <2>3, LetterBefore DEF post
  <2>5. LET r == MapPos(a, p, "after")
        IN  IF p = a.pre THEN r = a.after ELSE post[r + 1] = p + 1
    BY <1>1, <2>2, <2>3, LetterBehind DEF post
  <2>6. QED
    BY <2>4, <2>5
<1>5. \A p, q \in pos :
        p <= q => LET to == MapRange(a, [anchor |-> p, head |-> q])
                      fro == MapRange(a, [anchor |-> q, head |-> p])
                  IN  to.anchor <= to.head /\ fro.head <= fro.anchor
  BY <1>1, RangesKeepOrder
<1>6. QED
  BY <1>3, <1>4, <1>5 DEF PositionsFollow

\* A caret or a selection that is carried over an edit keeps its neighbours
\* (ChangeSet.MapPos, ChangeSet.MapRange): for every text and every change
\* set that is built over it, what is retained stays on its side of a position,
\* carets do not overtake one another, and the ends of a selection do not
\* change places.
THEOREM PositionsFollowHolds ==
  ComposeSpec => []PositionsFollow
BY ComposeInvHolds, PositionsAreFollowed, PTL

=============================================================================
