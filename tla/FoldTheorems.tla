---------------------------- MODULE FoldTheorems ----------------------------
(***************************************************************************)
(* Folding a sequence from the left, for an operation that is instantiated *)
(* (what the operation does is nowhere looked at).  The fold is defined by *)
(* a function over all sets of indices that takes the largest index first: *)
(* that there is such a function is what the rest follows from.            *)
(***************************************************************************)
EXTENDS SequencesExt, InductionTheorems

CONSTANT Op(_, _, _)    \* the context, what there is so far, the next element

Fold(c, b, s) == FoldLeft(LAMBDA x, e : Op(c, x, e), b, s)

\* A function is the fold of every set of indices.
Folds(c, b, s, D, f) ==
  f = [r \in SUBSET D |-> IF r = {} THEN b ELSE Op(c, f[r \ {Max(r)}], s[Max(r)])]

LEMMA FoldIsChosen ==
  ASSUME NEW c, NEW b, NEW s
  PROVE  Fold(c, b, s) = (CHOOSE f : Folds(c, b, s, DOMAIN s, f))[DOMAIN s]
BY DEF Fold, Folds, FoldLeft, MapThenFoldSet

LEMMA MaxOfInterval ==
  ASSUME NEW k \in Nat, NEW r \in SUBSET (1 .. k + 1), k + 1 \in r
  PROVE  Max(r) = k + 1
<1>1. \A y \in r : k + 1 >= y
  OBVIOUS
<1>2. \A x \in r : (\A y \in r : x >= y) => x = k + 1
  OBVIOUS
<1>3. QED
  BY <1>1, <1>2 DEF Max

LEMMA FoldExists ==
  ASSUME NEW c, NEW b, NEW s, NEW n \in Nat
  PROVE  \E f : Folds(c, b, s, 1 .. n, f)
<1> DEFINE T == {k \in 0 .. n : \E f : Folds(c, b, s, 1 .. k, f)}
<1>1. 0 \in T
  <2> DEFINE f == [r \in SUBSET {} |-> b]
  <2>1. 1 .. 0 = {}
    OBVIOUS
  <2>2. Folds(c, b, s, {}, f)
    BY DEF Folds
  <2>3. QED
    BY <2>1, <2>2
<1>2. ASSUME NEW k \in 0 .. n, k < n, k \in T
      PROVE  k + 1 \in T
  <2>1. PICK f : Folds(c, b, s, 1 .. k, f)
    BY <1>2
  <2> DEFINE g == [r \in SUBSET (1 .. k + 1) |->
                     IF r = {} THEN b
                     ELSE Op(c, f[r \ {Max(r)}], s[Max(r)])]
  <2>2. ASSUME NEW r \in SUBSET (1 .. k)
        PROVE  g[r] = f[r]
    <3>1. r \in SUBSET (1 .. k + 1)
      OBVIOUS
    <3>2. f[r] = IF r = {} THEN b ELSE Op(c, f[r \ {Max(r)}], s[Max(r)])
      BY <2>1, Zenon DEF Folds
    <3>3. QED
      BY <3>1, <3>2
  <2>3. ASSUME NEW r \in SUBSET (1 .. k + 1), r # {}
        PROVE  r \ {Max(r)} \in SUBSET (1 .. k)
    <3>1. CASE k + 1 \in r
      <4>1. Max(r) = k + 1
        BY <3>1, MaxOfInterval
      <4>2. QED
        BY <4>1
    <3>2. CASE k + 1 \notin r
      <4>1. \A i \in r : i \in 1 .. k + 1 /\ i # k + 1
        BY <3>2
      <4>2. \A i \in r : i \in 1 .. k
        BY <4>1
      <4>3. QED
        BY <4>2
    <3>3. QED
      BY <3>1, <3>2
  <2>4. \A r \in SUBSET (1 .. k + 1) :
          g[r] = IF r = {} THEN b ELSE Op(c, g[r \ {Max(r)}], s[Max(r)])
    <3> HIDE DEF g
    <3>1. ASSUME NEW r \in SUBSET (1 .. k + 1)
          PROVE  g[r] = IF r = {} THEN b ELSE Op(c, f[r \ {Max(r)}], s[Max(r)])
      BY DEF g
    <3>2. ASSUME NEW r \in SUBSET (1 .. k + 1), r # {}
          PROVE  g[r \ {Max(r)}] = f[r \ {Max(r)}]
      BY <2>2, <2>3, <3>2
    <3>3. QED
      BY <3>1, <3>2
  <2>5. Folds(c, b, s, 1 .. k + 1, g)
    <3>1. g = [r \in SUBSET (1 .. k + 1) |-> g[r]]
      OBVIOUS
    <3> HIDE DEF g
    <3>2. QED
      BY <2>4, <3>1, Zenon DEF Folds
  <2> HIDE DEF g
  <2>6. QED
    BY <1>2, <2>5
<1>3. n \in T
  <2> HIDE DEF T
  <2>1. \A k \in 0 .. n : k \in T
    BY <1>1, <1>2, UpTo
  <2>2. QED
    BY <2>1
<1>4. QED
  BY <1>3

\* Two folds of functions that agree up to an index agree there.
LEMMA FoldsAgree ==
  ASSUME NEW c, NEW b, NEW s, NEW t, NEW n \in Nat, NEW f, NEW g,
         NEW m \in Nat, n <= m,
         Folds(c, b, s, 1 .. n, f), Folds(c, b, t, 1 .. m, g),
         \A i \in 1 .. n : s[i] = t[i]
  PROVE  f[1 .. n] = g[1 .. n]
<1> DEFINE T == {k \in 0 .. n : f[1 .. k] = g[1 .. k]}
<1>0. 1 .. 0 = {}
  OBVIOUS
<1>1. 0 \in T
  <2>1. {} \in SUBSET (1 .. n) /\ {} \in SUBSET (1 .. m)
    OBVIOUS
  <2>2. f[{}] = b
    BY <2>1, Zenon DEF Folds
  <2>3. g[{}] = b
    BY <2>1, Zenon DEF Folds
  <2>4. QED
    BY <1>0, <2>2, <2>3
<1>2. ASSUME NEW k \in 0 .. n, k < n, k \in T
      PROVE  k + 1 \in T
  <2>0. k \in Nat /\ k + 1 <= n
    BY <1>2
  <2>1. /\ 1 .. k + 1 \in SUBSET (1 .. n) /\ 1 .. k + 1 \in SUBSET (1 .. m)
        /\ k + 1 \in 1 .. k + 1 /\ 1 .. k + 1 # {} /\ k + 1 \in 1 .. n
    <3>1. \A i \in 1 .. k + 1 : i \in 1 .. n /\ i \in 1 .. m
      BY <2>0
    <3>2. k + 1 \in 1 .. k + 1 /\ k + 1 \in 1 .. n
      BY <2>0
    <3>3. QED
      BY <3>1, <3>2
  <2>2. Max(1 .. k + 1) = k + 1
    BY <2>1, MaxOfInterval
  <2>3. (1 .. k + 1) \ {k + 1} = 1 .. k
    OBVIOUS
  <2>4. f[1 .. k + 1] = Op(c, f[1 .. k], s[k + 1])
    <3>1. f[1 .. k + 1] = Op(c, f[(1 .. k + 1) \ {Max(1 .. k + 1)}], s[Max(1 .. k + 1)])
      BY <2>1, Zenon DEF Folds
    <3>2. QED
      BY <2>2, <2>3, <3>1
  <2>5. g[1 .. k + 1] = Op(c, g[1 .. k], t[k + 1])
    <3>1. g[1 .. k + 1] = Op(c, g[(1 .. k + 1) \ {Max(1 .. k + 1)}], t[Max(1 .. k + 1)])
      BY <2>1, Zenon DEF Folds
    <3>2. QED
      BY <2>2, <2>3, <3>1
  <2>6. QED
    BY <1>2, <2>1, <2>4, <2>5
<1>3. n \in T
  <2> HIDE DEF T
  <2>1. \A k \in 0 .. n : k \in T
    BY <1>1, <1>2, UpTo
  <2>2. QED
    BY <2>1
<1>4. QED
  BY <1>3

\* Nothing is folded.
THEOREM FoldNone ==
  ASSUME NEW c, NEW b
  PROVE  Fold(c, b, << >>) = b
<1>1. DOMAIN << >> = 1 .. 0
  OBVIOUS
<1>2. PICK f : Folds(c, b, << >>, 1 .. 0, f)
  BY FoldExists, Zenon
<1> DEFINE g == CHOOSE g : Folds(c, b, << >>, DOMAIN << >>, g)
<1>3. Folds(c, b, << >>, 1 .. 0, g)
  BY <1>1, <1>2
<1> HIDE DEF g
<1>4. 1 .. 0 = {} /\ {} \in SUBSET (1 .. 0)
  OBVIOUS
<1>5. g[{}] = b
  BY <1>3, <1>4, Zenon DEF Folds
<1>6. Fold(c, b, << >>) = g[DOMAIN << >>]
  BY FoldIsChosen DEF g
<1>7. QED
  BY <1>1, <1>4, <1>5, <1>6

\* The last element comes last.
THEOREM FoldAppend ==
  ASSUME NEW c, NEW b, NEW S, NEW s \in Seq(S), NEW e \in S
  PROVE  Fold(c, b, Append(s, e)) = Op(c, Fold(c, b, s), e)
<1> DEFINE t == Append(s, e)
           n == Len(s)
           f == CHOOSE h : Folds(c, b, s, DOMAIN s, h)
           g == CHOOSE h : Folds(c, b, t, DOMAIN t, h)
<1>1. n \in Nat /\ DOMAIN s = 1 .. n /\ DOMAIN t = 1 .. n + 1
  OBVIOUS
<1>2. t[n + 1] = e /\ \A i \in 1 .. n : s[i] = t[i]
  OBVIOUS
<1>3. Folds(c, b, s, 1 .. n, f)
  <2>1. \E h : Folds(c, b, s, 1 .. n, h)
    BY <1>1, FoldExists, Zenon
  <2> HIDE DEF n
  <2>2. QED
    BY <1>1, <2>1, Zenon
<1>4. Folds(c, b, t, 1 .. n + 1, g)
  <2>0. n + 1 \in Nat
    BY <1>1
  <2>1. \E h : Folds(c, b, t, 1 .. n + 1, h)
    BY <2>0, FoldExists, Zenon
  <2> HIDE DEF n, t
  <2>2. QED
    BY <1>1, <2>1, Zenon
<1>5. Fold(c, b, s) = f[1 .. n] /\ Fold(c, b, t) = g[1 .. n + 1]
  <2>1. Fold(c, b, s) = f[DOMAIN s] /\ Fold(c, b, t) = g[DOMAIN t]
    BY FoldIsChosen, Zenon
  <2> HIDE DEF f, g, n, t
  <2>2. QED
    BY <1>1, <2>1
<1> HIDE DEF f, g
<1>6. f[1 .. n] = g[1 .. n]
  <2>1. n + 1 \in Nat /\ n <= n + 1
    BY <1>1
  <2> HIDE DEF n, t
  <2>2. QED
    BY <1>1, <1>2, <1>3, <1>4, <2>1, FoldsAgree
<1> HIDE DEF n, t
<1>7. g[1 .. n + 1] = Op(c, g[1 .. n], t[n + 1])
  <2>0. n + 1 \in 1 .. n + 1
    BY <1>1
  <2>1. /\ 1 .. n + 1 \in SUBSET (1 .. n + 1) /\ n + 1 \in 1 .. n + 1
        /\ 1 .. n + 1 # {}
    BY <2>0
  <2>2. Max(1 .. n + 1) = n + 1
    BY <1>1, <2>1, MaxOfInterval
  <2>3. (1 .. n + 1) \ {n + 1} = 1 .. n
    BY <1>1
  <2>4. g[1 .. n + 1] = Op(c, g[(1 .. n + 1) \ {Max(1 .. n + 1)}], t[Max(1 .. n + 1)])
    BY <1>4, <2>1, Zenon DEF Folds
  <2>5. QED
    BY <2>2, <2>3, <2>4
<1>8. QED
  BY <1>2, <1>5, <1>6, <1>7 DEF t

LEMMA AppendInside ==
  ASSUME NEW S, NEW s \in Seq(S), NEW t \in Seq(S), NEW e \in S
  PROVE  s \o t \in Seq(S) /\ s \o Append(t, e) = Append(s \o t, e)
<1>1. s \o t \in Seq(S) /\ Append(t, e) \in Seq(S)
  OBVIOUS
<1>2. s \o Append(t, e) \in Seq(S) /\ Append(s \o t, e) \in Seq(S)
  BY <1>1
<1>3. Len(s \o Append(t, e)) = Len(Append(s \o t, e))
  BY <1>1
<1>4. \A i \in 1 .. Len(s \o Append(t, e)) :
        (s \o Append(t, e))[i] = Append(s \o t, e)[i]
  BY <1>1
<1>5. QED
  BY <1>1, <1>2, <1>3, <1>4

LEMMA FoldConcatOne ==
  ASSUME NEW c, NEW b, NEW S, NEW s \in Seq(S), NEW t \in Seq(S), NEW e \in S,
         Fold(c, b, s \o t) = Fold(c, Fold(c, b, s), t)
  PROVE  Fold(c, b, s \o Append(t, e)) = Fold(c, Fold(c, b, s), Append(t, e))
<1>1. s \o t \in Seq(S) /\ s \o Append(t, e) = Append(s \o t, e)
  BY AppendInside
<1>2. Fold(c, b, Append(s \o t, e)) = Op(c, Fold(c, b, s \o t), e)
  <2>1. \A u \in Seq(S) : Fold(c, b, Append(u, e)) = Op(c, Fold(c, b, u), e)
    BY FoldAppend
  <2>2. QED
    BY <1>1, <2>1, Zenon
<1>3. Fold(c, Fold(c, b, s), Append(t, e)) = Op(c, Fold(c, Fold(c, b, s), t), e)
  BY FoldAppend
<1>4. QED
  BY <1>1, <1>2, <1>3

\* The elements of a sequence can be folded in two goes.
THEOREM FoldConcat ==
  ASSUME NEW c, NEW b, NEW S, NEW s \in Seq(S), NEW t \in Seq(S)
  PROVE  Fold(c, b, s \o t) = Fold(c, Fold(c, b, s), t)
<1> DEFINE First(k) == SubSeq(t, 1, k)
           T == {k \in 0 .. Len(t) :
                   Fold(c, b, s \o First(k)) = Fold(c, Fold(c, b, s), First(k))}
<1>0. Len(t) \in Nat
  OBVIOUS
<1>1. 0 \in T
  <2>1. First(0) = << >> /\ s \o << >> = s
    OBVIOUS
  <2>2. Fold(c, Fold(c, b, s), << >>) = Fold(c, b, s)
    BY FoldNone
  <2> HIDE DEF First
  <2>3. QED
    <3>1. Fold(c, b, s \o First(0)) = Fold(c, Fold(c, b, s), First(0))
      BY <2>1, <2>2, Zenon
    <3>2. QED
      BY <1>0, <3>1
<1>2. ASSUME NEW k \in 0 .. Len(t), k < Len(t), k \in T
      PROVE  k + 1 \in T
  <2>1. /\ First(k) \in Seq(S) /\ t[k + 1] \in S
        /\ First(k + 1) = Append(First(k), t[k + 1])
    BY <1>2
  <2>2. Fold(c, b, s \o First(k)) = Fold(c, Fold(c, b, s), First(k))
    BY <1>2
  <2>3. Fold(c, b, s \o First(k + 1)) = Fold(c, Fold(c, b, s), First(k + 1))
    <3> HIDE DEF First, T
    <3>1. \A u \in Seq(S), e \in S :
            Fold(c, b, s \o u) = Fold(c, Fold(c, b, s), u)
              => Fold(c, b, s \o Append(u, e)) = Fold(c, Fold(c, b, s), Append(u, e))
      BY FoldConcatOne
    <3>2. QED
      BY <2>1, <2>2, <3>1, Zenon
  <2>5. k + 1 \in 0 .. Len(t)
    BY <1>0, <1>2
  <2>6. QED
    BY <2>3, <2>5
<1>3. Len(t) \in T
  <2> HIDE DEF T
  <2>1. \A k \in 0 .. Len(t) : k \in T
    BY <1>0, <1>1, <1>2, UpTo
  <2>2. QED
    BY <1>0, <2>1
<1>4. First(Len(t)) = t
  OBVIOUS
<1>5. QED
  BY <1>3, <1>4

=============================================================================
