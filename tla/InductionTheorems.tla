-------------------------- MODULE InductionTheorems --------------------------
(***************************************************************************)
(* Induction over an interval of numbers, as a fact about sets of numbers: *)
(* a set that holds 0 and is closed under successor holds the interval.    *)
(* The same over sequences and what can be appended to them.               *)
(***************************************************************************)
EXTENDS Integers, Sequences, WellFoundedInduction, TLAPS

\* The order of the natural numbers as a well-founded relation.
LEMMA OrderIsWellFounded ==
  \E R : /\ IsWellFoundedOn(R, Nat)
         /\ \A x, y \in Nat : <<y, x>> \in R <=> y < x
<1>1. IsWellFoundedOn(OpToRel(<, Nat), Nat)
  BY NatLessThanWellFounded
<1>2. \A x, y \in Nat : <<y, x>> \in OpToRel(<, Nat) <=> y < x
  BY DEF OpToRel
<1>3. QED
  BY <1>1, <1>2, Zenon

\* A set of natural numbers that is not empty has a least one.
LEMMA LeastNumber ==
  ASSUME NEW T, T \subseteq Nat, T # {}
  PROVE  \E x \in T : \A y \in T : x <= y
<1>1. PICK R : /\ IsWellFoundedOn(R, Nat)
               /\ \A x, y \in Nat : <<y, x>> \in R <=> y < x
  BY OrderIsWellFounded, Zenon
<1>2. \E x \in T : \A y \in T : ~(<<y, x>> \in R)
  BY <1>1, WFMin
<1>3. PICK x \in T : \A y \in T : ~(<<y, x>> \in R)
  BY <1>2
<1>4. ASSUME NEW y \in T
      PROVE  x <= y
  <2>1. x \in Nat /\ y \in Nat
    OBVIOUS
  <2>2. ~(<<y, x>> \in R)
    BY <1>3
  <2>3. ~(y < x)
    BY <2>1, <2>2, <1>1, Zenon
  <2>4. QED
    BY <2>1, <2>3
<1>5. QED
  BY <1>4

\* Induction over 0 .. m.
LEMMA UpTo ==
  ASSUME NEW m \in Nat, NEW T,
         0 \in T,
         \A k \in 0 .. m : k < m /\ k \in T => k + 1 \in T
  PROVE  \A k \in 0 .. m : k \in T
<1> DEFINE Bad == {k \in 0 .. m : k \notin T}
<1>1. SUFFICES ASSUME Bad # {}
               PROVE  FALSE
  OBVIOUS
<1>0. Bad \subseteq Nat
  OBVIOUS
<1>2. PICK n \in Bad : \A k \in Bad : n <= k
  <2> HIDE DEF Bad
  <2>1. QED
    BY <1>0, <1>1, LeastNumber
<1>3. n \in 0 .. m /\ n \notin T /\ n # 0
  BY <1>2
<1>4. n - 1 \in 0 .. m /\ n - 1 < m /\ n - 1 \notin Bad
  BY <1>2, <1>3
<1>5. n - 1 \in T
  BY <1>4
<1>6. (n - 1) + 1 \in T /\ (n - 1) + 1 = n
  BY <1>3, <1>4, <1>5
<1>7. QED
  BY <1>3, <1>6

\* Induction over the sequences of elements of S.
LEMMA OverSequences ==
  ASSUME NEW S, NEW Good,
         << >> \in Good,
         \A s \in Seq(S), e \in S : s \in Good => Append(s, e) \in Good
  PROVE  \A s \in Seq(S) : s \in Good
<1>1. SUFFICES ASSUME NEW s \in Seq(S)
               PROVE  s \in Good
  OBVIOUS
<1> DEFINE T == {k \in 0 .. Len(s) : SubSeq(s, 1, k) \in Good}
<1>2. Len(s) \in Nat
  OBVIOUS
<1>3. 0 \in T
  <2>1. SubSeq(s, 1, 0) = << >>
    OBVIOUS
  <2>2. SubSeq(s, 1, 0) \in Good
    BY <2>1, Zenon
  <2>3. QED
    BY <1>2, <2>2
<1>4. ASSUME NEW k \in 0 .. Len(s), k < Len(s), k \in T
      PROVE  k + 1 \in T
  <2>1. /\ SubSeq(s, 1, k) \in Seq(S) /\ s[k + 1] \in S
        /\ SubSeq(s, 1, k + 1) = Append(SubSeq(s, 1, k), s[k + 1])
    BY <1>4
  <2>2. SubSeq(s, 1, k) \in Good
    BY <1>4
  <2>3. SubSeq(s, 1, k + 1) \in Good
    BY <2>1, <2>2, Zenon
  <2>4. k + 1 \in 0 .. Len(s)
    BY <1>2, <1>4
  <2>5. QED
    BY <2>3, <2>4
<1>5. Len(s) \in T
  <2> HIDE DEF T
  <2>1. \A k \in 0 .. Len(s) : k \in T
    BY <1>2, <1>3, <1>4, UpTo
  <2>2. QED
    BY <1>2, <2>1
<1>6. SubSeq(s, 1, Len(s)) = s
  OBVIOUS
<1>7. QED
  BY <1>5, <1>6

=============================================================================
