------------------------- MODULE InterfaceTheorems --------------------------
(***************************************************************************)
(* The dispatch of keys: what is pending adds up, and a macro recorded     *)
(* without a slip replays to the same commands, however many keys are      *)
(* typed and whatever they are bound to.  The popups: a completion list    *)
(* has the items of the text, however many answers and timers come when.   *)
(***************************************************************************)
EXTENDS KeyInput, Completion, InductionTheorems, FiniteSetTheorems

-----------------------------------------------------------------------------
(* Sequences                                                               *)

LEMMA FrontAndLast ==
  ASSUME NEW S, NEW s \in Seq(S), s # << >>
  PROVE  /\ Front(s) \in Seq(S) /\ Last(s) \in S
         /\ Len(s) \in Nat \ {0} /\ Len(Front(s)) = Len(s) - 1
         /\ s = Append(Front(s), Last(s)) /\ Last(s) = s[Len(s)]
         /\ \A i \in 1 .. Len(s) - 1 : Front(s)[i] = s[i]
<1>1. Len(s) \in Nat \ {0}
  OBVIOUS
<1>2. /\ Front(s) \in Seq(S) /\ Last(s) \in S
      /\ Len(Front(s)) = Len(s) - 1 /\ Last(s) = s[Len(s)]
      /\ \A i \in 1 .. Len(s) - 1 : Front(s)[i] = s[i]
  <2>1. Last(s) = s[Len(s)] /\ s[Len(s)] \in S
    BY <1>1 DEF Last
  <2>2. SubSeq(s, 1, Len(s) - 1) \in Seq(S) /\ Len(SubSeq(s, 1, Len(s) - 1)) = Len(s) - 1
    <3>1. Len(s) - 1 \in Nat /\ Len(s) - 1 <= Len(s)
      BY <1>1
    <3>2. \A n \in Nat : n <= Len(s) => Len(SubSeq(s, 1, n)) = n
      OBVIOUS
    <3>3. \A n \in Nat : n <= Len(s) => SubSeq(s, 1, n) \in Seq(S)
      OBVIOUS
    <3>4. QED
      BY <3>1, <3>2, <3>3
  <2>3. \A i \in 1 .. Len(s) - 1 : SubSeq(s, 1, Len(s) - 1)[i] = s[i]
    BY <1>1
  <2>4. QED
    BY <2>1, <2>2, <2>3 DEF Front
<1>3. ASSUME NEW f \in Seq(S), NEW e \in S, Len(s) = Len(f) + 1, s[Len(s)] = e,
             \A i \in 1 .. Len(f) : f[i] = s[i]
      PROVE  s = Append(f, e)
  <2>1. Append(f, e) \in Seq(S) /\ Len(Append(f, e)) = Len(s)
    BY <1>3
  <2>2. \A i \in 1 .. Len(s) : s[i] = Append(f, e)[i]
    BY <1>3
  <2>3. QED
    BY <2>1, <2>2
<1>4. s = Append(Front(s), Last(s))
  <2>1. Len(s) = Len(Front(s)) + 1 /\ s[Len(s)] = Last(s)
        /\ \A i \in 1 .. Len(Front(s)) : Front(s)[i] = s[i]
    BY <1>1, <1>2
  <2>2. QED
    BY <1>2, <1>3, <2>1
<1>5. QED
  BY <1>1, <1>2, <1>4

LEMMA AppendedFront ==
  ASSUME NEW S, NEW s \in Seq(S), NEW e \in S
  PROVE  /\ Append(s, e) \in Seq(S) /\ Len(Append(s, e)) = Len(s) + 1
         /\ Append(s, e) # << >>
         /\ Front(Append(s, e)) = s /\ Last(Append(s, e)) = e
BY DEF Front, Last

-----------------------------------------------------------------------------
(* Digits                                                                  *)

InputKinds == {"digit", "key"}
DigitPlaces(s) == {i \in DOMAIN s : s[i] = "digit"}
DigitsOf(s) == Cardinality(DigitPlaces(s))
ScaleOf(s) == FoldLeft(TimesTen, 1, s)

ScaleStep(c, n, input) == TimesTen(n, input)
Scaling == INSTANCE FoldTheorems WITH Op <- ScaleStep

LEMMA ScaleIsFold ==
  ASSUME NEW s
  PROVE  ScaleOf(s) = Scaling!Fold(0, 1, s)
BY DEF ScaleOf, ScaleStep, Scaling!Fold, Scaling!FoldLeft, Scaling!MapThenFoldSet,
       Scaling!Max, FoldLeft, MapThenFoldSet, Max

LEMMA ScaleAppends ==
  /\ ScaleOf(<< >>) = 1
  /\ \A s \in Seq(InputKinds), e \in InputKinds :
       ScaleOf(Append(s, e)) = TimesTen(ScaleOf(s), e)
<1>1. ScaleOf(<< >>) = 1
  BY ScaleIsFold, Scaling!FoldNone
<1>2. ASSUME NEW s \in Seq(InputKinds), NEW e \in InputKinds
      PROVE  ScaleOf(Append(s, e)) = TimesTen(ScaleOf(s), e)
  BY ScaleIsFold, Scaling!FoldAppend DEF ScaleStep
<1>3. QED
  BY <1>1, <1>2

LEMMA DigitsAppend ==
  /\ DigitsOf(<< >>) = 0
  /\ \A s \in Seq(InputKinds), e \in InputKinds :
       DigitsOf(Append(s, e)) = DigitsOf(s) + IF e = "digit" THEN 1 ELSE 0
<1>1. DigitsOf(<< >>) = 0
  <2>1. DigitPlaces(<< >>) = {}
    BY DEF DigitPlaces
  <2>2. QED
    BY <2>1, FS_EmptySet DEF DigitsOf
<1>2. ASSUME NEW s \in Seq(InputKinds), NEW e \in InputKinds
      PROVE  DigitsOf(Append(s, e)) = DigitsOf(s) + IF e = "digit" THEN 1 ELSE 0
  <2> DEFINE n == Len(s) + 1
  <2>1. /\ DigitPlaces(s) \subseteq 1 .. Len(s) /\ n \notin DigitPlaces(s)
    BY DEF DigitPlaces
  <2>2. IsFiniteSet(DigitPlaces(s))
    <3>1. Len(s) \in Nat
      OBVIOUS
    <3>2. IsFiniteSet(1 .. Len(s))
      BY <3>1, FS_Interval
    <3>3. QED
      BY <2>1, <3>2, FS_Subset
  <2>3. DigitsOf(s) \in Nat
    BY <2>2, FS_CardinalityType DEF DigitsOf
  <2>4. CASE e = "digit"
    <3>1. DigitPlaces(Append(s, e)) = DigitPlaces(s) \cup {n}
      BY <2>4 DEF DigitPlaces
    <3> HIDE DEF n
    <3>2. Cardinality(DigitPlaces(s) \cup {n}) = Cardinality(DigitPlaces(s)) + 1
      BY <2>1, <2>2, FS_AddElement
    <3>3. QED
      BY <2>4, <3>1, <3>2 DEF DigitsOf
  <2>5. CASE e # "digit"
    <3>1. DigitPlaces(Append(s, e)) = DigitPlaces(s)
      BY <2>5 DEF DigitPlaces
    <3>2. QED
      BY <2>3, <2>5, <3>1 DEF DigitsOf
  <2>6. QED
    BY <2>4, <2>5
<1>3. QED
  BY <1>1, <1>2

\* The scale is one, or a multiple of ten, as there are digits or not.
ScaleFits(s) ==
  /\ DigitsOf(s) \in 0 .. Len(s) /\ ScaleOf(s) \in Nat \ {0}
  /\ IF DigitsOf(s) = 0 THEN ScaleOf(s) = 1 ELSE \E q \in Nat : ScaleOf(s) = 10 * q

LEMMA ScaleIsOfDigits ==
  \A s \in Seq(InputKinds) : ScaleFits(s)
<1> DEFINE Good == {s \in Seq(InputKinds) : ScaleFits(s)}
<1>1. << >> \in Good
  <2>1. ScaleOf(<< >>) = 1 /\ DigitsOf(<< >>) = 0 /\ Len(<< >>) = 0
        /\ << >> \in Seq(InputKinds)
    BY ScaleAppends, DigitsAppend
  <2>2. QED
    BY <2>1 DEF ScaleFits
<1>2. ASSUME NEW s \in Seq(InputKinds), NEW e \in InputKinds, s \in Good
      PROVE  Append(s, e) \in Good
  <2>1. /\ ScaleOf(Append(s, e)) = TimesTen(ScaleOf(s), e)
        /\ DigitsOf(Append(s, e)) = DigitsOf(s) + IF e = "digit" THEN 1 ELSE 0
    BY ScaleAppends, DigitsAppend
  <2>2. ScaleFits(s) /\ Len(s) \in Nat
    BY <1>2
  <2>3. Append(s, e) \in Seq(InputKinds) /\ Len(Append(s, e)) = Len(s) + 1
    OBVIOUS
  <2>4. CASE e = "digit"
    <3>1. ScaleOf(Append(s, e)) = 10 * ScaleOf(s)
          /\ DigitsOf(Append(s, e)) = DigitsOf(s) + 1
      BY <2>1, <2>4 DEF TimesTen
    <3>2. QED
      BY <2>2, <2>3, <3>1 DEF ScaleFits
  <2>5. CASE e # "digit"
    <3>1. ScaleOf(Append(s, e)) = ScaleOf(s)
          /\ DigitsOf(Append(s, e)) = DigitsOf(s) + 0
      BY <2>1, <2>5 DEF TimesTen
    <3>2. QED
      BY <2>2, <2>3, <3>1 DEF ScaleFits
  <2>6. QED
    BY <2>4, <2>5
<1>3. QED
  <2> HIDE DEF Good
  <2>1. \A s \in Seq(InputKinds) : s \in Good
    BY <1>1, <1>2, OverSequences
  <2>2. QED
    BY <2>1 DEF Good

-----------------------------------------------------------------------------
(* What is pending                                                         *)

IsPending(ks) ==
  /\ ks = [path |-> ks.path, input |-> ks.input, count |-> ks.count,
           continuation |-> ks.continuation, frames |-> ks.frames]
  /\ ks.path \in Seq(Keys) /\ ks.input \in Seq(InputKinds) /\ ks.count \in Nat

Counted(ks) ==
  /\ Len(ks.input) = DigitsOf(ks.input) + Len(ks.path)
  /\ ks.count < ScaleOf(ks.input)
  /\ DigitsOf(ks.input) > 0 => ks.count * 10 >= ScaleOf(ks.input)

\* Each of the first n keys of a path leads on to a command.
Leads(m, path, n) ==
  \A i \in 1 .. n : IsKeyPrefix(m, SubSeq(path, 1, i))

\* What a command waited with before each of the characters it has read.
FramesOf(b, args) == [i \in 1 .. Len(args) |-> Waiting(b, SubSeq(args, 1, i - 1))]

\* A continuation stands behind the keys of its command and the characters it
\* has read, which Backspace finds as keys, and behind a frame for each of them.
Continues(m, ks, b, args) ==
  /\ b \in Bindings /\ args \in Seq(Keys) /\ Len(args) < b.reads
  /\ ks.continuation = Waiting(b, args) /\ ks.path = b.keys \o args
  /\ ks.frames = FramesOf(b, args)
  /\ Len(args) < Len(ks.input)
  /\ \A i \in Len(ks.input) - Len(args) .. Len(ks.input) : ks.input[i] = "key"
  /\ Leads(m, b.keys, Len(b.keys) - 1)

Waits(m, ks) ==
  IF ks.continuation = << >>
  THEN ks.frames = << >> /\ Leads(m, ks.path, Len(ks.path))
  ELSE \E b \in Bindings, args \in Seq(Keys) : Continues(m, ks, b, args)

PendingInv ==
  /\ IsPending(keys) /\ Counted(keys) /\ Waits(mode, keys)
  /\ typed \in Seq(Keys \cup Specials)

LEMMA IdleIsPending ==
  /\ IsPending(Idle) /\ Counted(Idle) /\ \A m : Waits(m, Idle)
<1>1. /\ Idle.path = << >> /\ Idle.input = << >> /\ Idle.count = 0
      /\ Idle.continuation = << >> /\ Idle.frames = << >>
      /\ Idle = [path |-> Idle.path, input |-> Idle.input, count |-> Idle.count,
                 continuation |-> Idle.continuation, frames |-> Idle.frames]
  BY DEF Idle
<1>2. << >> \in Seq(Keys) /\ << >> \in Seq(InputKinds) /\ Len(<< >>) = 0
  OBVIOUS
<1>3. IsPending(Idle)
  BY <1>1, <1>2 DEF IsPending
<1>4. Counted(Idle)
  BY <1>1, <1>2, ScaleAppends, DigitsAppend DEF Counted
<1>5. \A m : Waits(m, Idle)
  BY <1>1, <1>2 DEF Waits, Leads
<1>6. QED
  BY <1>3, <1>4, <1>5

\* A key that is read joins the path.
LEMMA KeyCounts ==
  ASSUME NEW ks, IsPending(ks), Counted(ks), NEW k \in Keys, NEW c, NEW f
  PROVE  LET after == [path |-> Append(ks.path, k), input |-> Append(ks.input, "key"),
                       count |-> ks.count, continuation |-> c, frames |-> f]
         IN  IsPending(after) /\ Counted(after)
<1> DEFINE path == Append(ks.path, k)
           input == Append(ks.input, "key")
           after == [path |-> path, input |-> input, count |-> ks.count,
                     continuation |-> c, frames |-> f]
<1>1. "key" \in InputKinds /\ "key" # "digit"
  BY DEF InputKinds
<1>2. /\ ks.path \in Seq(Keys) /\ ks.input \in Seq(InputKinds) /\ ks.count \in Nat
  BY DEF IsPending
<1>3. /\ path \in Seq(Keys) /\ Len(path) = Len(ks.path) + 1
      /\ input \in Seq(InputKinds) /\ Len(input) = Len(ks.input) + 1
  BY <1>1, <1>2
<1>4. DigitsOf(input) = DigitsOf(ks.input) /\ ScaleOf(input) = ScaleOf(ks.input)
  <2>1. DigitsOf(ks.input) \in Nat
    BY <1>2, ScaleIsOfDigits DEF ScaleFits
  <2>2. QED
    BY <1>1, <1>2, <2>1, ScaleAppends, DigitsAppend DEF TimesTen
<1>5. DigitsOf(ks.input) \in Nat /\ Len(ks.path) \in Nat
  BY <1>2, ScaleIsOfDigits DEF ScaleFits
<1> HIDE DEF path, input
<1>6. /\ after.path = path /\ after.input = input /\ after.count = ks.count
      /\ after = [path |-> after.path, input |-> after.input, count |-> after.count,
                  continuation |-> after.continuation, frames |-> after.frames]
  OBVIOUS
<1> HIDE DEF after
<1>7. IsPending(after)
  BY <1>2, <1>3, <1>6 DEF IsPending
<1>8. Counted(after)
  BY <1>3, <1>4, <1>5, <1>6 DEF Counted
<1>9. QED
  BY <1>7, <1>8 DEF after, path, input

LEMMA NumbersOfDigits ==
  ASSUME NEW k \in Digits
  PROVE  NumberOf[k] \in 0 .. 2 /\ (k # "0" => NumberOf[k] >= 1)
BY DEF NumberOf, Digits

\* A digit that is typed is in the count.
LEMMA DigitCounts ==
  ASSUME NEW ks, IsPending(ks), Counted(ks), NEW k \in Digits,
         k # "0" \/ ks.count > 0
  PROVE  LET after == [path |-> ks.path, input |-> Append(ks.input, "digit"),
                       count |-> ks.count * 10 + NumberOf[k],
                       continuation |-> ks.continuation, frames |-> ks.frames]
         IN  IsPending(after) /\ Counted(after)
<1> DEFINE input == Append(ks.input, "digit")
           count == ks.count * 10 + NumberOf[k]
           after == [path |-> ks.path, input |-> input, count |-> count,
                     continuation |-> ks.continuation, frames |-> ks.frames]
<1>1. "digit" \in InputKinds
  BY DEF InputKinds
<1>2. /\ ks.path \in Seq(Keys) /\ ks.input \in Seq(InputKinds) /\ ks.count \in Nat
      /\ Len(ks.path) \in Nat
  BY DEF IsPending
<1>3. input \in Seq(InputKinds) /\ Len(input) = Len(ks.input) + 1
  BY <1>1, <1>2
<1>4. DigitsOf(input) = DigitsOf(ks.input) + 1 /\ ScaleOf(input) = 10 * ScaleOf(ks.input)
  BY <1>1, <1>2, ScaleAppends, DigitsAppend DEF TimesTen
<1>5. ScaleFits(ks.input)
  BY <1>2, ScaleIsOfDigits
<1>6. /\ count \in Nat /\ count < 10 * ScaleOf(ks.input)
      /\ count >= ScaleOf(ks.input)
  <2>1. NumberOf[k] \in 0 .. 2 /\ (k # "0" => NumberOf[k] >= 1)
    BY NumbersOfDigits
  <2>2. ks.count < ScaleOf(ks.input) /\ ScaleOf(ks.input) \in Nat \ {0}
    BY <1>5 DEF Counted, ScaleFits
  <2>3. ks.count * 10 >= ScaleOf(ks.input) \/ ScaleOf(ks.input) = 1
    BY <1>5 DEF Counted, ScaleFits
  <2>4. \A c, t \in Nat, d \in 0 .. 2 :
          c < t => c * 10 + d \in Nat /\ c * 10 + d < 10 * t
    OBVIOUS
  <2>5. count \in Nat /\ count < 10 * ScaleOf(ks.input)
    BY <1>2, <2>1, <2>2, <2>4
  <2>6. count >= ScaleOf(ks.input)
    <3>1. NumberOf[k] >= 1 \/ ks.count > 0
      BY <2>1
    <3>2. \A c, t \in Nat, d \in 0 .. 2 :
            (c * 10 >= t \/ t = 1) /\ (d >= 1 \/ c > 0) => c * 10 + d >= t
      OBVIOUS
    <3>3. QED
      BY <1>2, <2>1, <2>2, <2>3, <3>1, <3>2
  <2>7. QED
    BY <2>5, <2>6
<1> HIDE DEF input, count
<1>7. /\ after.path = ks.path /\ after.input = input /\ after.count = count
      /\ after = [path |-> after.path, input |-> after.input, count |-> after.count,
                  continuation |-> after.continuation, frames |-> after.frames]
  OBVIOUS
<1> HIDE DEF after
<1>8. IsPending(after)
  BY <1>2, <1>3, <1>6, <1>7 DEF IsPending
<1>9. Counted(after)
  <2>1. Len(input) = DigitsOf(input) + Len(ks.path)
    <3>1. DigitsOf(ks.input) \in Nat
      BY <1>5 DEF ScaleFits
    <3>2. Len(ks.input) = DigitsOf(ks.input) + Len(ks.path)
      BY DEF Counted
    <3>3. QED
      BY <1>2, <1>3, <1>4, <3>1, <3>2
  <2>2. count < ScaleOf(input) /\ count * 10 >= ScaleOf(input)
    <3>1. ScaleOf(ks.input) \in Nat
      BY <1>5 DEF ScaleFits
    <3>2. QED
      BY <1>4, <1>6, <3>1
  <2>3. QED
    BY <1>7, <2>1, <2>2 DEF Counted
<1>10. QED
  BY <1>8, <1>9 DEF after, input, count

\* What Backspace takes back is the last digit or the last key.
LEMMA PoppingCounts ==
  ASSUME NEW ks, IsPending(ks), Counted(ks), ks.input # << >>
  PROVE  /\ IsPending(Popped(ks)) /\ Counted(Popped(ks))
         /\ Last(ks.input) = "digit" =>
              Popped(ks) = [path |-> ks.path, input |-> Front(ks.input),
                            count |-> ks.count \div 10,
                            continuation |-> ks.continuation, frames |-> ks.frames]
         /\ Last(ks.input) # "digit" =>
              /\ ks.path # << >>
              /\ Popped(ks) = [path |-> Front(ks.path), input |-> Front(ks.input),
                               count |-> ks.count,
                               continuation |-> ks.continuation, frames |-> ks.frames]
<1> DEFINE f == Front(ks.input)
           e == Last(ks.input)
           after == Popped(ks)
<1>1. /\ ks.path \in Seq(Keys) /\ ks.input \in Seq(InputKinds) /\ ks.count \in Nat
      /\ Len(ks.path) \in Nat
  BY DEF IsPending
<1>2. /\ f \in Seq(InputKinds) /\ e \in InputKinds /\ Len(f) = Len(ks.input) - 1
      /\ Len(ks.input) \in Nat \ {0} /\ ks.input = Append(f, e)
  BY <1>1, FrontAndLast
<1> HIDE DEF f, e
<1>3. ScaleFits(f)
  BY <1>2, ScaleIsOfDigits
<1>4. /\ ScaleOf(ks.input) = TimesTen(ScaleOf(f), e)
      /\ DigitsOf(ks.input) = DigitsOf(f) + IF e = "digit" THEN 1 ELSE 0
  BY <1>2, ScaleAppends, DigitsAppend
<1>5. CASE e = "digit"
  <2>1. after = [path |-> ks.path, input |-> f, count |-> ks.count \div 10,
                 continuation |-> ks.continuation, frames |-> ks.frames]
    BY <1>5 DEF Popped, IsPending, f, e
  <2>2. /\ after.path = ks.path /\ after.input = f /\ after.count = ks.count \div 10
        /\ after = [path |-> after.path, input |-> after.input, count |-> after.count,
                    continuation |-> after.continuation, frames |-> after.frames]
    BY <2>1
  <2>3. ScaleOf(ks.input) = 10 * ScaleOf(f) /\ DigitsOf(ks.input) = DigitsOf(f) + 1
    BY <1>4, <1>5 DEF TimesTen
  <2>4. /\ ks.count \div 10 \in Nat /\ ks.count \div 10 < ScaleOf(f)
        /\ DigitsOf(f) > 0 => (ks.count \div 10) * 10 >= ScaleOf(f)
    <3>1. /\ ks.count < 10 * ScaleOf(f) /\ ks.count * 10 >= 10 * ScaleOf(f)
          /\ DigitsOf(f) \in Nat /\ ScaleOf(f) \in Nat
      BY <1>3, <2>3 DEF Counted, ScaleFits
    <3>2. \A q \in Nat : 10 * q <= ks.count => (ks.count \div 10) * 10 >= 10 * q
      BY <1>1
    <3>3. ks.count \div 10 \in Nat /\ ks.count \div 10 < ScaleOf(f)
      BY <1>1, <3>1
    <3>4. ASSUME DigitsOf(f) > 0
          PROVE  (ks.count \div 10) * 10 >= ScaleOf(f)
      <4>1. PICK q \in Nat : ScaleOf(f) = 10 * q
        BY <1>3, <3>1, <3>4 DEF ScaleFits
      <4>2. 10 * q <= ks.count
        BY <1>1, <3>1, <4>1
      <4>3. QED
        BY <3>2, <4>1, <4>2
    <3>5. QED
      BY <3>3, <3>4
  <2> HIDE DEF after
  <2>5. IsPending(after)
    BY <1>1, <1>2, <2>2, <2>4 DEF IsPending
  <2>6. Counted(after)
    <3>1. Len(f) = DigitsOf(f) + Len(ks.path)
      <4>1. DigitsOf(f) \in Nat
        BY <1>3 DEF ScaleFits
      <4>2. Len(ks.input) = DigitsOf(ks.input) + Len(ks.path)
        BY DEF Counted
      <4>3. QED
        BY <1>1, <1>2, <2>3, <4>1, <4>2
    <3>2. QED
      BY <2>2, <2>4, <3>1 DEF Counted
  <2>7. QED
    BY <1>5, <2>1, <2>5, <2>6 DEF after, e, f
<1>6. CASE e # "digit"
  <2>1. ScaleOf(ks.input) = ScaleOf(f) /\ DigitsOf(ks.input) = DigitsOf(f)
    BY <1>3, <1>4, <1>6 DEF TimesTen, ScaleFits
  <2>2. ks.path # << >>
    <3>1. Len(ks.path) # 0
      BY <1>1, <1>2, <1>3, <2>1 DEF Counted, ScaleFits
    <3>2. QED
      BY <3>1
  <2>3. Front(ks.path) \in Seq(Keys) /\ Len(Front(ks.path)) = Len(ks.path) - 1
    BY <1>1, <2>2, FrontAndLast
  <2>4. after = [path |-> Front(ks.path), input |-> f, count |-> ks.count,
                 continuation |-> ks.continuation, frames |-> ks.frames]
    BY <1>6 DEF Popped, IsPending, f, e
  <2>5. /\ after.path = Front(ks.path) /\ after.input = f /\ after.count = ks.count
        /\ after = [path |-> after.path, input |-> after.input, count |-> after.count,
                    continuation |-> after.continuation, frames |-> after.frames]
    BY <2>4
  <2> HIDE DEF after
  <2>6. IsPending(after)
    BY <1>1, <1>2, <2>3, <2>5 DEF IsPending
  <2>7. Counted(after)
    <3>1. Len(ks.input) = DigitsOf(ks.input) + Len(ks.path)
          /\ ks.count < ScaleOf(ks.input)
          /\ (DigitsOf(ks.input) > 0 => ks.count * 10 >= ScaleOf(ks.input))
      BY DEF Counted
    <3>2. DigitsOf(f) \in Nat
      BY <1>3 DEF ScaleFits
    <3>3. Len(f) = DigitsOf(f) + Len(Front(ks.path))
      BY <1>1, <1>2, <2>1, <2>3, <3>1, <3>2
    <3>4. ks.count < ScaleOf(f) /\ (DigitsOf(f) > 0 => ks.count * 10 >= ScaleOf(f))
      BY <2>1, <3>1
    <3>5. QED
      BY <2>5, <3>3, <3>4 DEF Counted
  <2>8. QED
    BY <1>6, <2>2, <2>4, <2>6, <2>7 DEF after, e, f
<1>7. QED
  BY <1>5, <1>6

LEMMA LeadsOn ==
  ASSUME NEW m, NEW p \in Seq(Keys), NEW k \in Keys, Leads(m, p, Len(p))
  PROVE  /\ Leads(m, Append(p, k), Len(p))
         /\ IsKeyPrefix(m, Append(p, k)) => Leads(m, Append(p, k), Len(p) + 1)
<1> DEFINE n == Len(p)
           q == Append(p, k)
<1>1. n \in Nat /\ Len(q) = n + 1
  OBVIOUS
<1>2. \A i \in 1 .. n : SubSeq(q, 1, i) = SubSeq(p, 1, i)
  OBVIOUS
<1>3. SubSeq(q, 1, n + 1) = q
  OBVIOUS
<1>4. \A i \in 1 .. n : IsKeyPrefix(m, SubSeq(p, 1, i))
  BY DEF Leads
<1> HIDE DEF n, q
<1>5. Leads(m, q, n)
  BY <1>2, <1>4 DEF Leads
<1>6. ASSUME IsKeyPrefix(m, q)
      PROVE  Leads(m, q, n + 1)
  <2>1. \A i \in 1 .. n + 1 : i \in 1 .. n \/ i = n + 1
    BY <1>1
  <2>2. QED
    BY <1>3, <1>5, <1>6, <2>1 DEF Leads
<1>7. QED
  BY <1>5, <1>6 DEF n, q

LEMMA LeadsBack ==
  ASSUME NEW m, NEW p \in Seq(Keys), p # << >>, Leads(m, p, Len(p) - 1)
  PROVE  Leads(m, Front(p), Len(Front(p)))
<1>1. Len(p) \in Nat \ {0} /\ Len(Front(p)) = Len(p) - 1
  BY FrontAndLast
<1>2. \A i \in 1 .. Len(p) - 1 : SubSeq(Front(p), 1, i) = SubSeq(p, 1, i)
  BY <1>1 DEF Front
<1>3. QED
  BY <1>1, <1>2 DEF Leads

LEMMA WaitingFor ==
  ASSUME NEW b, NEW args
  PROVE  /\ Waiting(b, args) # << >>
         /\ Waiting(b, args)[1].cmd = b /\ Waiting(b, args)[1].args = args
BY DEF Waiting

LEMMA FramesAppend ==
  ASSUME NEW b, NEW args \in Seq(Keys), NEW k \in Keys
  PROVE  /\ FramesOf(b, << >>) = << >>
         /\ FramesOf(b, Append(args, k)) # << >>
         /\ FramesOf(b, Append(args, k)) = Append(FramesOf(b, args), Waiting(b, args))
         /\ Front(FramesOf(b, Append(args, k))) = FramesOf(b, args)
         /\ Last(FramesOf(b, Append(args, k))) = Waiting(b, args)
<1> DEFINE n == Len(args)
           more == Append(args, k)
           S == {Waiting(b, a) : a \in Seq(Keys)}
           f == FramesOf(b, args)
           g == FramesOf(b, more)
<1>1. FramesOf(b, << >>) = << >>
  BY DEF FramesOf
<1>2. n \in Nat /\ Len(more) = n + 1
  OBVIOUS
<1>3. /\ \A i \in 1 .. n + 1 : SubSeq(more, 1, i - 1) \in Seq(Keys)
      /\ \A i \in 1 .. n : SubSeq(args, 1, i - 1) \in Seq(Keys)
      /\ \A i \in 1 .. n : SubSeq(more, 1, i - 1) = SubSeq(args, 1, i - 1)
      /\ \A j \in 1 .. n + 1 : j = n + 1 => SubSeq(more, 1, j - 1) = args
  OBVIOUS
<1>4. /\ f = [i \in 1 .. n |-> Waiting(b, SubSeq(args, 1, i - 1))]
      /\ g = [i \in 1 .. n + 1 |-> Waiting(b, SubSeq(more, 1, i - 1))]
  BY <1>2 DEF FramesOf
<1> HIDE DEF n, more, f, g
<1>5. f \in [1 .. n -> S] /\ g \in [1 .. n + 1 -> S] /\ Waiting(b, args) \in S
  BY <1>3, <1>4
<1> HIDE DEF S
<1>6. f \in Seq(S) /\ Len(f) = n /\ g \in Seq(S) /\ Len(g) = n + 1
  BY <1>2, <1>5
<1>7. \A i \in 1 .. n : g[i] = f[i]
  <2>1. SUFFICES ASSUME NEW i \in 1 .. n
                 PROVE  g[i] = f[i]
    OBVIOUS
  <2>2. i \in 1 .. n + 1
    BY <1>2
  <2>3. /\ g[i] = Waiting(b, SubSeq(more, 1, i - 1))
        /\ f[i] = Waiting(b, SubSeq(args, 1, i - 1))
    BY <1>4, <2>2, Zenon
  <2>4. QED
    BY <1>3, <2>3, Zenon
<1>8. g[n + 1] = Waiting(b, args)
  <2>1. PICK j \in 1 .. n + 1 : j = n + 1
    BY <1>2
  <2>2. g[j] = Waiting(b, SubSeq(more, 1, j - 1))
    BY <1>4, Zenon
  <2>3. SubSeq(more, 1, j - 1) = args
    BY <1>3, <2>1
  <2>4. QED
    BY <2>1, <2>2, <2>3, Zenon
<1>9. g = Append(f, Waiting(b, args))
  BY <1>2, <1>5, <1>6, <1>7, <1>8
<1>10. Front(g) = f /\ Last(g) = Waiting(b, args) /\ g # << >>
  BY <1>5, <1>6, <1>9, AppendedFront
<1>11. QED
  BY <1>1, <1>9, <1>10 DEF f, g, more

LEMMA CommandKeys ==
  ASSUME NEW b \in Bindings
  PROVE  b.keys \in Seq(Keys) /\ b.keys # << >> /\ b.reads \in Nat /\ b.keys \o << >> = b.keys
BY KeyAssumption

LEMMA WithContinuation ==
  ASSUME NEW ks, IsPending(ks), NEW c, NEW f
  PROVE  /\ [ks EXCEPT !.continuation = c]
              = [path |-> ks.path, input |-> ks.input, count |-> ks.count,
                 continuation |-> c, frames |-> ks.frames]
         /\ [ks EXCEPT !.continuation = c, !.frames = f]
              = [path |-> ks.path, input |-> ks.input, count |-> ks.count,
                 continuation |-> c, frames |-> f]
<1> DEFINE x == [ks EXCEPT !.continuation = c]
<1>1. ks = [path |-> ks.path, input |-> ks.input, count |-> ks.count,
            continuation |-> ks.continuation, frames |-> ks.frames]
  BY DEF IsPending
<1>2. x = [path |-> ks.path, input |-> ks.input, count |-> ks.count,
           continuation |-> c, frames |-> ks.frames]
  BY <1>1
<1>3. [ks EXCEPT !.continuation = c, !.frames = f] = [x EXCEPT !.frames = f]
  OBVIOUS
<1> HIDE DEF x
<1>4. [x EXCEPT !.frames = f]
        = [path |-> ks.path, input |-> ks.input, count |-> ks.count,
           continuation |-> c, frames |-> f]
  BY <1>2
<1>5. QED
  BY <1>2, <1>3, <1>4 DEF x

\* Backspace in a continuation.
LEMMA PoppedContinuationIs ==
  ASSUME PendingInv, keys.continuation # << >>
  PROVE  LET after == PoppedContinuation
         IN  /\ IsPending(after) /\ Counted(after) /\ Waits(mode, after)
             /\ after = [path |-> Front(keys.path), input |-> Front(keys.input),
                         count |-> keys.count,
                         continuation |-> IF keys.frames = << >> THEN << >>
                                          ELSE Last(keys.frames),
                         frames |-> IF keys.frames = << >> THEN << >>
                                    ELSE Front(keys.frames)]
<1> DEFINE after == PoppedContinuation
<1>1. /\ IsPending(keys) /\ Counted(keys)
      /\ keys = [path |-> keys.path, input |-> keys.input, count |-> keys.count,
                 continuation |-> keys.continuation, frames |-> keys.frames]
      /\ keys.path \in Seq(Keys) /\ keys.input \in Seq(InputKinds)
      /\ keys.count \in Nat
  BY DEF PendingInv, IsPending
<1>2. PICK b \in Bindings, args \in Seq(Keys) : Continues(mode, keys, b, args)
  BY DEF PendingInv, Waits
<1>3. /\ keys.continuation = Waiting(b, args) /\ keys.path = b.keys \o args
      /\ keys.frames = FramesOf(b, args)
      /\ Len(args) < Len(keys.input) /\ Len(args) < b.reads
      /\ \A i \in Len(keys.input) - Len(args) .. Len(keys.input) : keys.input[i] = "key"
      /\ Leads(mode, b.keys, Len(b.keys) - 1)
  BY <1>2 DEF Continues
<1>4. /\ Len(keys.input) \in Nat \ {0} /\ Len(args) \in Nat /\ keys.input # << >>
      /\ Len(keys.input) \in Len(keys.input) - Len(args) .. Len(keys.input)
  BY <1>1, <1>3
<1>5. /\ Front(keys.input) \in Seq(InputKinds)
      /\ Len(Front(keys.input)) = Len(keys.input) - 1
      /\ Last(keys.input) = keys.input[Len(keys.input)]
      /\ \A i \in 1 .. Len(keys.input) - 1 : Front(keys.input)[i] = keys.input[i]
  BY <1>1, <1>4, FrontAndLast
<1>6. Last(keys.input) # "digit"
  BY <1>3, <1>4, <1>5
<1>7. b.keys \in Seq(Keys) /\ b.keys # << >> /\ b.reads \in Nat /\ b.keys \o << >> = b.keys
  BY CommandKeys
<1>8. CASE args = << >>
  <2> DEFINE dropped == [path |-> keys.path, input |-> keys.input, count |-> keys.count,
                         continuation |-> << >>, frames |-> keys.frames]
  <2>1. keys.frames = << >>
    BY <1>3, <1>8 DEF FramesOf
  <2>2. after = Popped(dropped)
    <3>1. [keys EXCEPT !.continuation = << >>] = dropped
      BY <1>1, WithContinuation
    <3>2. QED
      BY <2>1, <3>1 DEF PoppedContinuation
  <2>3. IsPending(dropped) /\ Counted(dropped) /\ dropped.input # << >>
    BY <1>1, <1>4 DEF IsPending, Counted
  <2>4. /\ dropped.path = keys.path /\ dropped.input = keys.input
        /\ dropped.count = keys.count /\ dropped.continuation = << >>
        /\ dropped.frames = keys.frames
    OBVIOUS
  <2> HIDE DEF dropped, after
  <2>5. /\ IsPending(after) /\ Counted(after)
        /\ after = [path |-> Front(dropped.path), input |-> Front(dropped.input),
                    count |-> dropped.count, continuation |-> dropped.continuation,
                    frames |-> dropped.frames]
    BY <1>6, <2>2, <2>3, <2>4, PoppingCounts
  <2>6. after = [path |-> Front(keys.path), input |-> Front(keys.input),
                 count |-> keys.count, continuation |-> << >>, frames |-> << >>]
    BY <2>1, <2>4, <2>5
  <2>7. Waits(mode, after)
    <3>1. keys.path = b.keys
      BY <1>3, <1>7, <1>8
    <3>2. Leads(mode, Front(keys.path), Len(Front(keys.path)))
      BY <1>3, <1>7, <3>1, LeadsBack
    <3>3. after.path = Front(keys.path) /\ after.continuation = << >> /\ after.frames = << >>
      BY <2>6
    <3>4. QED
      BY <3>2, <3>3 DEF Waits
  <2>8. QED
    BY <2>1, <2>5, <2>6, <2>7 DEF after
<1>9. CASE args # << >>
  <2> DEFINE f == Front(args)
             e == Last(args)
  <2>1. f \in Seq(Keys) /\ e \in Keys /\ args = Append(f, e) /\ Len(f) = Len(args) - 1
    BY <1>9, FrontAndLast
  <2> HIDE DEF f, e
  <2>2. /\ keys.frames # << >> /\ Front(keys.frames) = FramesOf(b, f)
        /\ Last(keys.frames) = Waiting(b, f)
    BY <1>3, <2>1, FramesAppend
  <2>3. Front(keys.path) = b.keys \o f
    <3>1. b.keys \o f \in Seq(Keys) /\ b.keys \o Append(f, e) = Append(b.keys \o f, e)
      <4>1. \A p, q \in Seq(Keys), x \in Keys :
              p \o q \in Seq(Keys) /\ p \o Append(q, x) = Append(p \o q, x)
        BY Scaling!AppendInside
      <4>2. QED
        BY <1>7, <2>1, <4>1, Zenon
    <3>2. \A p \in Seq(Keys) : Front(Append(p, e)) = p
      BY <2>1, AppendedFront
    <3>3. QED
      BY <1>3, <2>1, <3>1, <3>2
  <2>4. /\ IsPending(Popped(keys)) /\ Counted(Popped(keys))
        /\ Popped(keys) = [path |-> Front(keys.path), input |-> Front(keys.input),
                           count |-> keys.count,
                           continuation |-> keys.continuation, frames |-> keys.frames]
    BY <1>1, <1>4, <1>6, PoppingCounts
  <2>5. after = [Popped(keys) EXCEPT !.continuation = Last(keys.frames),
                                     !.frames = Front(keys.frames)]
    BY <2>2 DEF PoppedContinuation
  <2> HIDE DEF after
  <2>6. after = [path |-> Front(keys.path), input |-> Front(keys.input),
                 count |-> keys.count,
                 continuation |-> Last(keys.frames), frames |-> Front(keys.frames)]
    <3>1. /\ Popped(keys).path = Front(keys.path)
          /\ Popped(keys).input = Front(keys.input)
          /\ Popped(keys).count = keys.count
      BY <2>4
    <3>2. QED
      BY <2>4, <2>5, <3>1, WithContinuation
  <2>7. /\ after.path = Front(keys.path) /\ after.input = Front(keys.input)
        /\ after.count = keys.count /\ after.continuation = Waiting(b, f)
        /\ after.frames = FramesOf(b, f)
        /\ after = [path |-> after.path, input |-> after.input, count |-> after.count,
                    continuation |-> after.continuation, frames |-> after.frames]
    BY <2>2, <2>6
  <2>8. IsPending(after) /\ Counted(after)
    <3>1. /\ Popped(keys).path = Front(keys.path) /\ Popped(keys).input = Front(keys.input)
          /\ Popped(keys).count = keys.count
      BY <2>4
    <3>2. QED
      BY <2>4, <2>7, <3>1 DEF IsPending, Counted
  <2>9. Continues(mode, after, b, f)
    <3>1. Len(f) < b.reads /\ Len(f) < Len(after.input) /\ Len(f) \in Nat
          /\ Len(after.input) = Len(keys.input) - 1
      <4>1. Len(after.input) = Len(keys.input) - 1 /\ Len(f) \in Nat
        BY <1>5, <2>1, <2>7
      <4>2. QED
        BY <1>3, <1>4, <1>7, <2>1, <4>1
    <3>2. \A i \in Len(after.input) - Len(f) .. Len(after.input) : after.input[i] = "key"
      <4>1. \A m, n \in Nat : \A i \in (m - 1) - (n - 1) .. m - 1 :
              n < m => i \in m - n .. m /\ i \in 1 .. m - 1
        OBVIOUS
      <4>2. ASSUME NEW i \in Len(after.input) - Len(f) .. Len(after.input)
            PROVE  i \in Len(keys.input) - Len(args) .. Len(keys.input)
                   /\ i \in 1 .. Len(keys.input) - 1
        BY <1>3, <1>4, <2>1, <3>1, <4>1
      <4>3. QED
        BY <1>3, <1>5, <2>7, <4>2
    <3>3. after.path = b.keys \o f
      BY <2>3, <2>7
    <3>4. QED
      BY <1>3, <2>1, <2>7, <3>1, <3>2, <3>3 DEF Continues
  <2>10. Waits(mode, after)
    <3>1. after.continuation # << >>
      BY <2>7, WaitingFor
    <3>2. QED
      BY <2>1, <2>9, <3>1 DEF Waits
  <2>11. QED
    BY <2>2, <2>6, <2>8, <2>10 DEF after
<1>10. QED
  BY <1>8, <1>9

-----------------------------------------------------------------------------
(* Every key keeps it                                                      *)

LEMMA TypedKeeps ==
  ASSUME PendingInv, NEW k \in Keys \cup Specials, Type(k)
  PROVE  typed' \in Seq(Keys \cup Specials)
BY DEF PendingInv, Type

LEMMA IdleKeeps ==
  ASSUME typed' \in Seq(Keys \cup Specials), keys' = Idle
  PROVE  PendingInv'
<1>1. IsPending(Idle) /\ Counted(Idle) /\ Waits(mode', Idle)
  BY IdleIsPending
<1>2. IsPending(keys)' /\ Counted(keys)' /\ Waits(mode, keys)'
  BY <1>1 DEF IsPending, Counted, Waits, Leads, Continues
<1>3. QED
  BY <1>2 DEF PendingInv

\* A key that a continuation reads on.
LEMMA PushedIs ==
  ASSUME PendingInv, NEW k \in Keys, NEW b \in Bindings, NEW args \in Seq(Keys),
         Continues(mode, keys, b, args), Len(args) + 1 < b.reads
  PROVE  LET cont == keys.continuation
             after == [path |-> Append(keys.path, k), input |-> Append(keys.input, "key"),
                       count |-> keys.count, continuation |-> Extended(cont, k),
                       frames |-> Append(keys.frames, cont)]
         IN  IsPending(after) /\ Counted(after) /\ Waits(mode, after)
<1> DEFINE cont == keys.continuation
           more == Append(args, k)
           after == [path |-> Append(keys.path, k), input |-> Append(keys.input, "key"),
                     count |-> keys.count, continuation |-> Extended(cont, k),
                     frames |-> Append(keys.frames, cont)]
<1>1. /\ IsPending(keys) /\ Counted(keys)
      /\ keys.path \in Seq(Keys) /\ keys.input \in Seq(InputKinds)
  BY DEF PendingInv, IsPending
<1>2. IsPending(after) /\ Counted(after)
  BY <1>1, KeyCounts
<1>3. /\ cont = Waiting(b, args) /\ keys.path = b.keys \o args
      /\ keys.frames = FramesOf(b, args)
      /\ Len(args) < Len(keys.input)
      /\ \A i \in Len(keys.input) - Len(args) .. Len(keys.input) : keys.input[i] = "key"
      /\ Leads(mode, b.keys, Len(b.keys) - 1)
  BY DEF Continues
<1>4. b.keys \in Seq(Keys) /\ b.reads \in Nat
  BY CommandKeys
<1>5. Extended(cont, k) = Waiting(b, more)
  BY <1>3, WaitingFor DEF Extended
<1>6. Append(keys.frames, cont) = FramesOf(b, more)
  BY <1>3, FramesAppend
<1>7. Append(keys.path, k) = b.keys \o more
  <2>1. \A p, q \in Seq(Keys), x \in Keys : p \o Append(q, x) = Append(p \o q, x)
    BY Scaling!AppendInside
  <2>2. b.keys \o Append(args, k) = Append(b.keys \o args, k)
    BY <1>4, <2>1
  <2>3. QED
    BY <1>3, <2>2
<1>8. /\ more \in Seq(Keys) /\ Len(more) = Len(args) + 1 /\ Len(args) \in Nat
  OBVIOUS
<1>9. /\ Len(Append(keys.input, "key")) = Len(keys.input) + 1 /\ Len(keys.input) \in Nat
      /\ \A i \in 1 .. Len(keys.input) : Append(keys.input, "key")[i] = keys.input[i]
      /\ Append(keys.input, "key")[Len(keys.input) + 1] = "key"
  BY <1>1
<1>10. /\ after.path = Append(keys.path, k) /\ after.input = Append(keys.input, "key")
       /\ after.continuation = Extended(cont, k) /\ after.frames = Append(keys.frames, cont)
  OBVIOUS
<1> HIDE DEF after, more, cont
<1>11. Continues(mode, after, b, more)
  <2>1. Len(more) < Len(after.input)
    BY <1>3, <1>8, <1>9, <1>10
  <2>2. ASSUME NEW i \in Len(after.input) - Len(more) .. Len(after.input)
        PROVE  after.input[i] = "key"
    <3>1. i = Len(keys.input) + 1 \/ i \in Len(keys.input) - Len(args) .. Len(keys.input)
      BY <1>8, <1>9, <1>10, <2>2
    <3>2. i \in Len(keys.input) - Len(args) .. Len(keys.input) => i \in 1 .. Len(keys.input)
      BY <1>3, <1>8, <1>9
    <3>3. QED
      BY <1>3, <1>9, <1>10, <3>1, <3>2
  <2>3. QED
    BY <1>3, <1>5, <1>6, <1>7, <1>8, <1>10, <2>1, <2>2 DEF Continues
<1>12. Waits(mode, after)
  <2>1. after.continuation # << >>
    BY <1>5, <1>10, WaitingFor
  <2>2. QED
    BY <1>8, <1>11, <2>1 DEF Waits
<1>13. QED
  BY <1>2, <1>12 DEF after, cont

LEMMA PendingKeeps ==
  ASSUME NEW ks, IsPending(ks), Counted(ks), Waits(mode', ks), keys' = ks,
         typed' \in Seq(Keys \cup Specials)
  PROVE  PendingInv'
<1>1. IsPending(keys') /\ Counted(keys') /\ Waits(mode', keys')
  OBVIOUS
<1>2. IsPending(keys)' /\ Counted(keys)' /\ Waits(mode, keys)'
  BY <1>1 DEF IsPending, Counted, Waits, Leads, Continues
<1>3. QED
  BY <1>2 DEF PendingInv

LEMMA PushedRecord ==
  ASSUME PendingInv, NEW k, NEW c
  PROVE  [keys EXCEPT !.frames = Append(@, keys.continuation),
                      !.input = Append(@, "key"),
                      !.path = Append(@, k),
                      !.continuation = c]
           = [path |-> Append(keys.path, k), input |-> Append(keys.input, "key"),
              count |-> keys.count, continuation |-> c,
              frames |-> Append(keys.frames, keys.continuation)]
<1>1. keys = [path |-> keys.path, input |-> keys.input, count |-> keys.count,
              continuation |-> keys.continuation, frames |-> keys.frames]
  BY DEF PendingInv, IsPending
<1> DEFINE f == Append(keys.frames, keys.continuation)
           i == Append(keys.input, "key")
           p == Append(keys.path, k)
           x == [keys EXCEPT !.frames = f]
           y == [x EXCEPT !.input = i]
           z == [y EXCEPT !.path = p]
<1>2. [keys EXCEPT !.frames = f, !.input = i, !.path = p, !.continuation = c]
        = [z EXCEPT !.continuation = c]
  OBVIOUS
<1> HIDE DEF f, i, p
<1>3. x = [path |-> keys.path, input |-> keys.input, count |-> keys.count,
           continuation |-> keys.continuation, frames |-> f]
  BY <1>1
<1> HIDE DEF x
<1>4. y = [path |-> keys.path, input |-> i, count |-> keys.count,
           continuation |-> keys.continuation, frames |-> f]
  BY <1>3
<1> HIDE DEF y
<1>5. z = [path |-> p, input |-> i, count |-> keys.count,
           continuation |-> keys.continuation, frames |-> f]
  BY <1>4
<1> HIDE DEF z
<1>6. [z EXCEPT !.continuation = c]
        = [path |-> p, input |-> i, count |-> keys.count, continuation |-> c, frames |-> f]
  BY <1>5
<1>7. QED
  BY <1>2, <1>6 DEF f, i, p, x, y, z

LEMMA HandleContinuationKeeps ==
  ASSUME PendingInv, NEW k \in Keys, HandleContinuation(k)
  PROVE  PendingInv'
<1> DEFINE cont == keys.continuation
           step == Transition(cont, k)
<1>1. typed' \in Seq(Keys \cup Specials)
  BY TypedKeeps DEF HandleContinuation
<1>2. PICK b \in Bindings, args \in Seq(Keys) : Continues(mode, keys, b, args)
  BY DEF HandleContinuation, PendingInv, Waits
<1>3. cont # << >> /\ cont = Waiting(b, args)
  BY <1>2 DEF HandleContinuation, Continues
<1>4. step \in {"pop", "stay", "push", "done"}
  BY DEF Transition
<1>5. CASE step = "pop"
  <2>1. keys' = PoppedContinuation /\ mode' = mode
    BY <1>5 DEF HandleContinuation
  <2>2. LET after == PoppedContinuation
        IN  IsPending(after) /\ Counted(after) /\ Waits(mode, after)
    BY <1>3, PoppedContinuationIs
  <2>3. QED
    BY <1>1, <2>1, <2>2, PendingKeeps
<1>6. CASE step = "stay"
  <2>1. keys' = keys /\ mode' = mode
    BY <1>6 DEF HandleContinuation
  <2>2. QED
    BY <1>1, <2>1, PendingKeeps DEF PendingInv
<1>7. CASE step = "push"
  <2>1. /\ keys' = [keys EXCEPT !.frames = Append(@, cont),
                                !.input = Append(@, "key"),
                                !.path = Append(@, k),
                                !.continuation = Extended(cont, k)]
        /\ mode' = mode
    BY <1>7 DEF HandleContinuation
  <2>2. Len(args) + 1 < b.reads
    BY <1>3, <1>7, WaitingFor DEF Transition
  <2> DEFINE after == [path |-> Append(keys.path, k), input |-> Append(keys.input, "key"),
                       count |-> keys.count, continuation |-> Extended(cont, k),
                       frames |-> Append(keys.frames, cont)]
  <2>3. keys' = after
    BY <2>1, PushedRecord
  <2>4. IsPending(after) /\ Counted(after) /\ Waits(mode, after)
    BY <1>2, <2>2, PushedIs
  <2> HIDE DEF after
  <2>5. QED
    BY <1>1, <2>1, <2>3, <2>4, PendingKeeps
<1>8. CASE step = "done"
  <2>1. keys' = Idle
    BY <1>8 DEF HandleContinuation
  <2>2. QED
    BY <1>1, <2>1, IdleKeeps
<1>9. QED
  BY <1>4, <1>5, <1>6, <1>7, <1>8

LEMMA CancelPendingKeeps ==
  ASSUME PendingInv, CancelPending
  PROVE  PendingInv'
<1>1. "esc" \in Keys \cup Specials
  BY DEF Specials
<1>2. QED
  BY <1>1, TypedKeeps, IdleKeeps DEF CancelPending

LEMMA MouseClickKeeps ==
  ASSUME PendingInv, MouseClick
  PROVE  PendingInv'
<1>1. keys' = Idle /\ typed' = typed
  BY DEF MouseClick
<1>2. QED
  BY <1>1, IdleKeeps DEF PendingInv

LEMMA PopPendingKeeps ==
  ASSUME PendingInv, PopPending
  PROVE  PendingInv'
<1>1. /\ IsPending(keys) /\ Counted(keys) /\ keys.input # << >>
      /\ keys.frames = << >> /\ keys.continuation = << >>
      /\ Leads(mode, keys.path, Len(keys.path))
      /\ keys.path \in Seq(Keys) /\ keys.input \in Seq(InputKinds)
  BY DEF PopPending, PendingInv, Waits, IsPending
<1>2. keys' = Popped(keys) /\ mode' = mode
  BY DEF PopPending
<1>3. typed' \in Seq(Keys \cup Specials)
  <2>1. "bksp" \in Keys \cup Specials
    BY DEF Specials
  <2>2. QED
    BY <2>1, TypedKeeps DEF PopPending
<1>4. IsPending(Popped(keys)) /\ Counted(Popped(keys))
  BY <1>1, PoppingCounts
<1>5. Waits(mode, Popped(keys))
  <2>1. CASE Last(keys.input) = "digit"
    <3>1. /\ Popped(keys).path = keys.path /\ Popped(keys).frames = << >>
          /\ Popped(keys).continuation = << >>
      BY <1>1, <2>1, PoppingCounts
    <3>2. QED
      BY <1>1, <3>1 DEF Waits
  <2>2. CASE Last(keys.input) # "digit"
    <3>1. /\ keys.path # << >> /\ Popped(keys).path = Front(keys.path)
          /\ Popped(keys).frames = << >> /\ Popped(keys).continuation = << >>
      BY <1>1, <2>2, PoppingCounts
    <3>2. Leads(mode, keys.path, Len(keys.path) - 1)
      BY <1>1 DEF Leads
    <3>3. Leads(mode, Front(keys.path), Len(Front(keys.path)))
      BY <1>1, <3>1, <3>2, LeadsBack
    <3>4. QED
      BY <3>1, <3>3 DEF Waits
  <2>3. QED
    BY <2>1, <2>2
<1>6. QED
  BY <1>2, <1>3, <1>4, <1>5, PendingKeeps

LEMMA CountDigitKeeps ==
  ASSUME PendingInv, NEW k \in Keys, CountDigit(k)
  PROVE  PendingInv'
<1> DEFINE after == [path |-> keys.path, input |-> Append(keys.input, "digit"),
                     count |-> keys.count * 10 + NumberOf[k],
                     continuation |-> keys.continuation, frames |-> keys.frames]
<1>1. /\ IsPending(keys) /\ Counted(keys) /\ keys.continuation = << >>
      /\ keys = [path |-> keys.path, input |-> keys.input, count |-> keys.count,
                 continuation |-> keys.continuation, frames |-> keys.frames]
  BY DEF CountDigit, PendingInv, IsPending
<1>2. k \in Digits /\ (k # "0" \/ keys.count > 0)
  BY DEF CountDigit, IsCount
<1>3. keys' = after
  <2> DEFINE i == Append(keys.input, "digit")
             n == keys.count * 10 + NumberOf[k]
             x == [keys EXCEPT !.input = i]
  <2>1. keys' = [x EXCEPT !.count = n]
    BY DEF CountDigit
  <2> HIDE DEF i, n
  <2>2. x = [path |-> keys.path, input |-> i, count |-> keys.count,
             continuation |-> keys.continuation, frames |-> keys.frames]
    BY <1>1
  <2> HIDE DEF x, after
  <2>3. [x EXCEPT !.count = n]
          = [path |-> keys.path, input |-> i, count |-> n,
             continuation |-> keys.continuation, frames |-> keys.frames]
    BY <2>2
  <2>4. QED
    BY <2>1, <2>3 DEF i, n, after
<1>4. IsPending(after) /\ Counted(after)
  BY <1>1, <1>2, DigitCounts
<1>5. /\ after.path = keys.path /\ after.continuation = keys.continuation
      /\ after.frames = keys.frames
  OBVIOUS
<1> HIDE DEF after
<1>6. Waits(mode, after)
  BY <1>1, <1>5 DEF PendingInv, Waits
<1>7. typed' \in Seq(Keys \cup Specials) /\ mode' = mode
  BY TypedKeeps DEF CountDigit
<1>8. QED
  BY <1>3, <1>4, <1>6, <1>7, PendingKeeps

LEMMA BoundCommand ==
  ASSUME NEW m, NEW path, Bound(m, path) # {}
  PROVE  Lookup(m, path) \in Bindings /\ Lookup(m, path).keys = path
<1>1. Lookup(m, path) \in Bound(m, path)
  BY DEF Lookup
<1>2. QED
  BY <1>1 DEF Bound, Below

LEMMA RunCommandKeeps ==
  ASSUME PendingInv, NEW k \in Keys, RunCommand(k)
  PROVE  PendingInv'
<1> DEFINE path == Append(keys.path, k)
           b == Lookup(mode, path)
           after == [path |-> path, input |-> Append(keys.input, "key"),
                     count |-> keys.count, continuation |-> Waiting(b, << >>),
                     frames |-> << >>]
<1>1. /\ IsPending(keys) /\ Counted(keys) /\ keys.continuation = << >>
      /\ Leads(mode, keys.path, Len(keys.path))
      /\ keys.path \in Seq(Keys) /\ keys.input \in Seq(InputKinds)
  BY DEF RunCommand, Joins, PendingInv, Waits, IsPending
<1>2. typed' \in Seq(Keys \cup Specials)
  BY TypedKeeps DEF RunCommand, Joins
<1>3. b \in Bindings /\ b.keys = path
  BY BoundCommand DEF RunCommand
<1>4. CASE b.reads = 0
  <2>1. keys' = Idle
    BY <1>4 DEF RunCommand
  <2>2. QED
    BY <1>2, <2>1, IdleKeeps
<1>5. CASE b.reads # 0
  <2>1. keys' = after /\ mode' = mode
    BY <1>5 DEF RunCommand
  <2>2. IsPending(after) /\ Counted(after)
    BY <1>1, KeyCounts
  <2>3. Continues(mode, after, b, << >>)
    <3>1. b.reads \in Nat /\ b.keys \o << >> = b.keys
      BY <1>3, CommandKeys
    <3>2. << >> \in Seq(Keys) /\ Len(<< >>) = 0 /\ FramesOf(b, << >>) = << >>
      BY DEF FramesOf
    <3>3. Leads(mode, path, Len(path) - 1)
      <4>1. Len(path) - 1 = Len(keys.path)
        BY <1>1
      <4>2. QED
        BY <1>1, <4>1, LeadsOn
    <3>4. /\ Len(after.input) = Len(keys.input) + 1 /\ Len(keys.input) \in Nat
          /\ after.input[Len(after.input)] = "key"
          /\ after.path = path /\ after.continuation = Waiting(b, << >>)
          /\ after.frames = << >>
      BY <1>1
    <3> HIDE DEF after, path, b
    <3>5. \A i \in Len(after.input) - 0 .. Len(after.input) : after.input[i] = "key"
      BY <3>4
    <3>6. 0 < Len(after.input) /\ 0 < b.reads
      BY <1>5, <3>1, <3>4
    <3>7. QED
      BY <1>3, <3>1, <3>2, <3>3, <3>4, <3>5, <3>6 DEF Continues
  <2>4. after.continuation # << >>
    BY WaitingFor
  <2> HIDE DEF after, b
  <2>5. Waits(mode, after)
    <3>1. << >> \in Seq(Keys)
      OBVIOUS
    <3>2. QED
      BY <1>3, <2>3, <2>4, <3>1 DEF Waits
  <2>6. QED
    BY <1>2, <2>1, <2>2, <2>5, PendingKeeps
<1>6. QED
  BY <1>4, <1>5

LEMMA AwaitMoreKeysKeeps ==
  ASSUME PendingInv, NEW k \in Keys, AwaitMoreKeys(k)
  PROVE  PendingInv'
<1> DEFINE path == Append(keys.path, k)
           after == [path |-> path, input |-> Append(keys.input, "key"),
                     count |-> keys.count, continuation |-> keys.continuation,
                     frames |-> keys.frames]
<1>1. /\ IsPending(keys) /\ Counted(keys) /\ keys.continuation = << >>
      /\ keys.frames = << >>
      /\ Leads(mode, keys.path, Len(keys.path)) /\ IsKeyPrefix(mode, path)
      /\ keys.path \in Seq(Keys) /\ keys.input \in Seq(InputKinds)
      /\ keys = [path |-> keys.path, input |-> keys.input, count |-> keys.count,
                 continuation |-> keys.continuation, frames |-> keys.frames]
  BY DEF AwaitMoreKeys, Joins, PendingInv, Waits, IsPending
<1>2. typed' \in Seq(Keys \cup Specials) /\ mode' = mode
  BY TypedKeeps DEF AwaitMoreKeys, Joins
<1>3. keys' = after
  <2> DEFINE x == [keys EXCEPT !.path = path]
             i == Append(keys.input, "key")
  <2>1. keys' = [x EXCEPT !.input = i]
    BY DEF AwaitMoreKeys
  <2> HIDE DEF path, i
  <2>2. x = [path |-> path, input |-> keys.input, count |-> keys.count,
             continuation |-> keys.continuation, frames |-> keys.frames]
    BY <1>1
  <2> HIDE DEF x
  <2>3. [x EXCEPT !.input = i]
          = [path |-> path, input |-> i, count |-> keys.count,
             continuation |-> keys.continuation, frames |-> keys.frames]
    BY <2>2
  <2>4. QED
    BY <2>1, <2>3 DEF i
<1>4. IsPending(after) /\ Counted(after)
  BY <1>1, KeyCounts
<1>5. after.path = path /\ after.continuation = << >> /\ after.frames = << >>
  BY <1>1
<1>6. Leads(mode, path, Len(path))
  <2>1. Len(path) = Len(keys.path) + 1
    BY <1>1
  <2>2. QED
    BY <1>1, <2>1, LeadsOn
<1> HIDE DEF after, path
<1>7. Waits(mode, after)
  BY <1>5, <1>6 DEF Waits
<1>8. QED
  BY <1>2, <1>3, <1>4, <1>7, PendingKeeps

LEMMA InsertTypableKeeps ==
  ASSUME PendingInv, NEW k \in Keys, InsertTypable(k)
  PROVE  PendingInv'
<1>1. typed' \in Seq(Keys \cup Specials) /\ keys' = Idle
  BY TypedKeeps DEF InsertTypable, Joins
<1>2. QED
  BY <1>1, IdleKeeps

LEMMA UnboundKeyKeeps ==
  ASSUME PendingInv, NEW k \in Keys, UnboundKey(k)
  PROVE  PendingInv'
<1>1. typed' \in Seq(Keys \cup Specials) /\ keys' = keys /\ mode' = mode
  BY TypedKeeps DEF UnboundKey, Joins
<1>2. QED
  BY <1>1, PendingKeeps DEF PendingInv

LEMMA PendingInvHolds ==
  KeySpec => []PendingInv
<1>1. KeyInit => PendingInv
  <2> SUFFICES ASSUME KeyInit
               PROVE  PendingInv
    OBVIOUS
  <2>1. keys = Idle /\ typed = << >>
    BY DEF KeyInit
  <2>2. IsPending(Idle) /\ Counted(Idle) /\ Waits(mode, Idle)
    BY IdleIsPending
  <2>3. << >> \in Seq(Keys \cup Specials)
    OBVIOUS
  <2>4. QED
    BY <2>1, <2>2, <2>3 DEF PendingInv
<1>2. PendingInv /\ [KeyNext]_keyVars => PendingInv'
  <2> SUFFICES ASSUME PendingInv, [KeyNext]_keyVars
               PROVE  PendingInv'
    OBVIOUS
  <2>1. CASE CancelPending
    BY <2>1, CancelPendingKeeps
  <2>2. CASE PopPending
    BY <2>2, PopPendingKeeps
  <2>3. CASE MouseClick
    BY <2>3, MouseClickKeeps
  <2>4. ASSUME NEW k \in Keys, HandleContinuation(k) PROVE PendingInv'
    BY <2>4, HandleContinuationKeeps
  <2>5. ASSUME NEW k \in Keys, CountDigit(k) PROVE PendingInv'
    BY <2>5, CountDigitKeeps
  <2>6. ASSUME NEW k \in Keys, RunCommand(k) PROVE PendingInv'
    BY <2>6, RunCommandKeeps
  <2>7. ASSUME NEW k \in Keys, AwaitMoreKeys(k) PROVE PendingInv'
    BY <2>7, AwaitMoreKeysKeeps
  <2>8. ASSUME NEW k \in Keys, InsertTypable(k) PROVE PendingInv'
    BY <2>8, InsertTypableKeeps
  <2>9. ASSUME NEW k \in Keys, UnboundKey(k) PROVE PendingInv'
    BY <2>9, UnboundKeyKeeps
  <2>10. CASE UNCHANGED keyVars
    <3>1. keys' = keys /\ mode' = mode /\ typed' = typed
      BY <2>10 DEF keyVars
    <3>2. QED
      BY <3>1, PendingKeeps DEF PendingInv
  <2>11. QED
    BY <2>1, <2>2, <2>3, <2>4, <2>5, <2>6, <2>7, <2>8, <2>9, <2>10 DEF KeyNext
<1>3. QED
  BY <1>1, <1>2, PTL DEF KeySpec

-----------------------------------------------------------------------------
(* What is pending is whole                                                *)

LEMMA SuffixOfPath ==
  ASSUME NEW p \in Seq(Keys), NEW args \in Seq(Keys)
  PROVE  IsSuffix(args, p \o args)
<1> DEFINE q == p \o args
           m == Len(p)
           n == Len(args)
<1>1. m \in Nat /\ n \in Nat /\ q \in Seq(Keys) /\ Len(q) = m + n
  OBVIOUS
<1>2. \A i \in 1 .. n : q[m + i] = args[i]
  OBVIOUS
<1>3. /\ Reverse(args) = [i \in 1 .. n |-> args[n - i + 1]]
      /\ Reverse(q) = [i \in 1 .. m + n |-> q[m + n - i + 1]]
  BY <1>1 DEF Reverse
<1> HIDE DEF q, m, n
<1> DEFINE r == Reverse(args)
           t == Reverse(q)
<1>4. r \in Seq(Keys) /\ Len(r) = n /\ t \in Seq(Keys) /\ Len(t) = m + n
  <2>1. \A i \in 1 .. n : args[n - i + 1] \in Keys
    BY <1>1 DEF n
  <2>2. \A i \in 1 .. m + n : q[m + n - i + 1] \in Keys
    BY <1>1
  <2>3. r \in [1 .. n -> Keys] /\ t \in [1 .. m + n -> Keys]
    BY <1>3, <2>1, <2>2
  <2>4. QED
    BY <1>1, <2>3
<1>5. ASSUME NEW i \in 1 .. n
      PROVE  t[i] = r[i]
  <2>1. i \in 1 .. m + n /\ n - i + 1 \in 1 .. n /\ m + n - i + 1 = m + (n - i + 1)
    BY <1>1
  <2>2. t[i] = q[m + n - i + 1] /\ r[i] = args[n - i + 1]
    BY <1>3, <2>1
  <2>3. q[m + (n - i + 1)] = args[n - i + 1]
    BY <1>2, <2>1
  <2>4. QED
    BY <2>1, <2>2, <2>3
<1> HIDE DEF r, t
<1>6. SubSeq(t, 1, n) = r /\ SubSeq(r, 1, n) = r
  BY <1>1, <1>4, <1>5
<1>7. IsPrefix(r, t)
  BY <1>1, <1>4, <1>6 DEF IsPrefix
<1>8. QED
  BY <1>7 DEF IsSuffix, q, r, t

LEMMA PendingWhole ==
  PendingInv => PendingIsWhole
<1> SUFFICES ASSUME PendingInv
             PROVE  PendingIsWhole
  OBVIOUS
<1>1. /\ IsPending(keys) /\ Counted(keys) /\ Waits(mode, keys)
      /\ keys.path \in Seq(Keys) /\ keys.input \in Seq(InputKinds)
  BY DEF PendingInv, IsPending
<1>2. /\ Len(keys.input) = DigitsOf(keys.input) + Len(keys.path)
      /\ keys.count < ScaleOf(keys.input)
      /\ DigitsOf(keys.input) > 0 => keys.count * 10 >= ScaleOf(keys.input)
  BY <1>1 DEF Counted
<1>3. IF keys.continuation = << >> THEN keys.frames = << >>
      ELSE /\ Len(keys.frames) = Len(keys.continuation[1].args)
           /\ IsSuffix(keys.continuation[1].args, keys.path)
  <2>1. CASE keys.continuation = << >>
    BY <1>1, <2>1 DEF Waits
  <2>2. CASE keys.continuation # << >>
    <3>1. PICK b \in Bindings, args \in Seq(Keys) : Continues(mode, keys, b, args)
      BY <1>1, <2>2 DEF Waits
    <3>2. /\ keys.continuation[1].args = args /\ keys.path = b.keys \o args
          /\ keys.frames = FramesOf(b, args)
      BY <3>1, WaitingFor DEF Continues
    <3>3. Len(FramesOf(b, args)) = Len(args)
      BY DEF FramesOf
    <3>4. IsSuffix(args, b.keys \o args)
      <4>1. b.keys \in Seq(Keys)
        BY CommandKeys
      <4>2. \A p \in Seq(Keys) : IsSuffix(args, p \o args)
        BY SuffixOfPath
      <4>3. QED
        BY <4>1, <4>2
    <3>5. QED
      BY <2>2, <3>2, <3>3, <3>4
  <2>3. QED
    BY <2>1, <2>2
<1>4. keys.path # << >> /\ keys.continuation = << >> => IsKeyPrefix(mode, keys.path)
  <2> SUFFICES ASSUME keys.path # << >>, keys.continuation = << >>
               PROVE  IsKeyPrefix(mode, keys.path)
    OBVIOUS
  <2>1. Leads(mode, keys.path, Len(keys.path))
    BY <1>1 DEF Waits
  <2>2. Len(keys.path) \in 1 .. Len(keys.path)
        /\ SubSeq(keys.path, 1, Len(keys.path)) = keys.path
    BY <1>1
  <2>3. IsKeyPrefix(mode, SubSeq(keys.path, 1, Len(keys.path)))
    BY <2>1, <2>2 DEF Leads
  <2>4. QED
    BY <2>2, <2>3
<1>5. QED
  BY <1>2, <1>3, <1>4 DEF PendingIsWhole, DigitsOf, DigitPlaces, ScaleOf

\* Whatever is typed, taken back and cancelled, Backspace has exactly the digits
\* of the count, the keys of the path and the characters read to take back.
THEOREM PendingIsWholeHolds ==
  KeySpec => []PendingIsWhole
BY PendingWhole, PendingInvHolds, PTL

-----------------------------------------------------------------------------
(* Replaying                                                               *)

MacroStep(c, r, k) == ReplayKey(r, k)
Macros == INSTANCE FoldTheorems WITH Op <- MacroStep

LEMMA ReplayIsFold ==
  ASSUME NEW macro
  PROVE  Replay(macro) = Macros!Fold(0, ReplayStart, macro)
BY DEF Replay, MacroStep, Macros!Fold, Macros!FoldLeft, Macros!MapThenFoldSet,
       Macros!Max, FoldLeft, MapThenFoldSet, Max

LEMMA ReplayAppends ==
  /\ Replay(<< >>) = ReplayStart
  /\ \A s \in Seq(Keys \cup Specials), k \in Keys \cup Specials :
       Replay(Append(s, k)) = ReplayKey(Replay(s), k)
<1>1. Replay(<< >>) = ReplayStart
  BY ReplayIsFold, Macros!FoldNone
<1>2. ASSUME NEW s \in Seq(Keys \cup Specials), NEW k \in Keys \cup Specials
      PROVE  Replay(Append(s, k)) = ReplayKey(Replay(s), k)
  BY ReplayIsFold, Macros!FoldAppend DEF MacroStep
<1>3. QED
  BY <1>1, <1>2

IsReplay(r) ==
  DOMAIN r = {"mode", "pending", "seq", "count", "continuation", "frames", "log"}

\* The replay of the keys typed so far is where the editor is.  The keys of a
\* command that reads on are kept apart from those that wait for a command.
Follows(m, ks, l, r) ==
  /\ IsReplay(r)
  /\ r.mode = m /\ r.log = l /\ r.count = ks.count
  /\ r.continuation = ks.continuation /\ r.frames = ks.frames
  /\ IF ks.continuation = << >> THEN r.pending = ks.path
     ELSE r.pending = << >> /\ r.seq = ks.path

LEMMA SettledIs ==
  ASSUME NEW r, IsReplay(r)
  PROVE  LET s == Settled(r)
         IN  /\ IsReplay(s) /\ s.mode = r.mode /\ s.log = r.log
             /\ s.pending = << >> /\ s.count = 0 /\ s.continuation = << >>
             /\ s.frames = << >>
BY DEF Settled, IsReplay

\* What an idle editor is followed by.
LEMMA FollowsIdle ==
  ASSUME NEW r, IsReplay(r), r.pending = << >>, r.count = 0, r.continuation = << >>,
         r.frames = << >>
  PROVE  Follows(r.mode, Idle, r.log, r)
BY DEF Follows, Idle

LEMMA ReplayFollowsContinuation ==
  ASSUME PendingInv, NEW k \in Keys, HandleContinuation(k),
         NEW r, Follows(mode, keys, log, r)
  PROVE  Follows(mode', keys', log', ReplayKey(r, k))
<1> DEFINE cont == keys.continuation
           step == Transition(cont, k)
           after == ReplayKey(r, k)
<1>1. cont # << >> /\ r.continuation = cont
  BY DEF HandleContinuation, Follows
<1>2. after = ReplayContinuation(r, k)
  BY <1>1 DEF ReplayKey
<1>3. step \in {"pop", "stay", "push", "done"}
  BY DEF Transition
<1>4. CASE step = "stay"
  <2>1. keys' = keys /\ mode' = mode /\ log' = log
    BY <1>4 DEF HandleContinuation
  <2>2. after = r
    BY <1>1, <1>2, <1>4 DEF ReplayContinuation
  <2>3. QED
    BY <2>1, <2>2
<1>5. CASE step = "push"
  <2> DEFINE ks == [path |-> Append(keys.path, k), input |-> Append(keys.input, "key"),
                    count |-> keys.count, continuation |-> Extended(cont, k),
                    frames |-> Append(keys.frames, cont)]
  <2>1. keys' = ks /\ mode' = mode /\ log' = log
    BY <1>5, PushedRecord DEF HandleContinuation
  <2>2. after = [r EXCEPT !.frames = Append(@, cont), !.seq = Append(@, k),
                          !.continuation = Extended(cont, k)]
    BY <1>1, <1>2, <1>5 DEF ReplayContinuation
  <2>3. Extended(cont, k) # << >>
    BY WaitingFor DEF Extended
  <2> DEFINE f == Append(r.frames, cont)
             s == Append(r.seq, k)
             c == Extended(cont, k)
  <2>4. after = [r EXCEPT !.frames = f, !.seq = s, !.continuation = c]
    BY <2>2
  <2> HIDE DEF f, s, c, after
  <2>5. /\ IsReplay(after) /\ after.mode = r.mode /\ after.log = r.log
        /\ after.count = r.count /\ after.pending = r.pending
        /\ after.frames = f /\ after.seq = s /\ after.continuation = c
    BY <2>4 DEF Follows, IsReplay
  <2>6. /\ ks.path = Append(keys.path, k) /\ ks.count = keys.count
        /\ ks.continuation = Extended(cont, k) /\ ks.frames = Append(keys.frames, cont)
    OBVIOUS
  <2> HIDE DEF ks
  <2>7. Follows(mode, ks, log, after)
    BY <1>1, <2>3, <2>5, <2>6 DEF Follows, f, s, c
  <2>8. QED
    BY <2>1, <2>7 DEF after
<1>6. CASE step = "pop"
  <2> DEFINE ks == PoppedContinuation
  <2>1. keys' = ks /\ mode' = mode /\ log' = log
    BY <1>6 DEF HandleContinuation
  <2>2. ks = [path |-> Front(keys.path), input |-> Front(keys.input),
              count |-> keys.count,
              continuation |-> IF keys.frames = << >> THEN << >> ELSE Last(keys.frames),
              frames |-> IF keys.frames = << >> THEN << >> ELSE Front(keys.frames)]
    BY <1>1, PoppedContinuationIs
  <2> HIDE DEF ks
  <2>3. CASE keys.frames = << >>
    <3>1. after = [r EXCEPT !.continuation = << >>, !.pending = Front(r.seq), !.seq = << >>]
      BY <1>1, <1>2, <1>6, <2>3 DEF ReplayContinuation, Follows
    <3> DEFINE s == Front(r.seq)
    <3> HIDE DEF s, after
    <3>2. after = [r EXCEPT !.continuation = << >>, !.pending = s, !.seq = << >>]
      BY <3>1 DEF s
    <3>3. /\ IsReplay(after) /\ after.mode = r.mode /\ after.log = r.log
          /\ after.count = r.count /\ after.frames = r.frames
          /\ after.pending = s /\ after.continuation = << >>
      BY <3>2 DEF Follows, IsReplay
    <3>4. /\ ks.path = Front(keys.path) /\ ks.count = keys.count
          /\ ks.continuation = << >> /\ ks.frames = << >>
      BY <2>2, <2>3
    <3>5. Follows(mode, ks, log, after)
      BY <1>1, <2>3, <3>3, <3>4 DEF Follows, s
    <3>6. QED
      BY <2>1, <3>5 DEF after
  <2>4. CASE keys.frames # << >>
    <3>1. after = [r EXCEPT !.continuation = Last(r.frames),
                            !.frames = Front(@), !.seq = Front(@)]
      BY <1>1, <1>2, <1>6, <2>4 DEF ReplayContinuation, Follows
    <3> DEFINE c == Last(r.frames)
               f == Front(r.frames)
               s == Front(r.seq)
    <3>2. after = [r EXCEPT !.continuation = c, !.frames = f, !.seq = s]
      BY <3>1
    <3> HIDE DEF c, f, s, after
    <3>3. /\ IsReplay(after) /\ after.mode = r.mode /\ after.log = r.log
          /\ after.count = r.count /\ after.pending = r.pending
          /\ after.frames = f /\ after.seq = s /\ after.continuation = c
      BY <3>2 DEF Follows, IsReplay
    <3>4. /\ ks.path = Front(keys.path) /\ ks.count = keys.count
          /\ ks.continuation = Last(keys.frames) /\ ks.frames = Front(keys.frames)
      BY <2>2, <2>4
    <3>5. Last(keys.frames) # << >>
      <4>1. PICK b \in Bindings, args \in Seq(Keys) : Continues(mode, keys, b, args)
        BY <1>1 DEF PendingInv, Waits
      <4>2. keys.frames = FramesOf(b, args)
        BY <4>1 DEF Continues
      <4>3. args # << >>
        BY <2>4, <4>2 DEF FramesOf
      <4>4. Front(args) \in Seq(Keys) /\ Last(args) \in Keys
            /\ args = Append(Front(args), Last(args))
        BY <4>3, FrontAndLast
      <4>5. \A g \in Seq(Keys), e \in Keys :
              Last(FramesOf(b, Append(g, e))) = Waiting(b, g)
        BY FramesAppend
      <4>6. Last(keys.frames) = Waiting(b, Front(args))
        BY <4>2, <4>4, <4>5, Zenon
      <4>7. QED
        BY <4>6, WaitingFor
    <3>6. Follows(mode, ks, log, after)
      BY <1>1, <3>3, <3>4, <3>5 DEF Follows, c, f, s
    <3>7. QED
      BY <2>1, <3>6 DEF after
  <2>5. QED
    BY <2>3, <2>4
<1>7. CASE step = "done"
  <2> DEFINE entry == Entry(cont[1].cmd.name, Append(cont[1].args, k), keys.count)
             m == cont[1].cmd.enters
             l == Append(log, entry)
             s == Settled(r)
  <2>1. keys' = Idle /\ mode' = m /\ log' = l
    BY <1>7 DEF HandleContinuation
  <2>2. after = [s EXCEPT !.mode = m, !.log = l]
    BY <1>1, <1>2, <1>7 DEF ReplayContinuation, Follows
  <2>3. /\ IsReplay(s) /\ s.pending = << >> /\ s.count = 0 /\ s.continuation = << >>
        /\ s.frames = << >>
    BY SettledIs DEF Follows
  <2> HIDE DEF m, l, s, after
  <2>4. /\ IsReplay(after) /\ after.mode = m /\ after.log = l
        /\ after.pending = << >> /\ after.count = 0 /\ after.continuation = << >>
        /\ after.frames = << >>
    BY <2>2, <2>3 DEF IsReplay
  <2>5. Follows(m, Idle, l, after)
    BY <2>4, FollowsIdle
  <2>6. QED
    BY <2>1, <2>5 DEF after
<1>8. QED
  BY <1>3, <1>4, <1>5, <1>6, <1>7

\* Without a continuation, the replay has the same keys pending.
LEMMA ReplaySees ==
  ASSUME PendingInv, keys.continuation = << >>, NEW r, Follows(mode, keys, log, r)
  PROVE  /\ IsReplay(r) /\ r.mode = mode /\ r.log = log /\ r.count = keys.count
         /\ r.continuation = << >> /\ r.frames = << >> /\ keys.frames = << >>
         /\ r.pending = keys.path
BY DEF Follows, PendingInv, Waits

LEMMA ReplayFollowsDigit ==
  ASSUME PendingInv, NEW k \in Keys, CountDigit(k), NEW r, Follows(mode, keys, log, r)
  PROVE  Follows(mode', keys', log', ReplayKey(r, k))
<1> DEFINE n == keys.count * 10 + NumberOf[k]
           after == ReplayKey(r, k)
<1>1. /\ keys.continuation = << >> /\ IsCount(mode, keys.path, k, keys.count)
      /\ mode' = mode /\ log' = log
      /\ keys' = [keys EXCEPT !.input = Append(@, "digit"), !.count = n]
  BY DEF CountDigit
<1>2. /\ IsReplay(r) /\ r.mode = mode /\ r.log = log /\ r.count = keys.count
      /\ r.continuation = << >> /\ r.frames = << >> /\ keys.frames = << >>
      /\ r.pending = keys.path
  BY <1>1, ReplaySees
<1>3. ~ReplaySkip(k, r.mode)
  BY <1>1 DEF ReplaySkip, IsCount, Digits
<1>4. after = [r EXCEPT !.count = n]
  BY <1>1, <1>2, <1>3 DEF ReplayKey
<1> HIDE DEF n, after
<1>5. /\ IsReplay(after) /\ after.mode = mode /\ after.log = log /\ after.count = n
      /\ after.continuation = << >> /\ after.frames = << >> /\ after.pending = keys.path
  BY <1>2, <1>4 DEF IsReplay
<1>6. /\ keys'.path = keys.path /\ keys'.count = n
      /\ keys'.continuation = << >> /\ keys'.frames = << >>
  <2>1. keys = [path |-> keys.path, input |-> keys.input, count |-> keys.count,
                continuation |-> keys.continuation, frames |-> keys.frames]
    BY DEF PendingInv, IsPending
  <2>2. QED
    BY <1>1, <1>2, <2>1
<1>7. QED
  BY <1>1, <1>5, <1>6 DEF Follows, after

LEMMA ReplayFollowsCommand ==
  ASSUME PendingInv, NEW k \in Keys, RunCommand(k), ~ReplaySkip(k, mode),
         NEW r, Follows(mode, keys, log, r)
  PROVE  Follows(mode', keys', log', ReplayKey(r, k))
<1> DEFINE path == Append(keys.path, k)
           b == Lookup(mode, path)
           after == ReplayKey(r, k)
<1>1. /\ keys.continuation = << >> /\ ~IsCount(mode, keys.path, k, keys.count)
      /\ Bound(mode, path) # {}
  BY DEF RunCommand, Joins
<1>2. /\ IsReplay(r) /\ r.mode = mode /\ r.log = log /\ r.count = keys.count
      /\ r.continuation = << >> /\ r.frames = << >> /\ keys.frames = << >>
      /\ r.pending = keys.path
  BY <1>1, ReplaySees
<1>3. b.reads \in Nat
  BY <1>1, BoundCommand, CommandKeys
<1>4. CASE b.reads = 0
  <2> DEFINE l == Append(log, Entry(b.name, << >>, keys.count))
             m == b.enters
             s == Settled(r)
  <2>1. keys' = Idle /\ log' = l /\ mode' = m
    BY <1>4 DEF RunCommand
  <2>2. /\ IsReplay(s) /\ s.pending = << >> /\ s.count = 0 /\ s.continuation = << >>
        /\ s.frames = << >> /\ s.log = log
    BY <1>2, SettledIs
  <2>3. after = [s EXCEPT !.mode = m, !.log = l]
    BY <1>1, <1>2, <1>4, <2>2 DEF ReplayKey
  <2> HIDE DEF l, m, s, after
  <2>4. /\ IsReplay(after) /\ after.mode = m /\ after.log = l
        /\ after.pending = << >> /\ after.count = 0 /\ after.continuation = << >>
        /\ after.frames = << >>
    BY <2>2, <2>3 DEF IsReplay
  <2>5. Follows(m, Idle, l, after)
    BY <2>4, FollowsIdle
  <2>6. QED
    BY <2>1, <2>5 DEF after
<1>5. CASE b.reads # 0
  <2> DEFINE c == Waiting(b, << >>)
  <2>1. /\ keys' = [path |-> path, input |-> Append(keys.input, "key"),
                    count |-> keys.count, frames |-> << >>, continuation |-> c]
        /\ log' = log /\ mode' = mode
    BY <1>5 DEF RunCommand
  <2>2. after = [r EXCEPT !.pending = << >>, !.seq = path, !.continuation = c]
    BY <1>1, <1>2, <1>3, <1>5 DEF ReplayKey
  <2>3. c # << >>
    BY WaitingFor
  <2> HIDE DEF c, after, path
  <2>4. /\ IsReplay(after) /\ after.mode = mode /\ after.log = log
        /\ after.count = keys.count /\ after.frames = << >>
        /\ after.pending = << >> /\ after.seq = path /\ after.continuation = c
    BY <1>2, <2>2 DEF IsReplay
  <2>5. /\ keys'.path = path /\ keys'.count = keys.count
        /\ keys'.continuation = c /\ keys'.frames = << >>
    BY <2>1
  <2>6. QED
    BY <2>1, <2>3, <2>4, <2>5 DEF Follows, after
<1>6. QED
  BY <1>4, <1>5

LEMMA ReplayFollowsMoreKeys ==
  ASSUME PendingInv, NEW k \in Keys, AwaitMoreKeys(k), ~ReplaySkip(k, mode),
         NEW r, Follows(mode, keys, log, r)
  PROVE  Follows(mode', keys', log', ReplayKey(r, k))
<1> DEFINE path == Append(keys.path, k)
           after == ReplayKey(r, k)
<1>1. /\ keys.continuation = << >> /\ ~IsCount(mode, keys.path, k, keys.count)
      /\ Bound(mode, path) = {} /\ IsKeyPrefix(mode, path)
      /\ ~(mode = "insert" /\ keys.path = << >> /\ Typable(k))
      /\ mode' = mode /\ log' = log
      /\ keys' = [keys EXCEPT !.path = path, !.input = Append(@, "key")]
  BY DEF AwaitMoreKeys, Joins, IsKeyPrefix, Inserts
<1>2. /\ IsReplay(r) /\ r.mode = mode /\ r.log = log /\ r.count = keys.count
      /\ r.continuation = << >> /\ r.frames = << >> /\ keys.frames = << >>
      /\ r.pending = keys.path
  BY <1>1, ReplaySees
<1>3. after = [r EXCEPT !.pending = path]
  BY <1>1, <1>2 DEF ReplayKey
<1> HIDE DEF path, after
<1>4. /\ IsReplay(after) /\ after.mode = mode /\ after.log = log
      /\ after.count = keys.count
      /\ after.continuation = << >> /\ after.frames = << >> /\ after.pending = path
  BY <1>2, <1>3 DEF IsReplay
<1>5. /\ keys'.path = path /\ keys'.count = keys.count
      /\ keys'.continuation = << >> /\ keys'.frames = << >>
  <2>1. keys = [path |-> keys.path, input |-> keys.input, count |-> keys.count,
                continuation |-> keys.continuation, frames |-> keys.frames]
    BY DEF PendingInv, IsPending
  <2>2. QED
    BY <1>1, <1>2, <2>1
<1>6. QED
  BY <1>1, <1>4, <1>5 DEF Follows, after

LEMMA ReplayFollowsInsert ==
  ASSUME PendingInv, NEW k \in Keys, InsertTypable(k), NEW r, Follows(mode, keys, log, r)
  PROVE  Follows(mode', keys', log', ReplayKey(r, k))
<1> DEFINE path == Append(keys.path, k)
           l == Append(log, Entry("insert", <<k>>, 0))
           s == Settled(r)
           after == ReplayKey(r, k)
<1>1. /\ keys.continuation = << >> /\ ~IsCount(mode, keys.path, k, keys.count)
      /\ Bound(mode, path) = {} /\ mode = "insert" /\ keys.path = << >> /\ Typable(k)
      /\ mode' = mode /\ log' = l /\ keys' = Idle
  BY DEF InsertTypable, Joins, Inserts
<1>2. /\ IsReplay(r) /\ r.mode = mode /\ r.log = log /\ r.count = keys.count
      /\ r.continuation = << >> /\ r.frames = << >> /\ keys.frames = << >>
      /\ r.pending = keys.path
  BY <1>1, ReplaySees
<1>3. ~ReplaySkip(k, r.mode)
  BY <1>1, <1>2 DEF ReplaySkip
<1>4. /\ IsReplay(s) /\ s.pending = << >> /\ s.count = 0 /\ s.continuation = << >>
      /\ s.frames = << >> /\ s.log = log /\ s.mode = mode
  BY <1>2, SettledIs
<1>5. after = [s EXCEPT !.log = l]
  BY <1>1, <1>2, <1>3, <1>4 DEF ReplayKey
<1> HIDE DEF l, s, after
<1>6. /\ IsReplay(after) /\ after.mode = mode /\ after.log = l
      /\ after.pending = << >> /\ after.count = 0 /\ after.continuation = << >>
      /\ after.frames = << >>
  BY <1>4, <1>5 DEF IsReplay
<1>7. Follows(mode, Idle, l, after)
  BY <1>6, FollowsIdle
<1>8. QED
  BY <1>1, <1>7 DEF after

LEMMA NothingPending ==
  ASSUME PendingInv, keys.continuation = << >>, keys.input = << >>
  PROVE  keys.path = << >> /\ keys.count = 0
<1>1. /\ keys.path \in Seq(Keys) /\ keys.count \in Nat
      /\ Len(keys.input) = DigitsOf(keys.input) + Len(keys.path)
      /\ keys.count < ScaleOf(keys.input)
  BY DEF PendingInv, IsPending, Counted
<1>2. Len(keys.input) = 0 /\ DigitsOf(keys.input) = 0 /\ ScaleOf(keys.input) = 1
  BY ScaleAppends, DigitsAppend
<1>3. Len(keys.path) = 0 /\ keys.count = 0
  BY <1>1, <1>2
<1>4. QED
  BY <1>1, <1>3

LEMMA ReplayFollowsUnbound ==
  ASSUME PendingInv, NEW k \in Keys, UnboundKey(k), ~ReplaySkip(k, mode),
         keys.input = << >>, NEW r, Follows(mode, keys, log, r)
  PROVE  Follows(mode', keys', log', ReplayKey(r, k))
<1> DEFINE path == Append(keys.path, k)
           s == Settled(r)
           after == ReplayKey(r, k)
<1>1. /\ keys.continuation = << >> /\ ~IsCount(mode, keys.path, k, keys.count)
      /\ Below(mode, path) = {}
      /\ ~(mode = "insert" /\ keys.path = << >> /\ Typable(k))
      /\ mode' = mode /\ log' = log /\ keys' = keys
  BY DEF UnboundKey, Joins, Inserts
<1>2. /\ IsReplay(r) /\ r.mode = mode /\ r.log = log /\ r.count = keys.count
      /\ r.continuation = << >> /\ r.frames = << >> /\ keys.frames = << >>
      /\ r.pending = keys.path
  BY <1>1, ReplaySees
<1>3. keys.path = << >> /\ keys.count = 0
  BY <1>1, NothingPending
<1>4. Bound(mode, path) = {} /\ ~IsKeyPrefix(mode, path)
  BY <1>1 DEF Bound, IsKeyPrefix
<1>5. after = s
  BY <1>1, <1>2, <1>4 DEF ReplayKey
<1>6. /\ IsReplay(s) /\ s.pending = << >> /\ s.count = 0 /\ s.continuation = << >>
      /\ s.frames = << >> /\ s.log = log /\ s.mode = mode
  BY <1>2, SettledIs
<1> HIDE DEF s, after
<1>7. Follows(mode, keys, log, after)
  BY <1>1, <1>2, <1>3, <1>5, <1>6 DEF Follows
<1>8. QED
  BY <1>1, <1>7 DEF after

\* What CleanMacroReplays rests on.
ReplayInv ==
  /\ PendingInv
  /\ stumbled \in BOOLEAN
  /\ ~stumbled => Follows(mode, keys, log, Replay(typed))

LEMMA ReplayOneMore ==
  ASSUME PendingInv, NEW k \in Keys \cup Specials, Type(k)
  PROVE  Replay(typed') = ReplayKey(Replay(typed), k)
<1>1. typed' = Append(typed, k) /\ typed \in Seq(Keys \cup Specials)
  BY DEF Type, PendingInv
<1>2. QED
  BY <1>1, ReplayAppends

LEMMA ReplayFollows ==
  ASSUME ReplayInv, KeyNext
  PROVE  stumbled' \in BOOLEAN /\ (~stumbled' => Follows(mode', keys', log', Replay(typed')))
<1> DEFINE r == Replay(typed)
           Goal == stumbled' \in BOOLEAN
                   /\ (~stumbled' => Follows(mode', keys', log', Replay(typed')))
<1>1. PendingInv /\ stumbled \in BOOLEAN /\ (~stumbled => Follows(mode, keys, log, r))
  BY DEF ReplayInv
<1>2. CASE CancelPending
  BY <1>2 DEF CancelPending, Stumble
<1>3. CASE PopPending
  BY <1>3 DEF PopPending, Stumble
<1>4. CASE MouseClick
  BY <1>4 DEF MouseClick, Stumble
<1> HIDE DEF r
<1>5. ASSUME NEW k \in Keys, HandleContinuation(k)
      PROVE  Goal
  <2>1. stumbled' = stumbled /\ Replay(typed') = ReplayKey(r, k)
    BY <1>1, <1>5, ReplayOneMore DEF HandleContinuation, r
  <2>2. ASSUME ~stumbled
        PROVE  Follows(mode', keys', log', ReplayKey(r, k))
    BY <1>1, <1>5, <2>2, ReplayFollowsContinuation
  <2>3. QED
    BY <1>1, <2>1, <2>2
<1>6. ASSUME NEW k \in Keys, CountDigit(k)
      PROVE  Goal
  <2>1. stumbled' = stumbled /\ Replay(typed') = ReplayKey(r, k)
    BY <1>1, <1>6, ReplayOneMore DEF CountDigit, r
  <2>2. ASSUME ~stumbled
        PROVE  Follows(mode', keys', log', ReplayKey(r, k))
    BY <1>1, <1>6, <2>2, ReplayFollowsDigit
  <2>3. QED
    BY <1>1, <2>1, <2>2
<1>7. ASSUME NEW k \in Keys, RunCommand(k)
      PROVE  Goal
  <2>1. stumbled' = (stumbled \/ ReplaySkip(k, mode)) /\ Replay(typed') = ReplayKey(r, k)
    BY <1>1, <1>7, ReplayOneMore DEF RunCommand, Joins, Stumble, r
  <2>2. ASSUME ~stumbled, ~ReplaySkip(k, mode)
        PROVE  Follows(mode', keys', log', ReplayKey(r, k))
    BY <1>1, <1>7, <2>2, ReplayFollowsCommand
  <2>3. QED
    BY <1>1, <2>1, <2>2
<1>8. ASSUME NEW k \in Keys, AwaitMoreKeys(k)
      PROVE  Goal
  <2>1. stumbled' = (stumbled \/ ReplaySkip(k, mode)) /\ Replay(typed') = ReplayKey(r, k)
    BY <1>1, <1>8, ReplayOneMore DEF AwaitMoreKeys, Joins, Stumble, r
  <2>2. ASSUME ~stumbled, ~ReplaySkip(k, mode)
        PROVE  Follows(mode', keys', log', ReplayKey(r, k))
    BY <1>1, <1>8, <2>2, ReplayFollowsMoreKeys
  <2>3. QED
    BY <1>1, <2>1, <2>2
<1>9. ASSUME NEW k \in Keys, InsertTypable(k)
      PROVE  Goal
  <2>1. stumbled' = stumbled /\ Replay(typed') = ReplayKey(r, k)
    BY <1>1, <1>9, ReplayOneMore DEF InsertTypable, Joins, r
  <2>2. ASSUME ~stumbled
        PROVE  Follows(mode', keys', log', ReplayKey(r, k))
    BY <1>1, <1>9, <2>2, ReplayFollowsInsert
  <2>3. QED
    BY <1>1, <2>1, <2>2
<1>10. ASSUME NEW k \in Keys, UnboundKey(k)
       PROVE  Goal
  <2>1. /\ stumbled' = (stumbled \/ (keys.input # << >> \/ ReplaySkip(k, mode)))
        /\ Replay(typed') = ReplayKey(r, k)
    BY <1>1, <1>10, ReplayOneMore DEF UnboundKey, Joins, Stumble, r
  <2>2. ASSUME ~stumbled, ~ReplaySkip(k, mode), keys.input = << >>
        PROVE  Follows(mode', keys', log', ReplayKey(r, k))
    BY <1>1, <1>10, <2>2, ReplayFollowsUnbound
  <2>3. QED
    BY <1>1, <2>1, <2>2
<1>11. QED
  BY <1>2, <1>3, <1>4, <1>5, <1>6, <1>7, <1>8, <1>9, <1>10 DEF KeyNext

LEMMA ReplayInvHolds ==
  KeySpec => []ReplayInv
<1>1. KeyInit => (stumbled \in BOOLEAN /\ (~stumbled => Follows(mode, keys, log, Replay(typed))))
  <2> SUFFICES ASSUME KeyInit
               PROVE  stumbled \in BOOLEAN /\ Follows(mode, keys, log, Replay(typed))
    OBVIOUS
  <2>1. /\ mode = "normal" /\ keys = Idle /\ log = << >> /\ stumbled = FALSE
        /\ Replay(typed) = ReplayStart
    BY ReplayAppends DEF KeyInit
  <2>2. /\ IsReplay(ReplayStart) /\ ReplayStart.mode = "normal" /\ ReplayStart.log = << >>
        /\ ReplayStart.pending = << >> /\ ReplayStart.count = 0
        /\ ReplayStart.continuation = << >> /\ ReplayStart.frames = << >>
    BY DEF ReplayStart, IsReplay
  <2>3. Follows("normal", Idle, << >>, ReplayStart)
    BY <2>2, FollowsIdle
  <2>4. QED
    BY <2>1, <2>3
<1> DEFINE Sim == stumbled \in BOOLEAN
                  /\ (~stumbled => Follows(mode, keys, log, Replay(typed)))
<1>2. PendingInv /\ Sim /\ [KeyNext]_keyVars => Sim'
  <2> SUFFICES ASSUME PendingInv, Sim, [KeyNext]_keyVars
               PROVE  Sim'
    OBVIOUS
  <2>1. CASE KeyNext
    BY <2>1, ReplayFollows DEF ReplayInv, Follows
  <2>2. CASE UNCHANGED keyVars
    BY <2>2 DEF keyVars, Follows
  <2>3. QED
    BY <2>1, <2>2
<1>3. PendingInv /\ Sim => ReplayInv
  BY DEF ReplayInv
<1>4. KeyInit => Sim
  BY <1>1
<1> HIDE DEF Sim
<1>5. QED
  BY <1>2, <1>3, <1>4, PendingInvHolds, PTL DEF KeySpec

\* A macro that was recorded without a slip replays to the commands that were
\* typed, with their characters and counts, and leaves the editor in its mode.
THEOREM CleanMacroReplaysHolds ==
  KeySpec => []CleanMacroReplays
<1>1. ReplayInv => CleanMacroReplays
  BY DEF ReplayInv, CleanMacroReplays, Follows
<1>2. QED
  BY <1>1, ReplayInvHolds, PTL

-----------------------------------------------------------------------------
(* Completion: numbers and texts                                           *)

LEMMA GreatestNumber ==
  ASSUME NEW n \in Nat, NEW T, T \subseteq 0 .. n, T # {}
  PROVE  Max(T) \in T /\ \A x \in T : x <= Max(T)
<1> DEFINE D == {n - x : x \in T}
<1>1. D \subseteq Nat /\ D # {}
  <2>1. \A x \in T : n - x \in Nat
    OBVIOUS
  <2>2. \A d \in D : d \in Nat
    BY <2>1
  <2>3. PICK x \in T : TRUE
    OBVIOUS
  <2>4. n - x \in D
    OBVIOUS
  <2>5. QED
    BY <2>2, <2>4
<1>2. PICK d \in D : \A e \in D : d <= e
  <2> HIDE DEF D
  <2>1. QED
    BY <1>1, LeastNumber
<1>3. PICK m \in T : d = n - m
  BY <1>2
<1>4. ASSUME NEW x \in T
      PROVE  m >= x
  <2>1. n - m <= n - x
    BY <1>2, <1>3
  <2>2. m \in Int /\ x \in Int
    OBVIOUS
  <2>3. QED
    BY <2>1, <2>2
<1> HIDE DEF D
<1>5. Max(T) \in T /\ \A y \in T : Max(T) >= y
  BY <1>4 DEF Max
<1>6. \A x \in T : x \in Int
  OBVIOUS
<1>7. QED
  BY <1>5, <1>6

LEMMA SmallestNumber ==
  ASSUME NEW T, T \subseteq Nat, T # {}
  PROVE  Min(T) \in T
<1>1. PICK m \in T : \A x \in T : m <= x
  BY LeastNumber
<1>2. QED
  BY <1>1 DEF Min

Word == Seq(Letters)

\* The word at the caret starts at the beginning of the text or behind a
\* character that no word has.
LEMMA WordStarts ==
  ASSUME NEW t \in Word
  PROVE  /\ WordStart(t) \in 0 .. Len(t)
         /\ WordStart(t) # 0 => t[WordStart(t)] \in NonWord
<1> DEFINE T == {0} \cup {i \in DOMAIN t : t[i] \in NonWord}
<1>1. /\ Len(t) \in Nat /\ T \subseteq 0 .. Len(t) /\ T # {}
      /\ \A i \in T : i # 0 => t[i] \in NonWord
  BY DEF Word
<1>2. WordStart(t) = Max(T)
  BY DEF WordStart
<1> HIDE DEF T
<1>3. Max(T) \in T
  BY <1>1, GreatestNumber
<1>4. QED
  BY <1>1, <1>2, <1>3

LEMMA CallIsNumber ==
  ASSUME NEW t \in Word
  PROVE  CallOpen(t) \in Nat
<1> DEFINE depth(i, j) == Cardinality({k \in i..j : t[k] = "("})
                          - Cardinality({k \in i..j : t[k] = ")"})
           open == {i \in DOMAIN t : /\ t[i] = "("
                                     /\ \A j \in i..Len(t) : depth(i, j) > 0}
           T == {0} \cup open
<1>1. Len(t) \in Nat /\ DOMAIN t = 1 .. Len(t)
  BY DEF Word
<1>2. T \subseteq 0 .. Len(t) /\ T # {}
  <2> HIDE DEF depth
  <2>1. QED
    BY <1>1
<1>3. CallOpen(t) = 0 \/ CallOpen(t) = Max(T)
  BY Zenon DEF CallOpen
<1> HIDE DEF T, depth, open
<1>4. Max(T) \in T
  BY <1>1, <1>2, GreatestNumber
<1>5. Max(T) \in Nat
  <2>1. \A i \in 0 .. Len(t) : i \in Nat
    OBVIOUS
  <2>2. QED
    BY <1>2, <1>4, <2>1, Zenon
<1>6. QED
  BY <1>3, <1>5

\* What starts with the query has it in order.
LEMMA PrefixIsFuzzy ==
  ASSUME NEW word \in Word, NEW query \in Word, IsPrefix(query, word)
  PROVE  Fuzzy(word, query)
<1>1. /\ Len(query) \in Nat /\ Len(word) \in Nat /\ Len(query) <= Len(word)
      /\ DOMAIN query = 1 .. Len(query) /\ DOMAIN word = 1 .. Len(word)
  BY DEF Word, IsPrefix
<1>2. ASSUME NEW i \in 1 .. Len(query)
      PROVE  word[i] = query[i]
  <2>1. SubSeq(query, 1, Len(query)) = SubSeq(word, 1, Len(query))
    BY DEF IsPrefix
  <2>2. SubSeq(query, 1, Len(query))[i] = query[i]
    BY <1>1 DEF Word
  <2>3. SubSeq(word, 1, Len(query))[i] = word[i]
    BY <1>1 DEF Word
  <2>4. QED
    BY <2>1, <2>2, <2>3
<1> DEFINE at == [i \in DOMAIN query |-> i]
<1>3. at \in [DOMAIN query -> DOMAIN word]
  BY <1>1
<1>4. \A i \in DOMAIN query : at[i] = i /\ i \in 1 .. Len(query)
  BY <1>1
<1> HIDE DEF at
<1>5. \A i \in DOMAIN query : word[at[i]] = query[i]
  BY <1>2, <1>4
<1>6. \A i, j \in DOMAIN query : i < j => at[i] < at[j]
  BY <1>4
<1>7. QED
  BY <1>3, <1>5, <1>6 DEF Fuzzy

-----------------------------------------------------------------------------
(* Completion: the items that match                                        *)

Item == [word : Word, id : Nat]

Kept(query, s) ==
  /\ s \in Seq(Item)
  /\ \A i \in DOMAIN s : Fuzzy(s[i].word, query)

LEMMA NothingKept ==
  ASSUME NEW query
  PROVE  Kept(query, << >>)
BY DEF Kept

LEMMA OneMoreKept ==
  ASSUME NEW query, NEW s, Kept(query, s), NEW it \in Item, Fuzzy(it.word, query)
  PROVE  Kept(query, Append(s, it))
<1>1. /\ s \in Seq(Item) /\ Append(s, it) \in Seq(Item)
      /\ DOMAIN s = 1 .. Len(s) /\ DOMAIN Append(s, it) = 1 .. Len(s) + 1
      /\ Len(s) \in Nat /\ Append(s, it)[Len(s) + 1] = it
      /\ \A i \in 1 .. Len(s) : Append(s, it)[i] = s[i]
  BY DEF Kept
<1>2. ASSUME NEW i \in 1 .. Len(s) + 1
      PROVE  Fuzzy(Append(s, it)[i].word, query)
  <2>1. CASE i = Len(s) + 1
    BY <1>1, <2>1
  <2>2. CASE i # Len(s) + 1
    <3>1. i \in DOMAIN s /\ Append(s, it)[i] = s[i]
      BY <1>1, <2>2
    <3>2. Fuzzy(s[i].word, query)
      BY <3>1 DEF Kept
    <3>3. QED
      BY <3>1, <3>2, Zenon
  <2>3. QED
    BY <2>1, <2>2
<1>3. QED
  BY <1>1, <1>2 DEF Kept

LEMMA BothKept ==
  ASSUME NEW query, NEW s, NEW t, Kept(query, s), Kept(query, t)
  PROVE  Kept(query, s \o t)
<1>1. /\ s \in Seq(Item) /\ t \in Seq(Item) /\ s \o t \in Seq(Item)
      /\ Len(s) \in Nat /\ Len(t) \in Nat
      /\ DOMAIN s = 1 .. Len(s) /\ DOMAIN t = 1 .. Len(t)
      /\ DOMAIN (s \o t) = 1 .. Len(s) + Len(t)
      /\ \A i \in 1 .. Len(s) : (s \o t)[i] = s[i]
      /\ \A i \in 1 .. Len(t) : (s \o t)[i + Len(s)] = t[i]
  BY DEF Kept
<1>2. ASSUME NEW i \in 1 .. Len(s) + Len(t)
      PROVE  Fuzzy((s \o t)[i].word, query)
  <2>1. CASE i \in 1 .. Len(s)
    <3>1. (s \o t)[i] = s[i] /\ i \in DOMAIN s
      BY <1>1, <2>1
    <3>2. QED
      BY <3>1 DEF Kept
  <2>2. CASE i \notin 1 .. Len(s)
    <3>1. PICK j \in 1 .. Len(t) : i = j + Len(s)
      <4>1. i - Len(s) \in 1 .. Len(t) /\ i = (i - Len(s)) + Len(s)
        BY <1>1, <2>2
      <4>2. QED
        BY <4>1
    <3>2. (s \o t)[i] = t[j] /\ j \in DOMAIN t
      BY <1>1, <3>1
    <3>3. Fuzzy(t[j].word, query)
      BY <3>2 DEF Kept
    <3>4. QED
      BY <3>2, <3>3, Zenon
  <2>3. QED
    BY <2>1, <2>2
<1>3. QED
  BY <1>1, <1>2 DEF Kept

Prefixed == INSTANCE FoldTheorems WITH Op <- KeepPrefixed

Scattered == INSTANCE FoldTheorems WITH Op <- KeepScattered

LEMMA PrefixedKept ==
  ASSUME NEW query \in Word
  PROVE  \A items \in Seq(Item) : Kept(query, Prefixed!Fold(query, << >>, items))
<1> DEFINE Good == {s \in Seq(Item) : Kept(query, Prefixed!Fold(query, << >>, s))}
<1>1. << >> \in Good
  <2>1. Prefixed!Fold(query, << >>, << >>) = << >>
    BY Prefixed!FoldNone
  <2>2. << >> \in Seq(Item)
    OBVIOUS
  <2>3. QED
    BY <2>1, <2>2, NothingKept
<1>2. ASSUME NEW s \in Seq(Item), NEW it \in Item, s \in Good
      PROVE  Append(s, it) \in Good
  <2> DEFINE x == Prefixed!Fold(query, << >>, s)
  <2>1. Kept(query, x)
    BY <1>2
  <2>2. Prefixed!Fold(query, << >>, Append(s, it)) = KeepPrefixed(query, x, it)
    BY Prefixed!FoldAppend
  <2> HIDE DEF x
  <2>3. it.word \in Word
    BY DEF Item
  <2>4. Kept(query, KeepPrefixed(query, x, it))
    BY <2>1, <2>3, OneMoreKept, PrefixIsFuzzy DEF KeepPrefixed
  <2>5. Append(s, it) \in Seq(Item)
    OBVIOUS
  <2>6. QED
    BY <2>2, <2>4, <2>5
<1>3. QED
  <2> HIDE DEF Good
  <2>1. \A s \in Seq(Item) : s \in Good
    BY <1>1, <1>2, OverSequences, Zenon
  <2>2. QED
    BY <2>1 DEF Good

LEMMA ScatteredKept ==
  ASSUME NEW query \in Word
  PROVE  \A items \in Seq(Item) : Kept(query, Scattered!Fold(query, << >>, items))
<1> DEFINE Good == {s \in Seq(Item) : Kept(query, Scattered!Fold(query, << >>, s))}
<1>1. << >> \in Good
  <2>1. Scattered!Fold(query, << >>, << >>) = << >>
    BY Scattered!FoldNone
  <2>2. << >> \in Seq(Item)
    OBVIOUS
  <2>3. QED
    BY <2>1, <2>2, NothingKept
<1>2. ASSUME NEW s \in Seq(Item), NEW it \in Item, s \in Good
      PROVE  Append(s, it) \in Good
  <2> DEFINE x == Scattered!Fold(query, << >>, s)
  <2>1. Kept(query, x)
    BY <1>2
  <2>2. Scattered!Fold(query, << >>, Append(s, it)) = KeepScattered(query, x, it)
    BY Scattered!FoldAppend
  <2> HIDE DEF x
  <2>3. Kept(query, KeepScattered(query, x, it))
    BY <2>1, OneMoreKept DEF KeepScattered
  <2>4. Append(s, it) \in Seq(Item)
    OBVIOUS
  <2>5. QED
    BY <2>2, <2>3, <2>4
<1>3. QED
  <2> HIDE DEF Good
  <2>1. \A s \in Seq(Item) : s \in Good
    BY <1>1, <1>2, OverSequences, Zenon
  <2>2. QED
    BY <2>1 DEF Good

LEMMA FilterIsFolds ==
  ASSUME NEW items, NEW query
  PROVE  FilterItems(items, query)
           = Prefixed!Fold(query, << >>, items) \o Scattered!Fold(query, << >>, items)
BY DEF FilterItems, Prefixed!Fold, Prefixed!FoldLeft, Prefixed!MapThenFoldSet, Prefixed!Max,
       Scattered!Fold, Scattered!FoldLeft, Scattered!MapThenFoldSet, Scattered!Max,
       FoldLeft, MapThenFoldSet, Max

LEMMA FilterKeeps ==
  ASSUME NEW items \in Seq(Item), NEW query \in Word
  PROVE  Kept(query, FilterItems(items, query))
BY FilterIsFolds, PrefixedKept, ScatteredKept, BothKept

-----------------------------------------------------------------------------
(* Completion: the layers                                                  *)

ListLayer ==
  [kind : {"completion"}, id : Nat, all : Seq(Item), items : Seq(Item),
   cursor : Nat, manual : BOOLEAN, incomplete : BOOLEAN, anchor : Nat,
   rev : Nat, refreshGen : Nat]

Layer == ListLayer \cup [kind : {"signature"}, call : Nat]

Buffer == [text : Word, rev : Nat, mode : {"insert", "normal"}]

Requests ==
  [kind : {"typed", "invoked", "refresh"}, layer : Nat, gen : Nat,
   anchor : Nat, rev : Nat, pos : Nat, phase : {"asked", "answered"},
   words : Seq(Word), incomplete : BOOLEAN, failed : BOOLEAN]

\* What a request says of the text it was made for.
RequestFits(buf, r) ==
  /\ r \in Requests /\ r.rev <= buf.rev
  /\ r.rev = buf.rev => r.pos = Len(buf.text)
  /\ r.rev = buf.rev /\ r.kind # "refresh" => r.anchor = WordStart(buf.text)

RequestsFit(buf, rs) == \A r \in rs : RequestFits(buf, r)

\* The list waits for the answer to r.
Awaited(buf, c, r) ==
  /\ r.kind = "refresh" /\ r.layer = c.id /\ r.gen = c.refreshGen
  /\ r.rev = buf.rev

\* The list has its place in the text.
Placed(buf, c) ==
  /\ buf.mode = "insert" /\ c.anchor <= Len(buf.text)
  /\ c.anchor # 0 => buf.text[c.anchor] \in NonWord

\* What is promised of a list, over a text and with requests under way.
ListFits(buf, rs, c) ==
  /\ c \in ListLayer /\ Placed(buf, c)
  /\ c.rev = buf.rev \/ Kept(Query(c, buf.text), c.items)
  /\ c.items = << >> => c.incomplete
  /\ c.incomplete /\ c.rev # buf.rev => \E r \in rs : Awaited(buf, c, r)

\* Only the topmost layer is a list, and it keeps what is promised.
LayersFit(buf, rs, ls) ==
  /\ ls \in Seq(Layer)
  /\ \A i \in DOMAIN ls : IsList(ls[i]) => i = Len(ls) /\ ListFits(buf, rs, ls[i])

NoLists(ls) ==
  /\ ls \in Seq(Layer)
  /\ \A i \in DOMAIN ls : ~IsList(ls[i])

LEMMA ListIsLayer ==
  ASSUME NEW l \in Layer
  PROVE  /\ IsList(l) <=> l \in ListLayer
         /\ ~IsList(l) => l \in [kind : {"signature"}, call : Nat] /\ IsSignature(l)
         /\ IsList(l) => ~IsSignature(l)
<1>1. CASE l \in ListLayer
  <2>1. l.kind = "completion"
    BY <1>1 DEF ListLayer
  <2>2. QED
    BY <1>1, <2>1 DEF IsList, IsSignature
<1>2. CASE l \in [kind : {"signature"}, call : Nat]
  <2>1. l.kind = "signature"
    BY <1>2
  <2>2. ASSUME l \in ListLayer PROVE FALSE
    <3>1. l.kind = "completion"
      BY <2>2 DEF ListLayer
    <3>2. QED
      BY <2>1, <3>1
  <2>3. QED
    BY <1>2, <2>1, <2>2 DEF IsList, IsSignature
<1>3. QED
  BY <1>1, <1>2 DEF Layer

LEMMA NoListsFit ==
  ASSUME NEW ls, NoLists(ls), NEW buf, NEW rs
  PROVE  LayersFit(buf, rs, ls)
BY DEF NoLists, LayersFit

LEMMA NoLayers == NoLists(<< >>)
BY DEF NoLists

LEMMA PoppedHasNone ==
  ASSUME NEW buf, NEW rs, NEW ls, LayersFit(buf, rs, ls)
  PROVE  NoLists(PopLayer(ls))
<1>1. CASE ls = << >>
  BY <1>1, NoLayers DEF PopLayer
<1>2. CASE ls # << >>
  <2>1. /\ ls \in Seq(Layer) /\ Len(ls) \in Nat \ {0} /\ DOMAIN ls = 1 .. Len(ls)
        /\ PopLayer(ls) = Front(ls)
    BY <1>2 DEF LayersFit, PopLayer
  <2>2. /\ Front(ls) \in Seq(Layer) /\ Len(Front(ls)) = Len(ls) - 1
        /\ \A i \in 1 .. Len(ls) - 1 : Front(ls)[i] = ls[i]
    BY <1>2, <2>1, FrontAndLast
  <2>3. ASSUME NEW i \in 1 .. Len(ls) - 1
        PROVE  ~IsList(Front(ls)[i])
    <3>1. i \in DOMAIN ls /\ i # Len(ls)
      <4>1. \A n \in Nat \ {0} : \A k \in 1 .. n - 1 : k \in 1 .. n /\ k # n
        OBVIOUS
      <4>2. QED
        BY <2>1, <4>1, Zenon
    <3>2. ~IsList(ls[i])
      BY <3>1 DEF LayersFit
    <3>3. Front(ls)[i] = ls[i]
      BY <2>2
    <3>4. QED
      BY <3>2, <3>3, Zenon
  <2>4. DOMAIN Front(ls) = 1 .. Len(ls) - 1
    BY <2>2
  <2>5. QED
    BY <2>1, <2>2, <2>3, <2>4, Zenon DEF NoLists
<1>3. QED
  BY <1>1, <1>2

LEMMA MoreRequests ==
  ASSUME NEW buf, NEW rs, NEW qs, rs \subseteq qs, NEW ls, LayersFit(buf, rs, ls)
  PROVE  LayersFit(buf, qs, ls)
<1>1. ASSUME NEW c, ListFits(buf, rs, c)
      PROVE  ListFits(buf, qs, c)
  BY <1>1 DEF ListFits
<1>2. QED
  BY <1>1 DEF LayersFit

HasInPlace(S, s, n, e, t) ==
  /\ t \in Seq(S) /\ Len(t) = Len(s) /\ DOMAIN t = 1 .. Len(s)
  /\ t[n] = e /\ \A i \in 1 .. Len(s) : i # n => t[i] = s[i]

LEMMA Replaced ==
  ASSUME NEW S, NEW s \in Seq(S), NEW n \in 1 .. Len(s), NEW e \in S
  PROVE  HasInPlace(S, s, n, e, ReplaceAt(s, n, e))
<1> DEFINE t == [s EXCEPT ![n] = e]
<1>1. Len(s) \in Nat /\ DOMAIN s = 1 .. Len(s) /\ s \in [1 .. Len(s) -> S]
  OBVIOUS
<1>2. t \in [1 .. Len(s) -> S]
  BY <1>1
<1>3. t \in Seq(S) /\ Len(t) = Len(s)
  BY <1>1, <1>2
<1>4. t[n] = e /\ \A i \in 1 .. Len(s) : i # n => t[i] = s[i]
  BY <1>1
<1>5. DOMAIN t = 1 .. Len(s)
  BY <1>1
<1> HIDE DEF t
<1>6. QED
  BY <1>3, <1>4, <1>5, Zenon DEF ReplaceAt, t, HasInPlace

\* Another list in the place of the topmost one.
LEMMA TopReplaced ==
  ASSUME NEW buf, NEW rs, NEW ls, LayersFit(buf, rs, ls), ls # << >>,
         NEW buf2, NEW rs2, NEW c, ListFits(buf2, rs2, c)
  PROVE  LayersFit(buf2, rs2, ReplaceAt(ls, Len(ls), c))
<1> DEFINE t == ReplaceAt(ls, Len(ls), c)
<1>1. /\ ls \in Seq(Layer) /\ Len(ls) \in Nat \ {0} /\ DOMAIN ls = 1 .. Len(ls)
      /\ c \in Layer
  BY DEF LayersFit, ListFits, Layer
<1>2. /\ t \in Seq(Layer) /\ Len(t) = Len(ls) /\ DOMAIN t = 1 .. Len(ls)
      /\ t[Len(ls)] = c /\ \A i \in 1 .. Len(ls) : i # Len(ls) => t[i] = ls[i]
  <2>1. Len(ls) \in 1 .. Len(ls)
    BY <1>1
  <2>2. HasInPlace(Layer, ls, Len(ls), c, t)
    BY <1>1, <2>1, Replaced, Zenon
  <2> HIDE DEF t
  <2>3. QED
    BY <2>2 DEF HasInPlace
<1> HIDE DEF t
<1>3. ASSUME NEW i \in 1 .. Len(ls), IsList(t[i])
      PROVE  i = Len(t) /\ ListFits(buf2, rs2, t[i])
  <2>1. CASE i = Len(ls)
    BY <1>2, <2>1
  <2>2. CASE i # Len(ls)
    <3>1. IsList(ls[i])
      BY <1>2, <1>3, <2>2, Zenon
    <3>2. QED
      BY <1>1, <2>2, <3>1 DEF LayersFit
  <2>3. QED
    BY <2>1, <2>2
<1>4. QED
  BY <1>2, <1>3 DEF LayersFit, t

LEMMA ListPushed ==
  ASSUME NEW buf, NEW rs, NEW ls, NoLists(ls), NEW c, ListFits(buf, rs, c)
  PROVE  LayersFit(buf, rs, Append(ls, c))
<1> DEFINE t == Append(ls, c)
<1>1. ls \in Seq(Layer) /\ c \in Layer /\ DOMAIN ls = 1 .. Len(ls) /\ Len(ls) \in Nat
  BY DEF NoLists, ListFits, Layer
<1>2. /\ t \in Seq(Layer) /\ Len(t) = Len(ls) + 1 /\ DOMAIN t = 1 .. Len(ls) + 1
      /\ t[Len(ls) + 1] = c /\ \A i \in 1 .. Len(ls) : t[i] = ls[i]
  BY <1>1
<1> HIDE DEF t
<1>3. ASSUME NEW i \in 1 .. Len(ls) + 1, IsList(t[i])
      PROVE  i = Len(t) /\ ListFits(buf, rs, t[i])
  <2>1. CASE i = Len(ls) + 1
    BY <1>2, <2>1
  <2>2. CASE i # Len(ls) + 1
    <3>1. i \in 1 .. Len(ls)
      BY <1>1, <2>2
    <3>2. IsList(ls[i])
      BY <1>2, <1>3, <3>1, Zenon
    <3>3. QED
      BY <1>1, <3>1, <3>2 DEF NoLists
  <2>3. QED
    BY <2>1, <2>2
<1>4. QED
  BY <1>2, <1>3 DEF LayersFit, t

LEMMA TopListIs ==
  ASSUME NEW buf, NEW rs, LayersFit(buf, rs, layers)
  PROVE  /\ TopList = 0 => NoLists(layers)
         /\ TopList # 0 => /\ layers # << >> /\ TopList = Len(layers)
                           /\ IsList(layers[Len(layers)])
                           /\ ListFits(buf, rs, layers[Len(layers)])
<1> DEFINE T == {0} \cup ListsOn(layers)
<1>1. /\ layers \in Seq(Layer) /\ Len(layers) \in Nat
      /\ DOMAIN layers = 1 .. Len(layers)
  BY DEF LayersFit
<1>2. T \subseteq 0 .. Len(layers) /\ T # {}
  BY <1>1 DEF ListsOn
<1>3. TopList = Max(T)
  BY DEF TopList
<1>4. \A i \in DOMAIN layers : IsList(layers[i]) <=> i \in T
  BY <1>1 DEF ListsOn
<1>7. \A i \in T : i # 0 => i \in DOMAIN layers
  BY DEF ListsOn
<1> HIDE DEF T
<1>5. Max(T) \in T /\ \A i \in T : i <= Max(T)
  BY <1>1, <1>2, GreatestNumber
<1>6. CASE TopList = 0
  <2>1. \A i \in DOMAIN layers : ~IsList(layers[i])
    <3>1. ASSUME NEW i \in DOMAIN layers, i \in T PROVE FALSE
      <4>1. i <= 0 /\ i \in 1 .. Len(layers)
        BY <1>1, <1>3, <1>5, <1>6, <3>1, Zenon
      <4>2. QED
        BY <1>1, <4>1
    <3>2. QED
      BY <1>4, <3>1
  <2>2. QED
    BY <1>1, <1>6, <2>1 DEF NoLists
<1>8. CASE TopList # 0
  <2>1. TopList \in DOMAIN layers /\ TopList \in T
    BY <1>3, <1>5, <1>7, <1>8
  <2>2. IsList(layers[TopList])
    BY <1>4, <2>1
  <2>3. TopList = Len(layers) /\ ListFits(buf, rs, layers[TopList])
    BY <2>1, <2>2 DEF LayersFit
  <2>4. layers # << >>
    BY <1>1, <2>1
  <2>5. QED
    BY <1>8, <2>2, <2>3, <2>4
<1>9. QED
  BY <1>6, <1>8

-----------------------------------------------------------------------------
(* Completion: what the callbacks do                                       *)

LEMMA CursorRestored ==
  ASSUME NEW c \in ListLayer, NEW items \in Seq(Item)
  PROVE  RestoreCursor(c, items) \in Nat
<1> DEFINE same == {i \in DOMAIN items : /\ c.cursor \in DOMAIN c.items
                                         /\ items[i].id = c.items[c.cursor].id}
<1>1. RestoreCursor(c, items) = IF c.manual /\ same # {} THEN Min(same) ELSE 1
  BY DEF RestoreCursor
<1>2. same \subseteq Nat
  OBVIOUS
<1> HIDE DEF same
<1>3. same # {} => Min(same) \in Nat
  BY <1>2, SmallestNumber
<1>4. QED
  BY <1>1, <1>3

LEMMA QueryIsWord ==
  ASSUME NEW text \in Word, NEW c \in ListLayer, c.anchor <= Len(text)
  PROVE  Query(c, text) \in Word
<1>1. c.anchor \in Nat /\ Len(text) \in Nat
  BY DEF ListLayer, Word
<1>2. \A s \in Seq(Letters), n \in Nat :
        n <= Len(s) => SubSeq(s, n + 1, Len(s)) \in Seq(Letters)
  OBVIOUS
<1>3. QED
  BY <1>1, <1>2 DEF Query, Word

\* A list with other candidates.
Refilled(c, items, n, k) ==
  /\ k \in ListLayer /\ k.id = c.id /\ k.items = items /\ k.anchor = c.anchor
  /\ k.incomplete = c.incomplete /\ k.rev = c.rev /\ k.refreshGen = n

LEMMA ListRefilled ==
  ASSUME NEW c \in ListLayer, NEW items \in Seq(Item), NEW cursor \in Nat,
         NEW n \in Nat
  PROVE  Refilled(c, items, n,
                  [c EXCEPT !.items = items, !.cursor = cursor, !.refreshGen = n])
BY DEF ListLayer, Refilled

LEMMA RequestMade ==
  ASSUME NEW kind \in {"typed", "invoked", "refresh"}, NEW layer \in Nat,
         NEW gen \in Nat, NEW anchor \in Nat, NEW buf \in Buffer,
         kind # "refresh" => anchor = WordStart(buf.text)
  PROVE  RequestFits(buf, Request(kind, layer, gen, anchor, buf))
<1> DEFINE r == Request(kind, layer, gen, anchor, buf)
<1>1. buf.text \in Word /\ buf.rev \in Nat /\ Len(buf.text) \in Nat
  BY DEF Buffer, Word
<1>2. /\ r.kind = kind /\ r.layer = layer /\ r.gen = gen /\ r.anchor = anchor
      /\ r.rev = buf.rev /\ r.pos = Len(buf.text)
  BY DEF Request
<1>3. r \in Requests
  <2>1. << >> \in Seq(Word)
    OBVIOUS
  <2>2. QED
    BY <1>1, <2>1 DEF Request, Requests
<1> HIDE DEF r
<1>4. RequestFits(buf, r)
  BY <1>1, <1>2, <1>3 DEF RequestFits
<1>5. QED
  BY <1>4 DEF r

\* The callback of the topmost list, over the text that buf has come to.
LEMMA ListRefreshed ==
  ASSUME NEW buf \in Buffer, NEW old, NEW rs, NEW ls, LayersFit(old, rs, ls),
         ls # << >>, ls[Len(ls)] \in ListLayer, Placed(buf, ls[Len(ls)])
  PROVE  LET st == RefreshList(buf, [layers |-> ls, asked |-> rs], Len(ls))
         IN  /\ LayersFit(buf, st.asked, st.layers)
             /\ RequestsFit(buf, rs) => RequestsFit(buf, st.asked)
<1> DEFINE c == ls[Len(ls)]
           q == Query(c, buf.text)
           items == FilterItems(c.all, q)
           cursor == IF items = << >> THEN c.cursor ELSE RestoreCursor(c, items)
           n == IF c.incomplete THEN c.refreshGen + 1 ELSE c.refreshGen
           k == [c EXCEPT !.items = items, !.cursor = cursor, !.refreshGen = n]
           new == RefreshRequest(c, buf)
           st == RefreshList(buf, [layers |-> ls, asked |-> rs], Len(ls))
<1>1. /\ c \in ListLayer /\ c.all \in Seq(Item) /\ c.cursor \in Nat
      /\ c.refreshGen \in Nat /\ c.incomplete \in BOOLEAN /\ c.id \in Nat
      /\ c.anchor \in Nat /\ c.anchor <= Len(buf.text) /\ buf.text \in Word
  BY DEF ListLayer, Placed, Buffer
<1>2. st = IF items = << >> /\ ~c.incomplete
           THEN [layers |-> PopLayer(ls), asked |-> rs]
           ELSE [layers |-> ReplaceAt(ls, Len(ls), k), asked |-> rs \cup new]
  BY DEF RefreshList
<1>3. Kept(q, items) /\ items \in Seq(Item)
  <2>1. q \in Word
    BY <1>1, QueryIsWord
  <2> HIDE DEF q, c
  <2>2. Kept(q, items)
    BY <1>1, <2>1, FilterKeeps
  <2>3. QED
    BY <2>2 DEF Kept
<1>4. cursor \in Nat /\ n \in Nat
  <2>1. RestoreCursor(c, items) \in Nat
    BY <1>1, <1>3, CursorRestored
  <2> HIDE DEF items, c
  <2>2. QED
    BY <1>1, <2>1
<1>5. /\ k \in ListLayer /\ k.id = c.id /\ k.items = items /\ k.anchor = c.anchor
      /\ k.incomplete = c.incomplete /\ k.rev = c.rev /\ k.refreshGen = n
  <2> HIDE DEF items, c, cursor, n
  <2>1. Refilled(c, items, n, k)
    BY <1>1, <1>3, <1>4, ListRefilled, Zenon
  <2> HIDE DEF k
  <2>2. QED
    BY <2>1 DEF Refilled
<1>6. RequestsFit(buf, new)
  <2> HIDE DEF c
  <2>1. RequestFits(buf, Request("refresh", c.id, c.refreshGen + 1, c.anchor, buf))
    <3>1. c.refreshGen + 1 \in Nat
      BY <1>1
    <3>2. QED
      BY <1>1, <3>1, RequestMade, Zenon
  <2>2. QED
    BY <2>1 DEF RefreshRequest, RequestsFit
<1>7. c.incomplete => \E r \in new : Awaited(buf, k, r)
  <2> DEFINE r == Request("refresh", c.id, c.refreshGen + 1, c.anchor, buf)
  <2> HIDE DEF c, k, new
  <2>1. r.kind = "refresh" /\ r.layer = c.id /\ r.gen = c.refreshGen + 1 /\ r.rev = buf.rev
    BY DEF Request
  <2>2. c.incomplete => r \in new
    BY DEF RefreshRequest, new
  <2> HIDE DEF r
  <2>3. c.incomplete => Awaited(buf, k, r)
    BY <1>5, <2>1 DEF Awaited
  <2>4. QED
    BY <2>2, <2>3
<1>8. CASE items = << >> /\ ~c.incomplete
  <2>1. st.layers = PopLayer(ls) /\ st.asked = rs
    BY <1>2, <1>8
  <2> HIDE DEF st
  <2>2. LayersFit(buf, st.asked, st.layers)
    BY <2>1, PoppedHasNone, NoListsFit
  <2>3. QED
    BY <2>1, <2>2 DEF st
<1>9. CASE ~(items = << >> /\ ~c.incomplete)
  <2>1. st.layers = ReplaceAt(ls, Len(ls), k) /\ st.asked = rs \cup new
    BY <1>2, <1>9
  <2>2. ListFits(buf, rs \cup new, k)
    <3>1. Placed(buf, k)
      <4>1. Placed(buf, c)
        OBVIOUS
      <4> HIDE DEF c, k
      <4>2. QED
        BY <1>5, <4>1 DEF Placed
    <3>2. Query(k, buf.text) = q
      <4> HIDE DEF c, k
      <4>1. QED
        BY <1>5 DEF Query, q
    <3> HIDE DEF items, c, k, new, q
    <3>3. k.incomplete => \E r \in rs \cup new : Awaited(buf, k, r)
      BY <1>5, <1>7
    <3>4. QED
      BY <1>1, <1>3, <1>5, <1>9, <3>1, <3>2, <3>3 DEF ListFits
  <2> HIDE DEF st, k, new
  <2>3. LayersFit(buf, rs \cup new, ReplaceAt(ls, Len(ls), k))
    BY <2>2, TopReplaced
  <2>4. RequestsFit(buf, rs) => RequestsFit(buf, rs \cup new)
    BY <1>6 DEF RequestsFit
  <2>5. QED
    BY <2>1, <2>3, <2>4 DEF st
<1>10. QED
  BY <1>8, <1>9

-----------------------------------------------------------------------------
(* Completion: signature help                                              *)

KeepStep(c, kept, l) == KeepOther(kept, l)

Others == INSTANCE FoldTheorems WITH Op <- KeepStep

LEMMA OthersIsFold ==
  ASSUME NEW ls
  PROVE  FoldLeft(KeepOther, << >>, ls) = Others!Fold(0, << >>, ls)
BY DEF KeepStep, Others!Fold, Others!FoldLeft, Others!MapThenFoldSet, Others!Max,
       FoldLeft, MapThenFoldSet, Max

LEMMA LayerPushed ==
  ASSUME NEW ls, NoLists(ls), NEW l \in Layer, ~IsList(l)
  PROVE  NoLists(Append(ls, l))
<1> DEFINE t == Append(ls, l)
<1>1. ls \in Seq(Layer) /\ DOMAIN ls = 1 .. Len(ls) /\ Len(ls) \in Nat
  BY DEF NoLists
<1>2. /\ t \in Seq(Layer) /\ DOMAIN t = 1 .. Len(ls) + 1
      /\ t[Len(ls) + 1] = l /\ \A i \in 1 .. Len(ls) : t[i] = ls[i]
  BY <1>1
<1> HIDE DEF t
<1>3. ASSUME NEW i \in 1 .. Len(ls) + 1 PROVE ~IsList(t[i])
  <2>1. CASE i = Len(ls) + 1
    BY <1>2, <2>1
  <2>2. CASE i # Len(ls) + 1
    <3>1. i \in 1 .. Len(ls)
      BY <1>1, <2>2
    <3>2. ~IsList(ls[i])
      BY <1>1, <3>1 DEF NoLists
    <3>3. QED
      BY <1>2, <3>1, <3>2, Zenon
  <2>3. QED
    BY <2>1, <2>2
<1>4. QED
  BY <1>2, <1>3 DEF NoLists, t

LEMMA NoListsAmongOthers ==
  \A ls \in Seq(Layer) : NoLists(ls) => NoLists(FoldLeft(KeepOther, << >>, ls))
<1> DEFINE F(s) == Others!Fold(0, << >>, s)
           Good == {s \in Seq(Layer) : NoLists(s) => NoLists(F(s))}
<1>1. << >> \in Good
  <2>1. F(<< >>) = << >>
    BY Others!FoldNone
  <2>2. << >> \in Seq(Layer)
    OBVIOUS
  <2>3. QED
    BY <2>1, <2>2, NoLayers
<1>2. ASSUME NEW s \in Seq(Layer), NEW l \in Layer, s \in Good
      PROVE  Append(s, l) \in Good
  <2>1. F(Append(s, l)) = KeepOther(F(s), l)
    BY Others!FoldAppend DEF KeepStep
  <2>2. ASSUME NoLists(Append(s, l))
        PROVE  NoLists(s) /\ ~IsList(l)
    <3>1. /\ DOMAIN Append(s, l) = 1 .. Len(s) + 1 /\ Len(s) \in Nat
          /\ Append(s, l)[Len(s) + 1] = l /\ DOMAIN s = 1 .. Len(s)
          /\ \A i \in 1 .. Len(s) : Append(s, l)[i] = s[i]
      OBVIOUS
    <3>2. \A i \in 1 .. Len(s) + 1 : ~IsList(Append(s, l)[i])
      BY <2>2, <3>1 DEF NoLists
    <3>3. Len(s) + 1 \in 1 .. Len(s) + 1 /\ \A i \in 1 .. Len(s) : i \in 1 .. Len(s) + 1
      BY <3>1
    <3>4. ~IsList(l)
      BY <3>1, <3>2, <3>3, Zenon
    <3>5. \A i \in 1 .. Len(s) : ~IsList(s[i])
      BY <3>1, <3>2, <3>3, Zenon
    <3>6. QED
      BY <3>1, <3>4, <3>5 DEF NoLists
  <2> HIDE DEF F
  <2>3. ASSUME NoLists(Append(s, l))
        PROVE  NoLists(F(Append(s, l)))
    <3>1. NoLists(F(s)) /\ ~IsList(l)
      BY <1>2, <2>2, <2>3
    <3>2. QED
      BY <2>1, <3>1, LayerPushed DEF KeepOther
  <2>4. Append(s, l) \in Seq(Layer)
    OBVIOUS
  <2>5. QED
    BY <2>3, <2>4
<1>3. QED
  <2> HIDE DEF Good
  <2>1. \A s \in Seq(Layer) : s \in Good
    BY <1>1, <1>2, OverSequences, Zenon
  <2> HIDE DEF F
  <2>2. \A s \in Seq(Layer) : NoLists(s) => NoLists(F(s))
    BY <2>1 DEF Good
  <2>3. QED
    BY <2>2, OthersIsFold DEF F

LEMMA SignaturePushed ==
  ASSUME NEW ls, NoLists(ls), NEW call \in Nat
  PROVE  NoLists(PushSignature(ls, call))
<1> DEFINE l == [kind |-> "signature", call |-> call]
           old == {i \in DOMAIN ls : IsSignature(ls[i])}
<1>1. l \in Layer /\ ~IsList(l)
  BY DEF Layer, IsList
<1>2. /\ ls \in Seq(Layer) /\ Len(ls) \in Nat /\ DOMAIN ls = 1 .. Len(ls)
      /\ \A i \in 1 .. Len(ls) : ~IsList(ls[i])
  BY DEF NoLists
<1>3. PushSignature(ls, call)
        = IF old = {} THEN Append(ls, l) ELSE ReplaceAt(ls, Max(old), l)
  BY DEF PushSignature
<1> HIDE DEF l
<1>4. CASE old = {}
  BY <1>1, <1>3, <1>4, LayerPushed
<1>5. CASE old # {}
  <2> DEFINE m == Max(old)
             t == ReplaceAt(ls, m, l)
  <2>1. old \subseteq 0 .. Len(ls)
    BY <1>2
  <2>2. old \subseteq 1 .. Len(ls)
    BY <1>2
  <2> HIDE DEF old
  <2>3. m \in old
    BY <1>2, <1>5, <2>1, GreatestNumber
  <2>4. m \in 1 .. Len(ls)
    BY <2>2, <2>3, Zenon
  <2> HIDE DEF m
  <2>5. HasInPlace(Layer, ls, m, l, t)
    BY <1>1, <1>2, <2>4, Replaced, Zenon
  <2> HIDE DEF t
  <2>6. ASSUME NEW i \in 1 .. Len(ls) PROVE ~IsList(t[i])
    BY <1>1, <1>2, <2>5 DEF HasInPlace
  <2>7. NoLists(t)
    BY <2>5, <2>6 DEF HasInPlace, NoLists
  <2>8. QED
    BY <1>3, <1>5, <2>7 DEF t, m
<1>6. QED
  BY <1>4, <1>5

-----------------------------------------------------------------------------
(* Completion: all the callbacks                                           *)

CallbackStep(c, st, i) == Callback(c.ls, c.buf, c.help, st, i)

Running == INSTANCE FoldTheorems WITH Op <- CallbackStep

\* The layers that saw a character, from the top down.
TopDown(ls, from) == Reverse([k \in 1 .. (Len(ls) - from + 1) |-> from + k - 1])

LEMMA CallbacksAreFold ==
  ASSUME NEW ls, NEW buf, NEW help, NEW from, NEW rs
  PROVE  Callbacks(ls, buf, help, from, rs)
           = Running!Fold([ls |-> ls, buf |-> buf, help |-> help],
                          [layers |-> ls, asked |-> rs], TopDown(ls, from))
<1> DEFINE c == [ls |-> ls, buf |-> buf, help |-> help]
<1>1. c.ls = ls /\ c.buf = buf /\ c.help = help
  OBVIOUS
<1>2. Callbacks(ls, buf, help, from, rs)
        = Running!Fold(c, [layers |-> ls, asked |-> rs], TopDown(ls, from))
  BY DEF Callbacks, CallbackStep, TopDown, Running!Fold, Running!FoldLeft,
         Running!MapThenFoldSet, Running!Max, FoldLeft, MapThenFoldSet, Max
<1>3. QED
  BY <1>2

\* A list on top is called first and, as it consumes what is typed, alone.
LEMMA TopCallback ==
  ASSUME NEW ls \in Seq(Layer), ls # << >>, NEW buf, NEW help, NEW rs
  PROVE  Callbacks(ls, buf, help, Len(ls), rs)
           = Callback(ls, buf, help, [layers |-> ls, asked |-> rs], Len(ls))
<1> DEFINE n == Len(ls)
           c == [ls |-> ls, buf |-> buf, help |-> help]
           b == [layers |-> ls, asked |-> rs]
<1>1. n \in Nat \ {0}
  OBVIOUS
<1>2. TopDown(ls, n) = Append(<< >>, n)
  <2> HIDE DEF n
  <2>1. n - n + 1 = 1 /\ n + 1 - 1 = n
    BY <1>1
  <2>2. [k \in 1 .. 1 |-> n + k - 1] = << n >>
    BY <1>1
  <2>3. Reverse(<< n >>) = << n >>
    BY <1>1 DEF Reverse
  <2>4. Append(<< >>, n) = << n >>
    BY <1>1
  <2>5. TopDown(ls, n) = Reverse([k \in 1 .. 1 |-> n + k - 1])
    BY <2>1, Zenon DEF TopDown, n
  <2>6. QED
    BY <2>2, <2>3, <2>4, <2>5
<1>3. << >> \in Seq(Nat) /\ n \in Nat
  BY <1>1
<1> HIDE DEF n
<1>4. c.ls = ls /\ c.buf = buf /\ c.help = help
  OBVIOUS
<1> HIDE DEF c, b
<1>5. Running!Fold(c, b, Append(<< >>, n)) = CallbackStep(c, Running!Fold(c, b, << >>), n)
  <2>1. PICK e \in Seq(Nat) : e = << >>
    BY <1>3
  <2>2. Running!Fold(c, b, Append(e, n)) = CallbackStep(c, Running!Fold(c, b, e), n)
    BY <1>3, Running!FoldAppend
  <2>3. QED
    BY <2>1, <2>2
<1>6. Running!Fold(c, b, << >>) = b
  BY Running!FoldNone
<1>7. CallbackStep(c, b, n) = Callback(ls, buf, help, b, n)
  BY <1>4, Zenon DEF CallbackStep
<1>8. Callbacks(ls, buf, help, n, rs) = Running!Fold(c, b, TopDown(ls, n))
  BY CallbacksAreFold, Zenon DEF c, b
<1>9. QED
  BY <1>2, <1>5, <1>6, <1>7, <1>8 DEF n, b

\* Without a list, the callbacks bring none and ask for nothing.
Quiet(rs, st) ==
  /\ st = [layers |-> st.layers, asked |-> st.asked]
  /\ st.asked = rs /\ NoLists(st.layers)

LEMMA QuietCallback ==
  ASSUME NEW ls, NoLists(ls), NEW buf \in Buffer, NEW help, NEW rs,
         NEW st, Quiet(rs, st), NEW i \in DOMAIN ls
  PROVE  Quiet(rs, Callback(ls, buf, help, st, i))
<1>1. Callback(ls, buf, help, st, i) = RefreshSignature(buf, help, st, i)
  BY DEF Callback, NoLists
<1> DEFINE r == RefreshSignature(buf, help, st, i)
           call == st.layers[i].call
<1>2. buf.text \in Word
  BY DEF Buffer
<1>3. CASE CallOpen(buf.text) = call /\ help
  <2>1. r = [st EXCEPT !.layers = PushSignature(@, call)]
    BY <1>3 DEF RefreshSignature
  <2>2. r = [layers |-> PushSignature(st.layers, call), asked |-> rs]
    BY <2>1 DEF Quiet
  <2>3. call \in Nat
    BY <1>2, <1>3, CallIsNumber
  <2> HIDE DEF call, r
  <2>4. NoLists(PushSignature(st.layers, call))
    BY <2>3, SignaturePushed DEF Quiet
  <2>5. QED
    BY <1>1, <2>2, <2>4 DEF Quiet, r
<1>4. CASE ~(CallOpen(buf.text) = call /\ help)
  <2>1. r = [st EXCEPT !.layers = FoldLeft(KeepOther, << >>, @)]
    BY <1>4 DEF RefreshSignature
  <2>2. r = [layers |-> FoldLeft(KeepOther, << >>, st.layers), asked |-> rs]
    BY <2>1 DEF Quiet
  <2>3. NoLists(FoldLeft(KeepOther, << >>, st.layers))
    BY NoListsAmongOthers DEF Quiet, NoLists
  <2> HIDE DEF r
  <2>4. QED
    BY <1>1, <2>2, <2>3 DEF Quiet, r
<1>5. QED
  BY <1>3, <1>4

LEMMA QuietCallbacks ==
  ASSUME NEW ls, NoLists(ls), NEW buf \in Buffer, NEW help, NEW rs
  PROVE  Quiet(rs, Callbacks(ls, buf, help, 1, rs))
<1> DEFINE c == [ls |-> ls, buf |-> buf, help |-> help]
           b == [layers |-> ls, asked |-> rs]
           Good == {s \in Seq(DOMAIN ls) : Quiet(rs, Running!Fold(c, b, s))}
<1>1. << >> \in Good
  <2>1. Running!Fold(c, b, << >>) = b
    BY Running!FoldNone
  <2>2. Quiet(rs, b)
    BY DEF Quiet
  <2> HIDE DEF b, c
  <2>3. << >> \in Seq(DOMAIN ls)
    OBVIOUS
  <2>4. QED
    BY <2>1, <2>2, <2>3
<1>2. ASSUME NEW s \in Seq(DOMAIN ls), NEW i \in DOMAIN ls, s \in Good
      PROVE  Append(s, i) \in Good
  <2> DEFINE st == Running!Fold(c, b, s)
  <2>0. c.ls = ls /\ c.buf = buf /\ c.help = help
    OBVIOUS
  <2>1. Quiet(rs, st)
    BY <1>2
  <2> HIDE DEF b, c
  <2>2. Running!Fold(c, b, Append(s, i)) = CallbackStep(c, st, i)
    BY Running!FoldAppend
  <2> HIDE DEF st
  <2>3. CallbackStep(c, st, i) = Callback(ls, buf, help, st, i)
    BY <2>0, Zenon DEF CallbackStep
  <2>4. Quiet(rs, CallbackStep(c, st, i))
    BY <2>1, <2>3, QuietCallback
  <2>5. Append(s, i) \in Seq(DOMAIN ls)
    OBVIOUS
  <2>6. QED
    BY <2>2, <2>4, <2>5
<1>3. TopDown(ls, 1) \in Seq(DOMAIN ls)
  <2>1. ls \in Seq(Layer)
    BY DEF NoLists
  <2>2. PICK n \in Nat : n = Len(ls) /\ DOMAIN ls = 1 .. n
    BY <2>1
  <2>3. n - 1 + 1 = n
    OBVIOUS
  <2> DEFINE u == [k \in 1 .. n |-> 1 + k - 1]
  <2>4. u \in Seq(1 .. n) /\ Len(u) = n /\ \A k \in 1 .. n : u[k] \in 1 .. n
    OBVIOUS
  <2>5. TopDown(ls, 1) = Reverse(u)
    BY <2>2, <2>3, Zenon DEF TopDown
  <2> HIDE DEF u
  <2>6. Reverse(u) \in [1 .. n -> 1 .. n]
    <3>1. \A k \in 1 .. n : n - k + 1 \in 1 .. n
      OBVIOUS
    <3>2. QED
      BY <2>4, <3>1 DEF Reverse
  <2>7. Reverse(u) \in Seq(1 .. n)
    BY <2>6
  <2>8. QED
    BY <2>2, <2>5, <2>7
<1>4. QED
  <2> HIDE DEF Good
  <2>1. \A s \in Seq(DOMAIN ls) : s \in Good
    BY <1>1, <1>2, OverSequences, Zenon
  <2> HIDE DEF c, b
  <2>2. Quiet(rs, Running!Fold(c, b, TopDown(ls, 1)))
    BY <1>3, <2>1 DEF Good
  <2>3. QED
    BY <2>2, CallbacksAreFold, Zenon DEF c, b

-----------------------------------------------------------------------------
(* Completion: the invariant                                               *)

PopupInv ==
  /\ buffer \in Buffer
  /\ language \in [completionGen : Nat, autoGen : Nat, hidden : Nat]
  /\ table \in Seq(Word)
  /\ RequestsFit(buffer, asked)
  /\ LayersFit(buffer, asked, layers)

\* Typing makes a later text, and what was asked before was asked of an older
\* one.
LEMMA TextEdited ==
  ASSUME buffer \in Buffer, NEW text \in Word, Edit(text),
         RequestsFit(buffer, asked)
  PROVE  /\ buffer' \in Buffer /\ buffer'.text = text
         /\ buffer'.rev = buffer.rev + 1 /\ buffer'.mode = buffer.mode
         /\ RequestsFit(buffer', asked)
<1>1. buffer' = [buffer EXCEPT !.text = text, !.rev = @ + 1] /\ buffer.rev \in Nat
  BY DEF Edit, Buffer
<1>2. /\ buffer' \in Buffer /\ buffer'.text = text
      /\ buffer'.rev = buffer.rev + 1 /\ buffer'.mode = buffer.mode
  <2>1. buffer = [text |-> buffer.text, rev |-> buffer.rev, mode |-> buffer.mode]
        /\ buffer.mode \in {"insert", "normal"} /\ buffer.rev + 1 \in Nat
    BY <1>1 DEF Buffer
  <2>2. buffer' = [text |-> text, rev |-> buffer.rev + 1, mode |-> buffer.mode]
    BY <1>1, <2>1
  <2>3. QED
    BY <2>1, <2>2 DEF Buffer
<1>3. ASSUME NEW r \in asked
      PROVE  RequestFits(buffer', r)
  <2>1. r \in Requests /\ r.rev <= buffer.rev /\ r.rev \in Nat
    BY DEF RequestsFit, RequestFits, Requests
  <2>2. r.rev <= buffer'.rev /\ r.rev # buffer'.rev
    BY <1>1, <1>2, <2>1
  <2>3. QED
    BY <2>1, <2>2 DEF RequestFits
<1>4. QED
  BY <1>2, <1>3 DEF RequestsFit

LEMMA LetterTyped ==
  ASSUME NEW text \in Word, NEW ch \in Chars
  PROVE  /\ Append(text, ch) \in Word /\ Len(Append(text, ch)) = Len(text) + 1
         /\ \A i \in 1 .. Len(text) : Append(text, ch)[i] = text[i]
<1>1. ch \in Letters
  BY DEF Letters
<1>2. QED
  BY <1>1 DEF Word

LEMMA TypeIntoListKeeps ==
  ASSUME PopupInv, NEW ch \in Chars, TypeIntoList(ch)
  PROVE  PopupInv'
<1> DEFINE text == Append(buffer.text, ch)
           n == Len(layers)
           c == layers[n]
<1>1. buffer \in Buffer /\ buffer.text \in Word /\ Len(buffer.text) \in Nat
  BY DEF PopupInv, Buffer, Word
<1>2. /\ text \in Word /\ Len(text) = Len(buffer.text) + 1
      /\ \A i \in 1 .. Len(buffer.text) : text[i] = buffer.text[i]
  BY <1>1, LetterTyped
<1>3. /\ Edit(text) /\ TopList # 0 /\ buffer.mode = "insert"
      /\ \E help \in BOOLEAN :
            LET st == Callbacks(layers, buffer', help, TopList, asked)
            IN  layers' = st.layers /\ asked' = st.asked
      /\ language' = language /\ table' = table
  BY DEF TypeIntoList
<1> HIDE DEF text
<1>4. /\ buffer' \in Buffer /\ buffer'.text = text /\ buffer'.mode = "insert"
      /\ RequestsFit(buffer', asked)
  BY <1>1, <1>2, <1>3, TextEdited DEF PopupInv
<1>5. /\ layers # << >> /\ TopList = n /\ IsList(c) /\ ListFits(buffer, asked, c)
      /\ layers \in Seq(Layer)
  BY <1>3, TopListIs DEF PopupInv, LayersFit
<1>6. c \in ListLayer /\ Placed(buffer, c) /\ c.anchor \in Nat
  BY <1>5 DEF ListFits, ListLayer
<1>7. Placed(buffer', c)
  <2>1. c.anchor <= Len(text)
    BY <1>1, <1>2, <1>6 DEF Placed
  <2>2. ASSUME c.anchor # 0
        PROVE  text[c.anchor] \in NonWord
    <3>1. c.anchor \in 1 .. Len(buffer.text) /\ buffer.text[c.anchor] \in NonWord
      BY <1>1, <1>6, <2>2 DEF Placed
    <3>2. text[c.anchor] = buffer.text[c.anchor]
      BY <1>2, <3>1
    <3>3. QED
      BY <3>1, <3>2
  <2>3. QED
    BY <1>4, <2>1, <2>2 DEF Placed
<1>8. PICK help \in BOOLEAN :
        LET st == Callbacks(layers, buffer', help, TopList, asked)
        IN  layers' = st.layers /\ asked' = st.asked
  BY <1>3
<1> DEFINE st == RefreshList(buffer', [layers |-> layers, asked |-> asked], n)
<1>9. Callbacks(layers, buffer', help, TopList, asked) = st
  <2>1. Callbacks(layers, buffer', help, n, asked)
          = Callback(layers, buffer', help, [layers |-> layers, asked |-> asked], n)
    BY <1>5, TopCallback, Zenon
  <2>2. QED
    BY <1>5, <2>1 DEF Callback
<1>10. layers' = st.layers /\ asked' = st.asked
  BY <1>8, <1>9
<1>11. /\ LayersFit(buffer', st.asked, st.layers)
       /\ RequestsFit(buffer', asked) => RequestsFit(buffer', st.asked)
  BY <1>4, <1>5, <1>6, <1>7, ListRefreshed, Zenon DEF PopupInv
<1> HIDE DEF st
<1>12. QED
  BY <1>3, <1>4, <1>10, <1>11 DEF PopupInv

LEMMA CompletionAsked ==
  ASSUME NEW kind \in {"typed", "invoked"}, NEW gen \in Nat, NEW buf \in Buffer
  PROVE  RequestFits(buf, CompletionRequest(kind, gen, buf))
<1>1. buf.text \in Word
  BY DEF Buffer
<1>2. WordStart(buf.text) \in Nat
  <2>1. WordStart(buf.text) \in 0 .. Len(buf.text)
    BY <1>1, WordStarts
  <2>2. Len(buf.text) \in Nat
    BY <1>1 DEF Word
  <2>3. QED
    BY <2>1, <2>2
<1>3. QED
  BY <1>2, RequestMade, Zenon DEF CompletionRequest

LEMMA TypeIntoEditorKeeps ==
  ASSUME PopupInv, NEW ch \in Chars, TypeIntoEditor(ch)
  PROVE  PopupInv'
<1> DEFINE text == Append(buffer.text, ch)
           call == CallOpen(text)
           auto == language.autoGen + 1
<1>1. buffer \in Buffer /\ buffer.text \in Word /\ Len(buffer.text) \in Nat
  BY DEF PopupInv, Buffer, Word
<1>2. text \in Word
  BY <1>1, LetterTyped
<1>3. PICK refreshed \in BOOLEAN, help \in BOOLEAN :
        LET st == Callbacks(layers, buffer', refreshed, 1, asked)
            hidden == call # 0 /\ language.hidden = call
            shows == help /\ call # 0 /\ ~hidden /\ ch = "("
            gen == language.completionGen + (IF shows THEN 1 ELSE 2)
        IN  /\ layers' = IF shows THEN PushSignature(st.layers, call)
                         ELSE st.layers
            /\ asked' = IF shows \/ ch \notin Triggers THEN st.asked
                        ELSE st.asked \cup {CompletionRequest("typed", gen, buffer')}
            /\ language' = [completionGen |-> gen, autoGen |-> auto,
                            hidden |-> IF hidden THEN call ELSE 0]
  BY DEF TypeIntoEditor
<1>4. Edit(text) /\ TopList = 0 /\ table' = table
  BY DEF TypeIntoEditor
<1> DEFINE st == Callbacks(layers, buffer', refreshed, 1, asked)
           hidden == call # 0 /\ language.hidden = call
           shows == help /\ call # 0 /\ ~hidden /\ ch = "("
           gen == language.completionGen + (IF shows THEN 1 ELSE 2)
<1>5. /\ layers' = IF shows THEN PushSignature(st.layers, call) ELSE st.layers
      /\ asked' = IF shows \/ ch \notin Triggers THEN st.asked
                  ELSE st.asked \cup {CompletionRequest("typed", gen, buffer')}
      /\ language' = [completionGen |-> gen, autoGen |-> auto,
                      hidden |-> IF hidden THEN call ELSE 0]
  BY <1>3
<1>6. call \in Nat
  BY <1>2, CallIsNumber
<1>7. gen \in Nat /\ auto \in Nat
  BY DEF PopupInv
<1> HIDE DEF text, call, auto, gen, hidden, shows
<1>8. buffer' \in Buffer /\ RequestsFit(buffer', asked)
  BY <1>1, <1>2, <1>4, TextEdited DEF PopupInv
<1>9. NoLists(layers)
  BY <1>4, TopListIs DEF PopupInv
<1>10. Quiet(asked, st)
  BY <1>8, <1>9, QuietCallbacks
<1> HIDE DEF st
<1>11. st.asked = asked /\ NoLists(st.layers)
  BY <1>10 DEF Quiet
<1>12. NoLists(layers')
  BY <1>5, <1>6, <1>11, SignaturePushed
<1>13. LayersFit(buffer', asked', layers')
  BY <1>12, NoListsFit
<1>14. RequestsFit(buffer', asked')
  <2>1. RequestFits(buffer', CompletionRequest("typed", gen, buffer'))
    BY <1>7, <1>8, CompletionAsked
  <2>2. QED
    BY <1>5, <1>8, <1>11, <2>1 DEF RequestsFit
<1>15. language' \in [completionGen : Nat, autoGen : Nat, hidden : Nat]
  BY <1>5, <1>6, <1>7
<1>16. QED
  BY <1>4, <1>8, <1>13, <1>14, <1>15 DEF PopupInv

LEMMA KeyReached ==
  ASSUME PopupInv, NEW n \in Nat, KeyReachesEditor(n)
  PROVE  /\ language' \in [completionGen : Nat, autoGen : Nat, hidden : Nat]
         /\ language.completionGen + n \in Nat
<1>1. /\ language' = [language EXCEPT !.completionGen = @ + n]
      /\ language \in [completionGen : Nat, autoGen : Nat, hidden : Nat]
  BY DEF KeyReachesEditor, PopupInv
<1>2. language.completionGen + n \in Nat
  BY <1>1
<1>3. QED
  BY <1>1, <1>2

LEMMA CompletionActionKeeps ==
  ASSUME PopupInv, CompletionAction
  PROVE  PopupInv'
<1> DEFINE r == CompletionRequest("invoked", language.completionGen + 2, buffer)
<1>1. /\ KeyReachesEditor(2) /\ layers' = << >> /\ asked' = asked \cup {r}
      /\ buffer' = buffer /\ table' = table /\ buffer \in Buffer
  BY DEF CompletionAction, PopupInv
<1>2. /\ language' \in [completionGen : Nat, autoGen : Nat, hidden : Nat]
      /\ language.completionGen + 2 \in Nat
  BY <1>1, KeyReached
<1>3. RequestFits(buffer, r)
  BY <1>1, <1>2, CompletionAsked, Zenon
<1> HIDE DEF r
<1>4. RequestsFit(buffer', asked')
  BY <1>1, <1>3 DEF RequestsFit, PopupInv
<1>5. LayersFit(buffer', asked', layers')
  BY <1>1, NoLayers, NoListsFit
<1>6. QED
  BY <1>1, <1>2, <1>4, <1>5 DEF PopupInv

LEMMA DeleteCharBackwardKeeps ==
  ASSUME PopupInv, DeleteCharBackward
  PROVE  PopupInv'
<1>1. /\ buffer.text # << >> /\ Edit(Front(buffer.text)) /\ KeyReachesEditor(1)
      /\ layers' = << >> /\ asked' = asked /\ table' = table
      /\ buffer \in Buffer /\ buffer.text \in Seq(Letters)
  BY DEF DeleteCharBackward, PopupInv, Buffer, Word
<1>2. Front(buffer.text) \in Word
  BY <1>1, FrontAndLast DEF Word
<1>3. buffer' \in Buffer /\ RequestsFit(buffer', asked)
  BY <1>1, <1>2, TextEdited, Zenon DEF PopupInv
<1>4. language' \in [completionGen : Nat, autoGen : Nat, hidden : Nat]
  BY <1>1, KeyReached
<1>5. LayersFit(buffer', asked', layers')
  BY <1>1, NoLayers, NoListsFit
<1>6. QED
  BY <1>1, <1>3, <1>4, <1>5 DEF PopupInv

\* What a list is promised of requests does not depend on the mode of a buffer
\* without one.
LEMMA ModeChanged ==
  ASSUME buffer \in Buffer, NEW m \in {"insert", "normal"},
         buffer' = [buffer EXCEPT !.mode = m], RequestsFit(buffer, asked)
  PROVE  buffer' \in Buffer /\ RequestsFit(buffer', asked)
<1>1. buffer' \in Buffer /\ buffer'.text = buffer.text /\ buffer'.rev = buffer.rev
  BY DEF Buffer
<1>2. QED
  BY <1>1, Zenon DEF RequestsFit, RequestFits

LEMMA EscapeKeeps ==
  ASSUME PopupInv, Escape
  PROVE  PopupInv'
<1>1. /\ layers' = PopLayer(layers) /\ asked' = asked /\ table' = table
      /\ buffer \in Buffer /\ RequestsFit(buffer, asked)
      /\ LayersFit(buffer, asked, layers)
  BY DEF Escape, PopupInv
<1>2. LayersFit(buffer', asked', layers')
  <2>1. NoLists(layers')
    BY <1>1, PoppedHasNone
  <2>2. QED
    BY <2>1, NoListsFit
<1>3. CASE layers = << >>
  <2>1. KeyReachesEditor(1) /\ buffer' = [buffer EXCEPT !.mode = "normal"]
    BY <1>3 DEF Escape
  <2>2. buffer' \in Buffer /\ RequestsFit(buffer', asked)
    BY <1>1, <2>1, ModeChanged
  <2>3. language' \in [completionGen : Nat, autoGen : Nat, hidden : Nat]
    BY <2>1, KeyReached
  <2>4. QED
    BY <1>1, <1>2, <2>2, <2>3 DEF PopupInv
<1>4. CASE layers # << >>
  <2> DEFINE l == Last(layers)
  <2>1. /\ buffer' = buffer
        /\ IF IsSignature(l) THEN language' = [language EXCEPT !.hidden = l.call]
           ELSE language' = language
        /\ language \in [completionGen : Nat, autoGen : Nat, hidden : Nat]
    BY <1>4 DEF Escape, PopupInv
  <2>2. l \in Layer
    BY <1>1, <1>4, FrontAndLast DEF LayersFit
  <2> HIDE DEF l
  <2>3. IsSignature(l) => l.call \in Nat
    BY <2>2, ListIsLayer
  <2>4. language' \in [completionGen : Nat, autoGen : Nat, hidden : Nat]
    BY <2>1, <2>3
  <2>5. QED
    BY <1>1, <1>2, <2>1, <2>4 DEF PopupInv
<1>5. QED
  BY <1>3, <1>4

LEMMA InsertModeKeeps ==
  ASSUME PopupInv, InsertMode
  PROVE  PopupInv'
<1>1. /\ buffer.mode = "normal" /\ KeyReachesEditor(1)
      /\ buffer' = [buffer EXCEPT !.mode = "insert"]
      /\ layers' = layers /\ asked' = asked /\ table' = table
      /\ buffer \in Buffer /\ RequestsFit(buffer, asked)
      /\ LayersFit(buffer, asked, layers)
  BY DEF InsertMode, PopupInv
<1>2. buffer' \in Buffer /\ RequestsFit(buffer', asked)
  BY <1>1, ModeChanged
<1>3. NoLists(layers)
  BY <1>1 DEF LayersFit, ListFits, Placed, NoLists
<1>4. LayersFit(buffer', asked', layers')
  BY <1>1, <1>3, NoListsFit
<1>5. language' \in [completionGen : Nat, autoGen : Nat, hidden : Nat]
  BY <1>1, KeyReached
<1>6. QED
  BY <1>1, <1>2, <1>4, <1>5 DEF PopupInv

LEMMA SelectNextKeeps ==
  ASSUME PopupInv, SelectNext
  PROVE  PopupInv'
<1> DEFINE c == Last(layers)
           next == IF c.items = << >> THEN c.cursor
                   ELSE (c.cursor % Len(c.items)) + 1
           k == [c EXCEPT !.cursor = next, !.manual = TRUE]
<1>1. /\ TopList # 0 /\ layers' = ReplaceAt(layers, Len(layers), k)
      /\ buffer' = buffer /\ language' = language /\ asked' = asked /\ table' = table
      /\ LayersFit(buffer, asked, layers)
  BY DEF SelectNext, PopupInv
<1>2. layers # << >> /\ ListFits(buffer, asked, c)
  BY <1>1, TopListIs DEF Last
<1>3. c \in ListLayer /\ c.cursor \in Nat /\ c.items \in Seq(Item)
  BY <1>2 DEF ListFits, ListLayer
<1>4. next \in Nat
  <2> HIDE DEF c
  <2>1. c.items # << >> => Len(c.items) \in Nat \ {0}
    BY <1>3
  <2>2. \A m \in Nat, n \in Nat \ {0} : (m % n) + 1 \in Nat
    OBVIOUS
  <2>3. c.items # << >> => (c.cursor % Len(c.items)) + 1 \in Nat
    BY <1>3, <2>1, <2>2, Zenon
  <2>4. QED
    BY <1>3, <2>3
<1> HIDE DEF c, next
<1>5. /\ k \in ListLayer /\ k.id = c.id /\ k.items = c.items /\ k.anchor = c.anchor
      /\ k.incomplete = c.incomplete /\ k.rev = c.rev /\ k.refreshGen = c.refreshGen
  BY <1>3, <1>4 DEF ListLayer
<1> HIDE DEF k
<1>6. ListFits(buffer, asked, k)
  <2>1. Query(k, buffer.text) = Query(c, buffer.text)
    BY <1>5 DEF Query
  <2>2. \A r : Awaited(buffer, c, r) => Awaited(buffer, k, r)
    BY <1>5 DEF Awaited
  <2>3. Placed(buffer, k)
    BY <1>2, <1>5 DEF ListFits, Placed
  <2>4. k.rev = buffer.rev \/ Kept(Query(k, buffer.text), k.items)
    BY <1>2, <1>5, <2>1 DEF ListFits
  <2>5. k.items = << >> => k.incomplete
    BY <1>2, <1>5 DEF ListFits
  <2>6. k.incomplete /\ k.rev # buffer.rev => \E r \in asked : Awaited(buffer, k, r)
    BY <1>2, <1>5, <2>2 DEF ListFits
  <2>7. QED
    BY <1>5, <2>3, <2>4, <2>5, <2>6 DEF ListFits
<1>7. LayersFit(buffer, asked, ReplaceAt(layers, Len(layers), k))
  BY <1>1, <1>2, <1>6, TopReplaced
<1>8. QED
  BY <1>1, <1>7 DEF PopupInv

LEMMA AcceptKeeps ==
  ASSUME PopupInv, Accept
  PROVE  PopupInv'
<1> DEFINE c == Last(layers)
           item == c.items[c.cursor]
           text == SubSeq(buffer.text, 1, WordStart(buffer.text))
<1>1. /\ TopList # 0 /\ layers' = Front(layers) /\ asked' = asked
      /\ language' = language /\ table' = table
      /\ \/ Edit(text \o table[item.id]) /\ item.id \in DOMAIN table
         \/ buffer' = buffer
  BY DEF Accept
<1>2. /\ buffer \in Buffer /\ buffer.text \in Word /\ RequestsFit(buffer, asked)
      /\ LayersFit(buffer, asked, layers) /\ table \in Seq(Word)
  BY DEF PopupInv, Buffer
<1> HIDE DEF item
<1>3. buffer' \in Buffer /\ RequestsFit(buffer', asked)
  <2>1. text \in Word
    <3>1. WordStart(buffer.text) \in 0 .. Len(buffer.text)
      BY <1>2, WordStarts
    <3>2. \A s \in Seq(Letters) : \A n \in 0 .. Len(s) : SubSeq(s, 1, n) \in Seq(Letters)
      OBVIOUS
    <3>3. QED
      BY <1>2, <3>1, <3>2, Zenon DEF Word
  <2> HIDE DEF text
  <2>2. item.id \in DOMAIN table => table[item.id] \in Word
    BY <1>2
  <2>3. \A s, t \in Word : s \o t \in Word
    BY DEF Word
  <2>4. item.id \in DOMAIN table => text \o table[item.id] \in Word
    BY <2>1, <2>2, <2>3, Zenon
  <2>5. CASE Edit(text \o table[item.id]) /\ item.id \in DOMAIN table
    BY <1>2, <2>4, <2>5, TextEdited, Zenon
  <2>6. CASE buffer' = buffer
    BY <1>2, <2>6
  <2>7. QED
    BY <1>1, <2>5, <2>6
<1>4. layers # << >> /\ layers' = PopLayer(layers)
  BY <1>1, <1>2, TopListIs DEF PopLayer
<1>5. NoLists(layers')
  BY <1>2, <1>4, PoppedHasNone
<1>6. LayersFit(buffer', asked', layers')
  BY <1>5, NoListsFit
<1>7. QED
  BY <1>1, <1>2, <1>3, <1>6 DEF PopupInv

LEMMA AnswerKeeps ==
  ASSUME PopupInv, NEW r \in asked, Answer(r)
  PROVE  PopupInv'
<1>1. PICK words \in Answers, incomplete \in BOOLEAN, failed \in BOOLEAN :
        /\ table' = words
        /\ asked' = (asked \ {r}) \cup
             {[r EXCEPT !.phase = "answered", !.words = words,
                        !.incomplete = incomplete, !.failed = failed]}
  BY DEF Answer
<1> DEFINE s == [r EXCEPT !.phase = "answered", !.words = words,
                          !.incomplete = incomplete, !.failed = failed]
<1>2. /\ buffer' = buffer /\ layers' = layers /\ language' = language
      /\ RequestsFit(buffer, asked) /\ LayersFit(buffer, asked, layers)
      /\ table' = words /\ asked' = (asked \ {r}) \cup {s}
  BY <1>1 DEF Answer, PopupInv
<1>3. words \in Seq(Word)
  BY CompletionAssumption DEF CompletionAssumption, Word
<1>4. RequestFits(buffer, r) /\ r \in Requests
  BY <1>2 DEF RequestsFit, RequestFits
<1>5. /\ s \in Requests /\ s.kind = r.kind /\ s.layer = r.layer /\ s.gen = r.gen
      /\ s.anchor = r.anchor /\ s.rev = r.rev /\ s.pos = r.pos
  BY <1>3, <1>4 DEF Requests
<1> HIDE DEF s
<1>6. RequestFits(buffer, s)
  BY <1>4, <1>5 DEF RequestFits
<1>7. RequestsFit(buffer, asked')
  BY <1>2, <1>6 DEF RequestsFit
<1>8. ASSUME NEW c, ListFits(buffer, asked, c)
      PROVE  ListFits(buffer, asked', c)
  <2>1. Awaited(buffer, c, r) => Awaited(buffer, c, s)
    BY <1>5 DEF Awaited
  <2>2. ASSUME NEW q \in asked, Awaited(buffer, c, q)
        PROVE  \E p \in asked' : Awaited(buffer, c, p)
    BY <1>2, <2>1, <2>2
  <2>3. QED
    BY <1>8, <2>2 DEF ListFits
<1>9. LayersFit(buffer, asked', layers)
  BY <1>2, <1>8 DEF LayersFit
<1>10. QED
  BY <1>2, <1>3, <1>7, <1>9 DEF PopupInv

\* Without a request that no list waits for, everything is as it was.
LEMMA RequestDropped ==
  ASSUME NEW buf, NEW rs, NEW ls, LayersFit(buf, rs, ls), NEW r,
         \A i \in DOMAIN ls : IsList(ls[i]) => ~Awaited(buf, ls[i], r)
  PROVE  LayersFit(buf, rs \ {r}, ls)
<1>1. ASSUME NEW i \in DOMAIN ls, IsList(ls[i])
      PROVE  ListFits(buf, rs \ {r}, ls[i])
  <2>1. ListFits(buf, rs, ls[i]) /\ ~Awaited(buf, ls[i], r)
    BY <1>1 DEF LayersFit
  <2> DEFINE c == ls[i]
  <2> HIDE DEF c
  <2>2. ListFits(buf, rs, c) /\ ~Awaited(buf, c, r)
    BY <2>1 DEF c
  <2>3. ListFits(buf, rs \ {r}, c)
    BY <2>2 DEF ListFits
  <2>4. QED
    BY <2>3 DEF c
<1>2. QED
  BY <1>1 DEF LayersFit

\* Lists that are not stacked: a second one is not put over one that is shown.
LEMMA NoneBelow ==
  ASSUME LayersFit(buffer, asked, layers), NEW k \in ListLayer,
         layers' = Append(layers, k), NotStacked'
  PROVE  NoLists(layers)
<1> DEFINE n == Len(layers)
           T == ListsOn(layers')
<1>1. /\ layers \in Seq(Layer) /\ n \in Nat /\ DOMAIN layers = 1 .. n
      /\ k \in Layer /\ IsList(k)
  BY ListIsLayer DEF LayersFit, Layer
<1>2. /\ DOMAIN layers' = 1 .. n + 1 /\ layers'[n + 1] = k
      /\ \A i \in 1 .. n : layers'[i] = layers[i]
  BY <1>1
<1>3. T \subseteq 1 .. n + 1 /\ n + 1 \in T
  BY <1>1, <1>2 DEF ListsOn
<1>4. ASSUME NEW i \in 1 .. n, IsList(layers[i])
      PROVE  i \in T
  BY <1>2, <1>4 DEF ListsOn
<1>5. Cardinality(T) <= 1
  BY DEF NotStacked
<1> HIDE DEF T
<1>6. IsFiniteSet(T) /\ Cardinality(T) \in Nat
  <2>1. IsFiniteSet(1 .. n + 1)
    BY <1>1, FS_Interval
  <2>2. IsFiniteSet(T)
    BY <1>3, <2>1, FS_Subset
  <2>3. QED
    BY <2>2, FS_CardinalityType
<1>7. Cardinality(T) = 0 \/ Cardinality(T) = 1
  BY <1>5, <1>6
<1>8. \A x, y \in T : x = y
  <2>1. Cardinality(T) = 0 => T = {}
    BY <1>6, FS_EmptySet
  <2>2. Cardinality(T) = 1 => \E x : T = {x}
    BY <1>6, FS_Singleton
  <2>3. QED
    BY <1>7, <2>1, <2>2
<1> HIDE DEF n
<1>9. \A i \in 1 .. n : i # n + 1
  BY <1>1
<1>10. \A i \in 1 .. n : ~IsList(layers[i])
  BY <1>3, <1>4, <1>8, <1>9
<1>11. QED
  BY <1>1, <1>10 DEF NoLists

LEMMA ItemsOfAnswer ==
  ASSUME NEW r \in Requests
  PROVE  Items(r) \in Seq(Item) /\ (Items(r) = << >> => r.words = << >>)
<1>1. r.words \in Seq(Word) /\ Len(r.words) \in Nat
      /\ DOMAIN r.words = 1 .. Len(r.words)
  BY DEF Requests
<1>2. \A i \in 1 .. Len(r.words) : [word |-> r.words[i], id |-> i] \in Item
  <2>1. \A i \in 1 .. Len(r.words) : r.words[i] \in Word /\ i \in Nat
    BY <1>1
  <2>2. \A w \in Word, i \in Nat : [word |-> w, id |-> i] \in Item
    BY DEF Item
  <2>3. QED
    BY <2>1, <2>2, Zenon
<1>3. Items(r) = [i \in 1 .. Len(r.words) |-> [word |-> r.words[i], id |-> i]]
  BY <1>1 DEF Items
<1>4. Items(r) \in [1 .. Len(r.words) -> Item]
  BY <1>2, <1>3
<1>5. Items(r) \in Seq(Item) /\ Len(Items(r)) = Len(r.words)
  <2> DEFINE s == Items(r)
  <2> HIDE DEF s
  <2>1. s \in [1 .. Len(r.words) -> Item]
    BY <1>4 DEF s
  <2>2. s \in Seq(Item) /\ Len(s) = Len(r.words)
    BY <1>1, <2>1
  <2>3. QED
    BY <2>2 DEF s
<1>6. ASSUME Items(r) = << >>
      PROVE  r.words = << >>
  <2>1. Len(r.words) = 0
    BY <1>5, <1>6
  <2>2. QED
    BY <1>1, <2>1
<1>7. QED
  BY <1>5, <1>6

LEMMA ShowCompletionKeeps ==
  ASSUME PopupInv, NEW r \in asked, ShowCompletion(r), NotStacked'
  PROVE  PopupInv'
<1> DEFINE k == [kind |-> "completion", id |-> r.gen, all |-> Items(r),
                 items |-> Items(r), cursor |-> 1, manual |-> FALSE,
                 incomplete |-> r.incomplete, anchor |-> r.anchor,
                 rev |-> r.rev, refreshGen |-> 0]
<1>1. /\ r.kind # "refresh" /\ asked' = asked \ {r}
      /\ layers' = IF RequestValid(r) /\ r.words # << >>
                   THEN Append(layers, k) ELSE layers
      /\ buffer' = buffer /\ language' = language /\ table' = table
      /\ buffer \in Buffer /\ RequestsFit(buffer, asked)
      /\ LayersFit(buffer, asked, layers)
  BY DEF ShowCompletion, PopupInv
<1>2. RequestsFit(buffer, asked \ {r}) /\ RequestFits(buffer, r) /\ r \in Requests
  BY <1>1 DEF RequestsFit, RequestFits
<1>3. LayersFit(buffer, asked \ {r}, layers)
  <2>1. \A c : ~Awaited(buffer, c, r)
    BY <1>1 DEF Awaited
  <2>2. QED
    BY <1>1, <2>1, RequestDropped
<1>4. CASE RequestValid(r) /\ r.words # << >>
  <2>1. Items(r) \in Seq(Item) /\ Items(r) # << >>
    BY <1>2, <1>4, ItemsOfAnswer
  <2>2. /\ k \in ListLayer /\ k.anchor = r.anchor /\ k.rev = r.rev /\ k.items = Items(r)
    BY <1>2, <2>1 DEF ListLayer, Requests
  <2> HIDE DEF k
  <2>3. /\ r.rev = buffer.rev /\ buffer.mode = "insert"
        /\ r.anchor = WordStart(buffer.text)
    BY <1>1, <1>2, <1>4 DEF RequestValid, RequestFits
  <2>4. Placed(buffer, k)
    <3>1. buffer.text \in Word
      BY <1>1 DEF Buffer
    <3>2. /\ WordStart(buffer.text) \in 0 .. Len(buffer.text)
          /\ WordStart(buffer.text) # 0 => buffer.text[WordStart(buffer.text)] \in NonWord
      BY <3>1, WordStarts
    <3>3. r.anchor <= Len(buffer.text) /\ (r.anchor # 0 => buffer.text[r.anchor] \in NonWord)
      BY <2>3, <3>2, <3>1 DEF Word
    <3>4. QED
      BY <2>2, <2>3, <3>3 DEF Placed
  <2>5. ListFits(buffer, asked \ {r}, k)
    BY <2>1, <2>2, <2>3, <2>4 DEF ListFits
  <2>6. layers' = Append(layers, k)
    BY <1>1, <1>4
  <2>7. NoLists(layers)
    BY <1>1, <2>2, <2>6, NoneBelow
  <2>8. LayersFit(buffer, asked \ {r}, Append(layers, k))
    BY <2>5, <2>7, ListPushed
  <2>9. QED
    BY <1>1, <1>2, <2>6, <2>8 DEF PopupInv
<1>5. CASE ~(RequestValid(r) /\ r.words # << >>)
  BY <1>1, <1>2, <1>3, <1>5 DEF PopupInv
<1>6. QED
  BY <1>4, <1>5

LEMMA AutoCompletionKeeps ==
  ASSUME PopupInv, NEW t, AutoCompletion(t)
  PROVE  PopupInv'
<1> DEFINE gen == language.completionGen + 1
           r == CompletionRequest("invoked", gen, buffer)
<1>1. /\ buffer' = buffer /\ layers' = layers /\ table' = table
      /\ \/ KeyReachesEditor(1) /\ asked' = asked \cup {r}
         \/ language' = language /\ asked' = asked
      /\ buffer \in Buffer /\ RequestsFit(buffer, asked)
      /\ LayersFit(buffer, asked, layers)
  BY DEF AutoCompletion, PopupInv
<1>2. CASE language' = language /\ asked' = asked
  BY <1>1, <1>2 DEF PopupInv
<1>3. CASE KeyReachesEditor(1) /\ asked' = asked \cup {r}
  <2>1. /\ language' \in [completionGen : Nat, autoGen : Nat, hidden : Nat]
        /\ gen \in Nat
    BY <1>3, KeyReached
  <2> HIDE DEF gen
  <2>2. RequestFits(buffer, r)
    BY <1>1, <2>1, CompletionAsked
  <2> HIDE DEF r
  <2>3. RequestsFit(buffer, asked')
    BY <1>1, <1>3, <2>2 DEF RequestsFit
  <2>4. LayersFit(buffer, asked', layers)
    BY <1>1, <1>3, MoreRequests
  <2>5. QED
    BY <1>1, <2>1, <2>3, <2>4 DEF PopupInv
<1>4. QED
  BY <1>1, <1>2, <1>3

\* An answer to a list: the list is of the text as it is.
Told(c, rev, k) ==
  /\ k \in ListLayer /\ k.anchor = c.anchor /\ k.rev = rev
  /\ k.items = << >> => k.incomplete

LEMMA ToldFits ==
  ASSUME NEW buf, NEW rs, NEW qs, NEW c, ListFits(buf, rs, c),
         NEW k, Told(c, buf.rev, k)
  PROVE  ListFits(buf, qs, k)
<1>1. Placed(buf, k)
  BY DEF ListFits, Placed, Told
<1>2. QED
  BY <1>1 DEF ListFits, Told

LEMMA ListTold ==
  ASSUME NEW c \in ListLayer, c.items = << >> => c.incomplete, NEW rev \in Nat
  PROVE  Told(c, rev, [c EXCEPT !.rev = rev])
BY DEF ListLayer, Told

LEMMA ListFilled ==
  ASSUME NEW c \in ListLayer, NEW rev \in Nat, NEW all \in Seq(Item),
         NEW items \in Seq(Item), items # << >>, NEW incomplete \in BOOLEAN,
         NEW cursor \in Nat
  PROVE  Told(c, rev, [[c EXCEPT !.rev = rev]
                         EXCEPT !.all = all, !.items = items,
                                !.incomplete = incomplete, !.cursor = cursor])
BY DEF ListLayer, Told

LEMMA ShowRefreshKeeps ==
  ASSUME PopupInv, NEW r \in asked, ShowRefresh(r)
  PROVE  PopupInv'
<1> DEFINE mine == {i \in ListsOn(layers) : layers[i].id = r.layer}
           n == Len(layers)
<1>1. /\ r.kind = "refresh" /\ asked' = asked \ {r}
      /\ buffer' = buffer /\ language' = language /\ table' = table
      /\ buffer \in Buffer /\ RequestsFit(buffer, asked)
      /\ LayersFit(buffer, asked, layers) /\ layers \in Seq(Layer)
  BY DEF ShowRefresh, PopupInv, LayersFit
<1>2. /\ RequestsFit(buffer, asked \ {r}) /\ RequestFits(buffer, r) /\ r \in Requests
      /\ buffer.text \in Word
  BY <1>1 DEF RequestsFit, RequestFits, Buffer
<1>3. \A i \in mine : /\ i = n /\ i \in DOMAIN layers /\ IsList(layers[i])
                      /\ ListFits(buffer, asked, layers[i])
  BY <1>1 DEF ListsOn, LayersFit
<1>4. SUFFICES LayersFit(buffer, asked \ {r}, layers')
  BY <1>1, <1>2 DEF PopupInv
<1>5. CASE ~\E i \in mine : RefreshValid(layers[i], r)
  <2>1. layers' = layers
    BY <1>5 DEF ShowRefresh
  <2>2. ASSUME NEW i \in DOMAIN layers, IsList(layers[i]), Awaited(buffer, layers[i], r)
        PROVE  FALSE
    <3>1. i \in mine
      BY <2>2 DEF ListsOn, Awaited
    <3>2. /\ r.gen = layers[i].refreshGen /\ r.rev = buffer.rev
          /\ r.pos = Len(buffer.text)
      BY <1>2, <2>2 DEF Awaited, RequestFits
    <3>3. buffer.mode = "insert"
      BY <1>3, <3>1 DEF ListFits, Placed
    <3>4. RefreshValid(layers[i], r)
      BY <3>2, <3>3 DEF RefreshValid
    <3>5. QED
      BY <1>5, <3>1, <3>4
  <2>3. LayersFit(buffer, asked \ {r}, layers)
    BY <1>1, <2>2, RequestDropped
  <2>4. QED
    BY <2>1, <2>3
<1>6. CASE \E i \in mine : RefreshValid(layers[i], r)
  <2> DEFINE c == layers[n]
             items == FilterItems(Items(r), Query(c, buffer.text))
             told == [c EXCEPT !.rev = r.rev]
             cursor == RestoreCursor(c, items)
             filled == [told EXCEPT !.all = Items(r), !.items = items,
                                    !.incomplete = r.incomplete, !.cursor = cursor]
  <2>1. n \in mine /\ RefreshValid(c, r) /\ ListFits(buffer, asked, c)
    BY <1>3, <1>6
  <2>2. Max(mine) = n
    <3>1. mine = {n} /\ n \in Int
      BY <1>1, <1>3, <2>1
    <3> HIDE DEF mine, n
    <3>2. QED
      BY <3>1 DEF Max
  <2>3. layers' = IF r.failed THEN ReplaceAt(layers, n, told)
                  ELSE IF items = << >> THEN PopLayer(layers)
                  ELSE ReplaceAt(layers, n, filled)
    <3>1. \E i \in mine : RefreshValid(layers[i], r)
      BY <1>6
    <3> DEFINE m == Max(mine)
               d == layers[m]
               its == FilterItems(Items(r), Query(d, buffer.text))
               td == [d EXCEPT !.rev = r.rev]
    <3>2. layers' = IF r.failed THEN ReplaceAt(layers, m, td)
                    ELSE IF its = << >> THEN PopLayer(layers)
                    ELSE ReplaceAt(layers, m,
                           [td EXCEPT !.all = Items(r), !.items = its,
                                      !.incomplete = r.incomplete,
                                      !.cursor = RestoreCursor(d, its)])
      BY <3>1 DEF ShowRefresh
    <3> HIDE DEF mine
    <3>3. m = n
      BY <2>2
    <3> HIDE DEF m
    <3>4. QED
      BY <3>2, <3>3
  <2>4. c \in ListLayer /\ (c.items = << >> => c.incomplete) /\ layers # << >>
    <3>1. c \in ListLayer /\ (c.items = << >> => c.incomplete)
      BY <2>1 DEF ListFits
    <3>2. layers # << >>
      BY <1>1, <1>3, <2>1
    <3>3. QED
      BY <3>1, <3>2
  <2>5. r.rev = buffer.rev /\ r.rev \in Nat /\ r.incomplete \in BOOLEAN
    BY <1>2, <2>1 DEF RefreshValid, Requests
  <2>6. Items(r) \in Seq(Item)
    BY <1>2, ItemsOfAnswer
  <2>7. items \in Seq(Item) /\ cursor \in Nat
    <3>1. c.anchor <= Len(buffer.text)
      BY <2>1 DEF ListFits, Placed
    <3> HIDE DEF c
    <3>2. Query(c, buffer.text) \in Word
      BY <1>2, <2>4, <3>1, QueryIsWord
    <3>3. items \in Seq(Item)
      BY <2>6, <3>2, FilterKeeps, Zenon DEF Kept
    <3> HIDE DEF items
    <3>4. QED
      BY <2>4, <3>3, CursorRestored
  <2>8. ASSUME NEW k, Told(c, r.rev, k)
        PROVE  LayersFit(buffer, asked \ {r}, ReplaceAt(layers, n, k))
    <3>1. ListFits(buffer, asked \ {r}, k)
      BY <2>1, <2>5, <2>8, ToldFits
    <3>2. QED
      BY <1>1, <2>4, <3>1, TopReplaced
  <2>9. NoLists(PopLayer(layers))
    BY <1>1, PoppedHasNone
  <2>10. CASE r.failed
    <3>1. Told(c, r.rev, told)
      BY <2>4, <2>5, ListTold
    <3> HIDE DEF told, c
    <3>2. QED
      BY <2>3, <2>8, <2>10, <3>1
  <2>11. CASE ~r.failed /\ items = << >>
    BY <2>3, <2>9, <2>11, NoListsFit
  <2>12. CASE ~r.failed /\ items # << >>
    <3>1. Told(c, r.rev, filled)
      <4> HIDE DEF items, cursor, c
      <4>1. QED
        BY <2>4, <2>5, <2>6, <2>7, <2>12, ListFilled, Zenon DEF filled, told
    <3> HIDE DEF filled, c, items
    <3>2. QED
      BY <2>3, <2>8, <2>12, <3>1
  <2>13. QED
    BY <2>10, <2>11, <2>12
<1>7. QED
  BY <1>5, <1>6

LEMMA PopupInvHolds ==
  CompletionSpec /\ []NotStacked => []PopupInv
<1>1. CompletionInit => PopupInv
  <2> SUFFICES ASSUME CompletionInit
               PROVE  PopupInv
    OBVIOUS
  <2>1. << >> \in Word /\ << >> \in Seq(Word)
    BY DEF Word
  <2>2. buffer \in Buffer
    BY <2>1 DEF CompletionInit, Buffer
  <2>3. LayersFit(buffer, asked, layers)
    BY NoLayers, NoListsFit DEF CompletionInit
  <2>4. QED
    BY <2>1, <2>2, <2>3 DEF CompletionInit, PopupInv, RequestsFit
<1>2. PopupInv /\ NotStacked' /\ [CompletionNext]_popupVars => PopupInv'
  <2> SUFFICES ASSUME PopupInv, NotStacked', [CompletionNext]_popupVars
               PROVE  PopupInv'
    OBVIOUS
  <2>1. ASSUME NEW ch \in Chars, TypeIntoList(ch) PROVE PopupInv'
    BY <2>1, TypeIntoListKeeps
  <2>2. ASSUME NEW ch \in Chars, TypeIntoEditor(ch) PROVE PopupInv'
    BY <2>2, TypeIntoEditorKeeps
  <2>3. CASE CompletionAction
    BY <2>3, CompletionActionKeeps
  <2>4. CASE DeleteCharBackward
    BY <2>4, DeleteCharBackwardKeeps
  <2>5. CASE Escape
    BY <2>5, EscapeKeeps
  <2>6. CASE InsertMode
    BY <2>6, InsertModeKeeps
  <2>7. CASE SelectNext
    BY <2>7, SelectNextKeeps
  <2>8. CASE Accept
    BY <2>8, AcceptKeeps
  <2>9. ASSUME NEW r \in asked, Answer(r) PROVE PopupInv'
    BY <2>9, AnswerKeeps
  <2>10. ASSUME NEW r \in asked, ShowCompletion(r) PROVE PopupInv'
    BY <2>10, ShowCompletionKeeps
  <2>11. ASSUME NEW r \in asked, ShowRefresh(r) PROVE PopupInv'
    BY <2>11, ShowRefreshKeeps
  <2>12. ASSUME NEW t \in ticks, AutoCompletion(t) PROVE PopupInv'
    BY <2>12, AutoCompletionKeeps
  <2>13. CASE UNCHANGED popupVars
    BY <2>13 DEF popupVars, PopupInv
  <2>14. QED
    BY <2>1, <2>2, <2>3, <2>4, <2>5, <2>6, <2>7, <2>8, <2>9, <2>10, <2>11, <2>12,
       <2>13 DEF CompletionNext
<1>3. QED
  BY <1>1, <1>2, PTL DEF CompletionSpec

\* As long as no list is put over another, the list on top offers what the
\* server answered for the text as it is, or matches of what was typed since,
\* and only in insert mode; and what is incomplete and about an older text is
\* asked for again (completionRequestValid, refreshValid,
\* completionComponent.refresh), however many keys, timers and answers come in
\* whatever order.
THEOREM ListFollowsTextHolds ==
  CompletionSpec /\ []NotStacked => []ListFollowsText
<1>1. PopupInv => ListFollowsText
  <2> SUFFICES ASSUME PopupInv, layers # << >>, IsList(Last(layers))
               PROVE  ListFollowsText
    BY DEF ListFollowsText
  <2> DEFINE c == Last(layers)
  <2>1. ListFits(buffer, asked, c)
    <3>1. layers \in Seq(Layer) /\ LayersFit(buffer, asked, layers)
      BY DEF PopupInv, LayersFit
    <3>2. Len(layers) \in DOMAIN layers
      BY <3>1
    <3>3. QED
      BY <3>1, <3>2 DEF LayersFit, Last
  <2> HIDE DEF c
  <2>2. c \in ListLayer /\ Placed(buffer, c) /\ c.anchor \in Nat
    BY <2>1 DEF ListFits, ListLayer
  <2>3. \A i \in 1 .. c.anchor : i = c.anchor => buffer.text[i] \in NonWord
    BY <2>2 DEF Placed
  <2>4. \/ c.rev = buffer.rev
        \/ \A i \in DOMAIN c.items : Fuzzy(c.items[i].word, Query(c, buffer.text))
    BY <2>1 DEF ListFits, Kept
  <2>5. c.incomplete /\ c.rev # buffer.rev =>
          \E r \in asked : /\ r.kind = "refresh" /\ r.layer = c.id
                           /\ r.gen = c.refreshGen /\ r.rev = buffer.rev
    BY <2>1, Zenon DEF ListFits, Awaited
  <2>6. /\ buffer.mode = "insert" /\ c.anchor <= Len(buffer.text)
        /\ c.items = << >> => c.incomplete
    BY <2>1 DEF ListFits, Placed
  <2>7. QED
    BY <2>3, <2>4, <2>5, <2>6, Zenon DEF ListFollowsText, c
<1>2. QED
  BY <1>1, PopupInvHolds, PTL

=============================================================================
