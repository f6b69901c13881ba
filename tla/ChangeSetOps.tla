---------------------------- MODULE ChangeSetOps ----------------------------
(***************************************************************************)
(* The algorithms on lists of operations (module ChangeLists) against what *)
(* module ChangeSets says they do, and Compose as a state machine: two     *)
(* lists are walked side by side, one case of the switch in composeCtx.run *)
(* per step.                                                               *)
(***************************************************************************)
EXTENDS ChangeLists

CONSTANTS
  Samples,        \* bounds: the texts that are edited,
  Insertions,     \* the texts a change inserts,
  MaxChanges,     \* the changes of an edit,
  MaxMiddle       \* and the length of the text between two edits

ASSUME ChangeSetOpsAssumption ==
  /\ Samples \subseteq Text /\ Insertions \subseteq Text
  /\ MaxChanges \in Nat /\ MaxMiddle \in Nat

VARIABLES
  sample,     \* the text the first list is for
  a, b,       \* the lists to compose
  left,       \* what is left of either, the current operation shortened
  out,        \* the list built so far
  outcome     \* "running", "composed", or "mismatch" for an error

composeVars == <<sample, a, b, left, out, outcome>>

(***************************************************************************)
(* Compose.                                                                *)
(***************************************************************************)

Changes(n) ==
  LET One == [from : 0 .. n, to : 0 .. n, text : Insertions \cup {<< >>}]
  IN  {cs \in UNION {[1 .. k -> One] : k \in 0 .. MaxChanges} : InOrder(n, cs)}

\* What an edit of a text of n characters makes.
ListsFor(n) == {FromChanges(n, cs) : cs \in Changes(n)}

Seconds == UNION {ListsFor(n) : n \in 0 .. MaxMiddle}

ComposeInit ==
  /\ sample \in Samples
  /\ a \in {l \in ListsFor(Len(sample)) : l.after <= MaxMiddle}
  /\ b \in Seconds
  /\ left = [a |-> a.ops, b |-> b.ops]
  /\ out = NoList
  /\ outcome = "running"

SizeOf(op) == IF op.kind = "insert" THEN Len(op.text) ELSE op.n

\* Mutant: an operation that has been used up is not left behind.
UseButKeep(ops, n) ==
  LET op == Head(ops)
  IN  [ops EXCEPT ![1] = IF op.kind = "insert"
                         THEN Insert(SubSeq(op.text, n + 1, Len(op.text)))
                         ELSE Count(op.kind, op.n - n)]

\* The first operation without its first n characters.
Use(ops, n) ==
  LET op == Head(ops)
  IN  IF n = SizeOf(op) THEN Tail(ops)
      ELSE [ops EXCEPT ![1] = IF op.kind = "insert"
                              THEN Insert(SubSeq(op.text, n + 1, Len(op.text)))
                              ELSE Count(op.kind, op.n - n)]

Walking ==
  /\ outcome = "running" /\ a.ops # << >> /\ b.ops # << >>
  /\ UNCHANGED <<sample, a, b>>

AKind == KindAt(left.a, 1)
BKind == KindAt(left.b, 1)

\* What both sides have of the character run they are at.
Both == IF SizeOf(Head(left.a)) < SizeOf(Head(left.b))
        THEN SizeOf(Head(left.a)) ELSE SizeOf(Head(left.b))

UseBoth == left' = [a |-> Use(left.a, Both), b |-> Use(left.b, Both)]

\* A list without operations is not walked at all.
TakeOther ==
  /\ outcome = "running" /\ (a.ops = << >> \/ b.ops = << >>)
  /\ out' = IF a.ops = << >> THEN b ELSE a
  /\ outcome' = "composed"
  /\ UNCHANGED <<sample, a, b, left>>

DeletedByA ==
  /\ Walking /\ AKind = "delete"
  /\ out' = AppendCount(out, "delete", Head(left.a).n)
  /\ left' = [left EXCEPT !.a = Tail(@)]
  /\ UNCHANGED outcome

InsertedByB ==
  /\ Walking /\ AKind # "delete" /\ BKind = "insert"
  /\ out' = AppendInsert(out, Head(left.b).text)
  /\ left' = [left EXCEPT !.b = Tail(@)]
  /\ UNCHANGED outcome

RetainedByBoth ==
  /\ Walking /\ AKind = "retain" /\ BKind = "retain"
  /\ out' = AppendCount(out, "retain", Both)
  /\ UseBoth
  /\ UNCHANGED outcome

\* Mutant: the whole insertion is put out, and what is left of it again.
InsertedByAWhole ==
  /\ Walking /\ AKind = "insert" /\ BKind = "retain"
  /\ out' = AppendInsert(out, Head(left.a).text)
  /\ UseBoth
  /\ UNCHANGED outcome

InsertedByA ==
  /\ Walking /\ AKind = "insert" /\ BKind = "retain"
  /\ out' = AppendInsert(out, SubSeq(Head(left.a).text, 1, Both))
  /\ UseBoth
  /\ UNCHANGED outcome

InsertedThenDeleted ==
  /\ Walking /\ AKind = "insert" /\ BKind = "delete"
  /\ UseBoth
  /\ UNCHANGED <<out, outcome>>

\* Mutant: what b deletes is left out.
DeletedByBDropped ==
  /\ Walking /\ AKind = "retain" /\ BKind = "delete"
  /\ UseBoth
  /\ UNCHANGED <<out, outcome>>

DeletedByB ==
  /\ Walking /\ AKind = "retain" /\ BKind = "delete"
  /\ out' = AppendCount(out, "delete", Both)
  /\ UseBoth
  /\ UNCHANGED outcome

Finished ==
  /\ Walking /\ AKind = "none" /\ BKind = "none"
  /\ outcome' = "composed"
  /\ UNCHANGED <<left, out>>

\* One side ran out first.
LengthsDisagree ==
  /\ Walking
  /\ \/ AKind = "none" /\ BKind \in {"retain", "delete"}
     \/ AKind \in {"retain", "insert"} /\ BKind = "none"
  /\ outcome' = "mismatch"
  /\ UNCHANGED <<left, out>>

ComposeNext ==
  \/ TakeOther \/ DeletedByA \/ InsertedByB \/ RetainedByBoth
  \/ InsertedByA \/ InsertedThenDeleted \/ DeletedByB
  \/ Finished \/ LengthsDisagree

\* A loop that nothing interrupts.
ComposeFairness == WF_composeVars(ComposeNext)

ComposeSpec == ComposeInit /\ [][ComposeNext]_composeVars

(***************************************************************************)
(* Properties.                                                             *)
(***************************************************************************)

\* The change set that operations stand for.
MeaningOf(x, op) ==
  CASE op.kind = "retain" ->
         [pre |-> x.pre + op.n,
          post |-> x.post \o [i \in 1 .. op.n |-> x.pre + i]]
    [] op.kind = "delete" -> [x EXCEPT !.pre = @ + op.n]
    [] op.kind = "insert" -> [x EXCEPT !.post = @ \o op.text]

Meaning(ops) == FoldLeft(MeaningOf, [pre |-> 0, post |-> << >>], ops)

\* A list has no two neighbours of a kind and no insertion behind a deletion:
\* the form in which Changes finds replacements and IsEmpty, which looks at one
\* operation only, is right.  Composing and inverting, which append in orders
\* that building never does, keep it.
Canonical ==
  \A l \in {a, b, out, InvertList(a, sample)} :
    \A i \in 1 .. Len(l.ops) - 1 :
      /\ l.ops[i].kind # l.ops[i + 1].kind
      /\ <<l.ops[i].kind, l.ops[i + 1].kind>> # <<"delete", "insert">>

Starting == outcome = "running" /\ out = NoList /\ left.a = a.ops

\* Applying a list edits the text in place, and inverting it walks the old
\* text: both are what they are for change sets, an inverse takes the text
\* back, a list that claims to be empty is an identity and the other way round,
\* and a list survives being turned into changes, which History reads the place
\* of the last edit from.
ListsMeanChangeSets ==
  Starting =>
    LET inv == InvertList(a, sample)
    IN  /\ ApplyList(a, sample) = Apply(Meaning(a.ops), sample)
        /\ Meaning(inv.ops) = Invert(Meaning(a.ops), sample)
        /\ ApplyList(inv, ApplyList(a, sample)) = sample
        /\ IsEmptyList(a) <=> IsEmpty(Meaning(a.ops))
        /\ FromChanges(Len(sample), ToChanges(a)) = a

Assocs == {"before", "beforeWord", "afterWord", "after"}

\* A caret or a selection that is carried over an edit keeps its neighbours:
\* what is retained stays on its side of it.  Carets do not overtake one
\* another, what is inserted at a caret comes before or behind it as was asked,
\* and the two ends of a selection, which are carried with opposite
\* associations, do not change places.
PositionsFollow ==
  Starting =>
    LET post == Meaning(a.ops).post
        pos  == 0 .. a.pre
        Undeleted(p) == \A i \in {p, p + 1} \cap 1 .. a.pre :
                          \E j \in DOMAIN post : post[j] = i
    IN  /\ \A p \in pos, s \in Assocs :
             LET q == MapPos(a, p, s)
             IN  /\ q \in 0 .. a.after
                 /\ \A i \in DOMAIN post :
                      post[i] \notin Char => (post[i] <= p <=> i <= q)
                 /\ p < a.pre => q <= MapPos(a, p + 1, s)
                 /\ MapPos(a, p, "before") <= q /\ q <= MapPos(a, p, "after")
        /\ \A p \in pos :
             Undeleted(p) =>
               LET q == MapPos(a, p, "before")
                   r == MapPos(a, p, "after")
               IN  /\ IF p = 0 THEN q = 0 ELSE post[q] = p
                   /\ IF p = a.pre THEN r = a.after ELSE post[r + 1] = p + 1
        /\ \A p, q \in pos :
             p <= q => LET to == MapRange(a, [anchor |-> p, head |-> q])
                           fro == MapRange(a, [anchor |-> q, head |-> p])
                       IN  to.anchor <= to.head /\ fro.head <= fro.anchor

CanCompose == Composable(Meaning(a.ops), Meaning(b.ops))

\* Half way, what has been put out takes the part of the text that has been
\* walked to its end, and what is left of the two lists takes the rest there.
NothingLost ==
  outcome = "running" /\ a.ops # << >> /\ b.ops # << >> /\ CanCompose =>
    Apply(Meaning(out.ops), SubSeq(sample, 1, out.pre))
      \o Apply(Meaning(left.b), Apply(Meaning(left.a),
                            SubSeq(sample, out.pre + 1, Len(sample))))
    = Apply(Meaning(b.ops), Apply(Meaning(a.ops), sample))

\* "if c transforms docA to docB and other transforms docB to docC, the result
\* transforms docA to docC": the composition is that of the change sets, and
\* exactly the lists that do not meet in the middle are refused.
ComposesAsPromised ==
  /\ outcome = "composed" =>
       /\ CanCompose
       /\ Meaning(out.ops) = Compose(Meaning(a.ops), Meaning(b.ops))
  /\ outcome = "mismatch" => ~CanCompose

\* composeCtx.run is a loop without a counter: it ends, on any two lists.
ComposeTerminates == <>(outcome # "running")

=============================================================================
