----------------------------- MODULE ChangeSets -----------------------------
(***************************************************************************)
(* The edits of internal/core/changeset*.go, by what they do to a text.    *)
(*                                                                         *)
(* The code keeps a change set as a list of retain, delete and insert      *)
(* operations.  Here it is the text it produces, piece by piece: each      *)
(* piece of `post' is either the position of a character of the old text   *)
(* that is retained, or a character that is inserted.  `pre' is the length *)
(* of the old text (charCount), Len(post) that of the new one              *)
(* (charCountAfter).  Module ChangeSetOps has the lists of operations and  *)
(* the algorithms on them.                                                 *)
(***************************************************************************)
EXTENDS Integers, Sequences

CONSTANT Char            \* the characters a text is made of

ASSUME CharAssumption == \A c \in Char : c \notin Int

Text == Seq(Char)

Piece(n) == (1 .. n) \cup Char

\* Retained positions occur in the order of the old text.
IsChangeSet(c) ==
  /\ c = [pre |-> c.pre, post |-> c.post]
  /\ c.pre \in Nat
  /\ c.post \in Seq(Piece(c.pre))
  /\ \A i, j \in 1 .. Len(c.post) :
       i < j /\ c.post[i] \notin Char /\ c.post[j] \notin Char
         => c.post[i] < c.post[j]

Identity(n) == [pre |-> n, post |-> [i \in 1 .. n |-> i]]

IsEmpty(c) == c = Identity(c.pre)

\* One change that replaces the characters after caret `from' up to caret `to'
\* of a text of n characters.
Splice(n, from, to, ins) ==
  [pre  |-> n,
   post |-> [i \in 1 .. from |-> i] \o ins \o [i \in 1 .. n - to |-> to + i]]

\* ChangeSet.Apply refuses a text of another length.
Fits(c, t) == Len(t) = c.pre

Apply(c, t) ==
  [i \in 1 .. Len(c.post) |-> IF c.post[i] \in Char THEN c.post[i]
                                                    ELSE t[c.post[i]]]

\* The change set that takes the new text back to t.
Invert(c, t) ==
  [pre  |-> Len(c.post),
   post |-> [i \in 1 .. c.pre |->
               IF \E p \in 1 .. Len(c.post) : c.post[p] = i
               THEN CHOOSE p \in 1 .. Len(c.post) : c.post[p] = i
               ELSE t[i]]]

\* An empty text has no operation to retain it: a change set of nothing.
NoOps(c) == c.pre = 0 /\ c.post = << >>

\* Compose fails when the lengths of the middle text disagree, which it does
\* not look at when either side has no operations.
Composable(a, b) == NoOps(a) \/ NoOps(b) \/ Len(a.post) = b.pre

Compose(a, b) ==
  CASE NoOps(a) -> b
    [] ~NoOps(a) /\ NoOps(b) -> a
    [] OTHER -> [pre  |-> a.pre,
                 post |-> [i \in 1 .. Len(b.post) |->
                             IF b.post[i] \in Char THEN b.post[i]
                                                   ELSE a.post[b.post[i]]]]

=============================================================================
