------------------------------ MODULE History -------------------------------
(***************************************************************************)
(* The revision tree of internal/core/history.go.                          *)
(*                                                                         *)
(* A history h holds the revisions 0 .. h.last, the root being 0, and the  *)
(* revision in effect, h.current.  Every other revision has the change set *)
(* that made it from its parent (tx) and the one that takes it back (inv), *)
(* and each revision remembers the child committed to it last.  The        *)
(* selections that travel with the transactions are left out.              *)
(***************************************************************************)
EXTENDS ChangeSets

NoChild == -1

NewHistory ==
  [last |-> 0, current |-> 0,
   revs |-> [r \in 0 .. 0 |-> [parent |-> 0, lastChild |-> NoChild,
                               tx |-> Identity(0), inv |-> Identity(0)]]]

\* Mutant: the parent is not told of its child.
CommitRevisionUnlinked(h, tx, doc) ==
  LET next == h.last + 1
  IN  [last |-> next, current |-> next,
       revs |-> [r \in 0 .. next |->
                   IF r = next
                   THEN [parent |-> h.current, lastChild |-> NoChild,
                         tx |-> tx, inv |-> Invert(tx, doc)]
                   ELSE h.revs[r]]]

\* Mutant: what has been undone is dropped, as in a linear history.
CommitRevisionLinear(h, tx, doc) ==
  LET next == h.current + 1
  IN  [last |-> next, current |-> next,
       revs |-> [r \in 0 .. next |->
                   CASE r = next -> [parent |-> h.current, lastChild |-> NoChild,
                                     tx |-> tx, inv |-> Invert(tx, doc)]
                     [] r = h.current -> [h.revs[r] EXCEPT !.lastChild = next]
                     [] OTHER -> h.revs[r]]]

\* Branch a new revision off the current one; `doc' is the text tx was built
\* against.
CommitRevision(h, tx, doc) ==
  LET next == h.last + 1
  IN  [last |-> next, current |-> next,
       revs |-> [r \in 0 .. next |->
                   CASE r = next -> [parent |-> h.current, lastChild |-> NoChild,
                                     tx |-> tx, inv |-> Invert(tx, doc)]
                     [] r = h.current -> [h.revs[r] EXCEPT !.lastChild = next]
                     [] OTHER -> h.revs[r]]]

AtRoot(h) == h.current = 0

\* Undo and Redo move the current revision and hand out a change set to apply.
UndoChange(h) == h.revs[h.current].inv
AfterUndo(h) == [h EXCEPT !.current = h.revs[h.current].parent]

CanRedo(h) == h.revs[h.current].lastChild # NoChild
RedoChange(h) == h.revs[h.revs[h.current].lastChild].tx
AfterRedo(h) == [h EXCEPT !.current = h.revs[h.current].lastChild]

\* The k-th ancestor of revision n; the root is its own parent.
Chain(h, n) ==
  LET up[k \in 0 .. h.last] == IF k = 0 THEN n ELSE h.revs[up[k - 1]].parent
  IN  up

Least(S) == CHOOSE n \in S : \A m \in S : n <= m

\* The two climbs go up in step and only the first one leaves a trail: b stops
\* at the first ancestor a has been at by then, which is not always the lowest
\* one they share.
LowestCommonAncestor(h, a, b) ==
  LET ua == Chain(h, a)
      ub == Chain(h, b)
  IN  ub[Least({k \in 0 .. h.last : \E j \in 0 .. k : ua[j] = ub[k]})]

PathUp(h, from, to) ==
  LET up == Chain(h, from)
  IN  [k \in 1 .. Least({j \in 0 .. h.last : up[j] = to}) |-> up[k - 1]]

\* Mutant: the way down in the order it was climbed.
JumpChangesUnreversed(h, to) ==
  LET top  == LowestCommonAncestor(h, h.current, to)
      up   == PathUp(h, h.current, top)
      down == PathUp(h, to, top)
  IN  [i \in 1 .. Len(up) |-> h.revs[up[i]].inv]
        \o [i \in 1 .. Len(down) |-> h.revs[down[i]].tx]

\* The change sets that walk from the current revision to `to': inversions up
\* to the common ancestor, then transactions down, last climbed first.
JumpChanges(h, to) ==
  LET top  == LowestCommonAncestor(h, h.current, to)
      up   == PathUp(h, h.current, top)
      down == PathUp(h, to, top)
  IN  [i \in 1 .. Len(up) |-> h.revs[up[i]].inv]
        \o [i \in 1 .. Len(down) |-> h.revs[down[Len(down) + 1 - i]].tx]

AfterJump(h, to) == [h EXCEPT !.current = to]

EarlierTarget(h, steps) ==
  IF steps > h.current THEN 0 ELSE h.current - steps

LaterTarget(h, steps) ==
  IF h.current + steps > h.last THEN h.last ELSE h.current + steps

=============================================================================
