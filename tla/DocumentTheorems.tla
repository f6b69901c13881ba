-------------------------- MODULE DocumentTheorems --------------------------
(***************************************************************************)
(* The safety of a document, for any texts, edits, views and bounds: what  *)
(* committing and travelling do to a history of any size, what each method *)
(* of Document does to any document that is well formed, and the invariant *)
(* that the properties of module Document follow from, which every handler *)
(* keeps.                                                                  *)
(***************************************************************************)
EXTENDS Document, ChangeSetTheorems, InductionTheorems

(***************************************************************************)
(* Histories.                                                              *)
(***************************************************************************)

\* A tree of revisions that are numbered in the order they were committed.
IsHistory(h) ==
  /\ h = [last |-> h.last, current |-> h.current, revs |-> h.revs]
  /\ h.last \in Nat
  /\ h.current \in 0 .. h.last
  /\ h.revs = [r \in 0 .. h.last |-> h.revs[r]]
  /\ \A r \in 0 .. h.last :
       LET rev == h.revs[r]
       IN  /\ rev = [parent |-> rev.parent, lastChild |-> rev.lastChild,
                     tx |-> rev.tx, inv |-> rev.inv]
           /\ IsChangeSet(rev.tx) /\ IsChangeSet(rev.inv)
  /\ h.revs[0].parent = 0
  /\ \A r \in 1 .. h.last :
       /\ h.revs[r].parent \in 0 .. r - 1
       /\ h.revs[h.revs[r].parent].lastChild >= r
  /\ \A r \in 0 .. h.last :
       h.revs[r].lastChild # NoChild =>
         /\ h.revs[r].lastChild \in r + 1 .. h.last
         /\ h.revs[h.revs[r].lastChild].parent = r

LEMMA IdentityMakesChangeSet ==
  IsChangeSet(Identity(0))
<1>1. Identity(0).pre = 0 /\ Identity(0).post = << >>
  BY DEF Identity
<1>2. QED
  BY <1>1 DEF Identity, IsChangeSet

LEMMA NewHistoryIsHistory ==
  IsHistory(NewHistory)
BY IdentityMakesChangeSet DEF NewHistory, IsHistory, NoChild

\* Committing adds one revision, to the one that was current, and alters no
\* other but for the child the parent remembers.
LEMMA CommitAddsOne ==
  ASSUME NEW h, IsHistory(h), NEW tx, IsChangeSet(tx),
         NEW t \in Text, Fits(tx, t)
  PROVE  LET n == CommitRevision(h, tx, t)
         IN  /\ IsHistory(n)
             /\ n.last = h.last + 1 /\ n.current = n.last
             /\ \A r \in 0 .. h.last :
                  /\ n.revs[r].parent = h.revs[r].parent
                  /\ n.revs[r].tx = h.revs[r].tx
                  /\ n.revs[r].inv = h.revs[r].inv
             /\ n.revs[n.last].parent = h.current
             /\ n.revs[n.last].tx = tx
             /\ n.revs[n.last].inv = Invert(tx, t)
<1> DEFINE n == CommitRevision(h, tx, t)
           new == [parent |-> h.current, lastChild |-> NoChild,
                   tx |-> tx, inv |-> Invert(tx, t)]
<1>1. /\ n = [last |-> n.last, current |-> n.current, revs |-> n.revs]
      /\ n.last = h.last + 1 /\ n.current = n.last
      /\ n.revs = [r \in 0 .. n.last |-> n.revs[r]]
  BY DEF CommitRevision
<1>2. /\ h.last \in Nat /\ n.last \in Nat /\ n.current \in 0 .. n.last
      /\ h.current \in 0 .. h.last
      /\ n.last = h.last + 1
  BY <1>1 DEF IsHistory
<1>3. n.revs[n.last] = new
  BY <1>1, <1>2 DEF CommitRevision
<1> DEFINE linked(r, child) ==
             [parent |-> h.revs[r].parent, lastChild |-> child,
              tx |-> h.revs[r].tx, inv |-> h.revs[r].inv]
<1>4. ASSUME NEW r \in 0 .. h.last
      PROVE  /\ r = h.current => n.revs[r] = linked(r, n.last)
             /\ r # h.current => n.revs[r] = linked(r, h.revs[r].lastChild)
  <2>1. h.revs[r] = linked(r, h.revs[r].lastChild)
    BY DEF IsHistory
  <2>2. n.revs[r] = (IF r = h.current
                     THEN [h.revs[r] EXCEPT !.lastChild = n.last]
                     ELSE h.revs[r])
    BY <1>1, <1>2 DEF CommitRevision
  <2>3. QED
    BY <2>1, <2>2
<1> HIDE DEF n
<1>5. ASSUME NEW r \in 0 .. h.last
      PROVE  /\ n.revs[r].parent = h.revs[r].parent
             /\ r = h.current => n.revs[r].lastChild = n.last
             /\ r # h.current => n.revs[r].lastChild = h.revs[r].lastChild
             /\ n.revs[r].tx = h.revs[r].tx
             /\ n.revs[r].inv = h.revs[r].inv
  <2>1. CASE r = h.current
    <3>1. n.revs[r] = linked(r, n.last)
      BY <1>4, <2>1
    <3>2. QED
      BY <2>1, <3>1
  <2>2. CASE r # h.current
    <3>1. n.revs[r] = linked(r, h.revs[r].lastChild)
      BY <1>4, <2>2
    <3>2. QED
      BY <2>2, <3>1
  <2>3. QED
    BY <2>1, <2>2
<1>6. /\ n.revs[n.last].parent = h.current /\ n.revs[n.last].lastChild = NoChild
      /\ n.revs[n.last].tx = tx /\ n.revs[n.last].inv = Invert(tx, t)
  BY <1>3
<1> HIDE DEF new
<1>7. ASSUME NEW r \in 0 .. n.last
      PROVE  /\ n.revs[r] = [parent |-> n.revs[r].parent,
                             lastChild |-> n.revs[r].lastChild,
                             tx |-> n.revs[r].tx, inv |-> n.revs[r].inv]
             /\ IsChangeSet(n.revs[r].tx) /\ IsChangeSet(n.revs[r].inv)
  <2>1. CASE r = n.last
    <3>1. IsChangeSet(Invert(tx, t))
      BY InvertMakesChangeSet
    <3>2. QED
      BY <1>3, <1>6, <2>1, <3>1 DEF new
  <2>2. CASE r # n.last
    <3>1. r \in 0 .. h.last
      BY <1>2, <2>2
    <3>2. IsChangeSet(h.revs[r].tx) /\ IsChangeSet(h.revs[r].inv)
      BY <3>1 DEF IsHistory
    <3>3. n.revs[r] = linked(r, n.revs[r].lastChild)
      BY <1>4, <1>5, <3>1
    <3>4. QED
      BY <1>5, <3>1, <3>2, <3>3
  <2>3. QED
    BY <2>1, <2>2
<1>8. n.revs[0].parent = 0
  BY <1>2, <1>5 DEF IsHistory
<1>9. ASSUME NEW r \in 1 .. n.last
      PROVE  /\ n.revs[r].parent \in 0 .. r - 1
             /\ n.revs[n.revs[r].parent].lastChild >= r
  <2>1. CASE r = n.last
    BY <1>2, <1>5, <1>6, <2>1
  <2>2. CASE r # n.last
    <3>1. r \in 1 .. h.last /\ r \in 0 .. h.last
      BY <1>2, <2>2
    <3>2. /\ h.revs[r].parent \in 0 .. r - 1
          /\ h.revs[h.revs[r].parent].lastChild >= r
      BY <3>1 DEF IsHistory
    <3>3. n.revs[r].parent = h.revs[r].parent
      BY <1>5, <3>1
    <3>4. h.revs[r].parent \in 0 .. h.last
      BY <1>2, <3>1, <3>2
    <3>5. n.revs[h.revs[r].parent].lastChild >= r
      BY <1>2, <1>5, <3>1, <3>2, <3>4
    <3>6. QED
      BY <3>2, <3>3, <3>5
  <2>3. QED
    BY <2>1, <2>2
<1>10. ASSUME NEW r \in 0 .. n.last, n.revs[r].lastChild # NoChild
       PROVE  /\ n.revs[r].lastChild \in r + 1 .. n.last
              /\ n.revs[n.revs[r].lastChild].parent = r
  <2>1. r # n.last /\ r \in 0 .. h.last
    BY <1>2, <1>6, <1>10
  <2>2. CASE r = h.current
    BY <1>2, <1>5, <1>6, <2>1, <2>2
  <2>3. CASE r # h.current
    <3>1. n.revs[r].lastChild = h.revs[r].lastChild
      BY <1>5, <2>1, <2>3
    <3>2. /\ h.revs[r].lastChild \in r + 1 .. h.last
          /\ h.revs[h.revs[r].lastChild].parent = r
      BY <1>10, <2>1, <3>1 DEF IsHistory
    <3>3. h.revs[r].lastChild \in 0 .. h.last
      BY <1>2, <2>1, <3>2
    <3>4. QED
      BY <1>2, <1>5, <2>1, <3>1, <3>2, <3>3
  <2>4. QED
    BY <2>2, <2>3
<1>11. IsHistory(n)
  BY <1>1, <1>2, <1>7, <1>8, <1>9, <1>10 DEF IsHistory
<1>12. QED
  BY <1>1, <1>5, <1>6, <1>11 DEF n

\* Travelling alters nothing but which revision is the current one.
LEMMA TravelKeepsHistory ==
  ASSUME NEW h, IsHistory(h), NEW r \in 0 .. h.last
  PROVE  /\ IsHistory([h EXCEPT !.current = r])
         /\ [h EXCEPT !.current = r].last = h.last
         /\ [h EXCEPT !.current = r].revs = h.revs
         /\ [h EXCEPT !.current = r].current = r
<1> DEFINE n == [h EXCEPT !.current = r]
<1>1. n = [last |-> h.last, current |-> r, revs |-> h.revs]
  BY DEF IsHistory
<1>2. n.last = h.last /\ n.current = r /\ n.revs = h.revs
  BY <1>1
<1>3. IsHistory(n)
  BY <1>1, <1>2 DEF IsHistory
<1>4. QED
  BY <1>2, <1>3

\* The climb from a revision is the function its definition describes.
LEMMA ChainRecursion ==
  ASSUME NEW h, h.last \in Nat, NEW n
  PROVE  Chain(h, n) = [k \in 0 .. h.last |->
                          IF k = 0 THEN n
                          ELSE h.revs[Chain(h, n)[k - 1]].parent]
<1> DEFINE Climbs(m, f) == f = [k \in 0 .. m |->
                                 IF k = 0 THEN n ELSE h.revs[f[k - 1]].parent]
           T == {m \in 0 .. h.last : \E f : Climbs(m, f)}
<1>1. 0 \in T
  <2>1. Climbs(0, [k \in 0 .. 0 |-> n])
    OBVIOUS
  <2> HIDE DEF Climbs
  <2>2. QED
    BY <2>1
<1>2. ASSUME NEW m \in 0 .. h.last, m < h.last, m \in T
      PROVE  m + 1 \in T
  <2>1. PICK f : Climbs(m, f)
    BY <1>2
  <2> DEFINE g == [k \in 0 .. m + 1 |->
                    IF k = 0 THEN n ELSE h.revs[f[k - 1]].parent]
  <2>2. ASSUME NEW k \in 0 .. m
        PROVE  g[k] = f[k]
    <3>1. f[k] = (IF k = 0 THEN n ELSE h.revs[f[k - 1]].parent)
      BY <2>1
    <3>2. k \in 0 .. m + 1
      OBVIOUS
    <3>3. g[k] = (IF k = 0 THEN n ELSE h.revs[f[k - 1]].parent)
      BY <3>2
    <3>4. QED
      BY <3>1, <3>3
  <2>3. \A k \in 0 .. m + 1 : k # 0 => k - 1 \in 0 .. m
    OBVIOUS
  <2>4. Climbs(m + 1, g)
    BY <2>2, <2>3
  <2> HIDE DEF Climbs, g
  <2>5. QED
    BY <1>2, <2>4
<1>3. h.last \in T
  <2> HIDE DEF T
  <2>1. \A k \in 0 .. h.last : k \in T
    BY <1>1, <1>2, UpTo
  <2>2. QED
    BY <2>1
<1>4. \E f : f = [k \in 0 .. h.last |->
                   IF k = 0 THEN n ELSE h.revs[f[k - 1]].parent]
  BY <1>3
<1>5. QED
  BY <1>4 DEF Chain

\* The climb stays within the history and is at the root after at most as many
\* steps as the number it began at.
LEMMA ChainClimbs ==
  ASSUME NEW h, IsHistory(h), NEW n \in 0 .. h.last
  PROVE  LET up == Chain(h, n)
         IN  /\ up[0] = n
             /\ \A k \in 1 .. h.last : up[k] = h.revs[up[k - 1]].parent
             /\ \A k \in 0 .. h.last : up[k] \in 0 .. h.last
             /\ \A k \in 0 .. h.last : up[k] = 0 \/ up[k] <= n - k
             /\ up[h.last] = 0
<1> DEFINE up == Chain(h, n)
           T == {k \in 0 .. h.last :
                   up[k] \in 0 .. h.last /\ (up[k] = 0 \/ up[k] <= n - k)}
<1>1. h.last \in Nat
  BY DEF IsHistory
<1>2. /\ up[0] = n
      /\ \A k \in 1 .. h.last : up[k] = h.revs[up[k - 1]].parent
  BY <1>1, ChainRecursion
<1> HIDE DEF up
<1>3. 0 \in T
  BY <1>1, <1>2
<1>4. ASSUME NEW k \in 0 .. h.last, k < h.last, k \in T
      PROVE  k + 1 \in T
  <2>1. k + 1 \in 1 .. h.last /\ (k + 1) - 1 = k
    BY <1>1, <1>4
  <2>2. up[k + 1] = h.revs[up[k]].parent
    BY <1>2, <2>1
  <2>3. CASE up[k] = 0
    BY <1>1, <2>1, <2>2, <2>3 DEF IsHistory
  <2>4. CASE up[k] # 0
    <3>1. up[k] \in 1 .. h.last /\ up[k] <= n - k
      BY <1>1, <1>4, <2>4
    <3>2. h.revs[up[k]].parent \in 0 .. up[k] - 1
      BY <3>1 DEF IsHistory
    <3>3. QED
      BY <1>1, <2>1, <2>2, <3>1, <3>2
  <2>5. QED
    BY <2>3, <2>4
<1>5. \A k \in 0 .. h.last : k \in T
  <2> HIDE DEF T
  <2>1. QED
    BY <1>1, <1>3, <1>4, UpTo
<1>6. \A k \in 0 .. h.last :
        up[k] \in 0 .. h.last /\ (up[k] = 0 \/ up[k] <= n - k)
  BY <1>5
<1>7. up[h.last] = 0
  <2>1. h.last \in 0 .. h.last
    BY <1>1
  <2>2. up[h.last] \in 0 .. h.last
        /\ (up[h.last] = 0 \/ up[h.last] <= n - h.last)
    BY <1>6, <2>1
  <2>3. QED
    BY <1>1, <2>2
<1>8. QED
  BY <1>2, <1>6, <1>7 DEF up

\* The least number of a set, as the model's operator picks it.
LEMMA LeastIsLeast ==
  ASSUME NEW S, S \subseteq Nat, S # {}
  PROVE  Least(S) \in S /\ \A m \in S : Least(S) <= m
<1>1. \E n \in S : \A m \in S : n <= m
  BY LeastNumber
<1>2. QED
  BY <1>1 DEF Least

\* The two climbs meet, at an ancestor of both.
LEMMA CommonAncestorIsCommon ==
  ASSUME NEW h, IsHistory(h), NEW a \in 0 .. h.last, NEW b \in 0 .. h.last
  PROVE  LET top == LowestCommonAncestor(h, a, b)
         IN  /\ \E j \in 0 .. h.last : Chain(h, a)[j] = top
             /\ \E k \in 0 .. h.last : Chain(h, b)[k] = top
<1> DEFINE ua == Chain(h, a)
           ub == Chain(h, b)
           S == {k \in 0 .. h.last : \E j \in 0 .. k : ua[j] = ub[k]}
<1>1. h.last \in Nat /\ h.last \in 0 .. h.last
  BY DEF IsHistory
<1>2. ua[h.last] = 0 /\ ub[h.last] = 0
  BY ChainClimbs
<1>3. h.last \in S
  BY <1>1, <1>2
<1>4. S \subseteq Nat /\ S # {}
  BY <1>1, <1>3
<1>5. Least(S) \in S
  <2> HIDE DEF S
  <2>1. QED
    BY <1>4, LeastIsLeast
<1>6. LowestCommonAncestor(h, a, b) = ub[Least(S)]
  BY DEF LowestCommonAncestor
<1>7. PICK j \in 0 .. Least(S) : ua[j] = ub[Least(S)]
  BY <1>5
<1>8. Least(S) \in 0 .. h.last
  BY <1>5
<1>9. j \in 0 .. h.last
  BY <1>1, <1>7, <1>8
<1>10. QED
  BY <1>6, <1>7, <1>8, <1>9

\* A climb that is at the root stays there.
LEMMA ChainStaysAtRoot ==
  ASSUME NEW h, IsHistory(h), NEW n \in 0 .. h.last,
         NEW j \in 0 .. h.last, Chain(h, n)[j] = 0,
         NEW i \in j .. h.last
  PROVE  Chain(h, n)[i] = 0
<1> DEFINE up == Chain(h, n)
           T == {k \in 0 .. h.last : k >= j => up[k] = 0}
<1>1. h.last \in Nat /\ h.revs[0].parent = 0
  BY DEF IsHistory
<1>2. /\ \A k \in 1 .. h.last : up[k] = h.revs[up[k - 1]].parent
      /\ up[j] = 0
  BY ChainClimbs
<1> HIDE DEF up
<1>3. 0 \in T
  BY <1>1, <1>2
<1>4. ASSUME NEW k \in 0 .. h.last, k < h.last, k \in T
      PROVE  k + 1 \in T
  <2>1. k + 1 \in 1 .. h.last /\ (k + 1) - 1 = k
    BY <1>1, <1>4
  <2>2. up[k + 1] = h.revs[up[k]].parent
    BY <1>2, <2>1
  <2>3. CASE k >= j
    BY <1>1, <1>4, <2>1, <2>2, <2>3
  <2>4. CASE ~(k >= j)
    BY <1>1, <1>2, <1>4, <2>1, <2>4
  <2>5. QED
    BY <2>3, <2>4
<1>5. \A k \in 0 .. h.last : k \in T
  <2> HIDE DEF T
  <2>1. QED
    BY <1>1, <1>3, <1>4, UpTo
<1>6. i \in 0 .. h.last /\ i >= j
  BY <1>1
<1>7. up[i] = 0
  BY <1>5, <1>6
<1>8. QED
  BY <1>7 DEF up

\* The path up to an ancestor is the climb as far as that, and passes no root
\* on the way.
LEMMA PathUpClimbs ==
  ASSUME NEW h, IsHistory(h), NEW from \in 0 .. h.last, NEW to,
         NEW j \in 0 .. h.last, Chain(h, from)[j] = to
  PROVE  LET p == PathUp(h, from, to)
             up == Chain(h, from)
         IN  /\ \A k \in 1 .. Len(p) : p[k] = up[k - 1]
             /\ Len(p) \in 0 .. h.last
             /\ up[Len(p)] = to
             /\ \A k \in 1 .. Len(p) : up[k - 1] \in 1 .. h.last
<1> DEFINE up == Chain(h, from)
           S == {k \in 0 .. h.last : up[k] = to}
           m == Least(S)
           p == PathUp(h, from, to)
<1>1. h.last \in Nat
  BY DEF IsHistory
<1>2. m \in S /\ \A k \in S : m <= k
  <2>1. S \subseteq Nat /\ S # {}
    BY <1>1
  <2> HIDE DEF S
  <2>2. QED
    BY <2>1, LeastIsLeast
<1>3. m \in 0 .. h.last /\ up[m] = to
  BY <1>2
<1>4. p = [k \in 1 .. m |-> up[k - 1]]
  BY DEF PathUp
<1> HIDE DEF m
<1>5. m \in Nat
  BY <1>1, <1>3
<1>6. Len(p) = m
  BY <1>4, <1>5
<1>7. ASSUME NEW k \in 1 .. m
      PROVE  up[k - 1] \in 1 .. h.last
  <2>1. k - 1 \in 0 .. h.last /\ m \in k - 1 .. h.last /\ ~(m <= k - 1)
    BY <1>1, <1>3
  <2>2. up[k - 1] \in 0 .. h.last
    BY <2>1, ChainClimbs
  <2>3. up[k - 1] # to
    BY <1>2, <2>1
  <2>4. up[k - 1] = 0 => up[m] = 0
    BY <2>1, ChainStaysAtRoot
  <2>5. up[k - 1] # 0
    BY <1>3, <2>3, <2>4
  <2>6. QED
    BY <1>1, <2>2, <2>5
<1>8. QED
  BY <1>3, <1>4, <1>6, <1>7

\* Each change set of a jump takes one edge of the tree: the inversion of a
\* revision up to its parent, or the transaction of a revision down to it.
Edge(h, cs, a, b) ==
  \/ a \in 1 .. h.last /\ b = h.revs[a].parent /\ cs = h.revs[a].inv
  \/ b \in 1 .. h.last /\ a = h.revs[b].parent /\ cs = h.revs[b].tx

LEMMA JumpTakesEdges ==
  ASSUME NEW h, IsHistory(h), NEW to \in 0 .. h.last
  PROVE  LET css == JumpChanges(h, to)
         IN  /\ Len(css) \in Nat
             /\ \E w \in [0 .. Len(css) -> 0 .. h.last] :
                  /\ w[0] = h.current
                  /\ w[Len(css)] = to
                  /\ \A i \in 1 .. Len(css) : Edge(h, css[i], w[i - 1], w[i])
<1> DEFINE top == LowestCommonAncestor(h, h.current, to)
           ua == Chain(h, h.current)
           ub == Chain(h, to)
           up == PathUp(h, h.current, top)
           down == PathUp(h, to, top)
           a == Len(up)
           b == Len(down)
           left == [i \in 1 .. a |-> h.revs[up[i]].inv]
           right == [i \in 1 .. b |-> h.revs[down[b + 1 - i]].tx]
           css == JumpChanges(h, to)
           w == [i \in 0 .. a + b |-> IF i <= a THEN ua[i] ELSE ub[b - (i - a)]]
<1>1. h.last \in Nat /\ h.current \in 0 .. h.last
  BY DEF IsHistory
<1>2. /\ ua[0] = h.current /\ ub[0] = to
      /\ \A k \in 0 .. h.last : ua[k] \in 0 .. h.last /\ ub[k] \in 0 .. h.last
      /\ \A k \in 1 .. h.last : /\ ua[k] = h.revs[ua[k - 1]].parent
                                /\ ub[k] = h.revs[ub[k - 1]].parent
  BY <1>1, ChainClimbs
<1>3. PICK j, k \in 0 .. h.last : ua[j] = top /\ ub[k] = top
  BY <1>1, CommonAncestorIsCommon
<1>4. /\ \A i \in 1 .. a : up[i] = ua[i - 1]
      /\ a \in 0 .. h.last /\ ua[a] = top
      /\ \A i \in 1 .. a : ua[i - 1] \in 1 .. h.last
  BY <1>1, <1>3, PathUpClimbs
<1>5. /\ \A i \in 1 .. b : down[i] = ub[i - 1]
      /\ b \in 0 .. h.last /\ ub[b] = top
      /\ \A i \in 1 .. b : ub[i - 1] \in 1 .. h.last
  BY <1>1, <1>3, PathUpClimbs
<1>6. css = left \o right
  BY DEF JumpChanges
<1> HIDE DEF top, ua, ub, up, down, a, b, css
<1>7. a \in Nat /\ b \in Nat
  BY <1>1, <1>4, <1>5
<1>8. /\ Len(css) = a + b
      /\ \A i \in 1 .. a : css[i] = h.revs[up[i]].inv
      /\ \A i \in 1 .. b : css[a + i] = h.revs[down[b + 1 - i]].tx
  <2>1. Len(left) = a /\ Len(right) = b
    BY <1>7
  <2> DEFINE Z == {left[i] : i \in 1 .. a} \cup {right[i] : i \in 1 .. b}
  <2>2. left \in Seq(Z)
    <3>1. \A i \in 1 .. a : left[i] \in Z
      OBVIOUS
    <3> HIDE DEF Z
    <3>2. QED
      BY <1>7, <3>1
  <2>3. right \in Seq(Z)
    <3>1. \A i \in 1 .. b : right[i] \in Z
      OBVIOUS
    <3> HIDE DEF Z
    <3>2. QED
      BY <1>7, <3>1
  <2> HIDE DEF Z
  <2>4. Len(css) = a + b
    BY <1>6, <1>7, <2>1, <2>2, <2>3
  <2>5. ASSUME NEW i \in 1 .. a
        PROVE  css[i] = h.revs[up[i]].inv
    <3>1. css[i] = left[i]
      BY <1>6, <1>7, <2>1, <2>2, <2>3
    <3>2. QED
      BY <3>1
  <2>6. ASSUME NEW i \in 1 .. b
        PROVE  css[a + i] = h.revs[down[b + 1 - i]].tx
    <3>1. css[a + i] = right[i]
      BY <1>6, <1>7, <2>1, <2>2, <2>3
    <3>2. QED
      BY <3>1
  <2>7. QED
    BY <2>4, <2>5, <2>6
<1>9. w \in [0 .. Len(css) -> 0 .. h.last]
  <2>1. ASSUME NEW i \in 0 .. a + b
        PROVE  (IF i <= a THEN ua[i] ELSE ub[b - (i - a)]) \in 0 .. h.last
    <3>1. CASE i <= a
      BY <1>1, <1>2, <1>4, <1>7, <3>1
    <3>2. CASE ~(i <= a)
      <4>1. b - (i - a) \in 0 .. h.last
        BY <1>1, <1>5, <1>7, <3>2
      <4>2. QED
        BY <1>2, <3>2, <4>1
    <3>3. QED
      BY <3>1, <3>2
  <2>2. QED
    BY <1>8, <2>1
<1>10. w[0] = h.current
  BY <1>2, <1>7
<1>11. w[Len(css)] = to
  <2>1. CASE b = 0
    BY <1>2, <1>4, <1>5, <1>7, <1>8, <2>1
  <2>2. CASE b # 0
    BY <1>2, <1>7, <1>8, <2>2
  <2>3. QED
    BY <2>1, <2>2
<1>12. ASSUME NEW i \in 1 .. Len(css)
       PROVE  Edge(h, css[i], w[i - 1], w[i])
  <2>1. i \in 1 .. a + b
    BY <1>8
  <2>2. CASE i <= a
    <3>1. w[i - 1] = ua[i - 1] /\ w[i] = ua[i]
      BY <1>7, <2>1, <2>2
    <3>2. i \in 1 .. a /\ i \in 1 .. h.last
      BY <1>1, <1>4, <1>7, <2>1, <2>2
    <3>3. css[i] = h.revs[ua[i - 1]].inv
      BY <1>4, <1>8, <3>2
    <3>4. ua[i - 1] \in 1 .. h.last /\ ua[i] = h.revs[ua[i - 1]].parent
      BY <1>2, <1>4, <3>2
    <3>5. QED
      BY <3>1, <3>3, <3>4 DEF Edge
  <2>3. CASE ~(i <= a)
    <3> DEFINE d == b - (i - a)
    <3>1. d \in 0 .. b - 1 /\ i - a \in 1 .. b /\ a + (i - a) = i
          /\ b + 1 - (i - a) = d + 1
      BY <1>7, <2>1, <2>3
    <3>2. w[i] = ub[d]
      BY <1>7, <2>1, <2>3
    <3>3. w[i - 1] = ub[d + 1]
      <4>1. CASE i - 1 = a
        <5>1. d + 1 = b
          BY <1>7, <4>1
        <5>2. w[i - 1] = ua[a]
          BY <1>7, <2>1, <4>1
        <5>3. QED
          BY <1>4, <1>5, <5>1, <5>2
      <4>2. CASE i - 1 # a
        <5>1. w[i - 1] = ub[b - ((i - 1) - a)]
          BY <1>7, <2>1, <2>3, <4>2
        <5>2. b - ((i - 1) - a) = d + 1
          BY <1>7, <2>1
        <5>3. QED
          BY <5>1, <5>2
      <4>3. QED
        BY <4>1, <4>2
    <3>4. css[i] = h.revs[down[d + 1]].tx
      BY <1>8, <3>1
    <3>5. d + 1 \in 1 .. b /\ d + 1 \in 1 .. h.last /\ (d + 1) - 1 = d
      BY <1>1, <1>5, <1>7, <3>1
    <3> HIDE DEF d
    <3>6. css[i] = h.revs[ub[d]].tx
      BY <1>5, <3>4, <3>5
    <3>7. ub[d] \in 1 .. h.last /\ ub[d + 1] = h.revs[ub[d]].parent
      BY <1>2, <1>5, <3>5
    <3>8. QED
      BY <3>2, <3>3, <3>6, <3>7 DEF Edge
  <2>4. QED
    BY <2>2, <2>3
<1>13. Len(css) \in Nat
  BY <1>7, <1>8
<1> HIDE DEF w
<1>14. QED
  BY <1>9, <1>10, <1>11, <1>12, <1>13 DEF css

(***************************************************************************)
(* The state of a document, whatever has happened to it.                   *)
(***************************************************************************)

IsGroup(g) ==
  /\ g = [open |-> g.open, base |-> g.base, changes |-> g.changes]
  /\ g.open \in BOOLEAN
  /\ g.base \in Text
  /\ IsChangeSet(g.changes)

IsDocument(d) ==
  /\ d = [text |-> d.text, hist |-> d.hist, group |-> d.group,
          savePoint |-> d.savePoint]
  /\ d.text \in Text
  /\ IsHistory(d.hist)
  /\ IsGroup(d.group)
  /\ d.savePoint \in 0 .. d.hist.last

\* Revisions are added, and none is altered.
Grows(h, n) ==
  /\ h.last \in Nat /\ n.last \in Nat
  /\ n.last >= h.last
  /\ \A r \in 0 .. h.last : /\ n.revs[r].parent = h.revs[r].parent
                            /\ n.revs[r].tx = h.revs[r].tx
                            /\ n.revs[r].inv = h.revs[r].inv

LEMMA GrowsOn ==
  ASSUME NEW h, NEW m, NEW n, Grows(h, m), Grows(m, n)
  PROVE  Grows(h, n)
<1>1. \A r \in 0 .. h.last : r \in 0 .. m.last
  BY DEF Grows
<1>2. QED
  BY <1>1 DEF Grows

LEMMA NoEditsChangeNothing ==
  /\ IsChangeSet(NoEdits) /\ IsEmpty(NoEdits) /\ NoOps(NoEdits)
  /\ << >> \in Text
<1>1. NoEdits = Identity(0)
  BY DEF NoEdits, Identity
<1>2. IsChangeSet(NoEdits)
  BY <1>1, IdentityMakesChangeSet
<1>3. IsEmpty(NoEdits)
  BY <1>1 DEF IsEmpty, NoEdits
<1>4. QED
  BY <1>2, <1>3 DEF NoOps, NoEdits, Text

\* What the code's check lets through can be composed.
LEMMA ComposableMakesChangeSet ==
  ASSUME NEW a, IsChangeSet(a), NEW b, IsChangeSet(b), Composable(a, b)
  PROVE  IsChangeSet(Compose(a, b))
<1>1. CASE NoOps(a)
  BY <1>1 DEF Compose
<1>2. CASE ~NoOps(a) /\ NoOps(b)
  BY <1>2 DEF Compose
<1>3. CASE ~NoOps(a) /\ ~NoOps(b)
  <2>1. Len(a.post) = b.pre
    BY <1>3 DEF Composable
  <2>2. QED
    BY <2>1, ComposeMakesChangeSet
<1>4. QED
  BY <1>1, <1>2, <1>3

LEMMA CommitRevisionGrows ==
  ASSUME NEW h, IsHistory(h), NEW cs, IsChangeSet(cs),
         NEW t \in Text, Fits(cs, t)
  PROVE  /\ IsHistory(CommitRevision(h, cs, t))
         /\ Grows(h, CommitRevision(h, cs, t))
<1>1. h.last \in Nat
  BY DEF IsHistory
<1>2. QED
  BY <1>1, CommitAddsOne DEF Grows

LEMMA GroupParts ==
  ASSUME NEW o \in BOOLEAN, NEW b \in Text, NEW c, IsChangeSet(c)
  PROVE  IsGroup([open |-> o, base |-> b, changes |-> c])
BY DEF IsGroup

LEMMA DocumentParts ==
  ASSUME NEW t \in Text, NEW h, IsHistory(h), NEW g, IsGroup(g),
         NEW s \in 0 .. h.last, NEW d,
         d = [text |-> t, hist |-> h, group |-> g, savePoint |-> s]
  PROVE  IsDocument(d)
BY DEF IsDocument

LEMMA BeginInsertGroupKeeps ==
  ASSUME NEW d, IsDocument(d)
  PROVE  /\ IsDocument(BeginInsertGroup(d))
         /\ BeginInsertGroup(d).text = d.text
         /\ BeginInsertGroup(d).hist = d.hist
         /\ BeginInsertGroup(d).savePoint = d.savePoint
<1> DEFINE n == BeginInsertGroup(d)
<1>1. CASE d.group.open
  BY <1>1 DEF BeginInsertGroup
<1>2. CASE ~d.group.open
  <2>1. n = [text |-> d.text, hist |-> d.hist,
             group |-> [open |-> TRUE, base |-> d.text, changes |-> NoEdits],
             savePoint |-> d.savePoint]
    BY <1>2 DEF BeginInsertGroup, IsDocument
  <2>2. /\ d.text \in Text /\ IsHistory(d.hist)
        /\ d.savePoint \in 0 .. d.hist.last
    BY DEF IsDocument
  <2>3. IsGroup([open |-> TRUE, base |-> d.text, changes |-> NoEdits])
    BY <2>2, NoEditsChangeNothing, GroupParts
  <2> HIDE DEF n
  <2>4. IsDocument(n)
    BY <2>1, <2>2, <2>3, DocumentParts
  <2>5. QED
    BY <2>1, <2>4 DEF n
<1>3. QED
  BY <1>1, <1>2

LEMMA CommitInsertHistoryKeeps ==
  ASSUME NEW d, IsDocument(d)
  PROVE  /\ IsDocument(CommitInsertHistory(d))
         /\ CommitInsertHistory(d).text = d.text
         /\ CommitInsertHistory(d).group = NoGroup
         /\ CommitInsertHistory(d).savePoint = d.savePoint
         /\ Grows(d.hist, CommitInsertHistory(d).hist)
         /\ ~d.group.open => CommitInsertHistory(d).hist = d.hist
<1> DEFINE g == d.group
           n == CommitInsertHistory(d)
           hist == IF g.open /\ ~IsEmpty(g.changes) /\ Fits(g.changes, g.base)
                   THEN CommitRevision(d.hist, g.changes, g.base) ELSE d.hist
<1>1. n = [text |-> d.text, hist |-> hist, group |-> NoGroup,
           savePoint |-> d.savePoint]
  <2>1. d = [text |-> d.text, hist |-> d.hist, group |-> d.group,
             savePoint |-> d.savePoint]
    BY DEF IsDocument
  <2>2. n = [d EXCEPT !.group = NoGroup, !.hist = hist]
    BY DEF CommitInsertHistory
  <2> HIDE DEF n, hist
  <2>3. QED
    BY <2>1, <2>2
<1>2. IsHistory(d.hist) /\ g.base \in Text /\ IsChangeSet(g.changes)
      /\ d.hist.last \in Nat /\ d.savePoint \in 0 .. d.hist.last
      /\ d.text \in Text
  BY DEF IsDocument, IsHistory, IsGroup
<1>3. IsHistory(hist) /\ Grows(d.hist, hist)
  <2>1. CASE g.open /\ ~IsEmpty(g.changes) /\ Fits(g.changes, g.base)
    <3>1. hist = CommitRevision(d.hist, g.changes, g.base)
      BY <2>1
    <3>2. QED
      BY <1>2, <2>1, <3>1, CommitRevisionGrows
  <2>2. CASE ~(g.open /\ ~IsEmpty(g.changes) /\ Fits(g.changes, g.base))
    <3>1. hist = d.hist
      BY <2>2
    <3> HIDE DEF hist
    <3>2. Grows(d.hist, d.hist)
      BY <1>2 DEF Grows
    <3>3. QED
      BY <1>2, <3>1, <3>2
  <2>3. QED
    BY <2>1, <2>2
<1>4. ~g.open => hist = d.hist
  OBVIOUS
<1> HIDE DEF hist
<1>5. d.savePoint \in 0 .. hist.last
  BY <1>2, <1>3 DEF Grows
<1>6. IsGroup(NoGroup)
  BY NoEditsChangeNothing, GroupParts DEF NoGroup
<1> HIDE DEF n
<1>7. IsDocument(n)
  BY <1>1, <1>2, <1>3, <1>5, <1>6, DocumentParts
<1>8. QED
  BY <1>1, <1>3, <1>4, <1>7 DEF n

\* What a handler may make of a document: the history grows, and the save
\* point stays.
Follows(d, n) ==
  /\ IsDocument(n)
  /\ n.savePoint = d.savePoint
  /\ Grows(d.hist, n.hist)

LEMMA FollowsItself ==
  ASSUME NEW d, IsDocument(d)
  PROVE  Follows(d, d)
<1>1. d.hist.last \in Nat
  BY DEF IsDocument, IsHistory
<1>2. Grows(d.hist, d.hist)
  BY <1>1 DEF Grows
<1>3. QED
  BY <1>2 DEF Follows

\* A change set that fits becomes a revision of its own.
WithRevision(d, cs) ==
  [d EXCEPT !.text = Apply(cs, d.text),
            !.hist = CommitRevision(@, cs, d.text)]

LEMMA RevisionFollows ==
  ASSUME NEW d, IsDocument(d), NEW cs, IsChangeSet(cs), Fits(cs, d.text)
  PROVE  /\ Follows(d, WithRevision(d, cs))
         /\ WithRevision(d, cs) =
              [text |-> Apply(cs, d.text),
               hist |-> CommitRevision(d.hist, cs, d.text),
               group |-> d.group, savePoint |-> d.savePoint]
<1> DEFINE n == WithRevision(d, cs)
           t == Apply(cs, d.text)
           h == CommitRevision(d.hist, cs, d.text)
<1>1. d = [text |-> d.text, hist |-> d.hist, group |-> d.group,
           savePoint |-> d.savePoint]
  BY DEF IsDocument
<1>2. /\ d.text \in Text /\ IsHistory(d.hist) /\ IsGroup(d.group)
      /\ d.savePoint \in 0 .. d.hist.last /\ d.hist.last \in Nat
  BY DEF IsDocument, IsHistory
<1>3. t \in Text
  BY <1>2, ApplyMakesText
<1>4. IsHistory(h) /\ Grows(d.hist, h)
  BY <1>2, CommitRevisionGrows
<1>5. n = [d EXCEPT !.text = t, !.hist = h]
  BY <1>1 DEF WithRevision
<1> HIDE DEF n, t, h
<1>6. n = [text |-> t, hist |-> h, group |-> d.group,
           savePoint |-> d.savePoint]
  BY <1>1, <1>5
<1>7. d.savePoint \in 0 .. h.last
  BY <1>2, <1>4 DEF Grows
<1>8. IsDocument(n)
  BY <1>2, <1>3, <1>4, <1>6, <1>7, DocumentParts
<1>9. Follows(d, n)
  BY <1>4, <1>6, <1>8 DEF Follows
<1>10. QED
  BY <1>6, <1>9 DEF n, t, h

LEMMA ApplyEditFollows ==
  ASSUME NEW d, IsDocument(d), NEW cs, IsChangeSet(cs)
  PROVE  Follows(d, ApplyEdit(d, cs))
<1> DEFINE n == ApplyEdit(d, cs)
<1>1. CASE ~Accepts(d, cs)
  <2>1. n = d
    BY <1>1 DEF ApplyEdit
  <2>2. QED
    BY <2>1, FollowsItself
<1>2. CASE Accepts(d, cs) /\ d.group.open
  <2> DEFINE g == [d.group EXCEPT !.changes = Compose(@, cs)]
             t == Apply(cs, d.text)
  <2>1. d = [text |-> d.text, hist |-> d.hist, group |-> d.group,
             savePoint |-> d.savePoint]
    BY DEF IsDocument
  <2>2. /\ d.text \in Text /\ IsHistory(d.hist)
        /\ d.savePoint \in 0 .. d.hist.last
        /\ d.group.open \in BOOLEAN /\ d.group.base \in Text
        /\ IsChangeSet(d.group.changes)
    BY DEF IsDocument, IsGroup
  <2>3. d.group = [open |-> d.group.open, base |-> d.group.base,
                   changes |-> d.group.changes]
    BY DEF IsDocument, IsGroup
  <2>4. g = [open |-> d.group.open, base |-> d.group.base,
             changes |-> Compose(d.group.changes, cs)]
    BY <2>3
  <2>5. IsChangeSet(Compose(d.group.changes, cs))
    BY <1>2, <2>2, ComposableMakesChangeSet DEF Accepts
  <2>6. t \in Text
    BY <1>2, <2>2, ApplyMakesText DEF Accepts
  <2>7. n = [d EXCEPT !.text = t, !.group = g]
    BY <1>2, <2>1 DEF ApplyEdit
  <2> HIDE DEF n, g, t
  <2>8. IsGroup(g)
    BY <2>2, <2>4, <2>5, GroupParts
  <2>9. n = [text |-> t, hist |-> d.hist, group |-> g,
             savePoint |-> d.savePoint]
    BY <2>1, <2>7
  <2>10. IsDocument(n)
    BY <2>2, <2>6, <2>8, <2>9, DocumentParts
  <2>11. Grows(d.hist, d.hist)
    BY FollowsItself DEF Follows
  <2>12. QED
    BY <2>9, <2>10, <2>11 DEF Follows, n
<1>3. CASE Accepts(d, cs) /\ ~d.group.open
  <2>1. n = WithRevision(d, cs)
    BY <1>3 DEF ApplyEdit, WithRevision
  <2>2. Fits(cs, d.text)
    BY <1>3 DEF Accepts
  <2> HIDE DEF n
  <2>3. QED
    BY <2>1, <2>2, RevisionFollows DEF n
<1>4. QED
  BY <1>1, <1>2, <1>3

LEMMA CommonPrefixIsShort ==
  ASSUME NEW s, Len(s) \in Nat, NEW t, Len(t) \in Nat
  PROVE  CommonPrefix(s, t) \in 0 .. Len(s) /\ CommonPrefix(s, t) <= Len(t)
<1> DEFINE n == IF Len(s) < Len(t) THEN Len(s) ELSE Len(t)
           Stop == {k \in 0 .. n : k = n \/ s[k + 1] # t[k + 1]}
           Common(k) == /\ \A i \in 1 .. k : s[i] = t[i]
                        /\ k = n \/ s[k + 1] # t[k + 1]
<1>1. n \in Nat /\ n <= Len(s) /\ n <= Len(t)
  OBVIOUS
<1> HIDE DEF n
<1>2. Stop \subseteq Nat /\ Stop # {}
  <2>1. n \in Stop
    BY <1>1
  <2>2. Stop \subseteq Nat
    BY <1>1
  <2>3. QED
    BY <2>1, <2>2
<1>3. PICK k \in Stop : \A m \in Stop : k <= m
  BY <1>2, LeastNumber
<1>4. k \in 0 .. n /\ (k = n \/ s[k + 1] # t[k + 1])
  BY <1>3
<1>5. ASSUME NEW i \in 1 .. k
      PROVE  s[i] = t[i]
  <2>1. i - 1 \in 0 .. n /\ i - 1 < k /\ i - 1 # n /\ (i - 1) + 1 = i
    BY <1>1, <1>4
  <2>2. i - 1 \notin Stop
    BY <1>3, <2>1
  <2>3. QED
    BY <2>1, <2>2
<1>6. \E j \in 0 .. n : Common(j)
  BY <1>4, <1>5
<1>7. CommonPrefix(s, t) = CHOOSE j \in 0 .. n : Common(j)
  BY DEF CommonPrefix, n
<1> HIDE DEF Common
<1>8. CommonPrefix(s, t) \in 0 .. n
  BY <1>6, <1>7
<1>9. QED
  BY <1>1, <1>8

LEMMA DiffMakesChangeSet ==
  ASSUME NEW s \in Text, NEW t \in Text
  PROVE  IsChangeSet(Diff(s, t)) /\ Fits(Diff(s, t), s)
<1> DEFINE p == CommonPrefix(s, t)
           fs == Flip(After(s, p))
           ft == Flip(After(t, p))
           q == CommonPrefix(fs, ft)
           ins == SubSeq(t, p + 1, Len(t) - q)
<1>1. Len(s) \in Nat /\ Len(t) \in Nat
  BY DEF Text
<1>2. p \in 0 .. Len(s) /\ p <= Len(t)
  BY <1>1, CommonPrefixIsShort
<1> HIDE DEF p
<1>3. Len(After(s, p)) = Len(s) - p /\ Len(After(t, p)) = Len(t) - p
  BY <1>1, <1>2 DEF After, Text
<1>4. Len(fs) = Len(s) - p /\ Len(ft) = Len(t) - p
  BY <1>1, <1>2, <1>3 DEF Flip
<1> HIDE DEF fs, ft
<1>5. q \in 0 .. Len(s) - p /\ q <= Len(t) - p
  <2>1. Len(fs) \in Nat /\ Len(ft) \in Nat
    BY <1>1, <1>2, <1>4
  <2>2. QED
    BY <2>1, <1>4, CommonPrefixIsShort
<1> HIDE DEF q
<1>6. ins \in Text
  <2>1. p + 1 \in 1 .. Len(t) + 1 /\ Len(t) - q \in p .. Len(t)
    BY <1>1, <1>2, <1>5
  <2>2. QED
    BY <2>1, <1>1 DEF Text
<1> HIDE DEF ins
<1>7. Len(s) - q \in p .. Len(s)
  BY <1>1, <1>2, <1>5
<1>8. Diff(s, t) = Splice(Len(s), p, Len(s) - q, ins)
  BY DEF Diff, p, fs, ft, q, ins
<1>9. QED
  BY <1>1, <1>2, <1>6, <1>7, <1>8, SpliceMakesChangeSet DEF Fits

LEMMA TrimRightMakesText ==
  ASSUME NEW s \in Text, NEW c
  PROVE  TrimRight(s, c) \in Text
<1> DEFINE T == {n \in 0 .. Len(s) : \A i \in n + 1 .. Len(s) : s[i] = c}
<1>1. Len(s) \in Nat /\ Len(s) \in T /\ T \subseteq Nat
  BY DEF Text
<1>2. PICK n \in T : \A m \in T : n <= m
  <2> HIDE DEF T
  <2>1. T # {}
    BY <1>1
  <2>2. QED
    BY <1>1, <2>1, LeastNumber
<1>3. n = 0 \/ s[n] # c
  <2>1. SUFFICES ASSUME n # 0, s[n] = c
                 PROVE  FALSE
    OBVIOUS
  <2>2. n - 1 \in 0 .. Len(s)
    BY <1>1, <2>1
  <2>3. \A i \in (n - 1) + 1 .. Len(s) : i = n \/ i \in n + 1 .. Len(s)
    BY <1>1
  <2>4. n - 1 \in T
    BY <2>1, <2>2, <2>3
  <2> HIDE DEF T
  <2>5. n <= n - 1 /\ n \in Nat
    BY <1>1, <1>2, <2>4
  <2>6. QED
    BY <2>5
<1>4. PICK m \in 0 .. Len(s) : TrimRight(s, c) = SubSeq(s, 1, m)
  <2>1. \E m \in 0 .. Len(s) : /\ m = 0 \/ s[m] # c
                              /\ \A i \in m + 1 .. Len(s) : s[i] = c
    BY <1>3
  <2>2. QED
    BY <2>1, Zenon DEF TrimRight
<1>5. QED
  BY <1>1, <1>4 DEF Text

\* The step of the fold in TrimTrailingWhitespace.
TrimStep(blank, s, c) ==
  IF c = Newline THEN Append(TrimRight(s, blank), c) ELSE Append(s, c)
TrimFolds == INSTANCE FoldTheorems WITH Op <- TrimStep

LEMMA TrimTrailingWhitespaceMakesText ==
  ASSUME NEW t \in Text
  PROVE  TrimTrailingWhitespace(t) \in Text
<1> DEFINE F(s) == TrimFolds!Fold(Blank, << >>, s)
           Good == {s \in Text : F(s) \in Text}
<1>1. TrimTrailingWhitespace(t) = TrimRight(F(t), Blank)
  BY DEF TrimTrailingWhitespace, TrimStep, TrimFolds!Fold, TrimFolds!FoldLeft,
         TrimFolds!MapThenFoldSet, TrimFolds!Max, FoldLeft, MapThenFoldSet, Max
<1>2. << >> \in Good
  <2>1. F(<< >>) = << >>
    BY TrimFolds!FoldNone
  <2>2. << >> \in Text
    BY DEF Text
  <2> HIDE DEF F
  <2>3. QED
    BY <2>1, <2>2, Zenon
<1>3. ASSUME NEW s \in Seq(Char), NEW c \in Char, s \in Good
      PROVE  Append(s, c) \in Good
  <2>1. F(Append(s, c)) = TrimStep(Blank, F(s), c)
    BY TrimFolds!FoldAppend
  <2>2. F(s) \in Text
    BY <1>3
  <2> HIDE DEF F
  <2>3. TrimRight(F(s), Blank) \in Text
    BY <2>2, TrimRightMakesText
  <2>4. TrimStep(Blank, F(s), c) \in Text
    BY <2>2, <2>3 DEF TrimStep, Text
  <2>5. Append(s, c) \in Text
    BY DEF Text
  <2>6. QED
    BY <2>1, <2>4, <2>5
<1>4. F(t) \in Text
  <2> HIDE DEF Good
  <2>1. \A s \in Seq(Char) : s \in Good
    BY <1>2, <1>3, OverSequences
  <2>2. t \in Good
    BY <2>1 DEF Text
  <2>3. QED
    BY <2>2 DEF Good
<1> HIDE DEF F
<1>5. QED
  BY <1>1, <1>4, TrimRightMakesText

LEMMA PrepareSaveTextMakesText ==
  ASSUME DocumentAssumption, NEW t \in Text, NEW settings
  PROVE  PrepareSaveText(t, settings) \in Text
<1>1. \A s \in Text : Append(s, Newline) \in Text
  BY DEF Text, DocumentAssumption
<1>2. \A s \in Text : TrimFinalNewlines(s) \in Text
  BY <1>1, TrimRightMakesText DEF TrimFinalNewlines
<1>3. QED
  BY <1>1, <1>2, TrimTrailingWhitespaceMakesText DEF PrepareSaveText

LEMMA ApplySaveTextFollows ==
  ASSUME DocumentAssumption, NEW d, IsDocument(d), NEW settings
  PROVE  Follows(d, ApplySaveText(d, settings))
<1> DEFINE cs == Diff(d.text, PrepareSaveText(d.text, settings))
<1>1. d.text \in Text
  BY DEF IsDocument
<1>2. IsChangeSet(cs) /\ Fits(cs, d.text)
  BY <1>1, PrepareSaveTextMakesText, DiffMakesChangeSet
<1>3. CASE IsEmpty(cs)
  <2>1. ApplySaveText(d, settings) = d
    BY <1>3 DEF ApplySaveText
  <2>2. QED
    BY <2>1, FollowsItself
<1>4. CASE ~IsEmpty(cs)
  <2>1. ApplySaveText(d, settings) = WithRevision(d, cs)
    BY <1>4 DEF ApplySaveText, WithRevision
  <2> HIDE DEF cs
  <2>2. QED
    BY <1>2, <2>1, RevisionFollows
<1>5. QED
  BY <1>3, <1>4

\* A document with another text, and a history that is in another revision.
LEMMA MovedFollows ==
  ASSUME NEW d, IsDocument(d), NEW r \in 0 .. d.hist.last, NEW t \in Text,
         NEW n, n = [text |-> t, hist |-> [d.hist EXCEPT !.current = r],
                     group |-> d.group, savePoint |-> d.savePoint]
  PROVE  Follows(d, n)
<1> DEFINE h == [d.hist EXCEPT !.current = r]
<1>1. IsHistory(d.hist) /\ IsGroup(d.group) /\ d.savePoint \in 0 .. d.hist.last
  BY DEF IsDocument
<1>2. IsHistory(h) /\ h.last = d.hist.last /\ h.revs = d.hist.revs
  BY <1>1, TravelKeepsHistory
<1>3. d.hist.last \in Nat
  BY <1>1 DEF IsHistory
<1>4. n.hist = h /\ n.savePoint = d.savePoint
  OBVIOUS
<1> HIDE DEF h
<1>5. Grows(d.hist, h)
  BY <1>2, <1>3 DEF Grows
<1>6. IsDocument(n)
  BY <1>1, <1>2, DocumentParts DEF h
<1>7. QED
  BY <1>4, <1>5, <1>6 DEF Follows

LEMMA AfterStepFollows ==
  ASSUME NEW d, IsDocument(d), NEW r \in 0 .. d.hist.last,
         NEW cs, IsChangeSet(cs)
  PROVE  Follows(d, AfterStep(d, cs, [d.hist EXCEPT !.current = r]))
<1> DEFINE h == [d.hist EXCEPT !.current = r]
           t == IF Fits(cs, d.text) THEN Apply(cs, d.text) ELSE d.text
<1>1. d = [text |-> d.text, hist |-> d.hist, group |-> d.group,
           savePoint |-> d.savePoint] /\ d.text \in Text
  BY DEF IsDocument
<1>2. t \in Text
  BY <1>1, ApplyMakesText
<1>3. AfterStep(d, cs, h) = [d EXCEPT !.hist = h, !.text = t]
  BY <1>1 DEF AfterStep
<1> HIDE DEF h, t
<1>4. AfterStep(d, cs, h) = [text |-> t, hist |-> h, group |-> d.group,
                             savePoint |-> d.savePoint]
  BY <1>1, <1>3
<1>5. QED
  BY <1>2, <1>4, MovedFollows DEF h

\* What ApplyAll has after each of the change sets.
AfterOne(x, cs) ==
  IF x.ok /\ Fits(cs, x.text)
  THEN [text |-> Apply(cs, x.text), ok |-> TRUE]
  ELSE [text |-> x.text, ok |-> FALSE]

Applying(f, t, css) ==
  /\ f[0] = [text |-> t, ok |-> TRUE]
  /\ \A i \in 1 .. Len(css) : f[i] = AfterOne(f[i - 1], css[i])
  /\ ApplyAll(t, css) = f[Len(css)]

LEMMA ApplyAllRecursion ==
  ASSUME NEW t, NEW css, Len(css) \in Nat
  PROVE  \E f : Applying(f, t, css)
<1> DEFINE Runs(m, f) == f = [i \in 0 .. m |->
                               IF i = 0 THEN [text |-> t, ok |-> TRUE]
                               ELSE AfterOne(f[i - 1], css[i])]
           T == {m \in 0 .. Len(css) : \E f : Runs(m, f)}
<1>1. 0 \in T
  <2>1. Runs(0, [i \in 0 .. 0 |-> [text |-> t, ok |-> TRUE]])
    OBVIOUS
  <2> HIDE DEF Runs
  <2>2. QED
    BY <2>1
<1>2. ASSUME NEW m \in 0 .. Len(css), m < Len(css), m \in T
      PROVE  m + 1 \in T
  <2>1. PICK f : Runs(m, f)
    BY <1>2
  <2> DEFINE g == [i \in 0 .. m + 1 |->
                    IF i = 0 THEN [text |-> t, ok |-> TRUE]
                    ELSE AfterOne(f[i - 1], css[i])]
  <2>2. ASSUME NEW i \in 0 .. m
        PROVE  g[i] = f[i]
    <3>1. f[i] = (IF i = 0 THEN [text |-> t, ok |-> TRUE]
                  ELSE AfterOne(f[i - 1], css[i]))
      BY <2>1
    <3>2. i \in 0 .. m + 1
      OBVIOUS
    <3>3. g[i] = (IF i = 0 THEN [text |-> t, ok |-> TRUE]
                  ELSE AfterOne(f[i - 1], css[i]))
      BY <3>2
    <3>4. QED
      BY <3>1, <3>3
  <2>3. \A i \in 0 .. m + 1 : i # 0 => i - 1 \in 0 .. m
    OBVIOUS
  <2>4. Runs(m + 1, g)
    BY <2>2, <2>3
  <2> HIDE DEF Runs, g
  <2>5. QED
    BY <1>2, <2>4
<1>3. Len(css) \in T
  <2> HIDE DEF T
  <2>1. \A i \in 0 .. Len(css) : i \in T
    BY <1>1, <1>2, UpTo
  <2>2. QED
    BY <2>1
<1> DEFINE R == CHOOSE f : Runs(Len(css), f)
<1>4. \E f : Runs(Len(css), f)
  BY <1>3
<1>5. ApplyAll(t, css) = R[Len(css)]
  BY DEF ApplyAll, AfterOne
<1>6. Runs(Len(css), R)
  <2> HIDE DEF Runs
  <2>1. QED
    BY <1>4
<1>7. \A i \in 0 .. Len(css) :
        R[i] = IF i = 0 THEN [text |-> t, ok |-> TRUE]
               ELSE AfterOne(R[i - 1], css[i])
  <2> HIDE DEF R
  <2>1. QED
    BY <1>6
<1> HIDE DEF R, Runs
<1>8. R[0] = [text |-> t, ok |-> TRUE]
  <2>1. 0 \in 0 .. Len(css)
    OBVIOUS
  <2>2. QED
    BY <1>7, <2>1
<1>9. \A i \in 1 .. Len(css) : R[i] = AfterOne(R[i - 1], css[i])
  BY <1>7
<1>10. Applying(R, t, css)
  BY <1>5, <1>8, <1>9 DEF Applying
<1>11. QED
  BY <1>10

LEMMA ApplyAllMakesText ==
  ASSUME NEW t \in Text, NEW css, Len(css) \in Nat,
         \A i \in 1 .. Len(css) : IsChangeSet(css[i])
  PROVE  ApplyAll(t, css).text \in Text
<1>0. PICK f : Applying(f, t, css)
  BY ApplyAllRecursion
<1>1. /\ f[0] = [text |-> t, ok |-> TRUE]
      /\ \A i \in 1 .. Len(css) : f[i] = AfterOne(f[i - 1], css[i])
      /\ ApplyAll(t, css) = f[Len(css)]
  BY <1>0 DEF Applying
<1> DEFINE T == {i \in 0 .. Len(css) : f[i].text \in Text}
<1>2. 0 \in T
  BY <1>1
<1>3. ASSUME NEW i \in 0 .. Len(css), i < Len(css), i \in T
      PROVE  i + 1 \in T
  <2>1. i + 1 \in 1 .. Len(css) /\ (i + 1) - 1 = i
    BY <1>3
  <2>2. f[i + 1] = AfterOne(f[i], css[i + 1]) /\ IsChangeSet(css[i + 1])
    BY <1>1, <2>1
  <2>3. f[i].text \in Text
    BY <1>3
  <2>4. AfterOne(f[i], css[i + 1]).text \in Text
    BY <2>2, <2>3, ApplyMakesText DEF AfterOne
  <2>5. QED
    BY <2>1, <2>2, <2>4
<1> HIDE DEF T
<1>4. \A i \in 0 .. Len(css) : i \in T
  BY <1>2, <1>3, UpTo
<1>5. QED
  BY <1>1, <1>4 DEF T

\* A walk over texts, each of which the next change set fits, is taken to its
\* end.
LEMMA ApplyAllWalks ==
  ASSUME NEW css, Len(css) \in Nat, NEW w,
         \A i \in 1 .. Len(css) : /\ Fits(css[i], w[i - 1])
                                  /\ Apply(css[i], w[i - 1]) = w[i]
  PROVE  ApplyAll(w[0], css) = [text |-> w[Len(css)], ok |-> TRUE]
<1>0. PICK f : Applying(f, w[0], css)
  BY ApplyAllRecursion
<1>1. /\ f[0] = [text |-> w[0], ok |-> TRUE]
      /\ \A i \in 1 .. Len(css) : f[i] = AfterOne(f[i - 1], css[i])
      /\ ApplyAll(w[0], css) = f[Len(css)]
  BY <1>0 DEF Applying
<1> DEFINE T == {i \in 0 .. Len(css) : f[i] = [text |-> w[i], ok |-> TRUE]}
<1>2. 0 \in T
  BY <1>1
<1>3. ASSUME NEW i \in 0 .. Len(css), i < Len(css), i \in T
      PROVE  i + 1 \in T
  <2>1. i + 1 \in 1 .. Len(css) /\ (i + 1) - 1 = i
    BY <1>3
  <2>2. f[i + 1] = AfterOne(f[i], css[i + 1])
    BY <1>1, <2>1
  <2>3. Fits(css[i + 1], w[i]) /\ Apply(css[i + 1], w[i]) = w[i + 1]
    BY <2>1
  <2>4. f[i] = [text |-> w[i], ok |-> TRUE]
    BY <1>3
  <2>5. f[i].ok = TRUE /\ f[i].text = w[i]
    BY <2>4
  <2>6. f[i + 1] = [text |-> w[i + 1], ok |-> TRUE]
    BY <2>2, <2>3, <2>5 DEF AfterOne
  <2>7. i + 1 \in 0 .. Len(css)
    BY <2>1
  <2>8. QED
    BY <2>6, <2>7
<1> HIDE DEF T
<1>4. \A i \in 0 .. Len(css) : i \in T
  BY <1>2, <1>3, UpTo
<1>5. QED
  BY <1>1, <1>4 DEF T

(***************************************************************************)
(* A document whose history reproduces the texts c of its revisions, and   *)
(* whose text is where the history says.                                   *)
(***************************************************************************)

Reproduces(h, c) ==
  \A r \in 1 .. h.last :
    LET rev == h.revs[r]
    IN  /\ Fits(rev.tx, c[rev.parent])
        /\ Apply(rev.tx, c[rev.parent]) = c[r]
        /\ Fits(rev.inv, c[r])
        /\ Apply(rev.inv, c[r]) = c[rev.parent]

Gathered(g, here, text) ==
  IF ~g.open THEN text = here
  ELSE /\ g.base = here
       /\ \/ g.changes = NoEdits /\ text = here
          \/ Fits(g.changes, here) /\ text = Apply(g.changes, here)

Sound(d, c) ==
  /\ c \in [0 .. d.hist.last -> Text]
  /\ Reproduces(d.hist, c)
  /\ Gathered(d.group, c[d.hist.current], d.text)

\* The texts of the revisions, with that of a new one.
Extend(c, d) ==
  [r \in 0 .. d.hist.last |-> IF r \in DOMAIN c THEN c[r] ELSE d.text]

LEMMA ExtendByNothing ==
  ASSUME NEW d, NEW c \in [0 .. d.hist.last -> Text],
         NEW n, n.hist.last = d.hist.last
  PROVE  Extend(c, n) = c
BY DEF Extend

LEMMA CommitReproduces ==
  ASSUME NEW h, IsHistory(h), NEW c \in [0 .. h.last -> Text], Reproduces(h, c),
         NEW cs, IsChangeSet(cs), Fits(cs, c[h.current]),
         NEW e, \A r \in 0 .. h.last : e[r] = c[r],
         e[h.last + 1] = Apply(cs, c[h.current])
  PROVE  Reproduces(CommitRevision(h, cs, c[h.current]), e)
<1> DEFINE t == c[h.current]
           n == CommitRevision(h, cs, t)
<1>1. /\ h.last \in Nat /\ h.current \in 0 .. h.last
      /\ \A r \in 1 .. h.last : h.revs[r].parent \in 0 .. r - 1
  BY DEF IsHistory
<1>2. t \in Text
  BY <1>1
<1>3. /\ n.last = h.last + 1
      /\ \A r \in 0 .. h.last : /\ n.revs[r].parent = h.revs[r].parent
                                /\ n.revs[r].tx = h.revs[r].tx
                                /\ n.revs[r].inv = h.revs[r].inv
      /\ n.revs[n.last].parent = h.current
      /\ n.revs[n.last].tx = cs
      /\ n.revs[n.last].inv = Invert(cs, t)
  BY <1>2, CommitAddsOne
<1> HIDE DEF n
<1>4. ASSUME NEW r \in 1 .. h.last
      PROVE  /\ Fits(n.revs[r].tx, e[n.revs[r].parent])
             /\ Apply(n.revs[r].tx, e[n.revs[r].parent]) = e[r]
             /\ Fits(n.revs[r].inv, e[r])
             /\ Apply(n.revs[r].inv, e[r]) = e[n.revs[r].parent]
  <2>1. /\ r \in 0 .. h.last /\ h.revs[r].parent \in 0 .. h.last
    BY <1>1
  <2>2. /\ e[r] = c[r] /\ e[h.revs[r].parent] = c[h.revs[r].parent]
        /\ n.revs[r].parent = h.revs[r].parent
        /\ n.revs[r].tx = h.revs[r].tx
        /\ n.revs[r].inv = h.revs[r].inv
    BY <1>3, <2>1
  <2>3. /\ Fits(h.revs[r].tx, c[h.revs[r].parent])
        /\ Apply(h.revs[r].tx, c[h.revs[r].parent]) = c[r]
        /\ Fits(h.revs[r].inv, c[r])
        /\ Apply(h.revs[r].inv, c[r]) = c[h.revs[r].parent]
    BY DEF Reproduces
  <2>4. QED
    BY <2>2, <2>3
<1>5. /\ Fits(cs, e[h.current])
      /\ Apply(cs, e[h.current]) = e[n.last]
      /\ Fits(Invert(cs, t), e[n.last])
      /\ Apply(Invert(cs, t), e[n.last]) = e[h.current]
  <2>1. e[h.current] = t /\ e[n.last] = Apply(cs, t)
    BY <1>1, <1>3
  <2>2. Fits(Invert(cs, t), Apply(cs, t)) /\ Apply(Invert(cs, t), Apply(cs, t)) = t
    BY <1>2, InvertUndoesApply
  <2>3. QED
    BY <2>1, <2>2
<1>6. \A r \in 1 .. n.last : r \in 1 .. h.last \/ r = n.last
  BY <1>1, <1>3
<1>7. Reproduces(n, e)
  BY <1>3, <1>4, <1>5, <1>6 DEF Reproduces
<1>8. QED
  BY <1>7 DEF n

\* A revision that is committed together with its text.
LEMMA CommitSound ==
  ASSUME NEW d, IsDocument(d), NEW c \in [0 .. d.hist.last -> Text],
         Reproduces(d.hist, c),
         NEW cs, IsChangeSet(cs), Fits(cs, c[d.hist.current]),
         NEW n, n.hist = CommitRevision(d.hist, cs, c[d.hist.current]),
         ~n.group.open, n.text = Apply(cs, c[d.hist.current])
  PROVE  Sound(n, Extend(c, n))
<1> DEFINE h == d.hist
           t == c[h.current]
           e == Extend(c, n)
<1>1. IsHistory(h) /\ h.last \in Nat /\ h.current \in 0 .. h.last
  BY DEF IsDocument, IsHistory
<1>2. t \in Text
  BY <1>1
<1>3. n.hist.last = h.last + 1 /\ n.hist.current = h.last + 1
  BY <1>1, <1>2, CommitAddsOne
<1>4. n.text \in Text
  BY <1>2, ApplyMakesText
<1>5. DOMAIN c = 0 .. h.last
  OBVIOUS
<1>6. e = [r \in 0 .. h.last + 1 |-> IF r \in 0 .. h.last THEN c[r] ELSE n.text]
  BY <1>3, <1>5 DEF Extend
<1> HIDE DEF e
<1>7. /\ e \in [0 .. h.last + 1 -> Text]
      /\ \A r \in 0 .. h.last : e[r] = c[r]
      /\ e[h.last + 1] = n.text
  BY <1>1, <1>4, <1>6
<1>8. Reproduces(n.hist, e)
  BY <1>1, <1>7, CommitReproduces
<1>9. Gathered(n.group, e[n.hist.current], n.text)
  BY <1>3, <1>7 DEF Gathered
<1>10. QED
  BY <1>3, <1>7, <1>8, <1>9 DEF Sound, e

LEMMA BeginInsertGroupSound ==
  ASSUME NEW d, IsDocument(d), NEW c, Sound(d, c)
  PROVE  Sound(BeginInsertGroup(d), c)
<1> DEFINE n == BeginInsertGroup(d)
<1>1. CASE d.group.open
  BY <1>1 DEF BeginInsertGroup
<1>2. CASE ~d.group.open
  <2>1. d = [text |-> d.text, hist |-> d.hist, group |-> d.group,
             savePoint |-> d.savePoint]
    BY DEF IsDocument
  <2>2. n.group = [open |-> TRUE, base |-> d.text, changes |-> NoEdits]
    BY <1>2, <2>1 DEF BeginInsertGroup
  <2>3. n.text = d.text /\ n.hist = d.hist
    BY BeginInsertGroupKeeps
  <2>4. d.text = c[d.hist.current]
    BY <1>2 DEF Sound, Gathered
  <2> HIDE DEF n
  <2>5. Gathered(n.group, c[d.hist.current], d.text)
    BY <2>2, <2>4 DEF Gathered
  <2>6. QED
    BY <2>3, <2>5 DEF Sound, n
<1>3. QED
  BY <1>1, <1>2

\* What the group has gathered, with one more change composed to it.
LEMMA ComposeGathered ==
  ASSUME NEW a, IsChangeSet(a), NEW b, IsChangeSet(b), Composable(a, b),
         NEW here \in Text, NEW text, Fits(b, text),
         \/ a = NoEdits /\ text = here
         \/ Fits(a, here) /\ text = Apply(a, here)
  PROVE  Fits(Compose(a, b), here) /\ Apply(b, text) = Apply(Compose(a, b), here)
<1>1. CASE a = NoEdits /\ text = here
  <2>1. Compose(a, b) = b
    BY <1>1, NoEditsChangeNothing DEF Compose
  <2>2. QED
    BY <1>1, <2>1
<1>2. CASE Fits(a, here) /\ text = Apply(a, here)
  <2>1. QED
    BY <1>2, ComposeAppliesBoth
<1>3. QED
  BY <1>1, <1>2

LEMMA ApplyEditSound ==
  ASSUME NEW d, IsDocument(d), NEW c, Sound(d, c), NEW cs, IsChangeSet(cs)
  PROVE  Sound(ApplyEdit(d, cs), Extend(c, ApplyEdit(d, cs)))
<1> DEFINE n == ApplyEdit(d, cs)
           here == c[d.hist.current]
<1>1. /\ d = [text |-> d.text, hist |-> d.hist, group |-> d.group,
              savePoint |-> d.savePoint]
      /\ d.text \in Text
  BY DEF IsDocument
<1>2. c \in [0 .. d.hist.last -> Text] /\ Reproduces(d.hist, c)
      /\ Gathered(d.group, here, d.text)
  BY DEF Sound
<1>3. here \in Text
  <2>1. d.hist.current \in 0 .. d.hist.last
    BY DEF IsDocument, IsHistory
  <2>2. QED
    BY <1>2, <2>1
<1>4. CASE ~Accepts(d, cs)
  <2>1. n = d
    BY <1>4 DEF ApplyEdit
  <2>2. Extend(c, d) = c
    BY <1>2, ExtendByNothing
  <2>3. QED
    BY <2>1, <2>2
<1>5. CASE Accepts(d, cs) /\ d.group.open
  <2> DEFINE k == Compose(d.group.changes, cs)
             t == Apply(cs, d.text)
             g == [open |-> TRUE, base |-> here, changes |-> k]
  <2>1. /\ d.group = [open |-> d.group.open, base |-> d.group.base,
                      changes |-> d.group.changes]
        /\ IsChangeSet(d.group.changes)
    BY DEF IsDocument, IsGroup
  <2>2. /\ d.group.open = TRUE /\ d.group.base = here
        /\ \/ d.group.changes = NoEdits /\ d.text = here
           \/ Fits(d.group.changes, here) /\ d.text = Apply(d.group.changes, here)
    BY <1>2, <1>5, <2>1 DEF Gathered, IsDocument, IsGroup
  <2>3. Fits(cs, d.text) /\ Composable(d.group.changes, cs)
    BY <1>5 DEF Accepts
  <2>4. Fits(k, here) /\ t = Apply(k, here)
    BY <1>3, <2>1, <2>2, <2>3, ComposeGathered
  <2>5. n.text = t /\ n.hist = d.hist
    BY <1>1, <1>5 DEF ApplyEdit
  <2>6. n.group = [d.group EXCEPT !.changes = k]
    BY <1>1, <1>5 DEF ApplyEdit
  <2> HIDE DEF n, k, t, here
  <2>7. n.group = g
    BY <2>1, <2>2, <2>6
  <2>8. Gathered(n.group, here, n.text)
    BY <2>4, <2>5, <2>7 DEF Gathered
  <2>9. Sound(n, c)
    BY <1>2, <2>5, <2>8 DEF Sound, here
  <2>10. Extend(c, n) = c
    BY <1>2, <2>5, ExtendByNothing
  <2>11. QED
    BY <2>9, <2>10 DEF n
<1>6. CASE Accepts(d, cs) /\ ~d.group.open
  <2>1. n = WithRevision(d, cs) /\ Fits(cs, d.text)
    BY <1>6 DEF ApplyEdit, WithRevision, Accepts
  <2>2. n = [text |-> Apply(cs, d.text),
             hist |-> CommitRevision(d.hist, cs, d.text),
             group |-> d.group, savePoint |-> d.savePoint]
    BY <2>1, RevisionFollows
  <2>3. d.text = here
    BY <1>2, <1>6 DEF Gathered
  <2>4. /\ n.hist = CommitRevision(d.hist, cs, here)
        /\ n.text = Apply(cs, here) /\ ~n.group.open /\ Fits(cs, here)
    BY <1>6, <2>1, <2>2, <2>3
  <2> HIDE DEF n
  <2>5. Sound(n, Extend(c, n))
    BY <1>2, <2>4, CommitSound
  <2>6. QED
    BY <2>5 DEF n
<1>7. QED
  BY <1>4, <1>5, <1>6

LEMMA EmptyAppliesNothing ==
  ASSUME NEW c, IsChangeSet(c), IsEmpty(c), NEW t \in Text, Fits(c, t)
  PROVE  Apply(c, t) = t
<1>1. c.pre \in Nat /\ Len(t) = c.pre
  BY DEF IsChangeSet, Fits
<1>2. c.post = [i \in 1 .. c.pre |-> i]
  BY DEF IsEmpty, Identity
<1>3. Len(c.post) = c.pre /\ \A i \in 1 .. c.pre : c.post[i] = i
  BY <1>1, <1>2
<1>4. \A i \in 1 .. c.pre : i \notin Char
  BY CharAssumption
<1>5. Apply(c, t) \in Seq(Char) /\ Len(Apply(c, t)) = Len(t)
  BY <1>1, <1>3, ApplyMakesText DEF Text
<1>6. ASSUME NEW i \in 1 .. Len(t)
      PROVE  Apply(c, t)[i] = t[i]
  BY <1>1, <1>3, <1>4 DEF Apply
<1>7. t \in Seq(Char)
  BY DEF Text
<1>8. QED
  BY <1>5, <1>6, <1>7

LEMMA CommitInsertHistorySound ==
  ASSUME NEW d, IsDocument(d), NEW c, Sound(d, c)
  PROVE  Sound(CommitInsertHistory(d), Extend(c, CommitInsertHistory(d)))
<1> DEFINE n == CommitInsertHistory(d)
           g == d.group
           here == c[d.hist.current]
<1>1. c \in [0 .. d.hist.last -> Text] /\ Reproduces(d.hist, c)
      /\ Gathered(g, here, d.text)
  BY DEF Sound
<1>2. here \in Text
  <2>1. d.hist.current \in 0 .. d.hist.last
    BY DEF IsDocument, IsHistory
  <2>2. QED
    BY <1>1, <2>1
<1>3. IsChangeSet(g.changes)
  BY DEF IsDocument, IsGroup
<1>4. n.text = d.text /\ n.group = NoGroup
  BY CommitInsertHistoryKeeps
<1>5. ~NoGroup.open
  BY DEF NoGroup
<1>6. d = [text |-> d.text, hist |-> d.hist, group |-> d.group,
           savePoint |-> d.savePoint]
  BY DEF IsDocument
<1>7. CASE g.open /\ ~IsEmpty(g.changes) /\ Fits(g.changes, g.base)
  <2>1. g.base = here
    BY <1>1, <1>7 DEF Gathered
  <2>2. d.text = Apply(g.changes, here)
    BY <1>1, <1>7, NoEditsChangeNothing DEF Gathered
  <2>3. n.hist = CommitRevision(d.hist, g.changes, g.base)
    BY <1>6, <1>7 DEF CommitInsertHistory
  <2> HIDE DEF n, g, here
  <2>4. Sound(n, Extend(c, n))
    BY <1>1, <1>3, <1>4, <1>5, <1>7, <2>1, <2>2, <2>3, CommitSound DEF g, here
  <2>5. QED
    BY <2>4 DEF n
<1>8. CASE ~(g.open /\ ~IsEmpty(g.changes) /\ Fits(g.changes, g.base))
  <2>1. n.hist = d.hist
    BY <1>6, <1>8 DEF CommitInsertHistory
  <2> HIDE DEF n
  <2>2. d.text = here
    <3>1. CASE ~g.open
      BY <1>1, <3>1 DEF Gathered
    <3>2. CASE g.open /\ g.changes = NoEdits
      <4>1. \/ d.text = here
            \/ Fits(NoEdits, here) /\ d.text = Apply(NoEdits, here)
        BY <1>1, <3>2 DEF Gathered
      <4>2. Fits(NoEdits, here) => Apply(NoEdits, here) = here
        BY <1>2, NoEditsChangeNothing, EmptyAppliesNothing
      <4>3. QED
        BY <4>1, <4>2
    <3>3. CASE g.open /\ g.changes # NoEdits
      <4>1. /\ g.base = here /\ Fits(g.changes, here)
            /\ d.text = Apply(g.changes, here)
        BY <1>1, <3>3 DEF Gathered
      <4>2. IsEmpty(g.changes)
        BY <1>8, <3>3, <4>1
      <4>3. QED
        BY <1>2, <1>3, <4>1, <4>2, EmptyAppliesNothing
    <3>4. QED
      BY <3>1, <3>2, <3>3
  <2>3. Gathered(n.group, here, n.text)
    BY <1>4, <1>5, <2>2 DEF Gathered
  <2>4. Sound(n, c)
    BY <1>1, <2>1, <2>3 DEF Sound
  <2>5. Extend(c, n) = c
    BY <1>1, <2>1, ExtendByNothing
  <2>6. QED
    BY <2>4, <2>5 DEF n
<1>9. QED
  BY <1>7, <1>8

LEMMA ApplySaveTextSound ==
  ASSUME DocumentAssumption, NEW d, IsDocument(d), ~d.group.open,
         NEW c, Sound(d, c), NEW settings
  PROVE  Sound(ApplySaveText(d, settings), Extend(c, ApplySaveText(d, settings)))
<1> DEFINE cs == Diff(d.text, PrepareSaveText(d.text, settings))
           n == ApplySaveText(d, settings)
           here == c[d.hist.current]
<1>1. c \in [0 .. d.hist.last -> Text] /\ Reproduces(d.hist, c) /\ d.text = here
  BY DEF Sound, Gathered
<1>2. IsChangeSet(cs) /\ Fits(cs, d.text)
  BY PrepareSaveTextMakesText, DiffMakesChangeSet DEF IsDocument
<1>3. CASE IsEmpty(cs)
  <2>1. n = d
    BY <1>3 DEF ApplySaveText
  <2>2. Extend(c, d) = c
    BY <1>1, ExtendByNothing
  <2>3. QED
    BY <2>1, <2>2
<1>4. CASE ~IsEmpty(cs)
  <2>1. n = WithRevision(d, cs)
    BY <1>4 DEF ApplySaveText, WithRevision
  <2> HIDE DEF cs, n
  <2>2. n = [text |-> Apply(cs, d.text),
             hist |-> CommitRevision(d.hist, cs, d.text),
             group |-> d.group, savePoint |-> d.savePoint]
    BY <1>2, <2>1, RevisionFollows
  <2>3. /\ n.hist = CommitRevision(d.hist, cs, here)
        /\ n.text = Apply(cs, here) /\ ~n.group.open /\ Fits(cs, here)
    BY <1>1, <1>2, <2>2
  <2>4. Sound(n, Extend(c, n))
    BY <1>1, <1>2, <2>3, CommitSound
  <2>5. QED
    BY <2>4 DEF n
<1>5. QED
  BY <1>3, <1>4

\* The change sets of the history, applied to the texts of its revisions, lead
\* along its edges.
LEMMA EdgeLeads ==
  ASSUME NEW h, IsHistory(h), NEW c \in [0 .. h.last -> Text], Reproduces(h, c),
         NEW cs, NEW a \in 0 .. h.last, NEW b \in 0 .. h.last, Edge(h, cs, a, b)
  PROVE  Fits(cs, c[a]) /\ Apply(cs, c[a]) = c[b]
BY DEF Edge, Reproduces

\* So a jump ends at the text of the revision it goes to.
LEMMA JumpLands ==
  ASSUME NEW h, IsHistory(h), NEW c \in [0 .. h.last -> Text], Reproduces(h, c),
         NEW to \in 0 .. h.last
  PROVE  ApplyAll(c[h.current], JumpChanges(h, to)) = [text |-> c[to], ok |-> TRUE]
<1> DEFINE css == JumpChanges(h, to)
<1>1. Len(css) \in Nat
      /\ \E w \in [0 .. Len(css) -> 0 .. h.last] :
           /\ w[0] = h.current
           /\ w[Len(css)] = to
           /\ \A i \in 1 .. Len(css) : Edge(h, css[i], w[i - 1], w[i])
  BY JumpTakesEdges
<1> HIDE DEF css
<1>2. PICK w \in [0 .. Len(css) -> 0 .. h.last] :
        /\ w[0] = h.current
        /\ w[Len(css)] = to
        /\ \A i \in 1 .. Len(css) : Edge(h, css[i], w[i - 1], w[i])
  BY <1>1
<1> DEFINE v == [i \in 0 .. Len(css) |-> c[w[i]]]
<1>3. v[0] = c[h.current] /\ v[Len(css)] = c[to]
  BY <1>1, <1>2
<1>4. ASSUME NEW i \in 1 .. Len(css)
      PROVE  Fits(css[i], v[i - 1]) /\ Apply(css[i], v[i - 1]) = v[i]
  <2>1. v[i - 1] = c[w[i - 1]] /\ v[i] = c[w[i]]
    BY <1>1
  <2>2. Edge(h, css[i], w[i - 1], w[i])
    BY <1>2
  <2> HIDE DEF v
  <2>3. w[i - 1] \in 0 .. h.last /\ w[i] \in 0 .. h.last
    BY <1>1
  <2>4. /\ Fits(css[i], c[w[i - 1]])
        /\ Apply(css[i], c[w[i - 1]]) = c[w[i]]
    BY <2>2, <2>3, EdgeLeads
  <2>5. QED
    BY <2>1, <2>4
<1> HIDE DEF v
<1>5. ApplyAll(v[0], css) = [text |-> v[Len(css)], ok |-> TRUE]
  BY <1>1, <1>4, ApplyAllWalks
<1>6. QED
  BY <1>3, <1>5 DEF css

(***************************************************************************)
(* Types, and a history that only grows.                                   *)
(***************************************************************************)

Typed ==
  /\ IsDocument(doc)
  /\ mode \in [View -> {"normal", "insert"}]
  /\ focus \in View
  /\ content \in [Revision -> Text]
  /\ saved \in Text /\ observed \in Text
  /\ lapses \subseteq Lapse

LEMMA TypedIsTypeOK == Typed => TypeOK
<1> SUFFICES ASSUME Typed
             PROVE  TypeOK
  OBVIOUS
<1>1. /\ doc.text \in Text /\ IsHistory(doc.hist)
      /\ doc.savePoint \in Revision
      /\ doc.group.open \in BOOLEAN
      /\ doc.group.base \in Text /\ IsChangeSet(doc.group.changes)
  BY DEF Typed, IsDocument, IsGroup, Revision
<1>2. /\ doc.hist.last \in Nat /\ doc.hist.current \in Revision
      /\ doc.hist.revs = [r \in Revision |-> doc.hist.revs[r]]
  BY <1>1 DEF IsHistory, Revision
<1>3. DOMAIN doc.hist.revs = Revision
  BY <1>2
<1>4. QED
  BY <1>1, <1>2, <1>3 DEF Typed, TypeOK

LEMMA TypedIsWellFormed == Typed => HistoryWellFormed
<1> SUFFICES ASSUME Typed
             PROVE  HistoryWellFormed
  OBVIOUS
<1>1. IsHistory(doc.hist)
  BY DEF Typed, IsDocument
<1>2. /\ doc.hist.last \in Nat
      /\ doc.hist.revs[0].parent = 0
      /\ \A r \in 1 .. doc.hist.last :
           /\ doc.hist.revs[r].parent \in 0 .. r - 1
           /\ doc.hist.revs[doc.hist.revs[r].parent].lastChild >= r
      /\ \A r \in 0 .. doc.hist.last :
           doc.hist.revs[r].lastChild # NoChild =>
             /\ doc.hist.revs[r].lastChild \in r + 1 .. doc.hist.last
             /\ doc.hist.revs[doc.hist.revs[r].lastChild].parent = r
  BY <1>1 DEF IsHistory
<1>3. \A r \in Revision \ {0} : r \in 1 .. doc.hist.last
  BY <1>2 DEF Revision
<1>4. QED
  BY <1>2, <1>3 DEF HistoryWellFormed, Revision

LEMMA InitTyped ==
  ASSUME DocumentAssumption, Init
  PROVE  Typed
<1>1. PICK t \in Opened :
        /\ doc = [text |-> t, hist |-> NewHistory, group |-> NoGroup,
                  savePoint |-> 0]
        /\ content = [r \in 0 .. 0 |-> t]
        /\ saved = t
        /\ observed = t
  BY DEF Init
<1>2. t \in Text
  BY <1>1 DEF DocumentAssumption
<1>3. IsGroup(NoGroup)
  BY NoEditsChangeNothing, GroupParts DEF NoGroup
<1>4. NewHistory.last = 0
  BY DEF NewHistory
<1>5. IsDocument(doc)
  BY <1>1, <1>2, <1>3, <1>4, NewHistoryIsHistory, DocumentParts
<1>6. Revision = 0 .. 0
  BY <1>1, <1>4 DEF Revision
<1>7. /\ mode = [v \in View |-> "normal"] /\ focus = FirstView /\ lapses = {}
  BY DEF Init
<1>8. QED
  BY <1>1, <1>2, <1>5, <1>6, <1>7 DEF Typed, DocumentAssumption

LEMMA BecomesKeepsTypes ==
  ASSUME Typed, NEW d, Follows(doc, d), Becomes(d)
  PROVE  /\ IsDocument(doc') /\ Grows(doc.hist, doc'.hist)
         /\ content' \in [Revision' -> Text]
         /\ doc'.text \in Text
<1>1. /\ doc' = d
      /\ content' = [r \in 0 .. d.hist.last |->
                       IF r \in DOMAIN content THEN content[r] ELSE d.text]
  BY DEF Becomes
<1>2. IsDocument(d) /\ Grows(doc.hist, d.hist)
  BY DEF Follows
<1>3. d.text \in Text
  BY <1>2 DEF IsDocument
<1>4. content \in [Revision -> Text]
  BY DEF Typed
<1>5. Revision' = 0 .. d.hist.last
  BY <1>1 DEF Revision
<1>6. content' \in [Revision' -> Text]
  BY <1>1, <1>3, <1>4, <1>5
<1>7. QED
  BY <1>1, <1>2, <1>3, <1>6

\* What a handler does to the other variables.
OthersTyped ==
  /\ mode' \in [View -> {"normal", "insert"}]
  /\ focus' \in View
  /\ saved' \in {saved, doc'.text}
  /\ observed' \in {observed, doc'.text}
  /\ lapses' \subseteq Lapse

LEMMA BecomesTyped ==
  ASSUME Typed, NEW d, Follows(doc, d), Becomes(d), OthersTyped
  PROVE  Typed' /\ Grows(doc.hist, doc'.hist)
<1>1. /\ IsDocument(doc') /\ Grows(doc.hist, doc'.hist)
      /\ content' \in [Revision' -> Text]
      /\ doc'.text \in Text
  BY BecomesKeepsTypes
<1>2. saved \in Text /\ observed \in Text
  BY DEF Typed
<1>3. QED
  BY <1>1, <1>2 DEF Typed, OthersTyped

LEMMA EditThroughTyped ==
  ASSUME Typed, NEW v \in View, EditThrough(v)
  PROVE  Typed' /\ Grows(doc.hist, doc'.hist)
<1> DEFINE b == IF mode[v] = "insert" THEN BeginInsertGroup(doc) ELSE doc
<1>1. PICK cs \in Changing(Len(doc.text)) :
        /\ Becomes(ApplyEdit(b, cs))
        /\ AnnounceChange
        /\ UNCHANGED <<mode, focus, saved, lapses>>
  BY DEF EditThrough
<1>2. IsChangeSet(cs)
  BY DEF Changing
<1>3. IsDocument(doc)
  BY DEF Typed
<1>4. IsDocument(b) /\ b.hist = doc.hist /\ b.savePoint = doc.savePoint
  BY <1>3, BeginInsertGroupKeeps
<1> HIDE DEF b
<1>5. Follows(b, ApplyEdit(b, cs))
  BY <1>2, <1>4, ApplyEditFollows
<1>6. Follows(doc, ApplyEdit(b, cs))
  BY <1>4, <1>5 DEF Follows
<1>7. OthersTyped
  BY <1>1 DEF OthersTyped, AnnounceChange, Typed
<1>8. QED
  BY <1>1, <1>6, <1>7, BecomesTyped

LEMMA CommitFollows ==
  ASSUME NEW d, IsDocument(d)
  PROVE  Follows(d, CommitInsertHistory(d))
BY CommitInsertHistoryKeeps DEF Follows

LEMMA NormalModeTyped ==
  ASSUME Typed, NormalMode
  PROVE  Typed' /\ Grows(doc.hist, doc'.hist)
<1>1. OthersTyped
  BY DEF NormalMode, Happens, OthersTyped, Typed
<1>2. IsDocument(doc)
  BY DEF Typed
<1>3. CASE Becomes(CommitInsertHistory(doc))
  BY <1>1, <1>2, <1>3, CommitFollows, BecomesTyped
<1>4. ASSUME NEW s \in BlankLines(doc.text),
             Becomes(CommitInsertHistory(
               ApplyEdit(doc, Splice(Len(doc.text), s[1], s[2], << >>))))
      PROVE  Typed' /\ Grows(doc.hist, doc'.hist)
  <2> DEFINE cs == Splice(Len(doc.text), s[1], s[2], << >>)
             e == ApplyEdit(doc, cs)
             n == CommitInsertHistory(e)
  <2>1. Len(doc.text) \in Nat
    BY <1>2 DEF IsDocument, Text
  <2>2. s[1] \in 0 .. Len(doc.text) /\ s[2] \in s[1] .. Len(doc.text)
    BY <2>1 DEF BlankLines
  <2>3. IsChangeSet(cs)
    BY <2>1, <2>2, NoEditsChangeNothing, SpliceMakesChangeSet
  <2> HIDE DEF cs
  <2>4. Follows(doc, e)
    BY <1>2, <2>3, ApplyEditFollows
  <2>5. IsDocument(e)
    BY <2>4 DEF Follows
  <2> HIDE DEF e
  <2>6. Follows(e, n)
    BY <2>5, CommitFollows
  <2>7. Follows(doc, n)
    BY <2>4, <2>6, GrowsOn DEF Follows
  <2>8. QED
    BY <1>1, <1>4, <2>7, BecomesTyped DEF n, e, cs
<1>5. QED
  BY <1>3, <1>4 DEF NormalMode

LEMMA CommitCheckpointTyped ==
  ASSUME Typed, CommitCheckpoint
  PROVE  Typed' /\ Grows(doc.hist, doc'.hist)
<1>1. OthersTyped
  BY DEF CommitCheckpoint, OthersTyped, Typed
<1>2. Follows(doc, CommitInsertHistory(doc))
  BY CommitFollows DEF Typed
<1>3. Becomes(CommitInsertHistory(doc))
  BY DEF CommitCheckpoint
<1>4. QED
  BY <1>1, <1>2, <1>3, BecomesTyped

LEMMA TravelTyped ==
  ASSUME Typed, NEW r \in Revision, NEW cs, IsChangeSet(cs),
         Travel(cs, [doc.hist EXCEPT !.current = r])
  PROVE  Typed' /\ Grows(doc.hist, doc'.hist)
<1> DEFINE d == AfterStep(doc, cs, [doc.hist EXCEPT !.current = r])
<1>1. OthersTyped
  BY DEF Travel, Happens, AnnounceWhole, OthersTyped, Typed
<1>2. Follows(doc, d)
  BY AfterStepFollows DEF Typed, Revision
<1>3. Becomes(d)
  BY DEF Travel
<1> HIDE DEF d
<1>4. QED
  BY <1>1, <1>2, <1>3, BecomesTyped

\* Where an undo and a redo go.
LEMMA UndoRedoEdges ==
  ASSUME NEW h, IsHistory(h)
  PROVE  /\ ~AtRoot(h) => /\ h.current \in 1 .. h.last
                          /\ h.revs[h.current].parent \in 0 .. h.last
                          /\ IsChangeSet(UndoChange(h))
         /\ CanRedo(h) => /\ h.revs[h.current].lastChild \in 1 .. h.last
                          /\ h.revs[h.revs[h.current].lastChild].parent = h.current
                          /\ IsChangeSet(RedoChange(h))
<1>1. /\ h.last \in Nat /\ h.current \in 0 .. h.last
      /\ \A r \in 0 .. h.last : /\ IsChangeSet(h.revs[r].tx)
                               /\ IsChangeSet(h.revs[r].inv)
      /\ \A r \in 1 .. h.last : h.revs[r].parent \in 0 .. r - 1
      /\ \A r \in 0 .. h.last :
           h.revs[r].lastChild # NoChild =>
             /\ h.revs[r].lastChild \in r + 1 .. h.last
             /\ h.revs[h.revs[r].lastChild].parent = r
  BY DEF IsHistory
<1>2. ASSUME ~AtRoot(h)
      PROVE  /\ h.current \in 1 .. h.last
             /\ h.revs[h.current].parent \in 0 .. h.last
             /\ IsChangeSet(UndoChange(h))
  BY <1>1, <1>2 DEF AtRoot, UndoChange
<1>3. ASSUME CanRedo(h)
      PROVE  /\ h.revs[h.current].lastChild \in 1 .. h.last
             /\ h.revs[h.revs[h.current].lastChild].parent = h.current
             /\ IsChangeSet(RedoChange(h))
  BY <1>1, <1>3 DEF CanRedo, RedoChange
<1>4. QED
  BY <1>2, <1>3

LEMMA UndoTyped ==
  ASSUME Typed, Undo
  PROVE  Typed' /\ Grows(doc.hist, doc'.hist)
<1> DEFINE r == doc.hist.revs[doc.hist.current].parent
<1>1. IsHistory(doc.hist)
  BY DEF Typed, IsDocument
<1>2. r \in Revision /\ IsChangeSet(UndoChange(doc.hist))
  BY <1>1, UndoRedoEdges DEF Undo, Revision
<1>3. Travel(UndoChange(doc.hist), [doc.hist EXCEPT !.current = r])
  BY DEF Undo, AfterUndo
<1> HIDE DEF r
<1>4. QED
  BY <1>2, <1>3, TravelTyped

LEMMA RedoTyped ==
  ASSUME Typed, Redo
  PROVE  Typed' /\ Grows(doc.hist, doc'.hist)
<1> DEFINE r == doc.hist.revs[doc.hist.current].lastChild
<1>1. IsHistory(doc.hist)
  BY DEF Typed, IsDocument
<1>2. r \in Revision /\ IsChangeSet(RedoChange(doc.hist))
  BY <1>1, UndoRedoEdges DEF Redo, Revision
<1>3. Travel(RedoChange(doc.hist), [doc.hist EXCEPT !.current = r])
  BY DEF Redo, AfterRedo
<1> HIDE DEF r
<1>4. QED
  BY <1>2, <1>3, TravelTyped

LEMMA EdgeMakesChangeSet ==
  ASSUME NEW h, IsHistory(h), NEW cs, NEW a, NEW b, Edge(h, cs, a, b)
  PROVE  IsChangeSet(cs)
<1>1. /\ h.last \in Nat
      /\ \A r \in 0 .. h.last : /\ IsChangeSet(h.revs[r].tx)
                               /\ IsChangeSet(h.revs[r].inv)
  BY DEF IsHistory
<1>2. QED
  BY <1>1 DEF Edge

LEMMA JumpToTyped ==
  ASSUME Typed, NEW to \in Revision, JumpTo(to)
  PROVE  Typed' /\ Grows(doc.hist, doc'.hist)
<1> DEFINE css == JumpChanges(doc.hist, to)
           res == ApplyAll(doc.text, css)
           d == [doc EXCEPT !.hist = AfterJump(@, to), !.text = res.text]
<1>1. IsDocument(doc) /\ IsHistory(doc.hist) /\ doc.text \in Text
  BY DEF Typed, IsDocument
<1>2. Len(css) \in Nat /\ \A i \in 1 .. Len(css) : IsChangeSet(css[i])
  BY <1>1, JumpTakesEdges, EdgeMakesChangeSet DEF Revision
<1>3. OthersTyped
  BY DEF JumpTo, Happens, AnnounceWhole, OthersTyped, Typed
<1>4. Becomes(d)
  BY DEF JumpTo
<1> HIDE DEF css
<1>5. res.text \in Text
  BY <1>1, <1>2, ApplyAllMakesText
<1> HIDE DEF res
<1>6. doc = [text |-> doc.text, hist |-> doc.hist, group |-> doc.group,
             savePoint |-> doc.savePoint]
  BY <1>1 DEF IsDocument
<1>7. d = [text |-> res.text, hist |-> [doc.hist EXCEPT !.current = to],
           group |-> doc.group, savePoint |-> doc.savePoint]
  <2> DEFINE h == [doc.hist EXCEPT !.current = to]
  <2>1. d = [doc EXCEPT !.hist = h, !.text = res.text]
    BY <1>6 DEF AfterJump
  <2> HIDE DEF d, h
  <2>2. d = [text |-> res.text, hist |-> h, group |-> doc.group,
             savePoint |-> doc.savePoint]
    BY <1>6, <2>1
  <2>3. QED
    BY <2>2 DEF h
<1> HIDE DEF d
<1>8. Follows(doc, d)
  BY <1>1, <1>5, <1>7, MovedFollows DEF Revision
<1>9. QED
  BY <1>3, <1>4, <1>8, BecomesTyped

LEMMA JumpTargets ==
  ASSUME NEW h, IsHistory(h), NEW n \in Nat
  PROVE  EarlierTarget(h, n) \in 0 .. h.last /\ LaterTarget(h, n) \in 0 .. h.last
BY DEF EarlierTarget, LaterTarget, IsHistory

LEMMA SaveTyped ==
  ASSUME DocumentAssumption, Typed, NEW settings, Save(settings)
  PROVE  Typed' /\ Grows(doc.hist, doc'.hist)
<1> DEFINE d == ApplySaveText(doc, settings)
<1>1. IsDocument(doc)
  BY DEF Typed
<1>2. Follows(doc, d)
  BY <1>1, ApplySaveTextFollows
<1>3. d.text \in Text
  BY <1>2 DEF Follows, IsDocument
<1>4. CASE /\ Becomes(MarkSaved(d))
           /\ saved' = d.text
           /\ IF d # doc THEN AnnounceWhole ELSE UNCHANGED observed
  <2> DEFINE n == MarkSaved(d)
  <2>1. d = [text |-> d.text, hist |-> d.hist, group |-> d.group,
             savePoint |-> d.savePoint]
    BY <1>2 DEF Follows, IsDocument
  <2>2. n = [text |-> d.text, hist |-> d.hist, group |-> d.group,
             savePoint |-> d.hist.current]
    BY <2>1 DEF MarkSaved
  <2>3. /\ IsHistory(d.hist) /\ IsGroup(d.group)
        /\ d.hist.current \in 0 .. d.hist.last
    BY <1>2 DEF Follows, IsDocument, IsHistory
  <2> HIDE DEF d, n
  <2>4. IsDocument(n) /\ n.hist = d.hist /\ n.text = d.text
    BY <1>3, <2>2, <2>3, DocumentParts
  <2>5. /\ doc' = n
        /\ content' = [r \in 0 .. n.hist.last |->
                         IF r \in DOMAIN content THEN content[r] ELSE n.text]
    BY <1>4 DEF Becomes, n
  <2>6. content' \in [Revision' -> Text]
    BY <1>3, <2>4, <2>5 DEF Typed, Revision
  <2>7. Grows(doc.hist, doc'.hist)
    BY <1>2, <2>4, <2>5 DEF Follows
  <2>8. /\ mode' = mode /\ focus' = focus /\ lapses' \subseteq Lapse
    BY DEF Save, Happens
  <2>9. saved' \in Text /\ observed' \in Text
    BY <1>3, <1>4, <2>4, <2>5 DEF AnnounceWhole, Typed
  <2>10. QED
    BY <2>4, <2>5, <2>6, <2>7, <2>8, <2>9 DEF Typed
<1>5. CASE Becomes(d) /\ UNCHANGED <<saved, observed>>
  <2>1. OthersTyped
    BY <1>5 DEF Save, Happens, OthersTyped, Typed
  <2> HIDE DEF d
  <2>2. QED
    BY <1>2, <1>5, <2>1, BecomesTyped
<1>6. QED
  BY <1>4, <1>5 DEF Save

LEMMA ReloadTyped ==
  ASSUME Typed, Reload
  PROVE  Typed' /\ Grows(doc.hist, doc'.hist)
<1>1. PICK t \in AllTexts :
        /\ doc' = MarkSaved([doc EXCEPT !.text = t])
        /\ content' = [content EXCEPT ![doc.hist.current] = t]
        /\ saved' = t
        /\ lapses' \subseteq Lapse
  BY DEF Reload, Happens
<1>2. t \in Text
  BY DEF AllTexts, Text
<1>3. /\ IsHistory(doc.hist) /\ IsGroup(doc.group)
      /\ doc.hist.current \in 0 .. doc.hist.last
      /\ doc.hist.last \in Nat
  BY DEF Typed, IsDocument, IsHistory
<1>4. doc = [text |-> doc.text, hist |-> doc.hist, group |-> doc.group,
             savePoint |-> doc.savePoint]
  BY DEF Typed, IsDocument
<1>5. doc' = [text |-> t, hist |-> doc.hist, group |-> doc.group,
              savePoint |-> doc.hist.current]
  BY <1>1, <1>4 DEF MarkSaved
<1>6. doc'.hist = doc.hist /\ doc'.text = t
  BY <1>5
<1>7. IsDocument(doc')
  BY <1>2, <1>3, <1>5, DocumentParts
<1>8. Grows(doc.hist, doc'.hist)
  BY <1>3, <1>6 DEF Grows
<1>9. content' \in [Revision' -> Text]
  BY <1>1, <1>2, <1>6 DEF Typed, Revision
<1>10. mode' = mode /\ focus' = focus /\ observed' = t
  BY <1>6 DEF Reload, AnnounceWhole
<1>11. QED
  BY <1>1, <1>2, <1>7, <1>8, <1>9, <1>10 DEF Typed

\* Every step keeps the types and only adds to the history.
LEMMA StepTyped ==
  ASSUME DocumentAssumption, Typed, [Next]_vars
  PROVE  Typed' /\ Grows(doc.hist, doc'.hist)
<1>1. IsHistory(doc.hist) /\ doc.hist.last \in Nat
  BY DEF Typed, IsDocument, IsHistory
<1>2. Grows(doc.hist, doc.hist)
  BY <1>1 DEF Grows
<1>3. CASE UNCHANGED vars
  BY <1>2, <1>3 DEF vars, Typed, Revision
<1>4. CASE EnterInsert
  BY <1>2, <1>4 DEF EnterInsert, Typed, Revision
<1>5. CASE FocusPane
  BY <1>2, <1>5 DEF FocusPane, Typed, Revision
<1>6. CASE Apply1
  BY <1>6, EditThroughTyped DEF Apply1, Typed
<1>7. CASE ApplyToDocument
  BY <1>7, EditThroughTyped DEF ApplyToDocument, DocumentAssumption
<1>8. CASE Earlier
  BY <1>1, <1>8, JumpTargets, JumpToTyped DEF Earlier, DocumentAssumption, Revision
<1>9. CASE Later
  BY <1>1, <1>9, JumpTargets, JumpToTyped DEF Later, DocumentAssumption, Revision
<1>10. QED
  BY <1>3, <1>4, <1>5, <1>6, <1>7, <1>8, <1>9, NormalModeTyped,
     CommitCheckpointTyped, UndoTyped, RedoTyped, SaveTyped, ReloadTyped
     DEF Next

\* Whatever the texts, the views, the edits and their order, every variable
\* has its type.
THEOREM TypesAreCorrect == Spec => []TypeOK
<1>1. Init => Typed
  BY DocumentAssumption, InitTyped
<1>2. Typed /\ [Next]_vars => Typed'
  BY DocumentAssumption, StepTyped
<1>3. QED
  BY <1>1, <1>2, TypedIsTypeOK, PTL DEF Spec

\* The revisions stay a tree in the order of their commits.
THEOREM HistoryIsWellFormed == Spec => []HistoryWellFormed
<1>1. Init => Typed
  BY DocumentAssumption, InitTyped
<1>2. Typed /\ [Next]_vars => Typed'
  BY DocumentAssumption, StepTyped
<1>3. QED
  BY <1>1, <1>2, TypedIsWellFormed, PTL DEF Spec

Remembers ==
  /\ doc'.hist.last >= doc.hist.last
  /\ \A r \in Revision :
       /\ doc'.hist.revs[r].parent = doc.hist.revs[r].parent
       /\ doc'.hist.revs[r].tx = doc.hist.revs[r].tx
       /\ doc'.hist.revs[r].inv = doc.hist.revs[r].inv

\* No step edits, drops or renumbers a revision.
THEOREM NothingIsForgotten == Spec => NothingForgotten
<1>1. Init => Typed
  BY DocumentAssumption, InitTyped
<1>2. Typed /\ [Next]_vars => Typed' /\ [Remembers]_vars
  BY DocumentAssumption, StepTyped DEF Grows, Remembers, Revision
<1>3. [Remembers]_vars <=>
        [/\ doc'.hist.last >= doc.hist.last
         /\ \A r \in Revision :
              /\ doc'.hist.revs[r].parent = doc.hist.revs[r].parent
              /\ doc'.hist.revs[r].tx = doc.hist.revs[r].tx
              /\ doc'.hist.revs[r].inv = doc.hist.revs[r].inv]_vars
  BY DEF Remembers
<1>4. QED
  BY <1>1, <1>2, <1>3, PTL DEF Spec, NothingForgotten

(***************************************************************************)
(* The history reproduces the texts, as long as nothing went behind its    *)
(* back.                                                                   *)
(***************************************************************************)

Agreed == Sound(doc, content) /\ content[doc.savePoint] = saved

Inv ==
  /\ Typed
  /\ Kept => Agreed
  /\ lapses = {} => observed = doc.text

LEMMA AgreedReproduces ==
  ASSUME Typed, Agreed
  PROVE  RevisionsReproduce /\ TextIsCurrent
<1>1. IsHistory(doc.hist) /\ Reproduces(doc.hist, content)
  BY DEF Typed, IsDocument, Agreed, Sound
<1>2. /\ doc.hist.last \in Nat
      /\ \A r \in 0 .. doc.hist.last : /\ IsChangeSet(doc.hist.revs[r].tx)
                                       /\ IsChangeSet(doc.hist.revs[r].inv)
  BY <1>1 DEF IsHistory
<1>3. \A r \in Revision \ {0} : r \in 0 .. doc.hist.last /\ r \in 1 .. doc.hist.last
  BY <1>2 DEF Revision
<1>4. RevisionsReproduce
  BY <1>1, <1>2, <1>3 DEF RevisionsReproduce, Reproduces
<1>5. TextIsCurrent
  BY DEF Agreed, Sound, Gathered, TextIsCurrent
<1>6. QED
  BY <1>4, <1>5

LEMMA BecomesAgreed ==
  ASSUME Typed, Agreed, NEW d, Follows(doc, d), Becomes(d),
         Sound(d, Extend(content, d)), saved' = saved
  PROVE  Agreed'
<1>1. doc' = d /\ content' = Extend(content, d)
  BY DEF Becomes, Extend
<1>2. /\ doc.savePoint \in 0 .. doc.hist.last
      /\ content \in [0 .. doc.hist.last -> Text]
      /\ doc.savePoint \in 0 .. d.hist.last
      /\ d.savePoint = doc.savePoint
  BY DEF Typed, IsDocument, Revision, Follows
<1>3. content'[doc'.savePoint] = content[doc.savePoint]
  BY <1>1, <1>2 DEF Extend
<1>4. QED
  BY <1>1, <1>3 DEF Agreed

LEMMA EditThroughAgreed ==
  ASSUME Typed, Agreed, NEW v \in View, EditThrough(v)
  PROVE  Agreed'
<1> DEFINE b == IF mode[v] = "insert" THEN BeginInsertGroup(doc) ELSE doc
<1>1. PICK cs \in Changing(Len(doc.text)) :
        Becomes(ApplyEdit(b, cs)) /\ saved' = saved
  BY DEF EditThrough
<1>2. IsChangeSet(cs)
  BY DEF Changing
<1>3. IsDocument(doc) /\ Sound(doc, content)
  BY DEF Typed, Agreed
<1>4. IsDocument(b) /\ b.hist = doc.hist /\ b.savePoint = doc.savePoint
  BY <1>3, BeginInsertGroupKeeps
<1>5. Sound(b, content)
  BY <1>3, BeginInsertGroupSound
<1> HIDE DEF b
<1>6. Follows(doc, ApplyEdit(b, cs))
  BY <1>2, <1>4, ApplyEditFollows DEF Follows
<1>7. Sound(ApplyEdit(b, cs), Extend(content, ApplyEdit(b, cs)))
  BY <1>2, <1>4, <1>5, ApplyEditSound
<1>8. QED
  BY <1>1, <1>6, <1>7, BecomesAgreed

LEMMA ExtendTwice ==
  ASSUME NEW d, NEW c \in [0 .. d.hist.last -> Text], NEW e, NEW n,
         Grows(d.hist, e.hist), Grows(e.hist, n.hist), n.text = e.text
  PROVE  Extend(Extend(c, e), n) = Extend(c, n)
<1>1. DOMAIN c = 0 .. d.hist.last
  OBVIOUS
<1>2. DOMAIN Extend(c, e) = 0 .. e.hist.last
  BY DEF Extend
<1>3. \A r \in 0 .. d.hist.last : r \in 0 .. e.hist.last
  BY DEF Grows
<1>4. ASSUME NEW r \in 0 .. n.hist.last
      PROVE  (IF r \in DOMAIN Extend(c, e) THEN Extend(c, e)[r] ELSE n.text)
             = (IF r \in DOMAIN c THEN c[r] ELSE n.text)
  <2>1. CASE r \in 0 .. e.hist.last
    <3>1. Extend(c, e)[r] = IF r \in DOMAIN c THEN c[r] ELSE e.text
      BY <2>1 DEF Extend
    <3>2. QED
      BY <1>2, <2>1, <3>1
  <2>2. CASE r \notin 0 .. e.hist.last
    BY <1>1, <1>2, <1>3, <2>2
  <2>3. QED
    BY <2>1, <2>2
<1>5. QED
  BY <1>4 DEF Extend

LEMMA NormalModeAgreed ==
  ASSUME Typed, Agreed, NormalMode
  PROVE  Agreed'
<1>1. IsDocument(doc) /\ Sound(doc, content)
      /\ content \in [0 .. doc.hist.last -> Text]
  BY DEF Typed, Agreed, Revision
<1>2. saved' = saved
  BY DEF NormalMode
<1>3. CASE Becomes(CommitInsertHistory(doc))
  BY <1>1, <1>2, <1>3, CommitFollows, CommitInsertHistorySound, BecomesAgreed
<1>4. ASSUME NEW s \in BlankLines(doc.text),
             Becomes(CommitInsertHistory(
               ApplyEdit(doc, Splice(Len(doc.text), s[1], s[2], << >>))))
      PROVE  Agreed'
  <2> DEFINE cs == Splice(Len(doc.text), s[1], s[2], << >>)
             e == ApplyEdit(doc, cs)
             n == CommitInsertHistory(e)
  <2>1. Len(doc.text) \in Nat
    BY <1>1 DEF IsDocument, Text
  <2>2. s[1] \in 0 .. Len(doc.text) /\ s[2] \in s[1] .. Len(doc.text)
    BY <2>1 DEF BlankLines
  <2>3. IsChangeSet(cs)
    BY <2>1, <2>2, NoEditsChangeNothing, SpliceMakesChangeSet
  <2> HIDE DEF cs
  <2>4. Follows(doc, e) /\ Sound(e, Extend(content, e))
    BY <1>1, <2>3, ApplyEditFollows, ApplyEditSound
  <2>5. IsDocument(e)
    BY <2>4 DEF Follows
  <2> HIDE DEF e
  <2>6. Follows(e, n) /\ n.text = e.text
    BY <2>5, CommitFollows, CommitInsertHistoryKeeps
  <2>7. Follows(doc, n)
    BY <2>4, <2>6, GrowsOn DEF Follows
  <2>8. Sound(n, Extend(Extend(content, e), n))
    BY <2>4, <2>5, CommitInsertHistorySound
  <2>9. Extend(Extend(content, e), n) = Extend(content, n)
    BY <1>1, <2>4, <2>6, ExtendTwice DEF Follows
  <2> HIDE DEF n
  <2>10. Becomes(n)
    BY <1>4 DEF n, e, cs
  <2>11. QED
    BY <1>2, <2>7, <2>8, <2>9, <2>10, BecomesAgreed
<1>5. QED
  BY <1>3, <1>4 DEF NormalMode

LEMMA CommitCheckpointAgreed ==
  ASSUME Typed, Agreed, CommitCheckpoint
  PROVE  Agreed'
<1>1. IsDocument(doc) /\ Sound(doc, content)
  BY DEF Typed, Agreed
<1>2. Becomes(CommitInsertHistory(doc)) /\ saved' = saved
  BY DEF CommitCheckpoint
<1>3. QED
  BY <1>1, <1>2, CommitFollows, CommitInsertHistorySound, BecomesAgreed

\* A document without a group that moves to a revision and takes its text.
LEMMA MovedSound ==
  ASSUME NEW d, IsDocument(d), NEW c, Sound(d, c), ~d.group.open,
         NEW r \in 0 .. d.hist.last, NEW n,
         n.text = c[r], n.hist = [d.hist EXCEPT !.current = r],
         n.group = d.group
  PROVE  Sound(n, Extend(c, n))
<1>1. IsHistory(d.hist) /\ c \in [0 .. d.hist.last -> Text]
      /\ Reproduces(d.hist, c)
  BY DEF IsDocument, Sound
<1>2. /\ n.hist.last = d.hist.last /\ n.hist.revs = d.hist.revs
      /\ n.hist.current = r
  BY <1>1, TravelKeepsHistory
<1>3. Extend(c, n) = c
  BY <1>1, <1>2, ExtendByNothing
<1>4. Reproduces(n.hist, c)
  BY <1>1, <1>2 DEF Reproduces
<1>5. Gathered(n.group, c[r], n.text)
  BY DEF Gathered
<1>6. QED
  BY <1>1, <1>2, <1>3, <1>4, <1>5 DEF Sound

\* A change set that leads to the text of the revision it is said to lead to.
LEMMA TravelAgreed ==
  ASSUME Typed, Agreed, Kept',
         NEW r \in Revision, NEW cs, IsChangeSet(cs),
         Fits(cs, content[doc.hist.current]),
         Apply(cs, content[doc.hist.current]) = content[r],
         Travel(cs, [doc.hist EXCEPT !.current = r])
  PROVE  /\ Agreed'
         /\ observed' = doc'.text
<1> DEFINE h == [doc.hist EXCEPT !.current = r]
           d == AfterStep(doc, cs, h)
<1>1. ~doc.group.open
  BY DEF Travel, Happens, Kept, HistoryLapse
<1>2. IsDocument(doc) /\ Sound(doc, content)
  BY DEF Typed, Agreed
<1>3. doc.text = content[doc.hist.current]
  BY <1>1, <1>2 DEF Sound, Gathered
<1>4. doc = [text |-> doc.text, hist |-> doc.hist, group |-> doc.group,
             savePoint |-> doc.savePoint]
  BY <1>2 DEF IsDocument
<1>5. Follows(doc, d)
  BY <1>2, AfterStepFollows DEF Revision
<1>6. Becomes(d) /\ saved' = saved /\ observed' = doc'.text
  BY <1>3 DEF Travel, AnnounceWhole
<1>7. d.text = content[r] /\ d.hist = h /\ d.group = doc.group
  BY <1>3, <1>4 DEF AfterStep
<1> HIDE DEF d
<1>8. Sound(d, Extend(content, d))
  BY <1>1, <1>2, <1>7, MovedSound DEF Revision
<1>9. QED
  BY <1>5, <1>6, <1>8, BecomesAgreed

LEMMA UndoAgreed ==
  ASSUME Typed, Agreed, Kept', Undo
  PROVE  Agreed' /\ observed' = doc'.text
<1> DEFINE r == doc.hist.revs[doc.hist.current].parent
<1>1. IsHistory(doc.hist) /\ Reproduces(doc.hist, content)
  BY DEF Typed, IsDocument, Agreed, Sound
<1>2. /\ r \in Revision /\ IsChangeSet(UndoChange(doc.hist))
      /\ doc.hist.current \in 1 .. doc.hist.last
  BY <1>1, UndoRedoEdges DEF Undo, Revision
<1>3. /\ Fits(UndoChange(doc.hist), content[doc.hist.current])
      /\ Apply(UndoChange(doc.hist), content[doc.hist.current]) = content[r]
  BY <1>1, <1>2 DEF Reproduces, UndoChange
<1>4. Travel(UndoChange(doc.hist), [doc.hist EXCEPT !.current = r])
  BY DEF Undo, AfterUndo
<1> HIDE DEF r
<1>5. QED
  BY <1>2, <1>3, <1>4, TravelAgreed

LEMMA RedoAgreed ==
  ASSUME Typed, Agreed, Kept', Redo
  PROVE  Agreed' /\ observed' = doc'.text
<1> DEFINE r == doc.hist.revs[doc.hist.current].lastChild
<1>1. IsHistory(doc.hist) /\ Reproduces(doc.hist, content)
  BY DEF Typed, IsDocument, Agreed, Sound
<1>2. /\ r \in Revision /\ IsChangeSet(RedoChange(doc.hist))
      /\ r \in 1 .. doc.hist.last
      /\ doc.hist.revs[r].parent = doc.hist.current
  BY <1>1, UndoRedoEdges DEF Redo, Revision
<1>3. /\ Fits(RedoChange(doc.hist), content[doc.hist.current])
      /\ Apply(RedoChange(doc.hist), content[doc.hist.current]) = content[r]
  BY <1>1, <1>2 DEF Reproduces, RedoChange
<1>4. Travel(RedoChange(doc.hist), [doc.hist EXCEPT !.current = r])
  BY DEF Redo, AfterRedo
<1> HIDE DEF r
<1>5. QED
  BY <1>2, <1>3, <1>4, TravelAgreed

LEMMA JumpToAgreed ==
  ASSUME Typed, Agreed, Kept', NEW to \in Revision, JumpTo(to)
  PROVE  Agreed' /\ observed' = doc'.text
<1> DEFINE res == ApplyAll(doc.text, JumpChanges(doc.hist, to))
           d == [doc EXCEPT !.hist = AfterJump(@, to), !.text = res.text]
<1>1. ~doc.group.open
  BY DEF JumpTo, Happens, Kept, HistoryLapse
<1>2. IsDocument(doc) /\ Sound(doc, content) /\ IsHistory(doc.hist)
  BY DEF Typed, Agreed, IsDocument
<1>3. doc.text = content[doc.hist.current]
  BY <1>1, <1>2 DEF Sound, Gathered
<1>4. /\ content \in [0 .. doc.hist.last -> Text]
      /\ Reproduces(doc.hist, content)
  BY <1>2 DEF Sound
<1>5. res = [text |-> content[to], ok |-> TRUE]
  BY <1>2, <1>3, <1>4, JumpLands DEF Revision
<1>6. Becomes(d) /\ saved' = saved /\ (res.ok => observed' = doc'.text)
  BY DEF JumpTo, AnnounceWhole
<1> HIDE DEF res
<1>7. res.text = content[to] /\ res.ok
  BY <1>5
<1>8. doc = [text |-> doc.text, hist |-> doc.hist, group |-> doc.group,
             savePoint |-> doc.savePoint]
  BY <1>2 DEF IsDocument
<1> DEFINE h == [doc.hist EXCEPT !.current = to]
<1>9. d = [doc EXCEPT !.hist = h, !.text = res.text]
  BY <1>8 DEF AfterJump
<1> HIDE DEF d, h
<1>10. d = [text |-> res.text, hist |-> h, group |-> doc.group,
            savePoint |-> doc.savePoint]
  BY <1>8, <1>9
<1>11. content[to] \in Text
  BY <1>4 DEF Revision
<1>12. Follows(doc, d)
  BY <1>2, <1>7, <1>10, <1>11, MovedFollows DEF h, Revision
<1>13. d.text = content[to] /\ d.hist = h /\ d.group = doc.group
  BY <1>7, <1>10
<1>14. Sound(d, Extend(content, d))
  BY <1>1, <1>2, <1>13, MovedSound DEF h, Revision
<1>15. QED
  BY <1>6, <1>7, <1>12, <1>14, BecomesAgreed

LEMMA SaveAgreed ==
  ASSUME DocumentAssumption, Typed, Agreed, Kept',
         NEW settings, Save(settings)
  PROVE  Agreed'
<1> DEFINE d == ApplySaveText(doc, settings)
<1>1. ~doc.group.open
  BY DEF Save, Happens, Kept, HistoryLapse
<1>2. IsDocument(doc) /\ Sound(doc, content)
  BY DEF Typed, Agreed
<1>3. Follows(doc, d) /\ Sound(d, Extend(content, d))
  BY <1>1, <1>2, ApplySaveTextFollows, ApplySaveTextSound
<1>4. d.group = doc.group
  <2> DEFINE cs == Diff(doc.text, PrepareSaveText(doc.text, settings))
  <2>1. IsChangeSet(cs) /\ Fits(cs, doc.text)
    BY <1>2, PrepareSaveTextMakesText, DiffMakesChangeSet DEF IsDocument
  <2>2. CASE IsEmpty(cs)
    BY <2>2 DEF ApplySaveText
  <2>3. CASE ~IsEmpty(cs)
    <3>1. d = WithRevision(doc, cs)
      BY <2>3 DEF ApplySaveText, WithRevision
    <3> HIDE DEF d, cs
    <3>2. QED
      BY <1>2, <2>1, <3>1, RevisionFollows
  <2>4. QED
    BY <2>2, <2>3
<1>5. CASE Becomes(MarkSaved(d)) /\ saved' = d.text
  <2> DEFINE n == MarkSaved(d)
  <2>1. d = [text |-> d.text, hist |-> d.hist, group |-> d.group,
             savePoint |-> d.savePoint]
    BY <1>3 DEF Follows, IsDocument
  <2>2. n = [text |-> d.text, hist |-> d.hist, group |-> d.group,
             savePoint |-> d.hist.current]
    BY <2>1 DEF MarkSaved
  <2> HIDE DEF d, n
  <2>3. /\ n.text = d.text /\ n.hist = d.hist /\ n.group = d.group
        /\ n.savePoint = d.hist.current
    BY <2>2
  <2>4. Extend(content, n) = Extend(content, d)
    BY <2>3 DEF Extend
  <2>5. doc' = n /\ content' = Extend(content, n)
    BY <1>5 DEF Becomes, Extend, n
  <2>6. Sound(doc', content')
    BY <1>3, <2>3, <2>4, <2>5 DEF Sound
  <2>7. content'[d.hist.current] = d.text
    BY <1>1, <1>4, <2>3, <2>5, <2>6 DEF Sound, Gathered
  <2>8. QED
    BY <1>5, <2>3, <2>5, <2>6, <2>7 DEF Agreed
<1>6. CASE Becomes(d) /\ UNCHANGED <<saved, observed>>
  BY <1>3, <1>6, BecomesAgreed
<1>7. QED
  BY <1>5, <1>6 DEF Save

\* A reload that is no lapse finds the text that is there.
LEMMA ReloadAgreed ==
  ASSUME Typed, Agreed, Kept', Reload
  PROVE  Agreed'
<1>1. PICK t \in AllTexts :
        /\ doc' = MarkSaved([doc EXCEPT !.text = t])
        /\ content' = [content EXCEPT ![doc.hist.current] = t]
        /\ saved' = t
        /\ Happens(IF t # doc.text \/ doc.group.open THEN {"reload"} ELSE {})
  BY DEF Reload
<1>2. t = doc.text /\ ~doc.group.open
  BY <1>1 DEF Happens, Kept, HistoryLapse
<1>3. Sound(doc, content)
  BY DEF Agreed
<1>4. doc.text = content[doc.hist.current]
  BY <1>2, <1>3 DEF Sound, Gathered
<1>5. /\ content \in [0 .. doc.hist.last -> Text]
      /\ doc.hist.current \in 0 .. doc.hist.last
  BY DEF Typed, IsDocument, IsHistory, Revision
<1>6. content' = content
  BY <1>1, <1>2, <1>4, <1>5
<1>7. doc = [text |-> doc.text, hist |-> doc.hist, group |-> doc.group,
             savePoint |-> doc.savePoint]
  BY DEF Typed, IsDocument
<1>8. doc' = [text |-> t, hist |-> doc.hist, group |-> doc.group,
              savePoint |-> doc.hist.current]
  BY <1>1, <1>7 DEF MarkSaved
<1>9. /\ doc'.text = doc.text /\ doc'.hist = doc.hist
      /\ doc'.group = doc.group /\ doc'.savePoint = doc.hist.current
  BY <1>2, <1>8
<1>10. QED
  BY <1>1, <1>2, <1>3, <1>4, <1>6, <1>9 DEF Agreed, Sound

LEMMA LapsesStay ==
  ASSUME [Next]_vars
  PROVE  lapses \subseteq lapses' /\ (Kept' => Kept)
<1>1. lapses \subseteq lapses'
  BY DEF Next, vars, EnterInsert, FocusPane, Apply1, ApplyToDocument,
     EditThrough, NormalMode, CommitCheckpoint, Undo, Redo, Travel, Earlier,
     Later, JumpTo, Save, Reload, Happens
<1>2. QED
  BY <1>1 DEF Kept

\* What the handlers that move within the history do to both parts at once.
MovesAgreed == Agreed' /\ observed' = doc'.text

LEMMA EarlierLaterAgreed ==
  ASSUME DocumentAssumption, Typed, Agreed, Kept', Earlier \/ Later
  PROVE  MovesAgreed
<1>1. IsHistory(doc.hist)
  BY DEF Typed, IsDocument
<1>2. PICK to \in Revision : JumpTo(to)
  BY <1>1, JumpTargets DEF Earlier, Later, DocumentAssumption, Revision
<1>3. QED
  BY <1>2, JumpToAgreed DEF MovesAgreed

LEMMA StepAgreed ==
  ASSUME DocumentAssumption, Typed, Agreed, Kept', [Next]_vars
  PROVE  Agreed'
<1>1. CASE UNCHANGED vars
  BY <1>1 DEF vars, Agreed
<1>2. CASE EnterInsert
  BY <1>2 DEF EnterInsert, Agreed
<1>3. CASE FocusPane
  BY <1>3 DEF FocusPane, Agreed
<1>4. CASE Apply1
  BY <1>4, EditThroughAgreed DEF Apply1, Typed
<1>5. CASE ApplyToDocument
  BY <1>5, EditThroughAgreed DEF ApplyToDocument, DocumentAssumption
<1>6. CASE Earlier \/ Later
  BY <1>6, EarlierLaterAgreed DEF MovesAgreed
<1>7. QED
  BY <1>1, <1>2, <1>3, <1>4, <1>5, <1>6, NormalModeAgreed,
     CommitCheckpointAgreed, UndoAgreed, RedoAgreed, SaveAgreed, ReloadAgreed
     DEF Next

\* Unless something went unannounced, every change of the text is announced.
LEMMA StepObserved ==
  ASSUME DocumentAssumption, Typed, Agreed, observed = doc.text,
         [Next]_vars, lapses' = {}
  PROVE  observed' = doc'.text
<1>1. Kept'
  BY DEF Kept
<1>2. CASE UNCHANGED vars
  BY <1>2 DEF vars
<1>3. CASE EnterInsert
  BY <1>3 DEF EnterInsert
<1>4. CASE FocusPane
  BY <1>4 DEF FocusPane
<1>5. CASE Apply1 \/ ApplyToDocument
  BY <1>5 DEF Apply1, ApplyToDocument, EditThrough, AnnounceChange
<1>6. CASE NormalMode
  <2>1. IsDocument(doc)
    BY DEF Typed
  <2>2. Becomes(CommitInsertHistory(doc)) /\ observed' = observed
    BY <1>6 DEF NormalMode, Happens
  <2>3. doc' = CommitInsertHistory(doc)
    BY <2>2 DEF Becomes
  <2>4. QED
    BY <2>1, <2>2, <2>3, CommitInsertHistoryKeeps
<1>7. CASE CommitCheckpoint
  <2>1. IsDocument(doc)
    BY DEF Typed
  <2>2. doc' = CommitInsertHistory(doc) /\ observed' = observed
    BY <1>7 DEF CommitCheckpoint, Becomes
  <2>3. QED
    BY <2>1, <2>2, CommitInsertHistoryKeeps
<1>8. CASE Undo
  BY <1>1, <1>8, UndoAgreed
<1>9. CASE Redo
  BY <1>1, <1>9, RedoAgreed
<1>10. CASE Earlier \/ Later
  BY <1>1, <1>10, EarlierLaterAgreed DEF MovesAgreed
<1>11. ASSUME NEW settings, Save(settings)
       PROVE  observed' = doc'.text
  <2> DEFINE d == ApplySaveText(doc, settings)
  <2>1. CASE /\ Becomes(MarkSaved(d))
             /\ IF d # doc THEN AnnounceWhole ELSE UNCHANGED observed
    <3>1. doc' = MarkSaved(d)
      BY <2>1 DEF Becomes
    <3>2. CASE d # doc
      BY <2>1, <3>2 DEF AnnounceWhole
    <3>3. CASE d = doc
      <4>1. doc = [text |-> doc.text, hist |-> doc.hist, group |-> doc.group,
                   savePoint |-> doc.savePoint]
        BY DEF Typed, IsDocument
      <4>2. MarkSaved(doc).text = doc.text
        BY <4>1 DEF MarkSaved
      <4>3. QED
        BY <2>1, <3>1, <3>3, <4>2
    <3>4. QED
      BY <3>2, <3>3
  <2>2. CASE /\ Becomes(d) /\ UNCHANGED <<saved, observed>> /\ d = doc
    BY <2>2 DEF Becomes
  <2>3. \/ Becomes(MarkSaved(d)) /\ IF d # doc THEN AnnounceWhole
                                                ELSE UNCHANGED observed
        \/ /\ Becomes(d) /\ UNCHANGED <<saved, observed>>
           /\ Happens((IF doc.group.open THEN {"saveInGroup"} ELSE {})
                        \cup IF d # doc THEN {"failedSave"} ELSE {})
    BY <1>11 DEF Save
  <2>4. QED
    BY <2>1, <2>2, <2>3 DEF Happens
<1>12. CASE Reload
  BY <1>12 DEF Reload, AnnounceWhole
<1>13. QED
  BY <1>2, <1>3, <1>4, <1>5, <1>6, <1>7, <1>8, <1>9, <1>10, <1>11, <1>12
     DEF Next

LEMMA InitInv ==
  ASSUME DocumentAssumption, Init
  PROVE  Inv
<1>1. Typed
  BY InitTyped
<1>2. PICK t \in Opened :
        /\ doc = [text |-> t, hist |-> NewHistory, group |-> NoGroup,
                  savePoint |-> 0]
        /\ content = [r \in 0 .. 0 |-> t]
        /\ saved = t
        /\ observed = t
  BY DEF Init
<1>3. /\ doc.text = t /\ doc.hist = NewHistory /\ doc.group = NoGroup
      /\ doc.savePoint = 0
  BY <1>2
<1>4. NewHistory.last = 0 /\ NewHistory.current = 0 /\ ~NoGroup.open
  BY DEF NewHistory, NoGroup
<1>5. content[0] = t
  BY <1>2
<1>6. content \in [0 .. doc.hist.last -> Text]
  BY <1>1 DEF Typed, Revision
<1>7. Reproduces(doc.hist, content)
  BY <1>3, <1>4 DEF Reproduces
<1>8. Gathered(doc.group, content[doc.hist.current], doc.text)
  BY <1>3, <1>4, <1>5 DEF Gathered
<1>9. Agreed
  BY <1>2, <1>3, <1>5, <1>6, <1>7, <1>8 DEF Agreed, Sound
<1>10. QED
  BY <1>1, <1>2, <1>3, <1>9 DEF Inv

LEMMA StepInv ==
  ASSUME DocumentAssumption, Inv, [Next]_vars
  PROVE  Inv'
<1>1. Typed'
  BY StepTyped DEF Inv
<1>2. ASSUME Kept'
      PROVE  Agreed'
  BY <1>2, LapsesStay, StepAgreed DEF Inv
<1>3. ASSUME lapses' = {}
      PROVE  observed' = doc'.text
  <2>1. lapses = {}
    BY <1>3, LapsesStay
  <2>2. Agreed
    BY <2>1 DEF Inv, Kept
  <2>3. QED
    BY <1>3, <2>1, <2>2, StepObserved DEF Inv
<1>4. QED
  BY <1>1, <1>2, <1>3 DEF Inv

LEMMA InvAlways == Spec => []Inv
<1>1. Init => Inv
  BY DocumentAssumption, InitInv
<1>2. Inv /\ [Next]_vars => Inv'
  BY DocumentAssumption, StepInv
<1>3. QED
  BY <1>1, <1>2, PTL DEF Spec

\* The text is where the history says and every revision leads from its
\* parent's text to its own and back, whatever edits, groups, undos, jumps and
\* saves there were, until a reload or an undo or a save within a group.
THEOREM TextAlwaysMatchesHistory == Spec => []TextMatchesHistory
<1>1. Inv => TextMatchesHistory
  BY AgreedReproduces DEF Inv, TextMatchesHistory
<1>2. QED
  BY <1>1, InvAlways, PTL

\* What is not reported as modified is what was saved.
THEOREM UnmodifiedIsAlwaysSaved == Spec => []UnmodifiedIsSaved
<1>1. Inv => UnmodifiedIsSaved
  <2> SUFFICES ASSUME Inv, Kept, ~Modified(doc)
               PROVE  doc.text = saved
    BY DEF UnmodifiedIsSaved
  <2>1. /\ Agreed /\ doc.hist.current = doc.savePoint
        /\ ~doc.group.open \/ IsEmpty(doc.group.changes)
    BY DEF Inv, Modified
  <2> DEFINE here == content[doc.hist.current]
             changes == doc.group.changes
  <2>2. Gathered(doc.group, here, doc.text) /\ here = saved
    BY <2>1 DEF Agreed, Sound
  <2>3. here \in Text /\ IsChangeSet(changes)
    BY DEF Inv, Typed, IsDocument, IsGroup, IsHistory, Revision
  <2>4. CASE ~doc.group.open
    BY <2>2, <2>4 DEF Gathered
  <2>5. CASE doc.group.open /\ IsEmpty(changes)
    <3>1. Fits(changes, here) => Apply(changes, here) = here
      BY <2>3, <2>5, EmptyAppliesNothing
    <3>2. QED
      BY <2>2, <2>5, <3>1 DEF Gathered
  <2>6. QED
    BY <2>1, <2>4, <2>5
<1>2. QED
  BY <1>1, InvAlways, PTL

\* The observers of a document have its text, unless they were left out.
THEOREM ObserversAlwaysFollow == Spec => []ObserversFollow
<1>1. Inv => ObserversFollow
  BY DEF Inv, ObserversFollow
<1>2. QED
  BY <1>1, InvAlways, PTL

=============================================================================
