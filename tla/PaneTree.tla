------------------------------ MODULE PaneTree ------------------------------
(***************************************************************************)
(* The tree of panes (internal/view/tree.go), as pure operators, one per   *)
(* method.  A tree is                                                      *)
(*                                                                         *)
(*   [node |-> a function from the ids in use to nodes, focus |-> an id,   *)
(*    maximized |-> an id or None, next |-> the last id allocated]         *)
(*                                                                         *)
(* and a node is a pane with what is stashed behind it, or a split with    *)
(* its children.  Sizes are left out: whether there is room for a split    *)
(* (CanSplit) and which of several panes is the nearest (findChild) is     *)
(* left open, ratios are not kept.  The sequence numbers focusSeq are left *)
(* out too: setFocus gives the focused pane the highest.                   *)
(***************************************************************************)
EXTENDS Integers, Sequences, SequencesExt, FiniteSets

None == 0
Root == 1
Layouts == {"vertical", "horizontal"}
Directions == {"up", "down", "left", "right"}

NoPane == [kind |-> "none", doc |-> None]
Leaf(parent, pane) ==
    [parent |-> parent, layout |-> "leaf", children |-> <<>>,
     pane |-> pane, stash |-> <<>>]
Container(parent, layout, children) ==
    [parent |-> parent, layout |-> layout, children |-> children,
     pane |-> NoPane, stash |-> <<>>]

\* An empty tree: the root is a container for good.
NewTree ==
    [node |-> (Root :> Container(Root, "vertical", <<>>)),
     focus |-> Root, maximized |-> None, next |-> Root]

Panes(t) == {id \in DOMAIN t.node : t.node[id].layout = "leaf"}
Get(t, id) == IF id \in Panes(t) THEN t.node[id].pane ELSE NoPane
IndexOf(s, x) == CHOOSE i \in DOMAIN s : s[i] = x
With(t, id, node) ==
    [t EXCEPT !.node = [i \in DOMAIN @ \union {id} |->
                           IF i = id THEN node ELSE @[i]]]

\* The panes below each node, left to right and top to bottom (Range).
PanesBelow(t) ==
    LET below[id \in DOMAIN t.node] ==
            IF t.node[id].layout = "leaf"
            THEN <<id>>
            ELSE FlattenSeq([i \in DOMAIN t.node[id].children |->
                                below[t.node[id].children[i]]])
    IN  below
Traverse(t) == PanesBelow(t)[Root]
Count(t) == Len(Traverse(t))

\* The pane after or before the focused one, around the ends.
NextPane(t) ==
    LET all == Traverse(t)
        i == IndexOf(all, t.focus)
    IN  IF t.focus \in Range(all) THEN all[(i % Len(all)) + 1]
        ELSE IF all # <<>> THEN Head(all)
        ELSE t.focus
PrevPane(t) ==
    LET all == Traverse(t)
        i == IndexOf(all, t.focus)
    IN  IF t.focus \in Range(all) /\ i > 1 THEN all[i - 1]
        ELSE IF all # <<>> THEN Last(all)
        ELSE t.focus

\* Moving the focus ends a maximized layout.
SetFocus(t, id) ==
    IF id = t.focus THEN t ELSE [t EXCEPT !.focus = id, !.maximized = None]

Recalculate(t) == IF Traverse(t) = <<>> THEN [t EXCEPT !.focus = Root] ELSE t

\* A new pane as the next sibling of the focused one.
Insert(t, pane) ==
    LET id == t.next + 1
        parent == t.node[t.focus].parent
        kids == t.node[parent].children
        at == IF kids = <<>> THEN 1 ELSE IndexOf(kids, t.focus) + 1
        placed == With(With([t EXCEPT !.next = id], id, Leaf(parent, pane)),
                       parent,
                       [t.node[parent] EXCEPT !.children = InsertAt(@, at, id)])
    IN  Recalculate(SetFocus(placed, id))

\* Mutant: before the focused one if they share a container.
SplitBefore(t, pane, layout) ==
    LET id == t.next + 1
        sub == t.next + 2
        focus == t.focus
        parent == t.node[focus].parent
        at == IndexOf(t.node[parent].children, focus)
        beside == With(With([t EXCEPT !.next = id], id, Leaf(parent, pane)),
                       parent,
                       [t.node[parent] EXCEPT !.children = InsertAt(@, at, id)])
        around == [t EXCEPT !.next = sub,
                     !.node = [i \in DOMAIN @ \union {id, sub} |->
                        CASE i = id -> Leaf(sub, pane)
                          [] i = sub -> Container(parent, layout, <<focus, id>>)
                          [] i = focus -> [@[focus] EXCEPT !.parent = sub]
                          [] i = parent -> [@[parent] EXCEPT !.children[at] = sub]
                          [] OTHER -> @[i]]]
    IN  Recalculate(SetFocus(IF t.node[parent].layout = layout
                             THEN beside ELSE around, id))

\* A new pane beside the focused one: in its container if that has the
\* layout, else the two share a container that takes the focused one's place.
Split(t, pane, layout) ==
    LET id == t.next + 1
        sub == t.next + 2
        focus == t.focus
        parent == t.node[focus].parent
        kids == t.node[parent].children
        at == IndexOf(kids, focus)
        beside == With(With([t EXCEPT !.next = id], id, Leaf(parent, pane)),
                       parent,
                       [t.node[parent] EXCEPT !.children = InsertAt(@, at + 1, id)])
        around == [t EXCEPT !.next = sub,
                     !.node = [i \in DOMAIN @ \union {id, sub} |->
                        CASE i = id -> Leaf(sub, pane)
                          [] i = sub -> Container(parent, layout, <<focus, id>>)
                          [] i = focus -> [@[focus] EXCEPT !.parent = sub]
                          [] i = parent -> [@[parent] EXCEPT !.children[at] = sub]
                          [] OTHER -> @[i]]]
    IN  Recalculate(SetFocus(IF t.node[parent].layout = layout
                             THEN beside ELSE around, id))

\* What a split allocates: the pane's id and perhaps that of a container.
SplitIds(t, layout) ==
    IF t.node[t.node[t.focus].parent].layout = layout THEN 1 ELSE 2

ReplacePane(t, id, pane) ==
    IF id \in Panes(t) THEN [t EXCEPT !.node[id].pane = pane] ELSE t

\* A pane is stashed behind the one that takes its place ...
DisplacePane(t, id, pane) ==
    IF id \in Panes(t)
    THEN [ReplacePane(t, id, pane) EXCEPT
            !.node[id].stash = Append(@, t.node[id].pane)]
    ELSE t

\* ... and comes back.
CanRevert(t, id) == id \in Panes(t) /\ t.node[id].stash # <<>>
RevertPane(t, id) ==
    ReplacePane([t EXCEPT !.node[id].stash = Front(@)],
                id, Last(t.node[id].stash))

DiscardHistory(t, id) ==
    IF id \in Panes(t) THEN [t EXCEPT !.node[id].stash = <<>>] ELSE t

\* removeOrReplace: a child leaves its container, or another takes its place.
Without(t, id) ==
    LET parent == t.node[id].parent
    IN  [t EXCEPT
           !.node = [i \in DOMAIN @ \ {id} |->
              IF i = parent
              THEN [@[i] EXCEPT !.children = RemoveAt(@, IndexOf(@, id))]
              ELSE @[i]]]
InPlaceOf(t, id, sibling) ==
    LET parent == t.node[id].parent
    IN  [t EXCEPT
           !.node = [i \in DOMAIN @ \ {id} |->
              CASE i = parent ->
                     [@[i] EXCEPT !.children = ReplaceAll(@, id, sibling)]
                [] i = sibling -> [@[i] EXCEPT !.parent = parent]
                [] OTHER -> @[i]]]

\* Mutant: the container that is left with one child stays.
RemovePaneUncollapsed(t, id) ==
    LET focused == IF t.focus = id THEN SetFocus(t, PrevPane(t)) ELSE t
        gone == Without(focused, id)
    IN  Recalculate(IF Count(gone) < 2
                    THEN [gone EXCEPT !.maximized = None]
                    ELSE gone)

\* A pane goes: the focus moves on first, and a container that is left with
\* one child collapses, unless it is the root.
RemovePane(t, id) ==
    LET focused == IF t.focus = id THEN SetFocus(t, PrevPane(t)) ELSE t
        parent == t.node[id].parent
        gone == Without(focused, id)
        kids == gone.node[parent].children
        collapsed == IF Len(kids) = 1 /\ parent # Root
                     THEN InPlaceOf(gone, parent, kids[1])
                     ELSE gone
    IN  Recalculate(IF Count(collapsed) < 2
                    THEN [collapsed EXCEPT !.maximized = None]
                    ELSE collapsed)

Unmaximize(t) == [t EXCEPT !.maximized = None]
ToggleMaximized(t) ==
    IF t.maximized # None THEN Unmaximize(t)
    ELSE IF Count(t) > 1 THEN [t EXCEPT !.maximized = t.focus]
    ELSE t

\* The container of the focused pane is turned.
Transpose(t) ==
    [Unmaximize(t) EXCEPT !.node[t.node[t.focus].parent].layout =
        IF @ = "vertical" THEN "horizontal" ELSE "vertical"]

\* FindSplitInDirection: up from a node to a container that runs along the
\* direction and has a neighbour there, then down to the nearest of the
\* neighbour's panes; the answer is the set of those it may be.
SplitsInDirection(t, from, dir) ==
    LET along == IF dir \in {"up", "down"} THEN "horizontal" ELSE "vertical"
        step == IF dir \in {"up", "left"} THEN -1 ELSE 1
        find[id \in DOMAIN t.node] ==
            LET parent == t.node[id].parent
                kids == t.node[parent].children
                at == IndexOf(kids, id) + step
            IN  IF id = Root THEN {}
                ELSE IF t.node[parent].layout = along /\ at \in DOMAIN kids
                THEN Range(PanesBelow(t)[kids[at]])
                ELSE find[parent]
    IN  find[from]

\* The focused pane and another change places.
Swap(t, target) ==
    LET focus == t.focus
        other(i) == IF i = focus THEN target ELSE IF i = target THEN focus ELSE i
        parentOf(i) == t.node[other(i)].parent
    IN  [Unmaximize(t) EXCEPT
           !.node = [i \in DOMAIN @ |->
              IF @[i].layout = "leaf"
              THEN [@[i] EXCEPT !.parent = parentOf(i)]
              ELSE [@[i] EXCEPT !.children =
                      [k \in DOMAIN @ |-> other(@[k])]]]]

-----------------------------------------------------------------------------
\* What every tree must be.

\* Parents and children agree: each node but the root is the child of its
\* parent, once, and of no other.
Linked(t) ==
    /\ t.node[Root].parent = Root
    /\ \A id \in DOMAIN t.node :
         LET kids == t.node[id].children
         IN  /\ \A i, j \in DOMAIN kids : kids[i] = kids[j] => i = j
             /\ \A i \in DOMAIN kids : /\ kids[i] \in DOMAIN t.node \ {Root}
                                       /\ t.node[kids[i]].parent = id
    /\ \A id \in DOMAIN t.node \ {Root} :
         /\ t.node[id].parent \in DOMAIN t.node
         /\ id \in Range(t.node[t.node[id].parent].children)

\* Nothing is cut off: the panes that can be reached are all of them.
Connected(t) == Range(Traverse(t)) = Panes(t)

\* A split inside another has at least two children.  recalculate divides by
\* their number.
Collapsed(t) ==
    \A id \in DOMAIN t.node \ (Panes(t) \union {Root}) :
        Len(t.node[id].children) >= 2

\* The focus is on a pane.
Focused(t) == t.focus \in Panes(t)

\* Only the focused pane is maximized, and only beside others.
MaximizedIsFocused(t) ==
    t.maximized # None => t.maximized = t.focus /\ Count(t) >= 2

=============================================================================
