-------------------------------- MODULE Panes --------------------------------
(***************************************************************************)
(* The editor's panes and the documents they show: internal/view/          *)
(* editor-pane.go, editor-focus.go, editor-io.go, session*.go, over the    *)
(* tree of PaneTree.  A pane is a view of a document, a terminal, or an    *)
(* image; a terminal opens in front of the pane it was started in, which   *)
(* is stashed behind it.  A document that no pane shows any more is        *)
(* closed.                                                                 *)
(*                                                                         *)
(*   tree      the tree of panes                                           *)
(*   docs      the kind of each open document: a scratch text, a file, the *)
(*             log of messages, or a file that was missing when a session  *)
(*             was restored                                                *)
(*   nextDoc   the last document number given out                          *)
(*   lapses    not in the code: whether a document was closed while a      *)
(*             stashed view had it ("stashed"), or by the command that     *)
(*             shows it ("shown")                                          *)
(***************************************************************************)
EXTENDS PaneTree

CONSTANT Bounds   \* sets of bounds, one of which holds in a behaviour:
                  \*   ids    allocated by the tree in one life of the program
                  \*   panes  at a time
                  \*   docs   opened
                  \*   images whether images are shown

ASSUME BoundsAssumption ==
    Bounds \subseteq [ids : Nat \ {0, 1}, panes : Nat \ {0}, docs : Nat \ {0},
                images : BOOLEAN]

VARIABLES bound, editor

panesVars == <<bound, editor>>

View(d) == [kind |-> "view", doc |-> d]
Terminal == [kind |-> "terminal", doc |-> None]
Image == [kind |-> "image", doc |-> None]
PaneValues == {View(d) : d \in 1 .. bound.docs} \union {Terminal, Image}

Kinds == {"scratch", "file", "log", "missing"}
FocusedPane(s) == Get(s.tree, s.tree.focus)
FocusedView(s) == FocusedPane(s).kind = "view"

\* Mutant: a document is closed with the first of its views.
HasViewNever(t, d) == FALSE
\* Only panes in the layout are looked at, not those behind them.
HasView(t, d) == \E id \in Panes(t) : t.node[id].pane = View(d)

Stashed(t, d) == \E id \in Panes(t) : View(d) \in Range(t.node[id].stash)

\* NewEditor: a scratch document in one view.
NewEditor ==
    [tree |-> Insert(NewTree, View(1)), docs |-> (1 :> "scratch"),
     nextDoc |-> 1, lapses |-> {}]

Close(s, d) ==
    [s EXCEPT !.docs = [e \in DOMAIN @ \ {d} |-> @[e]],
              !.lapses = @ \union {l \in {"stashed"} : Stashed(s.tree, d)}]

\* discardView: the document goes with its last view, the log does not.
Discard(s, pane) ==
    IF /\ pane.kind = "view"
       /\ pane.doc \in DOMAIN s.docs
       /\ s.docs[pane.doc] # "log"
       /\ ~ HasView(s.tree, pane.doc)
    THEN Close(s, pane.doc)
    ELSE s

\* What is stashed behind a pane is discarded.
DiscardStash(s, id) ==
    FoldLeft(Discard, [s EXCEPT !.tree = DiscardHistory(@, id)],
             s.tree.node[id].stash)

\* discardMissingDoc: a file that was missing and is left unmodified.
DiscardMissing(s, d) ==
    IF d \in DOMAIN s.docs /\ s.docs[d] = "missing" /\ ~ HasView(s.tree, d)
    THEN Close(s, d)
    ELSE s

Opened(s, kind) ==
    [s EXCEPT !.nextDoc = @ + 1,
              !.docs = [d \in DOMAIN @ \union {s.nextDoc + 1} |->
                           IF d \in DOMAIN @ THEN @[d] ELSE kind]]

\* A pane takes the focused slot for good: what is behind it goes first, then
\* the pane that was there.
TakeSlot(s, pane) ==
    LET id == s.tree.focus
        cleared == DiscardStash(s, id)
        placed == [cleared EXCEPT !.tree = ReplacePane(@, id, pane)]
        done == Discard(placed, s.tree.node[id].pane)
    IN  [done EXCEPT !.lapses = @ \union
            {l \in {"shown"} : /\ pane.kind = "view"
                               /\ View(pane.doc) \in Range(s.tree.node[id].stash)
                               /\ ~ HasView(s.tree, pane.doc)}]

\* ShowDocument: a view switches, and leaves a missing file or not (it may be
\* modified); another pane makes way.
ShowDocument(s, d) ==
    IF FocusedView(s)
    THEN LET prev == FocusedPane(s).doc
             switched == [s EXCEPT !.tree = ReplacePane(@, @.focus, View(d))]
         IN  IF d = prev THEN {s}
             ELSE {switched, DiscardMissing(switched, prev)}
    ELSE {TakeSlot(s, View(d))}

\* ClosePane: the last pane is replaced by a view of a scratch document.
ClosePane(s, id) ==
    LET pane == s.tree.node[id].pane
        scratch == Opened(s, "scratch")
        cleared == DiscardStash(s, id)
        alone == DiscardStash(scratch, id)
    IN  IF id \notin Panes(s.tree)
        THEN s
        ELSE IF Count(s.tree) <= 1
        THEN Discard([alone EXCEPT !.tree = ReplacePane(@, id, View(scratch.nextDoc))],
                     pane)
        ELSE Discard([cleared EXCEPT !.tree = RemovePane(@, id)], pane)

-----------------------------------------------------------------------------
\* Sessions.  The panes are saved in the order of the layout, each with what
\* is stashed behind it; a view of a document that is not open is left out.

SavedChildren(s, id) ==
    SelectSeq(s.tree.node[id].children,
              LAMBDA c : LET pane == s.tree.node[c].pane
                         IN  pane.kind = "view" => pane.doc \in DOMAIN s.docs)

\* The documents that come back: a file that is gone only if a pane shows it.
Restored(s, gone) ==
    {d \in DOMAIN s.docs : /\ s.docs[d] = "log" => HasView(s.tree, d)
                           /\ d \in gone => HasView(s.tree, d)}
RestoredDocs(s, gone) ==
    [d \in Restored(s, gone) |->
        IF d \in gone THEN "missing"
        ELSE IF s.docs[d] = "missing" THEN "file"
        ELSE s.docs[d]]

\* Mutant: only views come back from behind a terminal.
RestoredStashOfViews(s, gone, id) ==
    SelectSeq(s.tree.node[id].stash,
              LAMBDA p : /\ p.kind = "view"
                         /\ p.doc \in Restored(s, gone)
                         /\ s.docs[p.doc] # "log")

\* Behind a terminal come back images and the views of restored documents,
\* but not a view of the log.
RestoredStash(s, gone, id) ==
    SelectSeq(s.tree.node[id].stash,
              LAMBDA p : p.kind = "view" =>
                  /\ p.doc \in Restored(s, gone)
                  /\ s.docs[p.doc] # "log")

\* restoreSessionRoot: the ids are given out anew, in the order of the walk,
\* to each node and then to what is restored behind it.
RestoredTree(s, gone) ==
    LET walk[id \in DOMAIN s.tree.node] ==
            <<id>> \o FlattenSeq([i \in DOMAIN SavedChildren(s, id) |->
                                     walk[SavedChildren(s, id)[i]]])
        order == walk[Root]
        behind(i) == Len(RestoredStash(s, gone, order[i]))
        number(i) == i + FoldFunctionOnSet(+, 0, [j \in 1 .. Len(order) |-> behind(j)],
                                           1 .. i - 1)
        new(id) == number(IndexOf(order, id))
        old(n) == order[CHOOSE i \in DOMAIN order : number(i) = n]
        renamed(ids) == [i \in DOMAIN ids |-> new(ids[i])]
    IN  [node |-> [n \in {number(i) : i \in DOMAIN order} |->
                     LET was == s.tree.node[old(n)]
                     IN  [was EXCEPT
                            !.parent = new(@),
                            !.children = renamed(SavedChildren(s, old(n))),
                            !.stash = RestoredStash(s, gone, old(n))]],
         focus |-> IF s.tree.focus \in Range(order) THEN new(s.tree.focus) ELSE Root,
         maximized |-> None,
         next |-> number(Len(order)) + behind(Len(order))]

\* The pane with the highest focus number gets the focus: the focused one, or
\* another if that is left out.  Nothing to show is an error, and the editor
\* stays as it was when the program started.
RestoreSession(s, gone) ==
    LET t == RestoredTree(s, gone)
        max(id) == IF s.tree.maximized # None /\ Count(t) > 1 THEN id ELSE None
    IN  IF Panes(t) = {}
        THEN {NewEditor}
        ELSE {[tree |-> [t EXCEPT !.focus = id, !.maximized = max(id)],
               docs |-> RestoredDocs(s, gone),
               nextDoc |-> s.nextDoc, lapses |-> s.lapses] :
              id \in IF t.focus # Root THEN {t.focus} ELSE Panes(t)}

-----------------------------------------------------------------------------
PanesInit == bound \in Bounds /\ editor = NewEditor

Room(n) == editor.tree.next + n <= bound.ids /\ Count(editor.tree) < bound.panes
Fresh == editor.nextDoc < bound.docs
Keep(tree) == [editor EXCEPT !.tree = tree]

\* SplitFocused: another of the focused pane; a view shows the same document.
SplitFocused(layout) ==
    /\ Room(SplitIds(editor.tree, layout))
    /\ editor' = Keep(Split(editor.tree, FocusedPane(editor), layout))

\* HSplit, VSplit: an open document beside the focused pane.
SplitDocument(d, layout) ==
    /\ d \in DOMAIN editor.docs
    /\ Room(SplitIds(editor.tree, layout))
    /\ editor' = Keep(Split(editor.tree, View(d), layout))

SplitNew(layout) ==
    /\ Fresh /\ Room(SplitIds(editor.tree, layout))
    /\ LET s == Opened(editor, "scratch")
       IN  editor' = [s EXCEPT !.tree = Split(@, View(s.nextDoc), layout)]

\* A file that was not open.  Without a focused view it is opened all the same.
OpenFile ==
    /\ Fresh
    /\ LET s == Opened(editor, "file")
       IN  IF FocusedView(editor) THEN editor' \in ShowDocument(s, s.nextDoc)
           ELSE editor' = s

NewDocument ==
    /\ Fresh
    /\ LET s == Opened(editor, "scratch") IN editor' \in ShowDocument(s, s.nextDoc)

\* The buffer picker, the jump list, and so on: a document that is open.
ShowBuffer(d) ==
    /\ d \in DOMAIN editor.docs
    /\ editor' \in ShowDocument(editor, d)

\* The log of messages is opened when it is first used.
Logs(s) == {d \in DOMAIN s.docs : s.docs[d] = "log"}
AppendMessage ==
    /\ Fresh /\ Logs(editor) = {}
    /\ editor' = Opened(editor, "log")

\* acceptPickerPane: an image, in the place of the focused pane.
ShowImage == bound.images /\ editor' = TakeSlot(editor, Image)

\* Mutant: in front of any pane.
OpenTerminalAnywhere ==
    editor' = Keep(DisplacePane(editor.tree, editor.tree.focus, Terminal))

\* TerminalAction: in front of a view or an image only.
OpenTerminal ==
    /\ FocusedPane(editor).kind \in {"view", "image"}
    /\ editor' = Keep(DisplacePane(editor.tree, editor.tree.focus, Terminal))

\* closeTerminal: what is behind it comes back.
TerminalExits(id) ==
    /\ Get(editor.tree, id) = Terminal
    /\ \/ /\ CanRevert(editor.tree, id)
          /\ editor' = Keep(Recalculate(RevertPane(editor.tree, id)))
       \/ /\ ~ CanRevert(editor.tree, id)
          /\ Fresh \/ Count(editor.tree) > 1
          /\ editor' = ClosePane(editor, id)

\* buffer_close with a name, or with the focused view; CloseCurrentView.
CloseAPane(id) ==
    /\ id \in Panes(editor.tree)
    /\ Fresh \/ Count(editor.tree) > 1
    /\ editor' = ClosePane(editor, id)

\* CloseAllOtherViews and buffer_close_others, buffer_close_all: pane after
\* pane in the order of the layout.
CloseOthers ==
    LET others == SelectSeq(Traverse(editor.tree), LAMBDA id : id # editor.tree.focus)
    IN  editor' = FoldLeft(ClosePane, editor, others)
CloseViews(all) ==
    LET views == SelectSeq(Traverse(editor.tree),
                           LAMBDA id : /\ Get(editor.tree, id).kind = "view"
                                       /\ all \/ id # editor.tree.focus)
    IN  Fresh /\ editor' = FoldLeft(ClosePane, editor, views)

FocusPane(id) ==
    /\ id \in Panes(editor.tree)
    /\ editor' = Keep(SetFocus(editor.tree, id))
FocusNext == editor' = Keep(SetFocus(editor.tree, NextPane(editor.tree)))
FocusPrev == editor' = Keep(SetFocus(editor.tree, PrevPane(editor.tree)))

\* FocusDirection and SwapSplitInDirection.
FocusDirection(dir) ==
    \E id \in SplitsInDirection(editor.tree, editor.tree.focus, dir) :
        editor' = Keep(SetFocus(editor.tree, id))
SwapDirection(dir) ==
    LET found == SplitsInDirection(editor.tree, editor.tree.focus, dir)
    IN  \/ \E id \in found : editor' = Keep(Swap(editor.tree, id))
        \/ found = {} /\ editor' = Keep(Unmaximize(editor.tree))

TurnContainer == editor' = Keep(Transpose(editor.tree))
TogglePaneMaximized == editor' = Keep(ToggleMaximized(editor.tree))

\* The program ends and is started again; files may be gone, and a session
\* that cannot be restored leaves the editor new.
Files(s) == {d \in DOMAIN s.docs : s.docs[d] \in {"file", "missing"}}
Restart ==
    \/ \E gone \in SUBSET Files(editor) :
         /\ RestoredTree(editor, gone).next <= bound.ids
         /\ editor' \in RestoreSession(editor, gone)
    \/ editor' = NewEditor

PanesNext ==
    \/ \E layout \in Layouts :
         \/ SplitFocused(layout) \/ SplitNew(layout)
         \/ \E d \in 1 .. bound.docs : SplitDocument(d, layout)
    \/ OpenFile \/ NewDocument \/ \E d \in 1 .. bound.docs : ShowBuffer(d)
    \/ AppendMessage \/ ShowImage \/ OpenTerminal
    \/ \E id \in 1 .. bound.ids : TerminalExits(id) \/ CloseAPane(id) \/ FocusPane(id)
    \/ CloseOthers \/ CloseViews(TRUE) \/ CloseViews(FALSE)
    \/ FocusNext \/ FocusPrev
    \/ \E dir \in Directions : FocusDirection(dir) \/ SwapDirection(dir)
    \/ TurnContainer \/ TogglePaneMaximized
    \/ Restart

PanesSpec == PanesInit /\ [][PanesNext /\ UNCHANGED bound]_panesVars

\* Bound: what follows a lapse is not explored.
NoLapse == editor.lapses = {}

-----------------------------------------------------------------------------
\* The editor has its type: panes and stashes hold panes, documents a kind.
PanesTypeOK ==
    /\ DOMAIN editor.tree.node \subseteq 1 .. bound.ids
    /\ editor.nextDoc \in 1 .. bound.docs
    /\ editor.docs \in [DOMAIN editor.docs -> Kinds]
    /\ \A id \in Panes(editor.tree) :
         /\ editor.tree.node[id].pane \in PaneValues
         /\ Range(editor.tree.node[id].stash) \subseteq PaneValues \ {Terminal}
    /\ editor.lapses \subseteq {"stashed", "shown"}

\* Whatever was split, closed, swapped, turned, put in front and taken away,
\* and through restarts: parents and children agree, every pane is reached, no
\* container of less than two panes is left inside, the focus is on a pane,
\* and only that pane is maximized, beside others.
TreeWellFormed ==
    editor.lapses = {} =>
      /\ Linked(editor.tree) /\ Connected(editor.tree) /\ Collapsed(editor.tree)
      /\ Focused(editor.tree) /\ MaximizedIsFocused(editor.tree)

\* discardView closes a document with its last view: a document that a pane
\* shows, or that comes back when a terminal exits, is open, as long as none
\* was closed under a stashed view.
HeldBy(t) ==
    {p \in UNION {{t.node[id].pane} \union Range(t.node[id].stash) : id \in Panes(t)} :
        p.kind = "view"}
ViewsHaveDocuments ==
    editor.lapses = {} => \A p \in HeldBy(editor.tree) : p.doc \in DOMAIN editor.docs

\* Discard "closes this displaced view if no other view uses its document":
\* then a view's document is open whatever is stashed.
DiscardKeepsUsedDocuments ==
    \A p \in HeldBy(editor.tree) : p.doc \in DOMAIN editor.docs

\* A session brings back the layout: the same panes in the same containers in
\* the same order, the focus, and what is stashed, but for views of the log and
\* of files that are gone and that no pane shows.
Shape(t) ==
    LET shape[id \in DOMAIN t.node] ==
            [layout |-> t.node[id].layout, pane |-> t.node[id].pane,
             stash |-> t.node[id].stash, focused |-> id = t.focus,
             below |-> [i \in DOMAIN t.node[id].children |->
                           shape[t.node[id].children[i]]]]
    IN  shape[Root]
RestartKeepsPanes ==
    editor.lapses = {} =>
      \A gone \in SUBSET Files(editor) :
        LET lost == {View(d) : d \in Logs(editor) \union
                                 {f \in gone : ~ HasView(editor.tree, f)}}
            kept == [editor.tree EXCEPT !.node = [id \in DOMAIN @ |->
                        [@[id] EXCEPT !.stash =
                            SelectSeq(@, LAMBDA p : p \notin lost)]]]
        IN  \A s \in RestoreSession(editor, gone) :
              /\ Shape(s.tree) = Shape(kept)
              /\ s.tree.maximized # None <=> editor.tree.maximized # None

\* The panes of the tree are a row to the user: a split puts a pane after the
\* focused one, what is closed leaves the others in their order and the focus
\* on one of them, and nothing else but a swap moves a pane (tree.go).
Row == INSTANCE PaneRow WITH row <- Traverse(editor.tree),
                             front <- editor.tree.focus
PanesAreARow == Row!RowSpec

===============================================================================
