------------------------------- MODULE MCText -------------------------------
(***************************************************************************)
(* Lists of operations composed, and a user who edits a text with them.    *)
(* The two share no state, and a behaviour is one of one of them.          *)
(*                                                                         *)
(* Two letters of either case, an underscore, a pair of brackets, a quote, *)
(* a space, a newline, and a character for each mark of a comment.         *)
(***************************************************************************)
EXTENDS Editor, ChangeSetOps

CONSTANTS x, X, u, ob, cb, qu, nl, sp, ha, bo, be

SampleTexts == {<< >>, <<ob>>, <<ob, cb, sp>>}
InsertedTexts == {<<x>>, <<sp, x>>}

Brackets == {<<ob, cb>>}
CasePairs == {<<x, X>>}
SearchPatterns == {{x, X}, {ob}}

Scene(texts, ranges, modes, families, most) ==
  [texts |-> texts, ranges |-> ranges, modes |-> modes, families |-> families, edits |-> most]

\* Texts that have what the families of commands look for.
AllScenes == {
  \* One range moves in words, lines, paragraphs and brackets.
  Scene({<<x, X, u, x, sp, ob, x>>, <<x, nl, nl, sp, nl, x, x>>}, 1, {"normal", "insert"},
        {"move", "vertical", "find", "mode"}, 0),
  Scene({<<ob, ob, x, cb, cb>>, <<qu, x, sp, qu>>, <<ob, cb, ob, cb>>}, 1, {"normal"}, {"find", "within"}, 0),
  \* Two ranges are chosen, and moved in lines.
  Scene({<<x, sp, nl, x, ob>>}, 2, {"normal"}, {"select", "within", "click", "mode"}, 0),
  Scene({<<x, x, nl, nl, x>>}, 2, {"normal"}, {"vertical"}, 0),
  \* An edit at two ranges.
  Scene({<<x, ob, x>>, <<ob, x, cb>>, <<x, nl, X>>}, 2, {"normal"},
        {"delete", "open", "paste", "surround"}, 1),
  Scene({<<sp, x, nl, x>>, <<ha, sp, x>>, <<x, nl, ha>>}, 2, {"normal"}, {"lines", "comment"}, 1),
  Scene({<<ha, sp, x, nl, x>>, <<bo, sp, x, sp, be>>, <<ob, x, cb, nl>>}, 1, {"normal"},
        {"lines", "comment", "surround", "open"}, 1),
  \* Two cursors type.
  Scene({<< >>, <<x, nl>>, <<sp, sp, x>>}, 2, {"insert"}, {"type", "kill"}, 2),
  Scene({<<sp, sp, ob, cb>>, <<ha, x>>, <<qu, qu>>}, 2, {"insert"}, {"type"}, 1),
  Scene({<<sp>>, <<x, sp>>}, 2, {"normal"}, {"type", "mode"}, 1)}

VARIABLE part

Idle ==
  /\ scene = CHOOSE any \in Scenes : TRUE
  /\ ed = [text |-> << >>, sel |-> Single(Point(0)), mode |-> "idle", goals |-> << >>,
           register |-> << >>, restore |-> FALSE]
  /\ edits = 0

NoLists ==
  /\ sample = << >> /\ a = NoList /\ b = NoList
  /\ left = [a |-> << >>, b |-> << >>] /\ out = NoList /\ outcome = "composed"

Init ==
  \/ part = "lists" /\ Idle /\ ComposeInit
  \/ part = "editor" /\ NoLists /\ EditorInit

Beside(Step) == part = "editor" /\ Step /\ UNCHANGED <<part, composeVars>>

\* EditorNext, its groups of actions one by one.
Next ==
  \/ part = "lists" /\ ComposeNext /\ UNCHANGED <<part, editorVars>>
  \/ Beside(Moves) \/ Beside(Selects) \/ Beside(ChangesMode)
  \/ Beside(EditsRanges) \/ Beside(EditsAround) \/ Beside(Types)

Spec == Init /\ [][Next]_<<part, editorVars, composeVars>> /\ ComposeFairness

=============================================================================
