------------------------------ MODULE MCInterface ------------------------------
\* The interface: panes, popups and the dispatch of keys.  The parts share no
\* state, and a behaviour is one of one of them.
EXTENDS Panes, Completion, KeyInput

\* Many shapes of the tree over one document, and many documents in few panes.
MCBounds == {[ids |-> 5, panes |-> 3, docs |-> 1, images |-> FALSE],
             [ids |-> 3, panes |-> 2, docs |-> 3, images |-> FALSE],
             [ids |-> 3, panes |-> 2, docs |-> 2, images |-> TRUE]}

\* Nothing, and a word that can be typed beside one that cannot
MCAnswers == {<<>>, <<<<"a", "a">>, <<"b">>>>}

\* The same words in another order, so that a place names either
MCTwoAnswers == MCAnswers \cup {<<<<"b">>, <<"a", "a">>>>}

Binding(m, seq, name, counted, reads, enters) ==
    [mode |-> m, keys |-> seq, name |-> name, counted |-> counted,
     reads |-> reads, enters |-> enters]

\* Commands of one key and of two, that read no character, one and two
MCBindings ==
    {Binding("normal", <<"x">>, "delete", TRUE, 0, "normal"),
     Binding("normal", <<"i">>, "insert_mode", FALSE, 0, "insert"),
     Binding("normal", <<"m", "x">>, "match", TRUE, 0, "normal"),
     Binding("normal", <<"m", "s">>, "surround_add", FALSE, 1, "normal"),
     Binding("normal", <<"m", "r">>, "surround_replace", TRUE, 2, "normal"),
     Binding("insert", <<"esc">>, "normal_mode", FALSE, 0, "normal")}

VARIABLE part

Init ==
    /\ part \in {"panes", "popups", "keys"}
    /\ part = "panes" \/ bound = CHOOSE b \in MCBounds : TRUE
    /\ PanesInit /\ CompletionInit /\ KeyInit

Next ==
    \/ part = "panes" /\ PanesNext /\ UNCHANGED <<part, bound, popupVars, keyVars>>
    \/ part = "popups" /\ CompletionNext /\ UNCHANGED <<part, panesVars, keyVars>>
    \/ part = "keys" /\ KeyNext /\ UNCHANGED <<part, panesVars, popupVars>>

Spec == Init /\ [][Next]_<<part, panesVars, popupVars, keyVars>>

\* Bound: what follows a lapse is not explored.
Clean == NoLapse /\ NotStacked
================================================================================
