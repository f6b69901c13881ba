------------------------------- MODULE PaneRow -------------------------------
(***************************************************************************)
(* What the user is promised of the panes, without the tree that arranges  *)
(* them: a row of panes in reading order, one of which has the focus.      *)
(* Panes implements it.                                                    *)
(***************************************************************************)
EXTENDS Integers, SequencesExt

VARIABLES row,     \* the panes, by id, in reading order
          front    \* the one with the focus

rowVars == <<row, front>>

RowInit == row = <<front>>

\* A new pane comes after the focused one and takes the focus.
OpenBeside(old, new) ==
    /\ Len(new) = Len(old) + 1
    /\ front' \notin Range(old)
    /\ \E i \in DOMAIN old :
         old[i] = front /\ new = InsertAt(old, i + 1, front')

\* Panes go, the others keep their order, and if the focused one goes, the
\* focus is left on one that stays.
CloseSome(old, new) ==
    /\ new # << >> /\ Len(new) < Len(old)
    /\ new = SelectSeq(old, LAMBDA id : id \in Range(new))
    /\ front' \in Range(new)
    /\ front \in Range(new) => front' = front

MoveFocus(old, new) == new = old /\ front' \in Range(new)

\* The focused pane changes places with another and keeps the focus.
Exchange(old, new) ==
    /\ front' = front
    /\ \E i, j \in DOMAIN old :
         old[i] = front /\ new = [old EXCEPT ![i] = old[j], ![j] = front]

\* A restart brings back no more panes, numbered anew in reading order.
Reopen(old, new) ==
    /\ Len(new) <= Len(old) /\ front' \in Range(new)
    /\ \A i, j \in DOMAIN new : i < j => new[i] < new[j]

RowNext ==
    \E old \in {row}, new \in {row'} :
        \/ OpenBeside(old, new) \/ CloseSome(old, new) \/ MoveFocus(old, new)
        \/ Exchange(old, new) \/ Reopen(old, new)

RowSpec == RowInit /\ [][RowNext]_rowVars
==============================================================================
