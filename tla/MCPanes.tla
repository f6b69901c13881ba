------------------------------- MODULE MCPanes -------------------------------
EXTENDS Panes

\* Many shapes of the tree over one document, and many documents in few panes.
MCBounds == {[ids |-> 5, panes |-> 3, docs |-> 1, images |-> FALSE],
             [ids |-> 3, panes |-> 2, docs |-> 3, images |-> TRUE]}
==============================================================================
