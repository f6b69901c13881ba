SPECIFICATION PanesSpec
CONSTANT Bounds <- MCBounds
INVARIANT DiscardKeepsUsedDocuments
