\* Two loads at a time, one edit, one commit, room for one event.
SPECIFICATION VcsSpec
CONSTANTS
    Loads = {l1, l2}
    Capacity = 1
    MaxText = 1
    MaxHead = 1
INVARIANTS
    HunksFollow
    DrawnIsCurrent
PROPERTIES
    DifferIsNotReplaced
    NobodyWaitsForever
CHECK_DEADLOCK FALSE
