\* Three writes of two contents; two goroutines that ask, a change of the
\* document and a reload of the configuration.
SPECIFICATION Spec
CONSTANTS
    MaxContent = 2
    MaxStamp = 3
    Pulls = {p1, p2}
    MaxVersion = 1
    MaxReload = 1
INVARIANTS
    NothingIsLost
    UnmodifiedIsCurrent
    
PROPERTIES
    NoUntoldOverwrite
    ChangesAreNoticed
CHECK_DEADLOCK FALSE
