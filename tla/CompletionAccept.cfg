\* The item a user accepts and the one that is applied.
SPECIFICATION Spec
CONSTANTS
    Bounds <- MCBounds
    Chars = {"a", ".", "(", ")"}
    Triggers = {"."}
    Answers <- MCTwoAnswers
    TriggerLen = 1
    MaxText = 2
    MaxEdits = 3
    MaxGen = 4
    Bindings <- MCBindings
    Keys = {"x", "i", "m", "s", "r", "1", "0", "esc", "bksp"}
    MaxKeys = 5
CONSTRAINT Clean
INVARIANT AcceptedIsSelected
CHECK_DEADLOCK FALSE
