\* Trees of three panes, texts of two characters, five keys.
SPECIFICATION Spec
CONSTANTS
    Bounds <- MCBounds
    Chars = {"a", ".", "(", ")"}
    Triggers = {"."}
    Answers <- MCAnswers
    TriggerLen = 1
    MaxText = 2
    MaxEdits = 3
    MaxGen = 4
    Bindings <- MCBindings
    Keys = {"x", "i", "m", "s", "r", "1", "0", "esc", "bksp"}
    MaxKeys = 5
CONSTRAINT Clean
INVARIANTS
    TreeWellFormed
    ViewsHaveDocuments
    RestartKeepsPanes
    ListFollowsText
    PendingIsWhole
    CleanMacroReplays
PROPERTY
    PanesAreARow
CHECK_DEADLOCK FALSE
