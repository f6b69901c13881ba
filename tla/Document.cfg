\* Two views, texts of one character, three revisions: jumps between branches.
SPECIFICATION Spec
CONSTANTS
  Char = {blank, newline}
  Blank = blank
  Newline = newline
  View = {v1, v2}
  FirstView = v1
  SaveOptions <- TwoOptions
  Opened <- OpenedEmpty
  Lapse = {"strip", "failedSave"}
  MaxLen = 1
  MaxSize = 1
  MaxRevision = 3
  MaxLapse = 2
INVARIANTS
  TypeOK
  TextMatchesHistory
  UnmodifiedIsSaved
  ObserversFollow
  HistoryWellFormed
PROPERTY
  NothingForgotten
