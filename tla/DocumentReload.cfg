\* A reload, then an undo.
SPECIFICATION Spec
CONSTANTS
  Char = {blank, newline}
  Blank = blank
  Newline = newline
  View = {v1, v2}
  FirstView = v1
  SaveOptions <- FinalNewline
  Opened <- OpenedEmpty
  Lapse = {"reload"}
  MaxLen = 2
  MaxSize = 1
  MaxRevision = 2
  MaxLapse = 1
PROPERTY
  UndoReverts
