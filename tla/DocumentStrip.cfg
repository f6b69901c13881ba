\* Blanks stripped on the way to normal mode.
SPECIFICATION Spec
CONSTANTS
  Char = {blank, newline}
  Blank = blank
  Newline = newline
  View = {v1, v2}
  FirstView = v1
  SaveOptions <- FinalNewline
  Opened <- OpenedEmpty
  Lapse = {"strip"}
  MaxLen = 2
  MaxSize = 1
  MaxRevision = 2
  MaxLapse = 1
INVARIANT
  ObserversHaveTheText
