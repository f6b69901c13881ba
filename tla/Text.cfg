\* Edits of texts of up to three characters and edits of the result; texts of up
\* to seven characters under up to two ranges.
SPECIFICATION Spec
CONSTANTS
  x = x
  X = X
  u = u
  ob = ob
  cb = cb
  qu = qu
  nl = nl
  sp = sp
  ha = ha
  bo = bo
  be = be
  Char = {x, X, u, ob, cb, qu, nl, sp, ha, bo, be}
  Word = {x, X, u}
  Newline = nl
  Space = sp
  NoChar = NoChar
  Under = u
  Upper = {X}
  Lower = {x}
  Bracket <- Brackets
  Quote = {qu}
  MaxPlaintextScan = 3
  Token = ha
  BlockStart = bo
  BlockEnd = be
  IndentWidth = 2
  IndentsAfter = {ob, bo, be}
  ContinueComments = TRUE
  Scenes <- AllScenes
  Cases <- CasePairs
  Patterns <- SearchPatterns
  Typeable = {x, ob, cb, qu}
  MaxCount = 2
  Samples <- SampleTexts
  Insertions <- InsertedTexts
  MaxChanges = 2
  MaxMiddle = 3
INVARIANTS
  Canonical
  ListsMeanChangeSets
  PositionsFollow
  NothingLost
  ComposesAsPromised
  SelectionStaysWhole
  CountsRepeat
  GoalColumnKept
  BracketsMatchBack
  CursorsActAlike
  ReversalsRestore
PROPERTY
  ComposeTerminates
CHECK_DEADLOCK FALSE
