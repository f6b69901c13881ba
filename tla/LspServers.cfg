\* Two servers and two documents, one of which is edited, in three parts, each up
\* to its first lapse.
SPECIFICATION Spec
CONSTANTS
  gopls = gopls
  linter = linter
  d1 = d1
  d2 = d2
  w1 = w1
  Names <- TwoServers
  FullSync = {linter}
  Doc = {d1, d2}
  Visible <- OneVisible
  Hidden = {}
  UI = UI
  Startup = Startup
  Worker = {w1}
  MaxVersion = 2
  MaxClient = 2
CONSTRAINT Explored
INVARIANTS
  ServersFollow
  MessagesAddUp
  NothingLeftOpen
