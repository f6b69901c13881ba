\* One server and a document that is never edited, in two lives, with every lapse.
SPECIFICATION FairSpec
CONSTANTS
  gopls = gopls
  linter = linter
  d1 = d1
  d2 = d2
  w1 = w1
  Names <- OneServer
  FullSync = {}
  Doc = {d1}
  Visible <- OneVisible
  Hidden = {}
  UI = UI
  Startup = Startup
  Worker = {w1}
  MaxVersion = 0
  MaxClient = 2
PROPERTY
  Responsive
INVARIANT
  NoOrphans
