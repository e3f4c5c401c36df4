SPECIFICATION MCSpec
CONSTANTS
  Instances = {x, y}
  Tokens = {t}
  Requests = {r, q}
  Calls = {1, 2, 3}
  NoInst = NoInst
  NoCall = NoCall
  MaxUses <- MCMaxUses
  Key <- MCKey
  MaxPending = 1
  Licenses = {l1, l2}
  NoLicense = NoLicense
  Termed = {l2}
  Grants = {1, 2, 3}
  Links = {1, 2}
  NoLink = NoLink
  MaxCut = 1
  Archives = {1, 2, 3}
  Keep = 1
  Sweeps = {s}
  MaxAsked = 3
  MaxHalts = 1
  Visits = {0, 1, 2, 3}
  Old = {0}
  NoVisit = NoVisit
  Codes = {bc}
  MaxFailures = 2
  MaxStep = 2
SYMMETRY MCSymmetry
CHECK_DEADLOCK FALSE
INVARIANTS
  TokenCounts
  SharedRefOnlyOverlapping
  TwinsOnlyOverlapping
  RequestsHold
  HeldOnlyOverlapping
  OneActiveUnlessOverlapping
  FilesMatchRows
  RetentionExact
  ScheduledOnce
  SessionsEndWithRevocation
  CodeServesOnce
PROPERTIES
  RevokedTokenUnused
  StandingNotDeleted
