SPECIFICATION MCSpec
CONSTANTS
  k1 = k1
  k2 = k2
  n1 = n1
  n2 = n2
  n3 = n3
  Links = {l1, l2}
  NoLink = NoLink
  Endpoints = {e1, e2, e3}
  MaxWriters = 1
  LimitKeys = {k1, k2}
  Attempts = {n1, n2, n3}
  KeysOf <- MCKeysOf
  InitialThreshold = 1
  SecondThreshold = 1
  MaxReboots = 1
  Entries = {d1, d2, d3, d4}
  Refusable = {d1}
  QueueSize = 3
  BatchSize = 2
  MaxOutages = 1
CHECK_DEADLOCK FALSE
INVARIANTS
  OneEndpointPerLink
  ScheduleHolds
  BlocksAreStored
  NothingLeftBehind
PROPERTIES
  ClosedSessionEnds
  QueuedIsSaved
