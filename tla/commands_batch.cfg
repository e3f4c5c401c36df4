SPECIFICATION Spec
CONSTANTS
  i1 = i1
  NoConn = NoConn
  NoCmd = NoCmd
  Conns = {k1, k2}
  Cmds = {c1, c2}
  Queued = {c1, c2}
  Instances <- OneInstance
  RunCmds <- NotQueued
  Target <- TargetOne
  Owner <- OwnerOne
  CapSets <- UnevenCaps
  Results = {"done"}
  Capacity = 2
  MaxIssued = 2
  MaxRestarts = 0
  MaxDbErrors = 0
SYMMETRY FullSymmetry
CONSTRAINT InTime
INVARIANT NothingForgotten
PROPERTY ExecutedInOrder
CHECK_DEADLOCK FALSE
