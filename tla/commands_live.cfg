SPECIFICATION FairSpec
CONSTANTS
  i1 = i1
  NoConn = NoConn
  NoCmd = NoCmd
  Conns = {k1, k2}
  Cmds = {c1, c2}
  Queued = {c1}
  Instances <- OneInstance
  RunCmds <- NotQueued
  Target <- TargetOne
  Owner <- OwnerOne
  CapSets <- FullCaps
  Results = {"done"}
  Capacity = 3
  MaxIssued = 1
  MaxRestarts = 1
  MaxDbErrors = 0
INVARIANT NoOrphanWaiter
PROPERTIES
  Delivered
  Settled
  ReturnedIsRecorded
CHECK_DEADLOCK FALSE
