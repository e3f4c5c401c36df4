SPECIFICATION Spec
CONSTANTS
  i1 = i1
  NoConn = NoConn
  NoCmd = NoCmd
  Conns = {k1}
  Cmds = {c1}
  Queued = {c1}
  Instances <- OneInstance
  RunCmds <- NotQueued
  Target <- TargetOne
  Owner <- OwnerOne
  CapSets <- FullCaps
  Results = {"done"}
  Capacity = 2
  MaxIssued = 1
  MaxRestarts = 0
  MaxDbErrors = 0
PROPERTY QueueLifecycleHolds
CHECK_DEADLOCK FALSE
