SPECIFICATION Spec
CONSTANTS
  i1 = i1
  NoConn = NoConn
  NoCmd = NoCmd
  Conns = {k1, k2, k3}
  Cmds = {c1, c2}
  Queued = {c1}
  Instances <- OneInstance
  RunCmds <- NotQueued
  Target <- TargetOne
  Owner <- OwnerOne
  CapSets <- FullCaps
  Results = {"done"}
  Capacity = 2
  MaxIssued = 1
  MaxRestarts = 1
  MaxDbErrors = 1
SYMMETRY ConnSymmetry
VIEW SafetyView
INVARIANTS
  TypeOK
  NothingForgotten
PROPERTY RunLifecycleHolds
CHECK_DEADLOCK FALSE
