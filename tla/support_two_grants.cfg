SPECIFICATION Spec
CONSTANTS
  i1 = i1
  Sessions = {s1, s2}
  Ssh = {s1, s2}
  Instances <- OneInstance
  Inst <- InstOne
  Ports = {1, 2}
  NoPort = NoPort
  NoSession = NoSession
  Tasks = {q1}
  Expiry = Expiry
  MaxRestarts = 0
  MaxDbErrors = 0
SYMMETRY SshSymmetry
INVARIANT
  OneSshPerInstance
CHECK_DEADLOCK FALSE
