SPECIFICATION Spec
CONSTANTS
  i1 = i1
  Sessions = {s1, s2}
  Ssh = {s1, s2}
  Instances <- OneInstance
  Inst <- InstOne
  Ports = {1, 2}
  NoPort = NoPort
  NoSession = NoSession
  Tasks = {q1}
  Expiry = Expiry
  MaxRestarts = 0
  MaxDbErrors = 1
SYMMETRY SshSymmetry
CONSTRAINT OneTrouble
VIEW SafetyView
INVARIANTS
  TypeOK
  SharedOnlyOverlapping
  GrantStands
CHECK_DEADLOCK FALSE
