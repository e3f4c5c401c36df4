SPECIFICATION FairSpec
CONSTANTS
  i1 = i1
  Sessions = {s1, u1}
  Ssh = {s1}
  Instances <- OneInstance
  Inst <- InstOne
  Ports = {1, 2}
  NoPort = NoPort
  NoSession = NoSession
  Tasks = {q1}
  Expiry = Expiry
  MaxRestarts = 1
  MaxDbErrors = 1
INVARIANTS
  StrayOnlyOvertaken
  OpenIsServed
  RevokedOnlyLate
PROPERTY
  DueSettles
CONSTRAINT OneTrouble
CHECK_DEADLOCK FALSE
