SPECIFICATION Spec
CONSTANTS
  Instances = {i1}
  Conns = {k1, k2}
  NoConn = NoConn
  Certs = {x1, x2, x3}
  NoCert = NoCert
  NoInst = NoInst
  Jobs = {p1, p2, p3}
  MaxRestarts = 1
SYMMETRY Symmetry
INVARIANTS
  TypeOK
  ServedIsRegistered
  RegisteredIsServed
  OnlyHandshakesEscape
PROPERTY RevokedOnlyOvertaken
CHECK_DEADLOCK FALSE
