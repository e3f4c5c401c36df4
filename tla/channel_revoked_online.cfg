SPECIFICATION Spec
CONSTANTS
  Instances = {i1}
  Conns = {k1, k2}
  NoConn = NoConn
  Certs = {x1, x2, x3}
  NoCert = NoCert
  NoInst = NoInst
  Jobs = {p1}
  MaxRestarts = 0
SYMMETRY Symmetry
INVARIANT RevocationIsImmediate
CHECK_DEADLOCK FALSE
