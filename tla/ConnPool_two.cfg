CONSTANTS
  Conns = {c1, c2}
  Ops = {o1}
  NoConn = NoConn
  MaxConns = 2
  CachePercent = 50
  WheelSize = 2

SPECIFICATION Spec
SYMMETRY Symmetry
CONSTRAINT StillAccepting
INVARIANTS PoolInv
PROPERTY ImplementsAdmission
