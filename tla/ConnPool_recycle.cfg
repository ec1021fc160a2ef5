CONSTANTS
  Conns = {c1, c2}
  Ops = {o1, o2}
  NoConn = NoConn
  MaxConns = 1
  CachePercent = 100
  WheelSize = 2

SPECIFICATION Spec
SYMMETRY Symmetry
INVARIANTS TypeOK NoStaleHandler StillWatched ServeLimit
  ServedHasSocket PendingExplained RecycledClean
