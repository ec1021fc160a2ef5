CONSTANTS
  Conns = {c1}
  Ops = {o1}
  NoConn = NoConn
  MaxConns = 1
  CachePercent = 100
  WheelSize = 2

SPECIFICATION FairSpec
PROPERTY PushedIsRemoved
