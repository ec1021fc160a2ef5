SPECIFICATION Spec
CONSTANTS
  Conns = {c1, c2}
  WheelSize = 3
  ExpiredTime = 8
  MaxCached = 1
  Delay = 1
INVARIANTS IdleBound StartMargin
CHECK_DEADLOCK FALSE
