CONSTANTS
  Conns = {b1}
  Callers = {f1, f2}
  Sites = {0}
  NoConn = NoConn
  NoCaller = NoCaller

SPECIFICATION Spec
INVARIANT SentIsOwn
