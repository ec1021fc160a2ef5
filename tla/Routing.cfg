SPECIFICATION Spec
CONSTANTS
  Conns = {c1, c2}
  NoConn = NoConn
  Sessions = {1}
  BodyLens = {0, 1}
  Spaces = {0, 1}
  BufferSize = 6
  MaxSends = 2
  MaxClients = 2
INVARIANTS TypeOK ForwardedWhole AnswerToHolder
CHECK_DEADLOCK FALSE
