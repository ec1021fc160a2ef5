CONSTANTS
  MaxRequests = 2
  Outstanding = 1
  BodyLens = {1}
  FixedReply = 2
  BbReplies = {1, 3}
  ErrorReply = 3
  BufferSize = 3
  Writes = {w1, w2, w3}

SPECIFICATION Spec
INVARIANT WritePosition
