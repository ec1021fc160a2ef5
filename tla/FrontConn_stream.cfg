CONSTANTS
  MaxRequests = 2
  Outstanding = 2
  BodyLens = {0, 1, 2}
  FixedReply = 2
  BbReplies = {1, 3}
  ErrorReply = 3
  BufferSize = 3
  Writes = {w1, w2, w3}

SPECIFICATION FairSpec
INVARIANTS TypeOK RepliesIntact FramesAligned BodyIntact
PROPERTIES AaAnswered ImplementsAnswers
