CONSTANTS
  Timers = {t1, t2, t3}
  NoTimer = NoTimer
  Lens = {0, 1, 3}
  BuffSize = 3
  Slack = 2

SPECIFICATION FairSpec
INVARIANTS TypeOK InTimeIsOver MessageInPlace WholeWithoutError
PROPERTY CallEnds
