CONSTANTS
  Conns = {b1, b2}
  Callers = {f1}
  Sites = {0, 3}
  NoConn = NoConn
  NoCaller = NoCaller

SPECIFICATION FairSpec
INVARIANTS TypeOK WorkingListed StillListening DanglingHadFailed SearchIsComplete
PROPERTIES FailedIsRemoved SearchEnds
