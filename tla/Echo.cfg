SPECIFICATION FairSpec
CONSTANTS
  Conn = {c1, c2}
  BufSize = 2
  Limit = 1
  MaxBytes = 2
INVARIANTS TypeOK NothingLost TasksFit
PROPERTIES ClosedAfterEcho EverythingEchoed SignalStops
CHECK_DEADLOCK FALSE
