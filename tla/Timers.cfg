SPECIFICATION FairSpec
CONSTANTS
  DeadLimit = 1
  DeadRatio = 1
  MaxEvents = 2
  MaxTimers = 3
  MaxTime = 2
  MaxDepth = 2
  MaxQueue = 1
INVARIANTS TypeOK StatsExact
PROPERTIES GarbageBounded LiveTimeoutsKept DueTimeoutsLeave
CHECK_DEADLOCK FALSE
