SPECIFICATION FairSpec
CONSTANTS
  Job = {1, 2}
  MaxThreads = 2
  MaxItems = 2
  MaxEvents = 1
  MaxDepth = 2
INVARIANTS TypeOK
PROPERTIES IsResultStreams JobsAnswered
CHECK_DEADLOCK FALSE
