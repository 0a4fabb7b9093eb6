SPECIFICATION Spec
CONSTANTS
  MsgType = {"m"}
  Ops = {"insert", "idle", "run_until_complete", "run", "run_until_empty", "stop", "error"}
  FirstCap = 1
  MaxGeneration = 3
  MaxDepth = 6
  MaxQueue = 1
INVARIANTS TypeOK StolenIffCalled WaitNeverOnSelf IdleWaitersAlive NestedNeverEmpty UnstoppedRunsGoOn
CHECK_DEADLOCK FALSE
