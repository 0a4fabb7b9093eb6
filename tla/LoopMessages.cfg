SPECIFICATION Spec
CONSTANTS
  MsgType = {"m"}
  Ops = {"insert", "send", "post", "channel", "expect_message", "run_one", "idle"}
  FirstCap = 4
  MaxGeneration = 2
  MaxDepth = 4
  MaxQueue = 2
INVARIANT OnlyExpected
PROPERTY IsAsPromised
CHECK_DEADLOCK FALSE
