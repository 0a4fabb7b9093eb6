SPECIFICATION Spec
CONSTANTS
  MsgType = {"m"}
  Ops = {"insert"}
  FirstCap = 4
  MaxGeneration = 5
  MaxDepth = 10
  MaxQueue = 1
INVARIANT PointersValid
CHECK_DEADLOCK FALSE
