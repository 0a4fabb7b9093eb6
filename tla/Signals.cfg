SPECIFICATION FairSpec
CONSTANTS
  Thread = {"t1", "t2"}
  Sig = {"usr1"}
  MaxRaised = 3
INVARIANTS TypeOK NoLostWakeup EveryLoopRegistered
PROPERTY SignalsHeard
CHECK_DEADLOCK FALSE
