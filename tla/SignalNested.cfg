SPECIFICATION Spec
CONSTANTS
  Thread = {"t1"}
  Sig = {"usr1", "usr2"}
  MaxRaised = 2
INVARIANT NoSelfDeadlock
CHECK_DEADLOCK FALSE
