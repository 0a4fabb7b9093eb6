SPECIFICATION FairProgramSpec
CONSTANTS
  Process = {1, 2}
  Pid = {100, 101}
  Sig = {17}
  SIGCHLD = 17
  MaxEvents = 2
  MaxDepth = 2
INVARIANTS PargsTypeOK TablesAgree EntriesCurrent ReportsAreRight NoSleepingZombie RunnersBusy SuccessMeansDone
PROPERTIES ExitsReported PargsEnds
CHECK_DEADLOCK FALSE
