SPECIFICATION Spec
CONSTANTS
  MaxEvents = 3
  MaxIos = 3
  MaxDepth = 2
INVARIANTS TypeOK TablesAgree StaleOnlyIfRemoved
CHECK_DEADLOCK FALSE
