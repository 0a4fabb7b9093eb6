SPECIFICATION Spec
CONSTANTS
  MaxEvents = 3
  MaxIos = 3
  MaxDepth = 2
PROPERTY NoStaleIo
CHECK_DEADLOCK FALSE
