CONSTANTS
  Limit = 2
  InitialLen = 1
  MaxLive = 1
SPECIFICATION Spec
PROPERTY
  CloseFlushesAccepted
CHECK_DEADLOCK FALSE
