CONSTANTS
  Clients = {c1}
  MaxOpen = 1
  MaxLinks = 2
  QueueSize = 2
  DownSize = 3
SPECIFICATION Spec
CHECK_DEADLOCK FALSE
INVARIANTS
  BoundByCurrent
