SPECIFICATION Spec
CONSTANTS
  MaxConnections = 3
  ReplySize = 2
  MaxBurst = 2
  MaxEvents = 2
CHECK_DEADLOCK FALSE
INVARIANT
  BufferProtected
