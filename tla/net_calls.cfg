CONSTANTS
  Clients = {c1, c2}
  TextFrames = "string"
  ClockShared = FALSE
  MaxCalls = 2
  MaxClock = 2
  MaxDrops = 1
SPECIFICATION Spec
CHECK_DEADLOCK FALSE
INVARIANTS TypeOK   InOrder
PROPERTY Settles
