SPECIFICATION Spec
CONSTANTS
  StreamCap = 1
  MaxParts = 2
  EventCap = 1
  MaxIter = 1
INVARIANTS
  DoneIsStored
CHECK_DEADLOCK FALSE
