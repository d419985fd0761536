SPECIFICATION FairSpec
CONSTANTS
  EventCap = 1
  MaxIter = 2
  MaxParts = 2
  MaxDepth = 3
INVARIANTS
  OneOutcomeLast
  NothingLeftRunning
  ExchangeWholeOrAbsent
  NeverStuck
PROPERTIES
  EverythingEnds
  StepsRunOut
CHECK_DEADLOCK FALSE
