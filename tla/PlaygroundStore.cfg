SPECIFICATION Spec
CONSTANTS
  Visitor = {v1, v2}
  Id = {id1, id2, id3, id4}
  Quota = 2
  TTL = 2
  Every = 3
  MaxTime = 7
SYMMETRY Interchangeable
INVARIANTS
  IndexExact
  GoneInTime
PROPERTIES
  FreshEntriesSurvive
CHECK_DEADLOCK FALSE
