SPECIFICATION Spec
CONSTANTS
  Request = {r1, r2, r3}
  Limit = 2
  MaxTime = 1
SYMMETRY Interchangeable
INVARIANTS
  HistoryIsRecent
  FollowUpSeesExchange
  SerialExchangesWhole
CHECK_DEADLOCK FALSE
