SPECIFICATION FairSpec
CONSTANTS
  StreamCap = 2
  MaxParts = 2
  EventCap = 2
  MaxIter = 2
INVARIANTS
  ClientLearnsOutcome
  SavedReplyIsLastAnswer
  TraceCountsUsage
  NoOrphanStream
  OnlyChannelsBlock
  StuckOnlyWhenAbandoned
PROPERTIES
  ImplementsContract
  ImplementsThread
  RequestRunsOut
  ServedRequestEnds
  AbandonedRequestSettles
CHECK_DEADLOCK FALSE
