SPECIFICATION LiteSpec
CHECK_DEADLOCK FALSE
CONSTANTS
  LiteModels <- MCLiteModels
  LiteRequests <- MCLiteRequests
  LiteMaxBatch = 3
INVARIANTS
  EachEntryAnswered
