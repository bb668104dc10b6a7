SPECIFICATION AllSpec
CONSTANTS
  Readers = {r1, r2}
  Writers = {w1, w2}
  MaxUpdates = 3
  StartsNull = TRUE
  None = None
  TrRequests = {t1, t2}
  TrGroups <- MCGroups
  NoRunner = NoRunner
INVARIANTS
  PinnedObjectAlive
  OnlyNullIsLate
  RunnersExclusive
PROPERTIES
  UpdateReturns
  ImplementsRegister
  TimedTasksEnd
