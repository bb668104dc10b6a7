SPECIFICATION Spec
CONSTANTS
  Clients = {c1, c2, c3}
  BatchThreads = {t1, t2}
  Processors = {p1, p2}
  MaxBatchSize = 2
  MaxSize = 3
  DynamicBatching = TRUE
  MaxEnqueued = 1
  None = None
INVARIANTS
  PoolIsExact
  TasksAlive
  TimeoutIsOwn
PROPERTIES
  PredictReturns
