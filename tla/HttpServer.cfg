SPECIFICATION Spec
CHECK_DEADLOCK FALSE
CONSTANTS
  Clients = {c1, c2, c3}
  NumThreads = 1
  QueueLimit = 1
  None = None
INVARIANTS
  OpsExact
  OneOwner
  WaitMeansDone
PROPERTIES
  Answered
  WaitReturns
