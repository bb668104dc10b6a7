SPECIFICATION Spec
CONSTANTS
  Readers = {r1}
  Writers = {w1}
  MaxUpdates = 1
  StartsNull = TRUE
  None = None
INVARIANTS
  NotificationAlive
CHECK_DEADLOCK FALSE
