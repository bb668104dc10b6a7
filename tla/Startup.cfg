SPECIFICATION SSpec
CHECK_DEADLOCK FALSE
CONSTANTS
  Names = {m1, m2}
  Versions = {1, 2}
  Creatable = {m1, m2}
  Waited = {m1, m2}
  MaxStreams = 2
  None = None
INVARIANTS
  ServedAtStart
PROPERTIES
  StartupReturns
