SPECIFICATION PSpec
CONSTANTS
  Names = {m1}
  Versions = {1, 2}
  Creatable = {m1}
  MaxStreams = 1
  None = None
  Requests = {r1, r2}
INVARIANTS
  BundlePresent
