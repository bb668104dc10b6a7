SPECIFICATION Spec
CONSTANTS
  Names = {m1, m2}
  Versions = {1, 2}
  Creatable = {m1, m2}
  MaxStreams = 3
  None = None
INVARIANTS
  RoundSettles
  ServingMatchesReady
  FollowsLastStream
PROPERTIES
  NoServingGap
  QueueDrains
