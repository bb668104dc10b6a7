SPECIFICATION TSpec
CHECK_DEADLOCK FALSE
CONSTANTS
  AllowedSizes <- MCAllowedSizes
  MaxBatch = 4
  Shapes <- MCShapes
INVARIANT BatchingIsTransparent
