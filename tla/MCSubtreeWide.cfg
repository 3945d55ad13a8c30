SPECIFICATION Spec
CONSTANTS
  BlockLen = 2
  ChunkLen = 2
  MaxSimdDegree = 4
  Degrees <- MCDegrees
  Lens <- MCLens
  MaxLeaves = 8
\* The computation ends with the pair.
CHECK_DEADLOCK FALSE
INVARIANTS
  WritesInSlots
  NoGapAtJoin
  RootLeftToCaller
  PairIsTopOfTree
