SPECIFICATION Spec
CONSTANTS
  Word = 32
  t1 = t1
  t2 = t2
  Threads <- MCThreads
  MaxOutblocks = 2
SYMMETRY Symmetry
INVARIANTS
  OnlySupportedInstructions
  DegreeMatchesBackend
PROPERTY CacheStable
