\* Chunks of two blocks of one byte, a message of up to 10 chunks.
SPECIFICATION Spec
CONSTANTS
  BlockLen = 1
  ChunkLen = 2
  MaxTotal = 20
  ReuseOffsetHashers = FALSE
INVARIANTS
  DebugAssertsHold
  MergedIsWholeTree
