\* Chunks of 4 bytes in 2 blocks, up to 8 chunks.
SPECIFICATION Spec
CONSTANTS
  BlockLen = 2
  ChunkLen = 4
  Modes <- MCModes
  MaxDepth = 3
  MaxTotal = 32
INVARIANT StackIsBinaryCounter
PROPERTY StreamSpec
