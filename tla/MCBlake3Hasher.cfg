\* Chunks of 4 bytes in 2 blocks, up to 16 chunks: 2^MaxDepth of them.
SPECIFICATION FairSpec
CONSTANTS
  BlockLen = 2
  ChunkLen = 4
  Modes <- MCModes
  MaxDepth = 4
  MaxTotal = 64
INVARIANTS
  TypeOK
  Tiled
  BytesAccounted
  AlignedSubtrees
  StackFits
  RootNeverCompressed
  TwoEntriesToFinalize
  NoUnmergedPair
PROPERTIES
  UpdateReturns
  StreamSpec
