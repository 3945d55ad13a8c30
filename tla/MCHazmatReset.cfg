\* As MCHazmatHasher, with callers that reset hashers whose input offset is set.
SPECIFICATION Spec
CONSTANTS
  BlockLen = 1
  ChunkLen = 2
  MaxTotal = 20
  ReuseOffsetHashers = TRUE
PROPERTY ResetIsNew
