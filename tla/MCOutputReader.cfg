SPECIFICATION ReaderSpec
CONSTANTS
  Word = 32
  BlockLen = 2
  MaxPosition = 87
  MaxRead = 35
  SeekPositions <- MCSeekPositions
  SeekOffsets <- MCSeekOffsets
PROPERTY StreamSpec
