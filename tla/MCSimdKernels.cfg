SPECIFICATION Spec
CONSTANTS
  Word = 32
  Inputs <- MCInputs
  Blocks <- MCBlocks
  Starts <- MCStarts
INVARIANTS
  RoundsAgree
  HashManyAgrees
  XofManyAgrees
