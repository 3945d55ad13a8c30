SPECIFICATION RuntimeSpec
CONSTANTS
  Lengths <- MCLengths
  IntMax = 2
  Capacities <- MCCapacities
INVARIANTS
  ObjectsReleased
  ReturnTells
