SPECIFICATION EallocSpec
CONSTANTS
  MaxId = 4
  NumShards = 3
INVARIANTS
  IdsInOnePlace
  DistributesEvenly
PROPERTIES
  ImplementsPool
CHECK_DEADLOCK FALSE
