SPECIFICATION Spec
CONSTANTS
  MaxId = 2
  NumShards = 2
  MaxBirths = 2
  MaxOps = 2
  EntityRc = TRUE
  Usage = {"weak", "early", "newborn"}
INVARIANTS NoDangling FinalizerHolds WorldAgrees
PROPERTIES KeepsPool DeletionCompletes
CHECK_DEADLOCK FALSE
