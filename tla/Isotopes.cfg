SPECIFICATION IsotopesSpec
CONSTANTS
  MaxId = 3
  NumShards = 1
  System = {s1, s2}
  Discrim = {d1, d2}
  Strategies = {"auto", "required"}
INVARIANTS
  LocksNeverFail
  FirstHoldersFilled
CHECK_DEADLOCK FALSE
SYMMETRY Symmetry
