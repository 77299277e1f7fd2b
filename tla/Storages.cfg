SPECIFICATION StoragesSpec
CONSTANTS
  MaxId = 3
  Value = {a, b}
  NoComp = NoComp
  Uninit = Uninit
INVARIANTS PartitionsApart ReadsInitialised IteratesInRuns
PROPERTIES ImplementsStorage
CHECK_DEADLOCK FALSE
