SPECIFICATION FairExecSpec
CONSTANTS
  main = main
  w1 = w1
  w2 = w2
  SendSystem <- MCSend
  UnsendSystem <- MCUnsend
  Partition <- MCPartition
  Order <- MCOrder
  Before <- MCBefore
  After <- MCAfter
  NoThread = NoThread
  Main = main
  Worker = {w1, w2}
  Timeouts = TRUE
  SystemPanics = TRUE
  DebugAssertions = FALSE
INVARIANTS
  ThreadExclusion
  AllCompleteAfterJoin
PROPERTIES
  PanicPropagates
CHECK_DEADLOCK FALSE
