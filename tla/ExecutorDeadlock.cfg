SPECIFICATION ExecSpec
CONSTANTS
  main = main
  w1 = w1
  w2 = w2
  SendSystem <- MCSend
  UnsendSystem <- MCUnsend
  Partition <- MCPartition
  Order <- MCOrder
  Before <- MCBefore
  After <- MCAfter
  NoThread = NoThread
  Main = main
  Worker = {w1}
  Timeouts = TRUE
  SystemPanics = FALSE
  DebugAssertions = TRUE
INVARIANT
  NoDeadlockDetected
CHECK_DEADLOCK FALSE
