SPECIFICATION CyclesSpec
CONSTANTS
  SendSystem <- MCSend
  UnsendSystem <- MCUnsend
  Partition <- MCPartition
  Order <- MCOrder
  Before <- MCBefore
  After <- MCAfter
INVARIANTS
  PlannerInv
  NoPlannerPanic
  NoStall
  VerdictCorrect
PROPERTIES
  ImplementsSchedule
  ScanTerminates
CHECK_DEADLOCK FALSE
