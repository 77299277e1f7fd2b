SPECIFICATION IterSpec
CONSTANTS
  Cases <- MCCases
  RawMax = 65535
INVARIANTS NeverPanics VisitsEachOnce OwnSlice
CHECK_DEADLOCK FALSE
