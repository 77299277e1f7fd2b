SPECIFICATION SystemsSpec
CONSTANTS
  SendSystem = {1, 2}
  UnsendSystem = {3}
  Partition = {4, 5}
  Order = {1, 2, 3, 4, 5, 6, 7, 8, 9, 10, 11, 12, 13, 14}
  Before <- const_Before
  After <- const_After
  a = a
  c = c
  g = g
  store = store
  d1 = d1
  d2 = d2
  none = none
  Global = {g, store}
  Component <- const_Component
  p = p
  h = h
  n = n
  StrongRefs <- const_StrongRefs
  NoType = none
  FunctionOf <- const_FunctionOf
  Discrim = {d1, d2}
  Archetype = {a}
  CreationOf <- const_CreationOf
  DefaultGlobals = {store}
  NoInitial = {g}
  SpecOf <- const_SpecOf
  NoSpec = none
INVARIANTS
  NoAliasedAccess
  HoldersBeforeCreators
  ArgumentsNeverFail
CHECK_DEADLOCK FALSE
