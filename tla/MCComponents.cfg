SPECIFICATION MCSpec
CONSTANTS
  c1 = c1
  c2 = c2
  c3 = c3
  iso = iso
  flag = flag
  struct = struct
  vec = vec
  ea = ea
  eb = eb
  wa = wa
  a = a
  b = b
  d1 = d1
  d2 = d2
  e1 = e1
  e2 = e2
  Type <- const_Type
  EntityType = {ea, eb}
  WeakType = {wa}
  ArchOf <- const_ArchOf
  Declarations <- const_Declarations
  MaxCalls = 8
  Simple = {flag, c1, c2, c3}
  Isotope = {iso}
  Discrim = {d1, d2}
  Entity = {e1, e2}
  NoEntity = none
  Flag = flag
  Strategies <- const_Strategies
  Given <- const_Given
  MaxDepth = 5
  MaxLives = 2
INVARIANTS
  FindsStrongReferences
  Toposorted
  CreationFailsOnlyIfIncomplete
  InitialisedFromItself
PROPERTIES
  SearchEnds
  RegistrationEnds
CHECK_DEADLOCK FALSE
