SPECIFICATION DiscrimMapSpec
CONSTANTS
  Discrim = {0, 1, 2}
  MaxMany = 3
  Kinds = {"linear", "sorted", "bounded", "array", "list"}
CHECK_DEADLOCK FALSE
INVARIANTS
  FindsItsOwn
  AnswersTheCall
