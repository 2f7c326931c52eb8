SPECIFICATION Spec
CONSTANTS
  Capacities = {0, 1, 3}
  MaxTime = 3
  MaxStates = 5
INVARIANTS
  TypeOK
  MissingIsOld
  AnswerIsNearest
