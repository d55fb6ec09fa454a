CONSTANTS
  n1 = n1
  n2 = n2
  Node = {n1, n2}
  Cases <- MCCases
SPECIFICATION Spec
CHECK_DEADLOCK FALSE
INVARIANTS
  TypeOK
  ContentCanBeMade
  OkIsComplete
PROPERTIES
  NothingTooEarly
  EndsOrRepeats
