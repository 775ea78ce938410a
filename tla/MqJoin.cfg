SPECIFICATION Spec
CONSTANTS
  Sources = {1, 2, 3, 4}
  Values = {1, 2, 3}
  Null = Null
  Cases <- MCCases
CHECK_DEADLOCK FALSE
INVARIANTS
  TypeOK  CursorsPaired
