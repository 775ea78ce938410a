SPECIFICATION Spec
CONSTANTS
  Trees <- MCTrees
  Slots = {1, 2}
  Lists = {q, r}
  Query = q
  Control = Control
  Contents <- MCContents
  Null = Null
  Err = Err
  MaxRows = 2
INVARIANTS
  TypeOK
  EvalIsFresh
  CountsEveryRow
