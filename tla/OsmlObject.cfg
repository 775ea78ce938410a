SPECIFICATION Spec
CONSTANTS
  Threads = {t1, t2}
  Files = {f1}
  Objs = {1, 2, 3, 4}
  Queries = {q1}
  None = None
  MaxRefs = 2
SYMMETRY Symmetry
CHECK_DEADLOCK FALSE
INVARIANTS
  TypeOK LinkExact OpensExact SessionEnds
