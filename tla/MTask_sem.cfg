SPECIFICATION Spec
CONSTANTS
  Threads = {t1, t2, t3, t4, t5}
  Sems = {s1}
  None = None
  Ops <- SemOps
  MaxEvents = 4
  MaxCount = 2
  MaxReq = 2
SYMMETRY Symmetry
CHECK_DEADLOCK FALSE
INVARIANTS
  TypeOK NoStaleWait NoMissedWake OldestFirst
PROPERTY
  CountsNotMade
