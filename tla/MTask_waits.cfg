SPECIFICATION Spec
CONSTANTS
  Threads = {t1, t2, t3}
  Sems = {s1}
  None = None
  Ops <- WaitOps
  MaxEvents = 5
  MaxCount = 1
  MaxReq = 1
SYMMETRY Symmetry
CHECK_DEADLOCK FALSE
INVARIANTS
  StatusExact NoLostSleeper TableExact
