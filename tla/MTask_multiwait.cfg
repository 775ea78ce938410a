SPECIFICATION Spec
CONSTANTS
  Threads = {t1, t2, t3}
  Sems = {s1}
  None = None
  Ops <- MultiOps
  MaxEvents = 6
  MaxCount = 2
  MaxReq = 1
SYMMETRY Symmetry
CHECK_DEADLOCK FALSE
INVARIANT
  MultiWaitSees
