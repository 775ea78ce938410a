SPECIFICATION MFairSpec
CONSTANTS
  Threads = {t1, t2, t3, t4}
  Sems = {s1}
  None = None
  Ops = {"create", "yield", "exit", "post", "get"}
  MaxEvents = 4
  MaxCount = 2
  MaxReq = 1
  Mutex = s1
CHECK_DEADLOCK FALSE
PROPERTIES
  IsFairLock Served
