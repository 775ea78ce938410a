SPECIFICATION Spec
CONSTANTS
  Conns = {c1, c2}
  Watchdog = W
  Sessions = {s1, s2}
  Timers = {a1, a2, a3, a4}
  None = None
  UserSessionLimit = 1
SYMMETRY Symmetry
INVARIANTS TypeOK LinkCount HeldAlive FoundArmed OwnTimer FreedOnce
CHECK_DEADLOCK FALSE
