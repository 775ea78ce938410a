SPECIFICATION FairSpec
CONSTANTS
  Conns = {c1, c2}
  Watchdog = W
  Groups = {g1}
  Apps = {a1}
  None = None
  MaxLost = 1
INVARIANTS TypeOK LinksExact HeldListed
PROPERTY RetiredFreed
CHECK_DEADLOCK FALSE
