SPECIFICATION FairSpec
CONSTANTS
  Clients = {c1, c2}
  Keys = {k1, k2}
  Elems = {1, 2, 3}
  None = None
  MaxElements = 2
  MaxWeight = 2
  MaxRefs = 2
CHECK_DEADLOCK FALSE
INVARIANTS
  TypeOK TableIsQueue Accounted LinksHeld
PROPERTIES
  IsLinkCache CallsReturn
