SPECIFICATION FairSpec
CONSTANTS
  Texts <- MCTexts
  Handles = {h1, h2}
  Values = {1, 2}
CHECK_DEADLOCK FALSE
INVARIANTS
  TypeOK RowsAreGroups RowsKept
PROPERTIES
  FetchReturns
