SPECIFICATION Spec
CONSTANTS
  Ids = {1, 2, 3, 4}
  Keys = {1, 2}
  Missing = Missing
  None = None
  Fields <- MCFields
  Query <- MCQuery
  AllowedFilters = {"location"}
  Limit = 2
  MaxChanges = 2
INVARIANTS
  SteadyRowsAreReturnedOnce
  SteadyRowsAreAhead
  OffsetWalksDriftByChanges
PROPERTIES
  BackIsAdjacent
CHECK_DEADLOCK FALSE
