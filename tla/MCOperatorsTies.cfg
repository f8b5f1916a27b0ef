\* ORDER BY name ASC, age DESC over child streams that may repeat a row.
CONSTANTS
  Vals <- MCVals
  Sel <- MCSel
  OrderKeys <- MCOrderKeys
  Asc <- MCAsc
  IntTypes <- MCIntTypes
  MaxRows = 3
  Distinct = TRUE
  LimitN = 1
  AllowTies = TRUE
SPECIFICATION Spec
CHECK_DEADLOCK FALSE
INVARIANT
  SortIsOrdered
