\* Child streams of up to three rows over two names and two ages, no two
\* rows equal on every key; Project keeps the name with distinct set;
\* LIMIT 1 is shorter than the longest child.
\* The consumer stops once every plan has returned nil or an error.
CONSTANTS
  Vals <- MCVals
  Sel <- MCSel
  OrderKeys <- MCOrderKeys
  Asc <- MCAsc
  IntTypes <- MCIntTypes
  MaxRows = 3
  Distinct = TRUE
  LimitN = 1
  AllowTies = FALSE
SPECIFICATION Spec
CHECK_DEADLOCK FALSE
INVARIANTS
  TypeOK
  ProjectYieldsSpec
  LimitYieldsPrefix
  SortIsOrdered
  StatsRangeValid
