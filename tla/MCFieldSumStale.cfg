\* Two calls of computeFieldSum with one BufferPool of two pages; CSV files
\* of up to two rows, two-slot pages, at most two pages.
CONSTANTS
  Tuples <- MCTuples
  NoTuple = NoTuple
  NumSlots = 2
  MaxPages = 2
  Capacity = 2
  MaxRows = 2
  MaxCalls = 2
SPECIFICATION Spec
CHECK_DEADLOCK FALSE
INVARIANT
  SumMatchesCsv
