\* INSERT INTO t SELECT * FROM t over two-slot pages, at most two pages, a
\* pool of two: the copies land in the page the scan is still reading.
CONSTANTS
  t1 = t1  t2 = t2  t3 = t3
  Tuples <- MCTuples
  Match <- MCMatch
  NoTuple = NoTuple
  NumSlots = 2
  MaxPages = 2
  Capacity = 2
  DrainConsumer = FALSE
  LimitN = 1
SPECIFICATION Spec
PROPERTY
  InsertDoubles
