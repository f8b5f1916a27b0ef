\* Heap file and buffer pool: two-slot pages, up to two pages, a pool of
\* one page, four distinct tuples.
CONSTANTS
  t1 = t1  t2 = t2  t3 = t3  t4 = t4
  Tuples <- MCTuples
  NoTuple = NoTuple
  NumSlots = 2
  MaxPages = 2
  Capacity = 1
SPECIFICATION Spec
INVARIANTS
  TypeOK
  CacheWithinCapacity
  CleanPagesMatchDisk
PROPERTIES
  NoNeedlessGrowth
  TableRefinement
