\* Statements over two-slot pages, at most four pages, a pool of three pages:
\* the pool is smaller than the file, so scans evict and reload pages.
CONSTANTS
  t1 = t1  t2 = t2  t3 = t3
  Tuples <- MCTuples
  Match <- MCMatch
  NoTuple = NoTuple
  NumSlots = 2
  MaxPages = 4
  Capacity = 3
  DrainConsumer = FALSE
  LimitN = 1
SPECIFICATION Spec
INVARIANTS
  TypeOK
PROPERTIES
  ScanYieldsTable
  DeleteRemovesMatches
  FirstPullEnds
  AbortKeepsPartialEffect
