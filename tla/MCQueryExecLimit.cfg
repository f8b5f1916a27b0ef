\* LIMIT 2 over a scan of a two-page file with a pool of one page: the pull
\* after the second tuple fetches the next page from a pool full of dirty
\* pages.
CONSTANTS
  t1 = t1  t2 = t2  t3 = t3
  Tuples <- MCTuples
  Match <- MCMatch
  NoTuple = NoTuple
  NumSlots = 2
  MaxPages = 2
  Capacity = 1
  DrainConsumer = FALSE
  LimitN = 2
SPECIFICATION Spec
PROPERTY
  LimitEndsAfterL
