\* spec.md 8.2 asks that a tuple from the iterator be deleted through its rid.
\* Same bounds as MCHeapFile.cfg.
CONSTANTS
  t1 = t1  t2 = t2  t3 = t3  t4 = t4
  Tuples <- MCTuples
  NoTuple = NoTuple
  NumSlots = 2
  MaxPages = 2
  Capacity = 1
SPECIFICATION Spec
PROPERTIES
  DeleteRemovesScannedTuple
