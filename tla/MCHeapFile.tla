----------------------------- MODULE MCHeapFile -----------------------------
(***************************************************************************)
(* Model-checking instance of HeapFile.  Bounds: pages of NumSlots slots,  *)
(* at most MaxPages pages, a pool smaller than the file so that GetPage    *)
(* must evict, and enough tuples to fill every page and delete from it.    *)
(***************************************************************************)
EXTENDS HeapFile

CONSTANTS t1, t2, t3, t4

MCTuples == {t1, t2, t3, t4}

=============================================================================
