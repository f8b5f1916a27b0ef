------------------------------ MODULE HeapPage ------------------------------
(***************************************************************************)
(* Pure operators on one heap page (src/unnamed/part_000, heapPage).       *)
(* A page in memory is its slot array heapPage.tuples, a function from     *)
(* slot numbers to a tuple or NoTuple.  A page on disk is the image that   *)
(* toBuffer writes: the occupied tuples in slot order, densely packed.     *)
(* Tuples are model values; their bytes are abstracted away.               *)
(***************************************************************************)
EXTENDS Naturals, FiniteSets, Sequences

CONSTANTS
  NoTuple,   \* a nil entry of heapPage.tuples
  NumSlots   \* (PageSize - 8) / bytesPerTuple, fixed by the schema

ASSUME NumSlots \in Nat \ {0}

Slots == 0 .. NumSlots - 1

\* newHeapPage: every slot empty.
EmptyPage == [s \in Slots |-> NoTuple]

FreeSlots(slots) == {s \in Slots : slots[s] = NoTuple}

\* getNumEmptySlots: numSlots - numUsed.
NumEmptySlots(slots) == Cardinality(FreeSlots(slots))

\* insertTuple places the tuple in the lowest-numbered nil slot.
InsertSlot(slots) ==
  CHOOSE s \in FreeSlots(slots) : \A r \in FreeSlots(slots) : s <= r

PageInsert(slots, t) == [slots EXCEPT ![InsertSlot(slots)] = t]

\* deleteTuple succeeds when the slot is in range and not already nil.
CanDelete(slots, s) == s \in Slots /\ slots[s] # NoTuple

PageDelete(slots, s) == [slots EXCEPT ![s] = NoTuple]

\* toBuffer: the non-nil tuples in slot order (header and padding elided).
ToBuffer(slots) ==
  SelectSeq([i \in 1 .. NumSlots |-> slots[i - 1]], LAMBDA t : t # NoTuple)

\* initFromBuffer: the numUsed tuples of the image go to slots 0..numUsed-1.
InitFromBuffer(img) ==
  [s \in Slots |-> IF s < Len(img) THEN img[s + 1] ELSE NoTuple]

=============================================================================
