-------------------------------- MODULE Table --------------------------------
(***************************************************************************)
(* Abstract specification of a heap file as a table (spec.md 3, 8.1-8.2):  *)
(* a multiset of tuples to which insert adds one copy of a tuple and from  *)
(* which delete removes one copy of a stored tuple.  Page layout, caching  *)
(* and flushing are invisible at this level.                               *)
(***************************************************************************)
EXTENDS Bags

CONSTANT Tuples

VARIABLE rows

Init == rows = EmptyBag

Insert(t) == rows' = rows (+) SetToBag({t})

Delete(t) ==
  /\ BagIn(t, rows)
  /\ rows' = rows (-) SetToBag({t})

Next == \E t \in Tuples : Insert(t) \/ Delete(t)

Spec == Init /\ [][Next]_rows

=============================================================================
