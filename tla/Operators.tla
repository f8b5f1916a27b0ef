------------------------------ MODULE Operators ------------------------------
(***************************************************************************)
(* The pull operators that only rearrange their child's tuples: Project   *)
(* (src/godb/project_op.go), LimitOp (the same file, from line 113) and    *)
(* OrderBy (src/godb/order_by_op.go); and ComputeTableStats               *)
(* (src/godb/table_stats.go), which reads the stream as its table's scans. *)
(* Each runs over the same                                                 *)
(* child stream, a sequence of rows chosen in Init, and a consumer pulls   *)
(* each until it returns nil or an error.                                  *)
(*                                                                         *)
(* A row has the two fields of the spec's examples, name and age; a value  *)
(* is a small integer (a string field is abstracted to its rank, which is  *)
(* all compareField looks at).                                             *)
(***************************************************************************)
EXTENDS Integers, FiniteSets, Sequences, SequencesExt

CONSTANTS
  Vals,        \* field values
  MaxRows,     \* bound on the child's length
  Sel,         \* the fields Project selects
  Distinct,    \* Project's distinct flag
  LimitN,      \* LimitOp's bound, evaluated once at construction
  OrderKeys,   \* OrderBy's key fields, a sequence
  Asc,         \* OrderBy's ascending flags, parallel to OrderKeys
  AllowTies,   \* whether the child may hold two rows equal on every key
  IntTypes     \* the sets of fields a table descriptor may declare IntType

ASSUME /\ Vals \subseteq Nat /\ MaxRows \in Nat /\ LimitN \in Nat
       /\ Distinct \in BOOLEAN /\ AllowTies \in BOOLEAN
       /\ Len(Asc) = Len(OrderKeys)

Fields == {"name", "age"}

Row == [Fields -> Vals]

\* The order of the fields in the table descriptor.
FieldOrder == <<"name", "age">>

VARIABLES
  child,   \* the child operator's stream
  proj,    \* Project's closure: child position, seen list, what it returned
  lim,     \* LimitOp's closure: child position, cnt, what it returned
  ord,     \* OrderBy.Iterator: phase and the sorted buffer
  stats    \* ComputeTableStats: the descriptor's int fields and the result

vars == <<child, proj, lim, ord, stats>>

\* Two rows the comparator cannot order: equal on every key.
Tied(p, q) == \A k \in DOMAIN OrderKeys : p[OrderKeys[k]] = q[OrderKeys[k]]

\* The child streams: up to MaxRows rows, without tied pairs unless allowed.
Inputs ==
  {s \in BoundedSeq(Row, MaxRows) :
     AllowTies \/ \A i, j \in DOMAIN s : i # j => ~Tied(s[i], s[j])}

TypeOK ==
  /\ child \in BoundedSeq(Row, MaxRows)
  /\ proj \in [pos : 1 .. MaxRows + 1, seen : Seq([Sel -> Vals]),
               out : Seq([Sel -> Vals]), done : BOOLEAN]
  /\ lim \in [pos : 1 .. MaxRows + 1, cnt : 0 .. LimitN,
              out : Seq(Row), done : BOOLEAN]
  /\ Len(lim.out) <= LimitN
  /\ ord \in [phase : {"unbuilt", "error", "panicked"}, sorted : Seq(Row)]
  /\ stats.phase \in {"unbuilt", "ok", "error"} /\ stats.ints \in IntTypes
  /\ stats.baseTups \in 0 .. MaxRows /\ DOMAIN stats.calls \subseteq stats.ints

-----------------------------------------------------------------------------
(* Project *)

\* tup.project(fields): the selected fields of a row.
Projected(r) == [f \in Sel |-> r[f]]

\* Seeded fault: contains never finds the tuple.
ContainsNever(s, t) == FALSE

\* contains(seen, t): seen.equals(&t) for some element of seen.
SeenContains(s, t) == Contains(s, t)

(***************************************************************************)
(* One call of Project's closure from child position pos: pull, end on     *)
(* nil, project, skip a projection already in seen, else append it to      *)
(* seen and return it (ret: <<>> for nil, else <<tuple>>).  The distinct  *)
(* flag is never consulted.                                                *)
(***************************************************************************)
RECURSIVE ProjectLoop(_, _)
ProjectLoop(pos, seen) ==
  IF pos > Len(child)
  THEN [pos |-> pos, seen |-> seen, ret |-> <<>>]
  ELSE LET o == Projected(child[pos]) IN
       IF SeenContains(seen, o)
       THEN ProjectLoop(pos + 1, seen)
       ELSE [pos |-> pos + 1, seen |-> Append(seen, o), ret |-> <<o>>]

ProjectPull ==
  /\ ~proj.done
  /\ LET r == ProjectLoop(proj.pos, proj.seen) IN
       proj' = [pos |-> r.pos, seen |-> r.seen, out |-> proj.out \o r.ret,
                done |-> r.ret = <<>>]
  /\ UNCHANGED <<child, lim, ord, stats>>

-----------------------------------------------------------------------------
(* LimitOp *)

\* Seeded faults: the bound tested one too late / one too early.
LimitReachedLate(cnt) == cnt = LimitN + 1
LimitReachedEarly(cnt) == cnt + 1 = LimitN

\* limit.EvalPred(IntField{cnt}, OpEq).
LimitReached(cnt) == cnt = LimitN

\* One call of LimitOp's closure: pull the child first, then return nil at
\* the child's end or once cnt equals the limit, else count and return.
LimitPull ==
  /\ ~lim.done
  /\ IF lim.pos > Len(child) \/ LimitReached(lim.cnt)
     THEN lim' = [lim EXCEPT !.pos = IF @ > Len(child) THEN @ ELSE @ + 1,
                             !.done = TRUE]
     ELSE lim' = [lim EXCEPT !.pos = @ + 1, !.cnt = @ + 1,
                             !.out = Append(@, child[lim.pos])]
  /\ UNCHANGED <<child, proj, ord, stats>>

-----------------------------------------------------------------------------
(* OrderBy *)

\* compareField, from the spec (tuple.go is not in the repository).
CompareField(p, q, f) ==
  IF p[f] < q[f] THEN "lt" ELSE IF p[f] = q[f] THEN "eq" ELSE "gt"

\* Seeded fault: the operands are not swapped for a descending key.
KeyCompareNoInvert(p, q, k) == CompareField(p, q, OrderKeys[k])

\* Key k of multiSorter.Less: the operands swap when ascending[k] is false.
KeyCompare(p, q, k) ==
  IF Asc[k] THEN CompareField(p, q, OrderKeys[k])
  ELSE CompareField(q, p, OrderKeys[k])

(***************************************************************************)
(* multiSorter.Less from key k on: the first key that is not "equal"       *)
(* decides.  When every key tied the loop leaves k = len(orderBy), and     *)
(* ms.ascending[k] is read out of range: a runtime panic.                  *)
(***************************************************************************)
RECURSIVE Less(_, _, _)
Less(p, q, k) ==
  IF k > Len(OrderKeys) THEN "panic"
  ELSE CASE KeyCompare(p, q, k) = "lt" -> "true"
         [] KeyCompare(p, q, k) = "gt" -> "false"
         [] OTHER -> Less(p, q, k + 1)

\* multiSorter.Swap.
SwapAt(s, i, j) == [s EXCEPT ![i] = s[j], ![j] = s[i]]

(***************************************************************************)
(* sort.Sort on at most 12 elements is insertionSort: element i moves     *)
(* down while Less(j, j-1).  The result is the data and whether a Less     *)
(* call panicked.                                                          *)
(***************************************************************************)
RECURSIVE SiftDown(_, _)
SiftDown(s, j) ==
  IF j <= 1 THEN [data |-> s, panic |-> FALSE]
  ELSE CASE Less(s[j], s[j - 1], 1) = "panic" -> [data |-> s, panic |-> TRUE]
         [] Less(s[j], s[j - 1], 1) = "true" -> SiftDown(SwapAt(s, j, j - 1), j - 1)
         [] OTHER -> [data |-> s, panic |-> FALSE]

RECURSIVE InsertionSort(_, _)
InsertionSort(s, i) ==
  IF i > Len(s) THEN [data |-> s, panic |-> FALSE]
  ELSE LET r == SiftDown(s, i) IN
       IF r.panic THEN r ELSE InsertionSort(r.data, i + 1)

(***************************************************************************)
(* OrderBy.Iterator: drain the child into sorted, sort it, and return the  *)
(* closure together with the error "order_by_op.Iterator not implemented"; *)
(* the caller stops at the error.                                          *)
(***************************************************************************)
OrderByIterator ==
  /\ ord.phase = "unbuilt"
  /\ LET r == InsertionSort(child, 2) IN
       ord' = [phase |-> IF r.panic THEN "panicked" ELSE "error",
               sorted |-> r.data]
  /\ UNCHANGED <<child, proj, lim, stats>>

-----------------------------------------------------------------------------
(* ComputeTableStats *)

\* math.MaxInt32 and math.MinInt32, tableMinMax's seeds.
MaxInt32 == 2147483647
MinInt32 == -MaxInt32 - 1

\* NewIntHistogram (int_histogram.go:14): unimplemented, it always fails.
NewIntHistogram(nBins, vMin, vMax) == [ok |-> FALSE]

NumHistBins == 100

\* tableMinMax's loop body: min and max over the IntType fields of a tuple.
AddMinMax(mm, r, ints) ==
  [mins |-> [f \in Fields |-> IF f \in ints /\ r[f] < mm.mins[f] THEN r[f] ELSE mm.mins[f]],
   maxs |-> [f \in Fields |-> IF f \in ints /\ r[f] > mm.maxs[f] THEN r[f] ELSE mm.maxs[f]]]

ScanMinMax(s, ints) ==
  FoldLeft(LAMBDA mm, r : AddMinMax(mm, r, ints),
           [mins |-> [f \in Fields |-> MaxInt32], maxs |-> [f \in Fields |-> MinInt32]], s)

\* Seeded fault: the final loop that resets an unseen field is missing.
TableMinMaxNoReset(s, ints) == ScanMinMax(s, ints)

\* tableMinMax: the scan, then mins = maxs = 0 for a field with mins > maxs.
TableMinMax(s, ints) ==
  LET mm == ScanMinMax(s, ints)
      unseen(f) == mm.mins[f] > mm.maxs[f]
  IN  [mins |-> [f \in Fields |-> IF unseen(f) THEN 0 ELSE mm.mins[f]],
       maxs |-> [f \in Fields |-> IF unseen(f) THEN 0 ELSE mm.maxs[f]]]

(***************************************************************************)
(* The histogram loop of ComputeTableStats from field i on, in descriptor  *)
(* order: NewIntHistogram(NumHistBins, mins[i], maxs[i]) for an IntType    *)
(* field, whose arguments calls records, NewStringHistogram (which cannot  *)
(* fail, part_001) otherwise; the first error is returned.                 *)
(***************************************************************************)
RECURSIVE MakeHists(_, _, _, _)
MakeHists(i, mm, ints, calls) ==
  IF i > Len(FieldOrder) THEN [ok |-> TRUE, calls |-> calls]
  ELSE LET f == FieldOrder[i]
           c == calls @@ (f :> [vMin |-> mm.mins[f], vMax |-> mm.maxs[f]])
       IN  IF f \notin ints THEN MakeHists(i + 1, mm, ints, calls)
           ELSE IF NewIntHistogram(NumHistBins, mm.mins[f], mm.maxs[f]).ok
                THEN MakeHists(i + 1, mm, ints, c)
                ELSE [ok |-> FALSE, calls |-> c]

(***************************************************************************)
(* The rows a scan loop of table_stats.go sees: `for tup, err := iter();   *)
(* tup != nil; ...` stops at the (nil, err) a failed GetPage returns       *)
(* without looking at err, so the loop sees the whole table or the rows    *)
(* before the failure.  Page boundaries are abstracted: any prefix.        *)
(***************************************************************************)
ScanPrefixes(s) == {SubSeq(s, 1, k) : k \in 0 .. Len(s)}

(***************************************************************************)
(* ComputeTableStats, one synchronous call between the empty Begin- and    *)
(* CommitTransaction: tableMinMax's scan, the histograms, then a second    *)
(* scan that adds every value to its histogram and counts baseTups.  Each  *)
(* scan may end early with its error lost.  The histograms' contents and   *)
(* basePages (the file's NumPages) are left out.                           *)
(***************************************************************************)
ComputeTableStats ==
  /\ stats.phase = "unbuilt"
  /\ \E s1, s2 \in ScanPrefixes(child) :
       LET h == MakeHists(1, TableMinMax(s1, stats.ints), stats.ints, <<>>) IN
       stats' = [stats EXCEPT !.calls = h.calls,
                              !.phase = IF h.ok THEN "ok" ELSE "error",
                              !.baseTups = IF h.ok THEN Len(s2) ELSE 0]
  /\ UNCHANGED <<child, proj, lim, ord>>

-----------------------------------------------------------------------------
Init ==
  /\ child \in Inputs
  /\ proj = [pos |-> 1, seen |-> <<>>, out |-> <<>>, done |-> FALSE]
  /\ lim = [pos |-> 1, cnt |-> 0, out |-> <<>>, done |-> FALSE]
  /\ ord = [phase |-> "unbuilt", sorted |-> <<>>]
  /\ stats \in [phase : {"unbuilt"}, ints : IntTypes, calls : {<<>>}, baseTups : {0}]

\* The consumer pulls each plan until nil or an error, then stops.
Next == ProjectPull \/ LimitPull \/ OrderByIterator \/ ComputeTableStats

Spec == Init /\ [][Next]_vars

-----------------------------------------------------------------------------
(* References, from spec.md 4.3, written independently of the code *)

\* Row p comes strictly before q in the lexicographic order over OrderKeys.
Before(p, q) ==
  \E k \in DOMAIN OrderKeys :
    /\ \A m \in 1 .. k - 1 : p[OrderKeys[m]] = q[OrderKeys[m]]
    /\ IF Asc[k] THEN p[OrderKeys[k]] < q[OrderKeys[k]]
       ELSE p[OrderKeys[k]] > q[OrderKeys[k]]

\* Where row i of s lands in the stable sort: after every row before it in
\* the order, and after every row it ties with that comes earlier in s.
Rank(s, i) ==
  1 + Cardinality({j \in DOMAIN s : Before(s[j], s[i])
                                   \/ (~Before(s[i], s[j]) /\ j < i)})

StableSorted(s) == [r \in DOMAIN s |-> s[CHOOSE i \in DOMAIN s : Rank(s, i) = r]]

\* Project's output: every projected row, or, if distinct, each projection
\* at its first occurrence.
FirstSeen(s) ==
  {i \in DOMAIN s : \A j \in 1 .. i - 1 : Projected(s[j]) # Projected(s[i])}

ProjectSpec(s) ==
  LET idx == IF Distinct THEN SetToSortSeq(FirstSeen(s), <)
             ELSE [i \in DOMAIN s |-> i]
  IN  [n \in DOMAIN idx |-> Projected(s[idx[n]])]

\* The range a histogram over column f must cover: its least and greatest
\* value, and 0 .. 0 for a table with no rows.
ColumnRange(s, f) ==
  IF s = <<>> THEN [vMin |-> 0, vMax |-> 0]
  ELSE [vMin |-> Min({s[i][f] : i \in DOMAIN s}), vMax |-> Max({s[i][f] : i \in DOMAIN s})]

-----------------------------------------------------------------------------
(* Properties *)

\* spec.md 4.3 and invariant 9: once Project's closure returned nil the
\* consumer has the projection of every child row, or with distinct each
\* projected row once in first-seen order; the code's seen list decides.
ProjectYieldsSpec == proj.done => proj.out = ProjectSpec(child)

\* spec.md 4.3: LimitOp returns the first min(L, n) child rows and then nil;
\* the closure tests cnt against the limit only after pulling the child.
LimitYieldsPrefix ==
  lim.done => lim.out = SubSeq(child, 1, IF LimitN < Len(child)
                                         THEN LimitN ELSE Len(child))

\* spec.md 4.3 and invariant 8: the sort OrderBy.Iterator runs on the
\* drained child (multiSorter.Less under insertionSort) completes without a
\* panic and leaves the rows in the lexicographic order over the keys, each
\* key in its own direction.  What the iterator returns afterwards (the
\* error of line 159) is not judged here.  Rows equal on every key are
\* equal rows in this model, so their relative order is not observable.
SortIsOrdered ==
  ord.phase # "unbuilt" =>
    ord.phase # "panicked" /\ ord.sorted = StableSorted(child)

\* tableMinMax seeds mins at MaxInt32 and maxs at MinInt32 and resets a
\* field it saw no value of to 0 .. 0; whatever part of the table its scan
\* saw, every range ComputeTableStats gives NewIntHistogram is that reset
\* range or a non-empty range within the column's values.
StatsRangeValid ==
  \A f \in DOMAIN stats.calls :
    LET c == stats.calls[f]
        col == ColumnRange(child, f)
    IN  \/ c = [vMin |-> 0, vMax |-> 0]
        \/ col.vMin <= c.vMin /\ c.vMin <= c.vMax /\ c.vMax <= col.vMax

=============================================================================
