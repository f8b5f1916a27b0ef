------------------------------ MODULE FieldSum ------------------------------
(***************************************************************************)
(* computeFieldSum (src/lab1_solution/godb/lab1_query.go), called again    *)
(* and again with one BufferPool: each call removes "myfile.dat", creates  *)
(* a HeapFile over it, loads the CSV file with LoadFromCSV, then sums the  *)
(* int field over a scan of the heap file.                                 *)
(*                                                                         *)
(* The heap file and pool are those of HeapFile.tla.  A tuple is its one   *)
(* int field, so Tuples is a set of integers; a CSV file is its sequence   *)
(* of data rows, every row well formed (the header line is skipped by      *)
(* LoadFromCSV and carries no tuple).                                      *)
(*                                                                         *)
(*   pc     "idle" between calls, "load" in LoadFromCSV, "scan" in the     *)
(*          summing loop, "done" when the sum is returned                  *)
(*   csv    the CSV rows of the current call; row, the next one to load    *)
(*   pgNo   the iterator's next page; sum, the running sum                 *)
(*   calls  how many calls were made                                       *)
(***************************************************************************)
EXTENDS Integers, Sequences, SequencesExt, Functions

CONSTANTS
  Tuples,    \* int field values, one per tuple
  NoTuple,
  NumSlots,
  MaxPages,
  Capacity,  \* BufferPool.maxPages
  MaxRows,   \* bound on the rows of one CSV file
  MaxCalls   \* bound on the calls of computeFieldSum

ASSUME Tuples \subseteq Int /\ MaxCalls \in Nat

VARIABLES disk, numPages, lastEmptyPage, cache, pc, csv, row, pgNo, sum, calls

vars == <<disk, numPages, lastEmptyPage, cache, pc, csv, row, pgNo, sum, calls>>

\* The heap file of HeapFile.tla; no client holds rids here.
HF == INSTANCE HeapFile WITH held <- <<>>, inserted <- {}

TypeOK ==
  /\ disk \in [HF!Pages -> Seq(Tuples)]
  /\ numPages \in 0 .. MaxPages /\ lastEmptyPage \in -1 .. MaxPages - 1
  /\ DOMAIN cache \subseteq HF!Pages
  /\ \A p \in DOMAIN cache : cache[p] \in HF!CachedPage
  /\ pc \in {"idle", "load", "scan", "done"}
  /\ csv \in Seq(Tuples) /\ row \in 1 .. MaxRows + 1
  /\ pgNo \in 0 .. MaxPages /\ sum \in Int /\ calls \in 0 .. MaxCalls

(***************************************************************************)
(* The start of computeFieldSum: os.Remove of the heap file, then          *)
(* NewHeapFile on the missing file (created empty: numPages is its size    *)
(* over PageSize, 0, and lastEmptyPage -1), and os.Open of the CSV file.   *)
(* The BufferPool is not told: it keeps every page it holds, keyed by      *)
(* heapHash{file name, page number}, which the new file shares.            *)
(***************************************************************************)
Start(rows) ==
  /\ pc = "idle" /\ calls < MaxCalls
  /\ disk' = [p \in HF!Pages |-> <<>>]
  /\ numPages' = 0 /\ lastEmptyPage' = -1
  /\ csv' = rows /\ row' = 1 /\ pc' = "load"
  /\ calls' = calls + 1
  /\ UNCHANGED <<cache, pgNo, sum>>

\* One row of LoadFromCSV: insertTuple, whose error is ignored, then
\* FlushAllPages, which writes every page the pool holds.
LoadRow ==
  /\ pc = "load" /\ row <= Len(csv)
  /\ \E st \in HF!InsertOutcomes(HF!Store, csv[row]) : HF!SetStore(HF!FlushAll(st))
  /\ row' = row + 1
  /\ UNCHANGED <<pc, csv, pgNo, sum, calls>>

\* LoadFromCSV returns at the end of the file; the scan starts with the
\* nPages snapshot, here numPages, which nothing changes during the scan.
LoadDone ==
  /\ pc = "load" /\ row > Len(csv)
  /\ pc' = "scan" /\ pgNo' = 0 /\ sum' = 0
  /\ UNCHANGED <<disk, numPages, lastEmptyPage, cache, csv, row, calls>>

\* The sum of the int field over the tuples tupleIter yields from a page.
PageSum(slots) == FoldFunctionOnSet(+, 0, slots, HF!Slots \ HF!FreeSlots(slots))

(***************************************************************************)
(* The summing loop, one iterator page per step: GetPage, then every       *)
(* tuple of the page is added to sum.  A failed GetPage returns the error  *)
(* and ends the call.                                                      *)
(***************************************************************************)
ScanPage ==
  /\ pc = "scan" /\ pgNo < numPages
  /\ \E g \in HF!GetPage(cache, disk, pgNo) :
       /\ cache' = g.cache
       /\ IF g.ok THEN sum' = sum + PageSum(g.cache[pgNo].slots) /\ pc' = pc
                  ELSE sum' = sum /\ pc' = "idle"
  /\ pgNo' = pgNo + 1
  /\ UNCHANGED <<disk, numPages, lastEmptyPage, csv, row, calls>>

\* The iterator returns nil: computeFieldSum returns sum.
ScanDone ==
  /\ pc = "scan" /\ pgNo = numPages
  /\ pc' = "done"
  /\ UNCHANGED <<disk, numPages, lastEmptyPage, cache, csv, row, pgNo, sum, calls>>

\* The caller takes the result; the next call may start.
Return ==
  /\ pc = "done" /\ pc' = "idle"
  /\ UNCHANGED <<disk, numPages, lastEmptyPage, cache, csv, row, pgNo, sum, calls>>

Init ==
  /\ disk = [p \in HF!Pages |-> <<>>]
  /\ numPages = 0 /\ lastEmptyPage = -1
  /\ cache = <<>>
  /\ pc = "idle" /\ csv = <<>> /\ row = 1 /\ pgNo = 0 /\ sum = 0 /\ calls = 0

Next ==
  \/ \E rows \in BoundedSeq(Tuples, MaxRows) : Start(rows)
  \/ LoadRow \/ LoadDone \/ ScanPage \/ ScanDone \/ Return

Spec == Init /\ [][Next]_vars

-----------------------------------------------------------------------------
(* Properties *)

\* The doc comment of computeFieldSum: it returns the sum of the int field
\* over the rows of the CSV file it was given, whatever earlier calls left in
\* the BufferPool they share.
SumMatchesCsv == pc = "done" => sum = FoldSeq(+, 0, csv)

=============================================================================
