------------------------------ MODULE HeapFile ------------------------------
(***************************************************************************)
(* One HeapFile (src/godb/heap_file.go) together with the BufferPool that  *)
(* caches its pages (src/godb/buffer_pool.go).                             *)
(*                                                                         *)
(*   disk           the backing file, one dense page image per page number *)
(*   numPages       HeapFile.numPages                                      *)
(*   lastEmptyPage  HeapFile.lastEmptyPage, the insert hint (-1 = unset)   *)
(*   cache          BufferPool.pages: page number -> [slots, dirty]        *)
(*   held           for each tuple a client got from the heap file         *)
(*                  iterator, the rid heapFileRid{page, slot} it carried   *)
(*   inserted       history: tuples handed to insertTuple so far           *)
(*                                                                         *)
(* Every public call is one atomic step: the code is single threaded and   *)
(* the callers serialize access.  BeginTransaction, CommitTransaction and  *)
(* AbortTransaction are empty in this code and change no state.            *)
(***************************************************************************)
EXTENDS Naturals, Integers, FiniteSets, Sequences, Functions, Bags, TLC

CONSTANTS
  Tuples,    \* distinct tuple values (model values)
  NoTuple,
  NumSlots,  \* slots per page
  MaxPages,  \* bound: the file never grows past MaxPages pages
  Capacity   \* BufferPool.maxPages

ASSUME MaxPages \in Nat \ {0} /\ Capacity \in Nat \ {0}

INSTANCE HeapPage

VARIABLES disk, numPages, lastEmptyPage, cache, held, inserted

vars == <<disk, numPages, lastEmptyPage, cache, held, inserted>>

Pages == 0 .. MaxPages - 1

Rid == [page : Pages, slot : Slots]

CachedPage == [slots : [Slots -> Tuples \cup {NoTuple}], dirty : BOOLEAN]

TypeOK ==
  /\ disk \in [Pages -> Seq(Tuples)]
  /\ numPages \in 0 .. MaxPages
  /\ lastEmptyPage \in -1 .. MaxPages - 1
  /\ DOMAIN cache \subseteq 0 .. numPages - 1
  /\ \A p \in DOMAIN cache : cache[p] \in CachedPage
  /\ DOMAIN held \subseteq Tuples
  /\ \A t \in DOMAIN held : held[t] \in Rid
  /\ inserted \subseteq Tuples

(***************************************************************************)
(* The store, as a record, so that a call made of several steps (the       *)
(* insert probe loop) can be written as a function of it.  err records     *)
(* whether the call returned an error.                                     *)
(***************************************************************************)
Store == [disk |-> disk, numPages |-> numPages,
          lastEmptyPage |-> lastEmptyPage, cache |-> cache, err |-> FALSE]

SetStore(st) ==
  /\ disk' = st.disk
  /\ numPages' = st.numPages
  /\ lastEmptyPage' = st.lastEmptyPage
  /\ cache' = st.cache

\* readPage: the disk image parsed by initFromBuffer, not dirty.
ReadPage(d, p) == [slots |-> InitFromBuffer(d[p]), dirty |-> FALSE]

CleanPages(c) == {q \in DOMAIN c : ~c[q].dirty}

\* Seeded fault: evictPage tests len(bp.pages) <= maxPages before evicting.
GetPageEvictLate(c, d, p) ==
  IF p \in DOMAIN c THEN {[ok |-> TRUE, cache |-> c]}
  ELSE IF Cardinality(DOMAIN c) <= Capacity
    THEN {[ok |-> TRUE, cache |-> c @@ (p :> ReadPage(d, p))]}
  ELSE {[ok |-> TRUE,
         cache |-> Restrict(c, DOMAIN c \ {v}) @@ (p :> ReadPage(d, p))] :
          v \in DOMAIN c}

\* Seeded fault: evictPage evicts the first page, dirty or not.
GetPageEvictDirty(c, d, p) ==
  IF p \in DOMAIN c THEN {[ok |-> TRUE, cache |-> c]}
  ELSE IF Cardinality(DOMAIN c) < Capacity
    THEN {[ok |-> TRUE, cache |-> c @@ (p :> ReadPage(d, p))]}
  ELSE {[ok |-> TRUE,
         cache |-> Restrict(c, DOMAIN c \ {v}) @@ (p :> ReadPage(d, p))] :
          v \in DOMAIN c}

(***************************************************************************)
(* BufferPool.GetPage with evictPage: the set of outcomes [ok, cache].     *)
(* A miss evicts only when the pool holds maxPages pages; the victim is    *)
(* the first clean page of a Go map iteration, whose order is random, so   *)
(* any clean page.  With no clean page the call fails (BufferPoolFull)     *)
(* and the cache is left as it was.                                        *)
(***************************************************************************)
GetPage(c, d, p) ==
  IF p \in DOMAIN c THEN {[ok |-> TRUE, cache |-> c]}
  ELSE IF Cardinality(DOMAIN c) < Capacity
    THEN {[ok |-> TRUE, cache |-> c @@ (p :> ReadPage(d, p))]}
  ELSE IF CleanPages(c) = {} THEN {[ok |-> FALSE, cache |-> c]}
  ELSE {[ok |-> TRUE,
         cache |-> Restrict(c, DOMAIN c \ {v}) @@ (p :> ReadPage(d, p))] :
          v \in CleanPages(c)}

\* Seeded fault: insertTuple forgets setDirty.
InsertIntoNoDirty(c, p, t) ==
  [c EXCEPT ![p] = [slots |-> PageInsert(@.slots, t), dirty |-> @.dirty]]

\* heapPage.insertTuple followed by setDirty(tid, true).
InsertInto(c, p, t) ==
  [c EXCEPT ![p] = [slots |-> PageInsert(@.slots, t), dirty |-> TRUE]]

\* Seeded fault: the new page is written but numPages is not incremented.
AppendPageNoGrow(st, t) ==
  LET n == st.numPages
      d == [st.disk EXCEPT ![n] = ToBuffer(EmptyPage)]
      grown == [st EXCEPT !.disk = d, !.lastEmptyPage = n]
  IN  IF n >= MaxPages THEN {}
      ELSE {IF g.ok THEN [grown EXCEPT !.cache = InsertInto(g.cache, n, t)]
                    ELSE [grown EXCEPT !.cache = g.cache, !.err = TRUE] :
              g \in GetPage(st.cache, d, n)}

(***************************************************************************)
(* insertTuple, second half: no page had room.  flushPage writes an empty  *)
(* page at numPages, numPages grows, and the new page is fetched through   *)
(* the pool; if that fetch fails, or returns a page already full (only a   *)
(* page the pool kept from an earlier file of the same name can be), the   *)
(* call fails with ErrPageFull and the file has still grown.               *)
(***************************************************************************)
AppendPage(st, t) ==
  LET n == st.numPages
      d == [st.disk EXCEPT ![n] = ToBuffer(EmptyPage)]
      grown == [st EXCEPT !.disk = d, !.numPages = n + 1, !.lastEmptyPage = n]
  IN  IF n >= MaxPages THEN {}
      ELSE {IF g.ok /\ NumEmptySlots(g.cache[n].slots) > 0
            THEN [grown EXCEPT !.cache = InsertInto(g.cache, n, t)]
            ELSE [grown EXCEPT !.cache = g.cache, !.err = TRUE] :
              g \in GetPage(st.cache, d, n)}

(***************************************************************************)
(* insertTuple, first half: probe pages p, p+1, .. < numPages through the  *)
(* pool; the first with an empty slot takes the tuple and becomes the      *)
(* hint.  A failed GetPage ends the call with the pages loaded so far.     *)
(***************************************************************************)
RECURSIVE Probe(_, _, _)
Probe(st, p, t) ==
  IF p >= st.numPages THEN AppendPage(st, t)
  ELSE UNION {IF ~g.ok THEN {[st EXCEPT !.cache = g.cache, !.err = TRUE]}
              ELSE IF NumEmptySlots(g.cache[p].slots) = 0
                THEN Probe([st EXCEPT !.cache = g.cache], p + 1, t)
              ELSE {[st EXCEPT !.cache = InsertInto(g.cache, p, t),
                               !.lastEmptyPage = p]} :
                g \in GetPage(st.cache, st.disk, p)}

\* Seeded fault: probing starts after the hint instead of at it.
StartPageAfterHint(st) == st.lastEmptyPage + 1

\* The page insertTuple starts probing at.
StartPage(st) == IF st.lastEmptyPage = -1 THEN 0 ELSE st.lastEmptyPage

\* HeapFile.insertTuple on store st: the set of stores it can leave behind.
InsertOutcomes(st, t) == Probe(st, StartPage(st), t)

\* BufferPool.FlushAllPages: write every cached page, mark it clean.
FlushAll(st) ==
  [st EXCEPT
     !.disk  = [p \in Pages |-> IF p \in DOMAIN st.cache
                                THEN ToBuffer(st.cache[p].slots)
                                ELSE st.disk[p]],
     !.cache = [p \in DOMAIN st.cache |-> [st.cache[p] EXCEPT !.dirty = FALSE]]]

\* Seeded fault: deleteTuple forgets setDirty.
DeleteOutcomesNoDirty(st, rid) ==
  IF rid.page >= st.numPages THEN {[st EXCEPT !.err = TRUE]}
  ELSE {IF ~g.ok THEN [st EXCEPT !.cache = g.cache, !.err = TRUE]
        ELSE LET ok == CanDelete(g.cache[rid.page].slots, rid.slot) IN
             [st EXCEPT
                !.cache = [g.cache EXCEPT ![rid.page] =
                            [slots |-> IF ok THEN PageDelete(@.slots, rid.slot)
                                             ELSE @.slots,
                             dirty |-> @.dirty]],
                !.lastEmptyPage = IF ok /\ rid.page < st.lastEmptyPage
                                  THEN rid.page ELSE st.lastEmptyPage,
                !.err = ~ok] :
          g \in GetPage(st.cache, st.disk, rid.page)}

(***************************************************************************)
(* HeapFile.deleteTuple(rid): the set of stores it can leave.  A page      *)
(* number out of range is an error.  The page is marked dirty before       *)
(* heapPage.deleteTuple runs, so even a delete that fails with             *)
(* TupleNotFound leaves the page dirty.  The hint is lowered only after a  *)
(* successful delete.                                                      *)
(***************************************************************************)
DeleteOutcomes(st, rid) ==
  IF rid.page >= st.numPages THEN {[st EXCEPT !.err = TRUE]}
  ELSE {IF ~g.ok THEN [st EXCEPT !.cache = g.cache, !.err = TRUE]
        ELSE LET ok == CanDelete(g.cache[rid.page].slots, rid.slot) IN
             [st EXCEPT
                !.cache = [g.cache EXCEPT ![rid.page] =
                            [slots |-> IF ok THEN PageDelete(@.slots, rid.slot)
                                             ELSE @.slots,
                             dirty |-> TRUE]],
                !.lastEmptyPage = IF ok /\ rid.page < st.lastEmptyPage
                                  THEN rid.page ELSE st.lastEmptyPage,
                !.err = ~ok] :
          g \in GetPage(st.cache, st.disk, rid.page)}

-----------------------------------------------------------------------------
(* Actions *)

\* A client inserts a tuple not inserted before (tuples are distinct).
InsertTuple(t) ==
  /\ t \notin inserted
  /\ \E st \in InsertOutcomes(Store, t) : SetStore(st)
  /\ inserted' = inserted \cup {t}
  /\ UNCHANGED held

\* A client deletes a tuple through the rid the iterator gave it.
DeleteTuple(t) ==
  /\ t \in DOMAIN held
  /\ \E st \in DeleteOutcomes(Store, held[t]) : SetStore(st)
  /\ UNCHANGED <<held, inserted>>

(***************************************************************************)
(* HeapFile.Iterator reaching page p: GetPage, then tupleIter yields each  *)
(* non-nil slot with rid {p, slot}.  A failed GetPage ends the scan.       *)
(***************************************************************************)
ScanPage(p) ==
  /\ p < numPages
  /\ \E g \in GetPage(cache, disk, p) :
       /\ cache' = g.cache
       /\ held' = IF ~g.ok THEN held
                  ELSE LET sl == g.cache[p].slots
                           seen == {sl[s] : s \in Slots \ FreeSlots(sl)}
                           slotOf(u) == CHOOSE s \in Slots : sl[s] = u
                       IN  [u \in seen |-> [page |-> p, slot |-> slotOf(u)]]
                           @@ held
  /\ UNCHANGED <<disk, numPages, lastEmptyPage, inserted>>

\* BufferPool.FlushAllPages, called by tests and the CSV loader.
FlushAllPages ==
  /\ SetStore(FlushAll(Store))
  /\ UNCHANGED <<held, inserted>>

(***************************************************************************)
(* One row of HeapFile.LoadFromCSV: BeginTransaction (empty), insertTuple  *)
(* whose error is ignored, FlushAllPages, CommitTransaction (empty).       *)
(***************************************************************************)
LoadRow(t) ==
  /\ t \notin inserted
  /\ \E st \in InsertOutcomes(Store, t) : SetStore(FlushAll(st))
  /\ inserted' = inserted \cup {t}
  /\ UNCHANGED held

Init ==
  /\ disk = [p \in Pages |-> <<>>]
  /\ numPages = 0
  /\ lastEmptyPage = -1
  /\ cache = <<>>
  /\ held = <<>>
  /\ inserted = {}

Next ==
  \/ \E t \in Tuples : InsertTuple(t) \/ LoadRow(t)
  \/ \E t \in DOMAIN held : DeleteTuple(t)
  \/ \E p \in Pages : ScanPage(p)
  \/ FlushAllPages

Spec == Init /\ [][Next]_vars

-----------------------------------------------------------------------------
(* Properties *)

\* The contents of page p a reader sees: the cached copy, else the disk.
Content(p) ==
  IF p \in DOMAIN cache THEN cache[p].slots ELSE InitFromBuffer(disk[p])

Occurrences(t) ==
  Cardinality({ps \in (0 .. numPages - 1) \X Slots : Content(ps[1])[ps[2]] = t})

\* The table the heap file stores, as a multiset of tuples.
RowBag == [t \in {u \in Tuples : Occurrences(u) > 0} |-> Occurrences(t)]

\* spec.md 8.5: the pool never holds more than maxPages pages, however
\* GetPage calls from inserts, deletes and scans interleave with evictions.
CacheWithinCapacity == Cardinality(DOMAIN cache) <= Capacity

\* NO-STEAL rests on this: a page the pool holds as clean is exactly what
\* is on disk, so evictPage may drop it without a write.  Broken by any
\* path that changes a cached page without setDirty.
CleanPagesMatchDisk ==
  \A p \in DOMAIN cache : ~cache[p].dirty => ToBuffer(cache[p].slots) = disk[p]

\* lastEmptyPage is only a hint, but insertTuple never grows the file while
\* an existing page still has an empty slot: every page below the hint is
\* full, whatever deletes, failed inserts and evictions came before.
NoNeedlessGrowth ==
  [][numPages' > numPages =>
       \A p \in 0 .. numPages - 1 : NumEmptySlots(Content(p)) = 0]_vars

\* The heap file implements the table: every step adds one tuple, removes
\* one stored tuple, or leaves the multiset unchanged; flushing, eviction,
\* reloading and page allocation never lose, duplicate or invent a tuple.
AbstractTable == INSTANCE Table WITH rows <- RowBag
TableRefinement == AbstractTable!Spec

\* spec.md 8.2: deleting a tuple through the rid the iterator gave with it
\* removes exactly that tuple (a delete that changes the table at all).
DeleteRemovesScannedTuple ==
  [][\A t \in DOMAIN held :
       (DeleteTuple(t) /\ RowBag' # RowBag /\ BagIn(t, RowBag))
         => RowBag' = RowBag (-) SetToBag({t})]_vars

=============================================================================
