# TLA+ models of GoDB

This directory holds TLA+ models of the storage and recovery layers of GoDB
(`src/`), with the TLC configurations that check them. `PROJECT.json` lists
the following:

- every component, modelled or not;
- every run and what it checks;
- the seeded faults (mutants) each property must catch;
- the map from each definition to the source lines it translates;
- the findings;
- the hazards of the code.

## The system

| Part | Source | State | Operations |
|------|--------|-------|------------|
| Heap page | `src/unnamed/part_000` (`heapPage`) | slot array `tuples`, `numUsed`, `dirty` | `insertTuple` (lowest nil slot), `deleteTuple(rid)`, `toBuffer` (dense image), `initFromBuffer` (slots renumbered 0..numUsed-1), `tupleIter` |
| Heap file | `src/godb/heap_file.go` | `numPages`, `lastEmptyPage` hint, the backing file | `insertTuple` (probe from the hint, else append a page), `deleteTuple` by rid, `Iterator`, `flushPage`, `readPage`, `LoadFromCSV` |
| Buffer pool | `src/godb/buffer_pool.go` | `pages` map, `maxPages` | `GetPage` + `evictPage` (evict any clean page, fail if all dirty), `FlushAllPages`; Begin/Commit/AbortTransaction are empty |
| Log file | `src/lab1_solution/godb/int_histogram.go` lines 30-497 | file and its OS position, `buf`, `offset` | `LogBegin/LogUpdate/LogCommit/LogAbort`, `Force`, `ForwardIterator`, `ReverseIterator` |
| Rollback / Recover | `src/godb/buffer_pool_extra.go` | (pool and log) | `Rollback(tid)`: backward pass flushing before images. `Recover`: a forward REDO pass that collects losers, then a backward UNDO pass that appends Abort records |
| Statements | `part_000` (`InsertOp`), `delete_op.go`, `filter_op.go`, `LimitOp` (`project_op.go`) over `HeapFile.Iterator` | `completed` flag, `cnt`; the iterator closures (`nPages` snapshot, `pgNo`, the page's `tupleIter`) | the first pull of InsertOp or DeleteOp drains the child and inserts or deletes each tuple, and every later pull returns a count tuple; LimitOp pulls the child, then tests `cnt` |
| Other operators | `project_op.go`, `order_by_op.go` (`insert_op.go` is an unimplemented stub) | iterator closures | pull-based iterators |
| Table statistics | `table_stats.go`, `part_001` | `basePages`, `baseTups`, histograms | `ComputeTableStats` (`tableMinMax` scan, histograms, counting scan); float estimates |
| Lab 1 query | `lab1_query.go` | (a heap file `myfile.dat` and the caller's pool) | `computeFieldSum`: remove and recreate the heap file, `LoadFromCSV`, sum an int field over a scan |
| Aggregates, helpers | `part_003`, `part_002` | — | accumulators, test setup |

How the parts interact:

- A heap file reaches its pages only through the buffer pool.
- The pool calls back into the file: `readPage` on a miss, and `flushPage` from `FlushAllPages`.
- Clients identify a tuple by the rid (`heapFileRid{pageNo, slotNo}`) that the iterator or `insertTuple` attached to it.
- Recovery reads the log file and writes pages through `flushPage`, dropping them from the pool.

Nothing in `src/` calls `LogBegin`, `LogUpdate` or `LogCommit`. The
LogRecovery model therefore drives the log the way the header comment of
`log_file.go` asks its user to:

1. a Begin record;
2. an Update record for every write, before the page can reach disk;
3. Commit, or Rollback followed by Abort.

Strict two-phase page locks, held by the caller, keep two transactions off the
same page.

## Modules

- `HeapPage.tla` holds pure operators on one page's slot array. A page in
  memory is a function from slot to tuple or `NoTuple`. A page on disk is the
  sequence `toBuffer` writes. `ToBuffer` drops the nil slots and
  `InitFromBuffer` repacks them, which is exactly the renumbering the code
  does.
- `HeapFile.tla` models one heap file and its buffer pool.
  - **Variables.**
    - `disk`: page images.
    - `numPages`, `lastEmptyPage`: the file's fields.
    - `cache`: `bp.pages`, each entry a record of slots and dirty flag.
    - `held`: the rid each tuple a client got from a scan carries.
    - `inserted`: history.
  - **How calls are modelled.** Every public call is one step, because the
    code is single threaded. A call made of several pool accesses is a
    function from a store record to the *set* of stores it can leave:
    - `GetPage` returns one outcome for each clean victim, because Go's map
      order is random. It fails when every page is dirty.
    - `Probe` is the RECURSIVE probe loop of `insertTuple`.
    - `AppendPage` is its second half.
  - **Actions.** `InsertTuple`, `DeleteTuple`, `ScanPage` (the iterator
    reaching a page), `FlushAllPages`, and `LoadRow`, one iteration of
    `LoadFromCSV`: an insert whose error is ignored, followed by
    `FlushAllPages`.
- `Table.tla` is the abstract specification of a heap file: a bag of tuples
  with Insert and Delete. `HeapFile` refines it through the mapping
  `rows <- RowBag`, where `RowBag` counts the tuples a reader sees.
- `LogRecovery.tla` models the log, the pool's page values, Rollback and
  Recover.
  - **Abstractions.** A page's image is abstracted to the id of the
    transaction that wrote it last, and a log offset to a position in a
    sequence.
  - **Crash.** A crash keeps any prefix of the unforced buffer, optionally
    followed by a partial record (`Torn`). It loses the pool, locks and
    active transactions.
  - **Recover.** `RedoPass` and `UndoPass` are RECURSIVE translations of the
    two loops of `Recover`. `RollbackPass` translates the loop of `Rollback`.
- `RecordLog.tla` is the abstract specification of the write-ahead log, with
  no bytes, offsets or file positions. `log` is the records a reader of the
  file finds and `pending` the records appended since the last force.
  - Appends go only to the end.
  - A force moves every pending record to disk, in order.
  - A crash keeps a prefix of the pending records, optionally followed by a
    partial record.
  - Nothing already on disk is ever rewritten.
- `LogFile.tla` models `LogFile` itself, together with `Recover` and
  `Rollback` as the loops they are. It instantiates LogRecovery (`LR`) for
  its record constructors and record-level passes.
  - **Cells.** The file is a sequence of cells, one per `binary.Write` field:
    - `Encode` writes a record as `<<type, tid>>`, then each page image as
      `<<file id, page number, image>>`, then the footer holding the start
      offset.
    - `ReadAt` reads it back: EOF, a short or malformed read, or a record
      and the next offset.
    - `Records` decodes the whole file as `ForwardIterator` does.
  - **Variables.** The four fields of the struct: `file`, `pos` (the OS file
    position), `buf` and `offset`. Then:
    - `data`: the page on disk;
    - `cur`: the page in the pool;
    - `txs`: the client's transactions;
    - `pc`, `losers` and `rb`: the recovery or rollback loop in progress.
  - **Operations.** `Force` writes the buffer *at the file position*
    (`WriteAt`). A file position left inside the file by a reverse-iterator
    step makes `Force` overwrite records, not append them. `Seek` forces
    first. `RevStep` is one call of the `ReverseIterator` closure: it seeks
    back one footer, reads the offset, reads the record and seeks to its
    start.
  - **Passes.** `RecoverStart` is the REDO pass (`LR!RedoPass` over
    `Records(file)`) and the seek to the end. Each `UndoStep` is one
    iteration of the UNDO loop: an Abort is appended at the end
    (`WriteAbort`: save the offset, seek to the end, log, force, seek back),
    or a before image is written. `RollbackStart`, `RollbackStep` and
    `RollbackEnd` are the loop of `Rollback`.
  - **Crash.** `Crash` may happen at any step, also in the middle of an
    UNDO pass. It keeps a prefix of the buffer ending at a record boundary,
    or at any cell with `TornWrites`.
  - **History.** `start` and `goal` are history variables for the
    properties.
  - `LogFile` refines `RecordLog` through
    `log <- Records(file)` and `pending <- ` the records of the buffer
    written at the file position.
- `QueryExec.tla` runs statements against the heap file of `HeapFile.tla`,
  which it instantiates (`HF == INSTANCE HeapFile`). It models four plans:
  - a select, which is the scan itself;
  - `DeleteOp` over a `Filter` over a scan of the same file;
  - `InsertOp` over a scan of the same file (`INSERT INTO t SELECT * FROM t`);
  - `LimitOp` over a scan (`LimitStep`, `LimitReached`). Each step is one
    call of the closure: it pulls the scan first and only then tests `cnt`
    against the limit (`LimitN`). The consumer collects tuples until nil
    or an error. `cnt` is the size of `out`.

  **Variables.**
  - `stmt`: the statement's kind and phase. In `running`, the first pull is
    draining the child. In `emitted`, the count tuple has been returned.
  - `scan`: the `HeapFile.Iterator` closure. It holds the `nPages` snapshot,
    `pgNo`, and the page `tupleIter` reads. `tupleIter` holds a pointer to the
    `heapPage` object. While that object is still in the pool (`live`), the
    scan sees changes made to it. Once the pool has evicted it, the scan goes
    on reading the orphaned object (`slots`), and `Track` records that.
  - `out`: what a select has returned so far.
  - `before`: the table when the statement started (history).

  **Steps.** `ScanPull` is the RECURSIVE loop of one call of the iterator
  closure. Each `SelectStep`, `DeleteStep` or `InsertStep` is one iteration of
  the operator's loop body. It calls `HF!DeleteOutcomes` or `HF!InsertOutcomes`,
  which are exactly what `HeapFile` uses for its own deletes and inserts.
  A statement is one synchronous call, so no other action is enabled while
  it runs.

  **Transactions.** `BeginTransaction`, `CommitTransaction` and
  `AbortTransaction` are empty in the code, so `StartStmt` and `Finish`
  change nothing in the pool.
- `Operators.tla` models `Project`, `LimitOp` and `OrderBy` over a child
  stream, a sequence of up to `MaxRows` rows chosen in `Init`.
  - **Project and LimitOp.** Each closure is a record variable (`proj`,
    `lim`), and each consumer pull is one action. `ProjectLoop` is the
    closure's RECURSIVE loop: pull, project, skip what `contains(seen, ...)`
    finds.
  - **OrderBy.** `OrderByIterator` drains the child, sorts, and returns with
    its error. `Less` translates `multiSorter.Less`, including the read past
    the key list when every key ties. `InsertionSort` and `SiftDown`
    translate what `sort.Sort` runs on at most 12 elements: Go's
    `insertionSort`, moving element `j` down while `Less(j, j-1)`.
  - **ComputeTableStats.** `ComputeTableStats` reads the child stream as
    the table. It is one action, because the call is synchronous. Each of
    its two scan loops (`table_stats.go:54` and `:120`) stops at the first
    nil tuple and never looks at the error returned with it. A scan that
    fails with BufferPoolFull therefore just ends early. `ScanPrefixes`
    gives what each scan may have seen: any prefix of the table. The page
    boundaries where the failure can happen are abstracted away.
    - `TableMinMax` folds the rows into per-field mins and maxs, seeded with
      the int32 bounds, then resets every field with `mins > maxs` to 0.
    - `MakeHists` is the histogram loop in descriptor order.
      `NewIntHistogram` is the repository's stub, which always returns an
      error. `NewStringHistogram` cannot fail.
    - On success, the counting scan sets `baseTups` to the length of its own prefix.

    `Init` picks which fields the table declares `IntType` from `IntTypes`:
    none, or `age`. Both the error path and the counting scan are therefore
    taken.
  - **Reference definitions.** Each result is compared with a reference
    written from spec.md 4.3. `StableSorted` places row `i` by its rank in
    the lexicographic order, ties broken by position. `ProjectSpec` gives
    every projection, or each projection at its first occurrence.
    `ColumnRange` is the least and greatest value of a column, taken with
    `Min`/`Max` of FiniteSetsExt, and 0 .. 0 for an empty table.
- `FieldSum.tla` models `computeFieldSum` called again and again with one
  buffer pool. It instantiates `HeapFile` for the file and the pool, with
  no rids held.
  - **Abstractions.** A tuple is its one int field, so `Tuples` is a set of
    integers, and a CSV file is the sequence of its data rows.
  - **Steps.**
    - `Start` is `os.Remove` and `NewHeapFile`. The file restarts empty:
      `numPages` 0 and `lastEmptyPage` -1. The pool is left as it was.
    - `LoadRow` is one row of `LoadFromCSV`: `HF!InsertOutcomes`, then
      `HF!FlushAll`.
    - `ScanPage` is one page of the iterator: `GetPage`, then the page's
      tuples are added to `sum`.
  - **HeapFile change.** `HeapFile`'s `AppendPage` now includes the
    `ErrPageFull` return for a freshly appended page the pool hands back
    full, which only a page kept from a removed file can be.
- `MCHeapFile.tla`, `MCLogRecovery.tla`, `MCLogFile.tla`, `MCQueryExec.tla`,
  `MCOperators.tla` and `MCFieldSum.tla` declare the model values the
  configurations use.

## Runs

| Run | Config | Expect | What it shows |
|-----|--------|--------|---------------|
| heapfile | `MCHeapFile.cfg` | pass | Across every interleaving of inserts, deletes, scans, flushes and CSV rows through a one-page pool: the pool never exceeds `maxPages` (`CacheWithinCapacity`); a clean cached page equals its disk image (`CleanPagesMatchDisk`, which NO-STEAL eviction relies on); the file grows only when every page is full (`NoNeedlessGrowth`); the heap file implements the table (`TableRefinement`). |
| heapfile_stale_rid | `MCHeapFileStaleRid.cfg` | violation | `DeleteRemovesScannedTuple`: a rid from the iterator deletes another tuple after flush, eviction and reload (finding 1). |
| recovery | `MCLogRecovery.cfg` | pass | While the database is up, no page shows a write of an aborted or crashed transaction (`NoLoserEffects`), even with rollbacks, steal flushes, crashes inside Force and torn records. A second recovery right after a successful one changes nothing (`RecoveryIdempotent`). |
| recovery_durable | `MCLogRecoveryDurable.cfg` | violation | `CommittedDurable`: an aborted transaction is undone again at recovery, over a later commit (finding 2). |
| recovery_torn | `MCLogRecoveryTorn.cfg` | violation | `RestartRecovers`: a partial record at the log's end makes every recovery fail (finding 3). |
| logfile | `MCLogFile.cfg` | pass | Over the cell-level log, appends, forces, seeks and crashes implement the record log, so no step rewrites a record already on disk (`LogRefinement`). When Recover's UNDO loop ends, stepping through `ReverseIterator` has produced what the record-level `UndoPass` computes, and the log holds exactly the Abort records it appended (`RecoverMatchesRecords`). The same holds for Rollback and `RollbackPass` (`RollbackMatchesRecords`). A crash in the middle of UNDO does not change the page value the next completed recovery reaches (`RecoverySurvivesCrash`). Every Recover or Rollback pass ends (`PassesEnd`). |
| queryexec | `MCQueryExec.cfg` | pass | With a pool smaller than the file, these hold. A select returns the table exactly once, although its own `GetPage` calls evict pages (`ScanYieldsTable`). A delete over a filtered scan of the same file removes exactly the matching tuples, even when the page it deletes from is evicted under the scan (`DeleteRemovesMatches`). The first pull of every statement returns, although an insert can grow the file its scan reads (`FirstPullEnds`). That first result is the count tuple, nil, or an error. Nothing is claimed about later pulls, which return count tuples forever (finding 6). `AbortTransaction` is empty, so a statement that fails with BufferPoolFull halfway keeps part of its effect. That part is never more or other than its own effect: an aborted select changes nothing, an aborted delete has removed only accepted tuples, and an aborted insert has lost no tuple (`AbortKeepsPartialEffect`). |
| queryexec_halloween | `MCQueryExecHalloween.cfg` | violation | `InsertDoubles`: `INSERT INTO t SELECT * FROM t` re-reads its own copies (finding 4). |
| queryexec_limit | `MCQueryExecLimit.cfg` | violation | `LimitEndsAfterL`: after its L-th tuple, LIMIT's next pull fetches a page and fails with BufferPoolFull instead of ending (finding 10). |
| fieldsum_stale | `MCFieldSumStale.cfg` | violation | `SumMatchesCsv`: a second `computeFieldSum` over the same pool sums pages kept from the removed file (finding 9). |
| operators | `MCOperators.cfg` | pass | The inputs are every child of up to three rows with no two rows tied on every key. DISTINCT projection returns each projected row once, in first-seen order (`ProjectYieldsSpec`). LIMIT returns exactly the first rows (`LimitYieldsPrefix`). The sort inside `OrderBy.Iterator` (`insertionSort` with `multiSorter.Less`) completes without a panic and leaves the rows in the multi-key order, with per-key direction (`SortIsOrdered`). The "not implemented" error that the iterator returns afterwards is not judged. Whatever part of the table its scan saw, ComputeTableStats asks for each int histogram over a range that lies inside its column's values, or over the reset range 0 .. 0 (`StatsRangeValid`). |
| operators_ties | `MCOperatorsTies.cfg` | violation | `SortIsOrdered` with repeated rows: `Less` panics (finding 8). |

Each property of a passing run has a seeded fault in `PROJECT.json`
(`mutants`). It is a plausible bug in a mapped definition, and TLC finds the
property violated when that definition is replaced by it:

| Property | Seeded fault |
|----------|--------------|
| `CacheWithinCapacity` | `evictPage` tests `<=` |
| `TableRefinement` | `evictPage` evicts a dirty page |
| `CleanPagesMatchDisk` | `setDirty` is forgotten after an insert |
| `NoNeedlessGrowth` | probing starts after the hint |
| `TypeOK` (HeapFile) | `numPages++` is missing |
| `NoLoserEffects` | Rollback leaves the page in the pool |
| `RecoveryIdempotent` | REDO treats Abort as spec.md 4.4 words it |
| `TypeOK` (LogRecovery) | `LogAbort` writes no tid |
| `TypeOK` (LogFile) | the file is reopened without resetting `offset` |
| `LogRefinement` | Rollback does not seek back to the end, so the next record overwrites the log |
| `RecoverMatchesRecords` | the UNDO pass saves `f.offset` after appending the Abort record |
| `RollbackMatchesRecords` | Rollback undoes Update records of every transaction |
| `RecoverySurvivesCrash` | REDO lets an Abort record end the loser |
| `PassesEnd` | the reverse iterator does not seek back to the record's start |
| `TypeOK` (QueryExec) | the scan does not notice that its page object was evicted |
| `ScanYieldsTable` | `tupleIter` advances `i` before reading slot `i` |
| `DeleteRemovesMatches` | `deleteTuple` does not mark the page dirty |
| `FirstPullEnds` | the iterator compares `pgNo` with the live `NumPages()` instead of its snapshot |
| `AbortKeepsPartialEffect` | the Filter's comparison is inverted |
| `TypeOK` (Operators) | LimitOp stops at `cnt = limit + 1` |
| `LimitYieldsPrefix` | LimitOp stops at `cnt + 1 = limit` |
| `ProjectYieldsSpec` | `contains` never finds a seen tuple |
| `SortIsOrdered` | `Less` does not swap operands for a descending key |
| `StatsRangeValid` | `tableMinMax` lacks its final reset loop |

## Findings

1. **Stale rids.** `FlushAllPages` (`buffer_pool.go:35-40`) marks pages clean
   without compacting them. Disk images are dense. After eviction and
   reload, slots are renumbered and an old rid names another tuple. TLC's
   trace has 10 steps:
   - insert t1 and t2;
   - insert t3, which grows the file while the pool is full;
   - scan page 0;
   - delete t1;
   - flush;
   - scan page 1, which evicts page 0;
   - insert t4, which reloads page 0 as [t2, t4];
   - delete t2 by its rid (0,1), which deletes t4.
2. **Abort records are ignored by REDO** (`buffer_pool_extra.go:74`, an empty
   `case`). Take T1, which updated P1 and rolled back, and T2, which then
   wrote P1 and committed. After a crash, Recover keeps T1 a loser and
   restores T1's before image over T2's committed value.
   The fix spec.md suggests is to let Abort end the loser. On its own, that
   breaks idempotence: REDO would re-apply T1's update, which nothing
   undoes. The mutant `RedoPassAbortEndsLoser` shows this.
3. **Torn log tail.** A partial last record makes `ForwardIterator` return an
   error, and `Recover` returns it at `buffer_pool_extra.go:95-97`. spec.md 7
   treats the last intact record as the end of the log. With `WF(Recover)`,
   `~up ~> up` fails: the database stays down.

4. **Halloween problem** (`part_000:264`). `InsertOp` inserts each tuple
   before it pulls the next. With page 0 holding `[t1, nil]`, the copy of
   `t1` goes into slot 1 of the page object the scan is reading. The scan
   returns the copy, and the copy of the copy grows the file, so the table
   ends with three `t1`. The `nPages` snapshot stops the scan at the pages
   that existed when it started, but not within them. spec.md does not say
   what a statement that reads and writes one table does.
5. **Abort undoes nothing** (`buffer_pool.go:45`). A delete or insert that
   fails with BufferPoolFull partway through is aborted. `AbortTransaction`
   is empty, so the pages it changed stay dirty in the pool and reach disk
   at the next flush. spec.md says abort discards the transaction's dirty
   pages. The code comment says abort need not be implemented for lab 1.
   Its run (`StatementAtomic` over a one-page pool) has been retired to
   make room for `fieldsum_stale`. This finding is now only an observation
   and is not in `PROJECT.json`. The `queryexec` run checks what the code
   does guarantee here (`AbortKeepsPartialEffect`): the part of a statement
   that survives its abort is a part of its own effect.
6. **No end-of-stream after the count** (`part_000:282`,
   `delete_op.go:53`). Once `completed`, every pull returns another count
   tuple (count 0) and never nil. The `TestParse` loop (`part_002:271-283`)
   pulls until nil, so for an insert or delete it never ends. spec.md says
   subsequent pulls yield end-of-stream. Its run (`MCQueryExecDrain.cfg`,
   `DrainConsumer = TRUE`) has been retired to make room for
   `queryexec_limit`. With `DrainConsumer = TRUE` in `MCQueryExec.cfg`,
   `ConsumerPull` loops in the emitted state and the statement never
   returns to idle. The passing run checks only `FirstPullEnds`, which holds
   for both consumers: the first pull returns. This finding
   is now only an observation and is not in `PROJECT.json`.

7. **Project ignores `distinct`** (`project_op.go:94`). The closure always
   skips projections already in `seen`, so `SELECT name` over `(1,1), (1,2)`
   returns one row. spec.md 4.3 removes duplicates only when `distinct` is
   set. The run that showed this has been retired to make room for the
   `logfile` run. Its trace is one step: Project's closure over a child of
   two rows with the same name. This finding is now only an observation
   and is not in `PROJECT.json`.
8. **OrderBy panics on repeated rows** (`order_by_op.go:89`). When two rows
   are equal on every key, `Less` leaves its loop with `k = len(orderBy)`
   and indexes `ascending[k]` out of range. spec.md 4.3 keeps such rows in
   child order.

   A second fault is noted but has no run of its own.
   `OrderBy.Iterator` returns the error "not implemented" with every
   iterator (line 159), so a caller that checks the error never sees
   sorted rows. `SortIsOrdered` checks only the sort that runs before that
   return, which completes and orders the rows for every input without such ties.
   The return itself is the fault noted here, not a behaviour that any
   property accepts.

9. **Stale pool pages after a file is recreated** (`lab1_query.go:27`).
   `computeFieldSum` removes `myfile.dat` and creates a new `HeapFile` over
   it, with the caller's pool. The pool keys pages by
   `heapHash{file name, page number}`, and nothing drops the old file's
   pages from it. TLC's trace has 11 steps:
   1. The first call loads `<<1>>`, and page 0 stays cached, clean, as
      `[1, nil]`.
   2. The first call returns 1.
   3. The second call removes the file and loads `<<1>>` again.
   4. `insertTuple` appends page 0 and writes an empty page.
   5. `GetPage(0)` hits the cached page, and the tuple goes into slot 1.
   6. `FlushAllPages` writes `[1, 1]` to the new file.
   7. The second call returns 2.

   A fuller cached page makes the insert fail with `ErrPageFull`, which
   `LoadFromCSV` ignores.

10. **LIMIT fails after its last row** (`project_op.go:148`). `LimitOp`'s
    closure calls the child before it tests `cnt` against the limit. The
    pull after the L-th tuple still runs the scan. When that tuple was the
    last of its page, the scan fetches the next page. With a pool full of
    dirty pages, `GetPage` fails, and the statement returns BufferPoolFull
    after it has produced all its rows. TLC's trace has 8 states, with
    one-page pool and `LIMIT 2`:
    1. Load t1.
    2. Insert t2. Page 0 is now dirty and full.
    3. Insert t3. This appends page 1, fails to fetch it, and drops t3.
    4. `LIMIT 2` returns t1 and t2.
    5. The third pull fails.

    spec.md 149 says Limit emits at most L tuples and then yields
    end-of-stream. Testing `cnt` before the pull would avoid the fetch.
11. **Table statistics swallow scan errors** (`table_stats.go:54`, `:120`).
    Both scan loops are written `for tup, err := iter(); tup != nil; ...`.
    The heap file iterator returns `(nil, err)` when `GetPage` fails, so
    the loop ends, and the `if err != nil` inside it never sees the error.
    `ComputeTableStats` then returns success with ranges, and a `baseTups`
    count, taken from only the part of the table read before the failure.
    The model takes each scan's result from `ScanPrefixes`, and
    `StatsRangeValid` still holds: every range lies inside the real
    column's values. No run shows the stats missing rows, because that
    would need another violation run. This is an observation only and is
    not in `PROJECT.json`.

## Bounds

- **heapfile.** 4 tuples, 2 slots per page, at most 2 pages and a pool of 1
  page (37,921 states, about 30 s).
  - The pool is smaller than the file, so every access to the other page
    evicts.
  - Four tuples fill both pages, so the append and pool-full paths are taken.
  - Deletes and re-inserts reach the renumbering case.
  - A larger run (5 tuples, 3 pages, pool of 2) ran past 25 minutes.
- **recovery.** 2 transactions, 2 pages, 2 updates per transaction, 2 crashes,
  torn writes on (about 108,000 states, under 10 s).
  - Two transactions are needed for a commit after an abort on the same page.
  - Two crashes are needed for a recovery after a recovery.
  - Two updates are needed for an Update record that precedes another
    transaction's Update in the log.
- **logfile.** 2 transactions, 1 page, 1 update per transaction, 2 crashes,
  no torn writes (38,363 states, about 110 s).
  - Two transactions give a loser beside a committed or rolled-back
    transaction in one log.
  - Two crashes give a crash during an UNDO pass, followed by a recovery
    that completes.
  - One page is enough: the before image of the second writer is the
    first writer's uncommitted value, which is what the passes must
    restore.
  - Torn records are covered at record level by the recovery runs. With
    them on, every later Recover fails (finding 3), and the passes stop
    being interesting.
  - Deadlock is not checked: the client may run out of transactions.
- **queryexec.** 3 tuples, of which the filter accepts 1; 2 slots per page; at
  most 4 pages; a pool of 3; `LIMIT 1` (42,203 states, about 40 s).
  - The pool is smaller than the file, so a scan's own `GetPage` evicts.
    An insert or delete can evict the page the scan is reading.
  - An insert statement starts only while the file can double within
    `MaxPages`, so every append it needs stays within the bound.
  - With a pool of 2, dirty pages fill the pool and abort a runaway insert
    before it reaches the file bound. With 3, a scan that ignored its
    snapshot runs until the file is full, and the seeded fault for
    `FirstPullEnds` shows that.
  - The violation runs use 2 pages and pools of 1 or 2, which reach their
    traces within a few steps. `queryexec_limit` uses `LIMIT 2`, so both
    tuples of a full page are returned before the extra pull.
- **fieldsum_stale.** Two calls, CSV files of up to 2 rows of the values 1
  and 2, 2 slots per page, at most 2 pages and a pool of 2. The pool holds
  the whole file, so nothing evicts the first call's pages. Two calls are
  the least that can show the fault.
- **operators.** Children of at most 3 rows over 2 names and 2 ages: 41
  inputs without full ties, 85 with them (3,680 states with the two descriptors).
  - Keys `<<name asc, age desc>>` as in scenario S4, so both directions and
    the second key decide some comparisons.
  - `Sel = {name}`, so projections repeat.
  - `LIMIT 1`, below the longest child.
  - Three rows give insertion sort a sift of two steps.
  - At these lengths `sort.Sort` is `insertionSort`: pdqsort, and the older
    quickSort, switch to it below 13 elements.
  - Tables with and without an int column, so `ComputeTableStats` both
    fails in `NewIntHistogram` and succeeds. An empty child reaches the
    reset of unseen fields.
  - The consumer stops after each plan returns nil or its error, so
    deadlock is not checked.
- `MaxPages`, `MaxCrashes` and `MaxUpdates` are named bounds in the guards.
- No symmetry is used, because the refinement and liveness properties are
  temporal.

## Fairness

In LogRecovery, only `Recover` is fair (`WF_vars(Recover)`). The code calls `Recover` on
every start of the database (`MakeTestDatabase`, `part_002:39`). Client
operations and crashes get no fairness, because a client may stop at any
time.

In LogFile, the steps of Recover and of Rollback are fair. Each is one
Go call that loops over the log in a single goroutine until the reverse
iterator returns nil or an error, so once started it runs to its end
unless the process crashes. Clients and crashes get no fairness.

In QueryExec, the statement's steps and the consumer are fair
(`WF_vars(StmtNext)`). Once the consumer has made its first pull, the
statement's loop is one synchronous Go call, which runs to its end. Starting a
statement and the client's own calls are not fair.

## Not modelled

- The widths of fields, and the layout of tuples inside a page image.
  `LogFile` counts one cell per `binary.Write` field, and a page image is one
  value.
- `OutputPrettyLog` prints every record. Its only state change is the
  `Force` its first seek does, which `ForceLog` models.
- Failed disk writes. `FlushAllPages` ignores `flushPage`'s error and
  marks the page clean anyway (`buffer_pool.go:37`). The model's writes
  never fail. With such a fault added, `CleanPagesMatchDisk` is the
  invariant that would fail. Hazard listed.
- `LogUpdate` ignores the errors of `writePage` (`int_histogram.go:276`). The
  model's pages always belong to the one file in the catalog, so the error
  path is not explored. Hazard listed.
- Statistics. The float estimates `EstimateScanCost`,
  `EstimateCardinality` and `EstimateSelectivity` change no state. The
  contents of the histograms are not modelled either: `IntHistogram` is a
  stub, and `StringHistogram` is a count-min sketch from an external
  library. `basePages` is the heap file's `NumPages`, which the `HeapFile`
  model covers. Values beyond the int32 seeds of `tableMinMax` cannot be
  enumerated, because TLC's integers are 32-bit (hazard listed).
  `NewIntHistogram` always fails, so in this repository `ComputeTableStats`
  returns an error for every table with an int column, after a full scan.
  For an empty table with string columns, `StringHistogram`'s estimate is
  0/0, which is NaN, and `EstimateCardinality` converts NaN with `int()`
  (`part_001:29`, hazard listed).
- Aggregate accumulators (`part_003`). They are not among the
  implementation files and spec.md puts them out of scope. Test helpers
  (`part_002`).
- In `computeFieldSum`: the errors of `os.Open` and `findFieldInTd`,
  malformed CSV lines, and the header line. Every CSV file of the model
  is well formed.
- Tuple descriptors, field names and expression evaluation. A filter
  predicate is membership in a set, and a projection selects fields.

## Plan

1. **Statements.** Done in `QueryExec`, including `LimitOp` over a scan.
   Left: `Project` and `OrderBy` over a scan. They drain or pull the scan
   the way the modelled plans do.
2. **Pure operators.** Done in `Operators`. Left: the aggregate
   accumulators (`part_003`) as operators checked against reference sums
   and counts.
3. **Composition.** `HeapFile` with transactions: AbortTransaction leaves
   dirty pages, and Rollback deletes pool entries behind the heap file's
   back while `lastEmptyPage` is stale.
4. **Recovery.** Done in `LogFile`: Recover and Rollback as steps with
   crashes between them. Left: an unguarded `FlushAllPages` (the WAL rule left to the caller).
