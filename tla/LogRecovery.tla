---------------------------- MODULE LogRecovery ----------------------------
(***************************************************************************)
(* The write-ahead log (LogFile, src/lab1_solution/godb/int_histogram.go)  *)
(* and the buffer pool's Rollback and Recover (src/godb/                   *)
(* buffer_pool_extra.go), driven by transactions that log their updates    *)
(* as the header of log_file.go asks of its user: Begin, Update records    *)
(* before the page reaches disk, Commit/Abort, all through the LogFile API.*)
(*                                                                         *)
(*   logDisk   the records written to the log file by Force                *)
(*   logBuf    LogFile.buf: records appended but not yet forced            *)
(*   data      the data files, one value per page                          *)
(*   cache     BufferPool.pages restricted to the pages' values            *)
(*   dirty     pages modified in the cache and not yet flushed             *)
(*   txState   the life of each transaction id                             *)
(*   lock      page -> transaction holding it (strict two-phase locking,   *)
(*             the callers' discipline the log file relies on)            *)
(*   expected  history: each page's value as of the last commit            *)
(*   up        FALSE from a crash until Recover succeeds                   *)
(*   crashes   number of crashes so far                                    *)
(*                                                                         *)
(* Page images are abstracted to the id of the transaction that wrote      *)
(* them last (Unwritten before any write); record offsets to log positions.     *)
(***************************************************************************)
EXTENDS Naturals, Sequences, SequencesExt, FiniteSets, Functions

CONSTANTS
  Tids,        \* transaction ids, each used by one transaction
  Pages,       \* data pages
  Unwritten,        \* the value of a page nobody has written
  NoTid,       \* no lock holder
  MaxCrashes,  \* bound on crashes
  MaxUpdates,  \* bound on the Update records of one transaction
  TornWrites   \* whether a crash inside Force may leave a partial record

ASSUME Unwritten \notin Tids /\ NoTid \notin Tids
ASSUME MaxCrashes \in Nat /\ MaxUpdates \in Nat /\ TornWrites \in BOOLEAN

VARIABLES logDisk, logBuf, data, cache, dirty, txState, lock, expected,
          up, crashes

vars == <<logDisk, logBuf, data, cache, dirty, txState, lock, expected,
          up, crashes>>

Vals == Tids \cup {Unwritten}

BeginRec(t)  == [type |-> "Begin", tid |-> t]
CommitRec(t) == [type |-> "Commit", tid |-> t]
\* Seeded fault: LogAbort writes its header without the transaction id.
AbortRecNoTid(t) == [type |-> "Abort", tid |-> NoTid]
AbortRec(t)  == [type |-> "Abort", tid |-> t]
UpdateRec(t, p, b, a) ==
  [type |-> "Update", tid |-> t, page |-> p, before |-> b, after |-> a]

\* What Force leaves on disk when a crash interrupts the write midway.
Torn == [type |-> "Torn"]

\* GenericLogRecord: a Begin, Commit or Abort record, its type and tid (its
\* offset is the record's position in the log).
GenericLogRecord == [type : {"Begin", "Commit", "Abort"}, tid : Tids]

\* UpdateLogRecord: a generic header with the Before and After pages.
UpdateLogRecord ==
  [type : {"Update"}, tid : Tids, page : Pages, before : Vals, after : Vals]

\* LogRecordType's four kinds, each with the record its iterators return.
Record == GenericLogRecord \cup UpdateLogRecord

TypeOK ==
  /\ logDisk \in Seq(Record \cup {Torn})
  /\ logBuf \in Seq(Record)
  /\ data \in [Pages -> Vals]
  /\ DOMAIN cache \subseteq Pages /\ \A p \in DOMAIN cache : cache[p] \in Vals
  /\ dirty \subseteq DOMAIN cache
  /\ txState \in [Tids -> {"idle", "active", "committed", "aborted", "failed"}]
  /\ lock \in [Pages -> Tids \cup {NoTid}]
  /\ expected \in [Pages -> Vals]
  /\ up \in BOOLEAN
  /\ crashes \in 0 .. MaxCrashes

\* A page as a reader sees it: the cached copy, else the data file.
Current(p) == IF p \in DOMAIN cache THEN cache[p] ELSE data[p]

\* LogFile.Force: append the buffer to the file.
Forced == logDisk \o logBuf

-----------------------------------------------------------------------------
(***************************************************************************)
(* Recover.  Pass 1 reads the log forward: Begin adds a loser, Commit      *)
(* removes it, and the case for Abort is empty (a Go switch case does not  *)
(* fall through), so an aborted transaction stays a loser.  Every Update   *)
(* has its after image flushed.  A partial record ends the pass with an    *)
(* error, after the updates before it were flushed.                        *)
(***************************************************************************)
\* Seeded fault: pass 1 as spec.md 4.4 words it, an Abort ends the loser.
RECURSIVE RedoPassAbortEndsLoser(_, _)
RedoPassAbortEndsLoser(log, st) ==
  IF log = <<>> THEN st
  ELSE LET r == Head(log) IN
       IF r.type = "Torn" THEN [st EXCEPT !.ok = FALSE]
       ELSE RedoPassAbortEndsLoser(Tail(log),
              CASE r.type = "Begin"  -> [st EXCEPT !.losers = @ \cup {r.tid}]
                [] r.type \in {"Commit", "Abort"}
                                     -> [st EXCEPT !.losers = @ \ {r.tid}]
                [] r.type = "Update" -> [st EXCEPT !.data[r.page] = r.after])

RECURSIVE RedoPass(_, _)
RedoPass(log, st) ==
  IF log = <<>> THEN st
  ELSE LET r == Head(log) IN
       IF r.type = "Torn" THEN [st EXCEPT !.ok = FALSE]
       ELSE RedoPass(Tail(log),
              CASE r.type = "Begin"  -> [st EXCEPT !.losers = @ \cup {r.tid}]
                [] r.type = "Commit" -> [st EXCEPT !.losers = @ \ {r.tid}]
                [] r.type = "Abort"  -> st
                [] r.type = "Update" -> [st EXCEPT !.data[r.page] = r.after])

(***************************************************************************)
(* Pass 2 reads the log backward while losers remain: a loser's Update has *)
(* its before image flushed; a loser's Begin gets an Abort record appended *)
(* at the end of the log and forced, and the loser is dropped.             *)
(***************************************************************************)
RECURSIVE UndoPass(_, _)
UndoPass(log, st) ==
  IF st.losers = {} \/ log = <<>> THEN st
  ELSE LET r == Last(log) IN
       UndoPass(Front(log),
         IF r.tid \notin st.losers THEN st
         ELSE CASE r.type = "Update" -> [st EXCEPT !.data[r.page] = r.before]
                [] r.type = "Begin"  -> [st EXCEPT !.losers = @ \ {r.tid},
                                           !.aborts = Append(@, AbortRec(r.tid))]
                [] OTHER -> st)

\* The outcome of Recover on a log file and data files: [ok, data, aborts].
RecoverResult(log, d) ==
  LET redo == RedoPass(log, [ok |-> TRUE, data |-> d, losers |-> {}])
  IN  IF ~redo.ok THEN [ok |-> FALSE, data |-> redo.data, aborts |-> <<>>]
      ELSE LET undo == UndoPass(log, [data |-> redo.data,
                                      losers |-> redo.losers,
                                      aborts |-> <<>>])
           IN  [ok |-> TRUE, data |-> undo.data, aborts |-> undo.aborts]

(***************************************************************************)
(* Rollback(tid): ReverseIterator forces the buffer, then records are read *)
(* backward; each Update of tid has its cache entry dropped and its before *)
(* image flushed, until tid's Begin.                                       *)
(***************************************************************************)
\* Seeded fault: Rollback flushes the before image but leaves the page
\* in bp.pages (the delete is missing).
RECURSIVE RollbackPassKeepCache(_, _, _)
RollbackPassKeepCache(log, t, st) ==
  IF log = <<>> THEN st
  ELSE LET r == Last(log) IN
       IF r.tid # t THEN RollbackPassKeepCache(Front(log), t, st)
       ELSE IF r.type = "Begin" THEN st
       ELSE IF r.type = "Update"
         THEN RollbackPassKeepCache(Front(log), t,
                [data |-> [st.data EXCEPT ![r.page] = r.before],
                 cache |-> st.cache])
       ELSE RollbackPassKeepCache(Front(log), t, st)

RECURSIVE RollbackPass(_, _, _)
RollbackPass(log, t, st) ==
  IF log = <<>> THEN st
  ELSE LET r == Last(log) IN
       IF r.tid # t THEN RollbackPass(Front(log), t, st)
       ELSE IF r.type = "Begin" THEN st
       ELSE IF r.type = "Update"
         THEN RollbackPass(Front(log), t,
                [data  |-> [st.data EXCEPT ![r.page] = r.before],
                 cache |-> Restrict(st.cache, DOMAIN st.cache \ {r.page})])
       ELSE RollbackPass(Front(log), t, st)

-----------------------------------------------------------------------------
(* Actions *)

\* BeginTransaction (empty in the pool) and LogFile.LogBegin.
Begin(t) ==
  /\ up
  /\ txState[t] = "idle"
  /\ txState' = [txState EXCEPT ![t] = "active"]
  /\ logBuf' = Append(logBuf, BeginRec(t))
  /\ UNCHANGED <<logDisk, data, cache, dirty, lock, expected, up, crashes>>

\* A write by t to page p through the pool (GetPage, then setDirty), logged
\* by LogFile.LogUpdate with the page as it was and as it becomes.  The
\* page stays locked by t until t ends.
Update(t, p) ==
  /\ up
  /\ txState[t] = "active"
  /\ Len(SelectSeq(Forced, LAMBDA r : r.type = "Update" /\ r.tid = t))
       < MaxUpdates
  /\ lock[p] \in {NoTid, t}
  /\ lock' = [lock EXCEPT ![p] = t]
  /\ cache' = (p :> t) @@ cache
  /\ dirty' = dirty \cup {p}
  /\ logBuf' = Append(logBuf, UpdateRec(t, p, Current(p), t))
  /\ UNCHANGED <<logDisk, data, txState, expected, up, crashes>>

\* LogFile.Force called by a client: the buffer reaches the file.
ForceLog ==
  /\ up
  /\ logBuf # <<>>
  /\ logDisk' = Forced
  /\ logBuf' = <<>>
  /\ UNCHANGED <<data, cache, dirty, txState, lock, expected, up, crashes>>

Release(t) == [p \in Pages |-> IF lock[p] = t THEN NoTid ELSE lock[p]]

\* LogFile.LogCommit and Force; the pages t wrote stay in the pool (the
\* pool's CommitTransaction writes nothing).
Commit(t) ==
  /\ up
  /\ txState[t] = "active"
  /\ logDisk' = Forced \o <<CommitRec(t)>>
  /\ logBuf' = <<>>
  /\ expected' = [p \in Pages |-> IF lock[p] = t THEN Current(p)
                                  ELSE expected[p]]
  /\ lock' = Release(t)
  /\ txState' = [txState EXCEPT ![t] = "committed"]
  /\ UNCHANGED <<data, cache, dirty, up, crashes>>

\* BufferPool.Rollback(t), then LogFile.LogAbort and Force.
Abort(t) ==
  LET st == RollbackPass(Forced, t, [data |-> data, cache |-> cache]) IN
  /\ up
  /\ txState[t] = "active"
  /\ data' = st.data
  /\ cache' = st.cache
  /\ dirty' = dirty \cap DOMAIN st.cache
  /\ logDisk' = Forced \o <<AbortRec(t)>>
  /\ logBuf' = <<>>
  /\ lock' = Release(t)
  /\ txState' = [txState EXCEPT ![t] = "aborted"]
  /\ UNCHANGED <<expected, up, crashes>>

(***************************************************************************)
(* BufferPool.FlushAllPages writes every cached page, committed or not     *)
(* (STEAL).  It does not force the log: write-ahead logging is the         *)
(* caller's duty, so it is called only when no Update record is still in   *)
(* the buffer.                                                             *)
(***************************************************************************)
FlushAllPages ==
  /\ up
  /\ \A i \in DOMAIN logBuf : logBuf[i].type # "Update"
  /\ data' = [p \in Pages |-> Current(p)]
  /\ dirty' = {}
  /\ UNCHANGED <<logDisk, logBuf, cache, txState, lock, expected, up, crashes>>

(***************************************************************************)
(* The process dies.  The pool and the log buffer are lost; a crash inside *)
(* Force may leave any prefix of the buffer's records on disk, and with    *)
(* TornWrites a partial record after it.  Active transactions are lost.    *)
(***************************************************************************)
Crash ==
  /\ up
  /\ crashes < MaxCrashes
  /\ \E k \in 0 .. Len(logBuf) :
       \/ logDisk' = logDisk \o SubSeq(logBuf, 1, k)
       \/ /\ TornWrites /\ k < Len(logBuf)
          /\ logDisk' = logDisk \o SubSeq(logBuf, 1, k) \o <<Torn>>
  /\ logBuf' = <<>>
  /\ cache' = <<>>
  /\ dirty' = {}
  /\ lock' = [p \in Pages |-> NoTid]
  /\ txState' = [t \in Tids |-> IF txState[t] = "active" THEN "failed"
                                ELSE txState[t]]
  /\ up' = FALSE
  /\ crashes' = crashes + 1
  /\ UNCHANGED <<data, expected>>

\* BufferPool.Recover at start-up; on an error the database stays down.
Recover ==
  LET res == RecoverResult(logDisk, data) IN
  /\ ~up
  /\ data' = res.data
  /\ logDisk' = logDisk \o res.aborts
  /\ up' = res.ok
  /\ UNCHANGED <<logBuf, cache, dirty, txState, lock, expected, crashes>>

Init ==
  /\ logDisk = <<>>
  /\ logBuf = <<>>
  /\ data = [p \in Pages |-> Unwritten]
  /\ cache = <<>>
  /\ dirty = {}
  /\ txState = [t \in Tids |-> "idle"]
  /\ lock = [p \in Pages |-> NoTid]
  /\ expected = [p \in Pages |-> Unwritten]
  /\ up = FALSE
  /\ crashes = 0

Next ==
  \/ \E t \in Tids : Begin(t) \/ Commit(t) \/ Abort(t)
  \/ \E t \in Tids, p \in Pages : Update(t, p)
  \/ ForceLog
  \/ FlushAllPages
  \/ Crash
  \/ Recover

\* Recover runs at every start of the database.
Spec == Init /\ [][Next]_vars /\ WF_vars(Recover)

-----------------------------------------------------------------------------
(* Properties *)

\* Atomicity: while the database is up no page shows a write of a
\* transaction that aborted or was lost in a crash, whatever the
\* interleaving of rollbacks, flushes, crashes and recoveries before.
NoLoserEffects ==
  up => \A p \in Pages : \/ Current(p) = Unwritten
                         \/ Current(p) = lock[p]
                         \/ txState[Current(p)] = "committed"

\* spec.md 8.6: recovery is idempotent; recovering again from the log and
\* data files a successful Recover leaves behind changes no page.
RecoveryIdempotent ==
  [][(~up /\ up') => RecoverResult(logDisk', data').data = data']_vars

\* spec.md 8.7: after any crashes and recoveries every unlocked page holds
\* what the last committed transaction to write it wrote.
CommittedDurable ==
  up => \A p \in Pages : lock[p] = NoTid => Current(p) = expected[p]

\* spec.md 7: a torn tail is treated as the end of the log, so every crash
\* is followed by a successful recovery.
RestartRecovers == ~up ~> up

=============================================================================
