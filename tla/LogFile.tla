------------------------------ MODULE LogFile ------------------------------
(***************************************************************************)
(* LogFile (src/lab1_solution/godb/int_histogram.go) at the level of its   *)
(* encoding, and the buffer pool's Recover and Rollback (src/godb/         *)
(* buffer_pool_extra.go) reading it one iterator call at a time.           *)
(*                                                                         *)
(* The file is a sequence of cells, one per field binary.Write writes: a   *)
(* record is its type code, its transaction id, for an Update two pages    *)
(* of three cells (file id, page number, image) and a footer holding the   *)
(* record's start offset.  Offsets count cells, so the code's 8-byte       *)
(* footer is FooterSize = 1 cell.  The OS file position (pos) and the      *)
(* LogFile's offset field are separate variables, as in the code: Force    *)
(* writes at pos, the iterators test and save offset.                      *)
(*                                                                         *)
(* Decoded records are LogRecovery's records, so Recover and Rollback are  *)
(* checked against the record-level passes that LogRecovery runs, and the  *)
(* file against the record log of RecordLog.                               *)
(***************************************************************************)
EXTENDS Integers, Sequences, SequencesExt, FiniteSets, Functions

CONSTANTS
  Tids, Pages, Unwritten, NoTid,   \* as in LogRecovery; integers here
  FileId,      \* the catalog id of the table file
  MaxCrashes,  \* bound on crashes
  MaxUpdates,  \* bound on the Update records of one transaction
  TornWrites   \* whether a crash inside Force may cut a record

VARIABLES
  file,     \* the log file's contents
  pos,      \* the os.File position
  buf,      \* LogFile.buf
  offset,   \* LogFile.offset
  data,     \* the data pages as flushPage leaves them
  cur,      \* each page as GetPage returns it: the pool's copy, else data
  pc,       \* "down", "undo" (Recover's reverse pass), "ready", "rollback"
  losers,   \* the keys of Recover's losers map
  rb,       \* the transaction Rollback undoes
  txs,      \* what the client has done with each transaction id
  crashes,  \* number of crashes so far
  start,    \* history: records, data and losers when the pass began
  goal      \* history: the data one Recover makes of the last crash's state

vars == <<file, pos, buf, offset, data, cur, pc, losers, rb, txs, crashes, start,
          goal>>

LR == INSTANCE LogRecovery
        WITH logDisk <- <<>>, logBuf <- <<>>, cache <- <<>>, dirty <- {},
             txState <- [t \in Tids |-> "idle"],
             lock <- [p \in Pages |-> NoTid], expected <- data, up <- FALSE

TypeOK ==
  /\ file \in Seq(Int) /\ buf \in Seq(Int)
  /\ pos \in 0 .. Len(file)
  /\ offset \in 0 .. Len(file) + Len(buf)
  /\ data \in [Pages -> LR!Vals] /\ cur \in [Pages -> LR!Vals]
  /\ pc \in {"down", "undo", "ready", "rollback"}
  /\ losers \subseteq Tids
  /\ rb \in Tids \cup {NoTid}
  /\ txs \in [Tids -> {"idle", "active", "committed", "rolledback",
                       "aborted", "failed"}]
  /\ crashes \in 0 .. MaxCrashes

-----------------------------------------------------------------------------
(* Encoding *)

\* LogRecordType: AbortRecord, CommitRecord, UpdateRecord, BeginRecord (iota).
Code == ("Abort" :> 0) @@ ("Commit" :> 1) @@ ("Update" :> 2) @@ ("Begin" :> 3)

TypeName(c) ==
  IF c \in Range(Code) THEN CHOOSE n \in DOMAIN Code : Code[n] = c
  ELSE "Unknown"

FooterSize == 1

\* writePage: the file id, the page number and the page image.
PageCells(p, img) == <<FileId, p, img>>

\* LogBegin, LogCommit, LogAbort, LogUpdate: writeHeader, the pages of an
\* Update, and the footer, the offset the record starts at.
Encode(r, off) ==
  <<Code[r.type], r.tid>>
  \o (IF r.type = "Update"
      THEN PageCells(r.page, r.before) \o PageCells(r.page, r.after)
      ELSE <<>>)
  \o <<off>>

(***************************************************************************)
(* One call of ForwardIterator's closure at offset o: "eof" when not even  *)
(* the type can be read, "partial" on a short read, on a file id the       *)
(* catalog does not know (readPage) or on a footer other than o.           *)
(***************************************************************************)
ReadAt(f, o) ==
  LET c(i) == f[o + i]
      size == IF c(1) = Code["Update"] THEN 9 ELSE 3
  IN  IF o >= Len(f) THEN [st |-> "eof"]
      ELSE IF o + size > Len(f) THEN [st |-> "partial"]
      ELSE IF c(1) = Code["Update"] /\ (c(3) # FileId \/ c(6) # FileId)
        THEN [st |-> "partial"]
      ELSE IF c(size) # o THEN [st |-> "partial"]
      ELSE [st |-> "ok", next |-> o + size,
            rec |-> IF c(1) = Code["Update"]
                    THEN LR!UpdateRec(c(2), c(4), c(5), c(8))
                    ELSE [type |-> TypeName(c(1)), tid |-> c(2)]]

\* The records the forward iterator returns from offset 0, a partial one
\* as LogRecovery's Torn.
Records(f) ==
  LET From[o \in 0 .. Len(f)] ==
        LET r == ReadAt(f, o) IN
        CASE r.st = "eof" -> <<>>
          [] r.st = "partial" -> <<LR!Torn>>
          [] OTHER -> <<r.rec>> \o From[r.next]
  IN  From[0]

\* The cell counts at which the records in a buffer end.
RECURSIVE Ends(_, _)
Ends(s, i) ==
  IF i >= Len(s) THEN {}
  ELSE LET n == i + (IF s[i + 1] = Code["Update"] THEN 9 ELSE 3)
       IN  {n} \cup Ends(s, n)

-----------------------------------------------------------------------------
(* LogFile methods, as functions of the state [file, pos, buf, offset] *)

LF == [file |-> file, pos |-> pos, buf |-> buf, offset |-> offset]

SetLF(s) == file' = s.file /\ pos' = s.pos /\ buf' = s.buf /\ offset' = s.offset

\* file.Write: overwrite from position p on, extending the file past its end.
WriteAt(f, p, s) == SubSeq(f, 1, p) \o s \o SubSeq(f, p + Len(s) + 1, Len(f))

\* Force: nothing on an empty buffer, else write it at the file position
\* and reset it (the offset-mismatch check only logs).
Force(s) ==
  IF s.buf = <<>> THEN s
  ELSE [s EXCEPT !.file = WriteAt(s.file, s.pos, s.buf),
                 !.pos = s.pos + Len(s.buf), !.buf = <<>>]

\* seek(o, io.SeekStart) and seek(0, io.SeekEnd): force, then move both.
Seek(s, o) == [Force(s) EXCEPT !.pos = o, !.offset = o]
SeekEnd(s) == Seek(s, Len(Force(s).file))

\* write: append to the buffer and advance the offset by the size.
LogRec(s, r) ==
  [s EXCEPT !.buf = @ \o Encode(r, s.offset),
            !.offset = @ + Len(Encode(r, s.offset))]

(***************************************************************************)
(* One call of ReverseIterator's closure on a state whose offset is at     *)
(* least 8 bytes: seek(-8, io.SeekCurrent) (relative to the file           *)
(* position), read the footer, seek to the start it names, read the record *)
(* forward, and seek back to its start.  A seek before 0 is an error; a    *)
(* read at the end returns io.EOF, an error here.                          *)
(***************************************************************************)
\* Seeded fault: the closure leaves the file after the record it read.
RevStepNoSeekBack(s) ==
  LET f == Force(s)
      p == f.pos - FooterSize
      o == f.file[p + 1]
  IN  IF p < 0 \/ p >= Len(f.file) \/ o < 0 THEN [st |-> "error", lf |-> f]
      ELSE LET r == ReadAt(f.file, o) IN
           IF r.st = "ok" THEN [st |-> "ok", rec |-> r.rec, lf |-> Seek(f, r.next)]
           ELSE [st |-> r.st, lf |-> f]

RevStep(s) ==
  LET f == Force(s)
      p == f.pos - FooterSize
      o == f.file[p + 1]
  IN  IF p < 0 \/ p >= Len(f.file) \/ o < 0 THEN [st |-> "error", lf |-> f]
      ELSE LET r == ReadAt(f.file, o) IN
           IF r.st = "ok" THEN [st |-> "ok", rec |-> r.rec, lf |-> Seek(f, o)]
           ELSE [st |-> r.st, lf |-> f]

-----------------------------------------------------------------------------
(* Recover and Rollback, one iterator call per step *)

\* The process state a restart begins from: NewLogFile sets offset 0 on a
\* newly opened file.
\* Seeded fault: the restarted LogFile keeps the old offset.
DownKeepOffset(f) ==
  /\ file' = f /\ pos' = 0 /\ buf' = <<>> /\ UNCHANGED offset
  /\ pc' = "down" /\ losers' = {}

Down(f) ==
  /\ file' = f /\ pos' = 0 /\ buf' = <<>> /\ offset' = 0
  /\ pc' = "down" /\ losers' = {}

(***************************************************************************)
(* NewLogFile at start-up, then Recover: seek to the start, the forward    *)
(* pass (LogRecovery's RedoPass over the records the forward iterator      *)
(* returns), and ReverseIterator's seek to the end.  On an error Recover   *)
(* returns it and the database stays down.                                 *)
(***************************************************************************)
RecoverStart ==
  /\ pc = "down"
  /\ \E red \in {LR!RedoPass(Records(file),
                             [ok |-> TRUE, data |-> data, losers |-> {}])} :
       /\ data' = red.data /\ cur' = red.data
       /\ IF red.ok
          THEN /\ SetLF(SeekEnd([file |-> file, pos |-> 0, buf |-> <<>>,
                                 offset |-> 0]))
               /\ pc' = "undo"
               /\ losers' = red.losers
               /\ start' = [log |-> Records(file), data |-> red.data,
                            losers |-> red.losers]
          ELSE UNCHANGED <<file, pos, buf, offset, pc, losers, start>>
  /\ UNCHANGED <<rb, txs, crashes, goal>>

\* Recover's Begin case: save the offset, seek to the end, LogAbort,
\* Force, seek back.
\* Seeded fault: the offset is saved after the seek to the end.
WriteAbortSaveLate(s, t) ==
  Seek(Force(LogRec(SeekEnd(s), LR!AbortRec(t))), SeekEnd(s).offset)

WriteAbort(s, t) ==
  Seek(Force(LogRec(SeekEnd(s), LR!AbortRec(t))), s.offset)

\* The body of Recover's reverse loop for record r at log-file state s.
UndoCase(s, r) ==
  CASE r.tid \notin losers ->
         [lf |-> s, data |-> data, losers |-> losers]
    [] r.type = "Update" ->
         [lf |-> s, data |-> [data EXCEPT ![r.page] = r.before],
          losers |-> losers]
    [] r.type = "Begin" ->
         [lf |-> WriteAbort(s, r.tid), data |-> data,
          losers |-> losers \ {r.tid}]
    [] OTHER -> [lf |-> s, data |-> data, losers |-> losers]

\* A round of the reverse loop while losers remain: iter(), then the body.
UndoStep ==
  /\ pc = "undo"
  /\ losers # {} /\ offset >= FooterSize
  /\ \E v \in {RevStep(LF)} :
       /\ v.st # "eof"
       /\ IF v.st = "ok"
          THEN \E u \in {UndoCase(v.lf, v.rec)} :
                 SetLF(u.lf) /\ data' = u.data /\ cur' = u.data
                 /\ losers' = u.losers /\ UNCHANGED pc
          ELSE Down(file) /\ UNCHANGED <<data, cur>>
  /\ UNCHANGED <<rb, txs, crashes, start, goal>>

\* The loop ends with no losers left or at the start of the log; Recover
\* seeks to the end.
UndoEnd ==
  /\ pc = "undo"
  /\ losers = {} \/ offset < FooterSize \/ RevStep(LF).st = "eof"
  /\ SetLF(SeekEnd(LF))
  /\ pc' = "ready" /\ losers' = {}
  /\ UNCHANGED <<data, cur, rb, txs, crashes, start, goal>>

\* Rollback(t): ReverseIterator seeks to the end, forcing the buffer.
RollbackStart(t) ==
  /\ pc = "ready" /\ txs[t] = "active"
  /\ SetLF(SeekEnd(LF))
  /\ pc' = "rollback" /\ rb' = t
  /\ start' = [log |-> Records(Force(LF).file), data |-> data, losers |-> {}]
  /\ UNCHANGED <<data, cur, losers, txs, crashes, goal>>

\* The loop stops at a nil record, at an error (which Rollback ignores)
\* and at rb's Begin.
RollbackDone(v) ==
  \/ offset < FooterSize \/ v.st # "ok"
  \/ v.rec.tid = rb /\ v.rec.type = "Begin"

\* Another record: rb's Update has its page dropped from the pool and its
\* before image flushed; any other record is skipped.
\* Seeded fault: the tid test is missing; every Update is undone.
RollbackStepAnyTid ==
  LET v == RevStep(LF) IN
  /\ pc = "rollback" /\ ~RollbackDone(v)
  /\ SetLF(v.lf)
  /\ data' = IF v.rec.type = "Update"
             THEN [data EXCEPT ![v.rec.page] = v.rec.before] ELSE data
  /\ cur' = IF v.rec.type = "Update"
            THEN [cur EXCEPT ![v.rec.page] = v.rec.before] ELSE cur
  /\ UNCHANGED <<pc, losers, rb, txs, crashes, start, goal>>

RollbackStep ==
  LET v == RevStep(LF) IN
  /\ pc = "rollback" /\ ~RollbackDone(v)
  /\ SetLF(v.lf)
  /\ data' = IF v.rec.tid = rb /\ v.rec.type = "Update"
             THEN [data EXCEPT ![v.rec.page] = v.rec.before] ELSE data
  /\ cur' = IF v.rec.tid = rb /\ v.rec.type = "Update"
            THEN [cur EXCEPT ![v.rec.page] = v.rec.before] ELSE cur
  /\ UNCHANGED <<pc, losers, rb, txs, crashes, start, goal>>

\* After the loop Rollback seeks to the end of the log.
\* Seeded fault: Rollback returns without seeking to the end.
RollbackEndNoSeek ==
  /\ pc = "rollback" /\ RollbackDone(RevStep(LF))
  /\ SetLF(LF)
  /\ pc' = "ready"
  /\ txs' = [txs EXCEPT ![rb] = "rolledback"]
  /\ UNCHANGED <<data, cur, losers, rb, crashes, start, goal>>

RollbackEnd ==
  /\ pc = "rollback" /\ RollbackDone(RevStep(LF))
  /\ SetLF(SeekEnd(LF))
  /\ pc' = "ready"
  /\ txs' = [txs EXCEPT ![rb] = "rolledback"]
  /\ UNCHANGED <<data, cur, losers, rb, crashes, start, goal>>

-----------------------------------------------------------------------------
(* The client: a test or transaction using the LogFile API *)

Appended == Records(WriteAt(file, pos, buf))

UpdatesOf(t) ==
  Len(SelectSeq(Appended, LAMBDA r : r.type = "Update" /\ r.tid = t))

ClientWrite(t, st, r) ==
  /\ pc = "ready"
  /\ SetLF(LogRec(LF, r))
  /\ txs' = [txs EXCEPT ![t] = st]
  /\ UNCHANGED <<data, pc, losers, rb, crashes, start, goal>>

Client(t, st, r) == ClientWrite(t, st, r) /\ UNCHANGED cur

LogBegin(t) == txs[t] = "idle" /\ Client(t, "active", LR!BeginRec(t))

\* t writes page p in the pool and logs it with LogUpdate: the before
\* image is the page GetPage returned, the after image t's write.
LogUpdate(t, p) ==
  /\ txs[t] = "active" /\ UpdatesOf(t) < MaxUpdates
  /\ ClientWrite(t, "active", LR!UpdateRec(t, p, cur[p], t))
  /\ cur' = [cur EXCEPT ![p] = t]

LogCommit(t) == txs[t] = "active" /\ Client(t, "committed", LR!CommitRec(t))

LogAbort(t) == txs[t] = "rolledback" /\ Client(t, "aborted", LR!AbortRec(t))

\* Force called by the client.  OutputPrettyLog has the same effect: its
\* seek to the start forces the buffer and its deferred seek returns to
\* the offset it saved, the end of the log.
ForceLog ==
  /\ pc = "ready" /\ buf # <<>>
  /\ SetLF(Force(LF))
  /\ UNCHANGED <<data, cur, pc, losers, rb, txs, crashes, start, goal>>

\* The process dies, possibly inside a Force that wrote a prefix of the
\* buffer at the file position: whole records, or any prefix with TornWrites.
Crash ==
  /\ pc # "down" /\ crashes < MaxCrashes
  /\ \E k \in IF TornWrites THEN 0 .. Len(buf) ELSE {0} \cup Ends(buf, 0) :
       Down(WriteAt(file, pos, SubSeq(buf, 1, k)))
  /\ txs' = [t \in Tids |-> IF txs[t] \in {"active", "rolledback"}
                            THEN "failed" ELSE txs[t]]
  /\ crashes' = crashes + 1
  /\ cur' = data
  /\ goal' = IF pc = "undo" THEN goal
             ELSE LR!RecoverResult(Records(file'), data).data
  /\ UNCHANGED <<data, rb, start>>

Init ==
  /\ file = <<>> /\ pos = 0 /\ buf = <<>> /\ offset = 0
  /\ data = [p \in Pages |-> Unwritten] /\ cur = data
  /\ pc = "down" /\ losers = {} /\ rb = NoTid
  /\ txs = [t \in Tids |-> "idle"]
  /\ crashes = 0
  /\ start = [log |-> <<>>, data |-> data, losers |-> {}]
  /\ goal = data

Next ==
  \/ RecoverStart \/ UndoStep \/ UndoEnd
  \/ RollbackStep \/ RollbackEnd
  \/ \E t \in Tids : LogBegin(t) \/ LogCommit(t) \/ LogAbort(t)
                     \/ RollbackStart(t)
  \/ \E t \in Tids, p \in Pages : LogUpdate(t, p)
  \/ ForceLog
  \/ Crash

\* Recover and Rollback run in one goroutine to their end unless the
\* process dies; the client owes nothing.
Spec ==
  /\ Init /\ [][Next]_vars
  /\ WF_vars(RecoverStart \/ UndoStep \/ UndoEnd)
  /\ WF_vars(RollbackStep \/ RollbackEnd)


-----------------------------------------------------------------------------
(* Properties *)

RL == INSTANCE RecordLog
        WITH Rec <- LR!Record, TornRec <- LR!Torn,
             log <- Records(file),
             pending <- SubSeq(Appended, Len(Records(file)) + 1, Len(Appended))

\* spec.md 5, append semantics: decoded, the file is an append-only record
\* log; every append lands at the end although Force writes at the file
\* position the iterators and Recover's seeks move, and nothing on disk is
\* ever overwritten.
LogRefinement == RL!Spec

\* Recover's reverse pass, run as ReverseIterator calls that follow footers
\* and interleave Abort writes at the end with seeks back, flushes the
\* same before images and appends the same Abort records as LogRecovery's
\* UndoPass over the decoded log.
RecoverMatchesRecords ==
  [][pc = "undo" /\ pc' = "ready" =>
       LET u == LR!UndoPass(start.log, [data |-> start.data,
                                        losers |-> start.losers,
                                        aborts |-> <<>>])
       IN  data' = u.data /\ Records(file') = start.log \o u.aborts]_vars

\* Rollback(t), run as ReverseIterator calls, flushes the before images
\* that LogRecovery's RollbackPass over the decoded log flushes.
RollbackMatchesRecords ==
  [][pc = "rollback" /\ pc' = "ready" =>
       data' = LR!RollbackPass(start.log, rb,
                               [data |-> start.data, cache |-> <<>>]).data]_vars

\* A crash in the middle of Recover's reverse pass, after some before
\* images were flushed and some Abort records forced, does not change
\* what recovery makes of the crash before it: the REDO pass of the next
\* start replays the loser updates again and UNDO undoes them again.
RecoverySurvivesCrash == [][pc = "undo" /\ pc' = "ready" => data' = goal]_vars

\* Every start-up Recover and every Rollback loop ends: each reverse step
\* moves the offset back to a record start, also after an Abort write.
PassesEnd == pc # "ready" ~> pc = "ready"

=============================================================================
