------------------------------ MODULE QueryExec ------------------------------
(***************************************************************************)
(* Pull-iterator statements run against the heap file of HeapFile.tla:     *)
(*                                                                         *)
(*   select   the plan is HeapFile.Iterator itself; the consumer collects  *)
(*            every tuple until the iterator returns nil                   *)
(*   delete   DeleteOp (src/godb/delete_op.go) over a Filter               *)
(*            (src/godb/filter_op.go) over a scan of the same file         *)
(*   insert   InsertOp (src/unnamed/part_000) over a scan of the same      *)
(*            file, i.e. INSERT INTO t SELECT * FROM t                     *)
(*   limit    LimitOp (src/godb/project_op.go) over a scan, pulled by a    *)
(*            consumer that collects tuples until nil or an error          *)
(*                                                                         *)
(*   stmt     the statement in progress: its kind and phase (running: the  *)
(*            first pull is draining the child; emitted: the operator has  *)
(*            returned its count tuple); outcome of the last statement     *)
(*   scan     the HeapFile.Iterator closure: nPages (snapshot taken when   *)
(*            the iterator is built), pgNo, and the tupleIter of the page  *)
(*            it is in (open, page, pos).  tupleIter holds the heapPage    *)
(*            object: while that object is the one in the pool (live) the  *)
(*            scan sees changes made to it; once the pool has evicted it   *)
(*            the scan goes on reading the orphaned object (slots).        *)
(*   out      the tuples a select or limit has returned so far; for limit, *)
(*            its size is LimitOp's cnt                                    *)
(*   before   history: the table when the statement started                *)
(*                                                                         *)
(* The code is single threaded: a statement's first pull runs to the end   *)
(* before anything else happens, so no other action is enabled while a    *)
(* statement runs; it is split into one step per child tuple only so that  *)
(* the states in between can be named.                                     *)
(***************************************************************************)
EXTENDS Naturals, FiniteSets, Sequences, Functions, Bags, TLC

CONSTANTS
  Tuples, NoTuple, NumSlots, MaxPages, Capacity,
  Match,          \* the tuples the delete statement's Filter accepts
  DrainConsumer,  \* whether the consumer pulls until nil (part_002 TestParse)
  LimitN          \* the limit statement's bound, its expression's value

ASSUME Match \subseteq Tuples /\ DrainConsumer \in BOOLEAN /\ LimitN \in Nat

VARIABLES disk, numPages, lastEmptyPage, cache, held, inserted,
          stmt, scan, out, before

vars == <<disk, numPages, lastEmptyPage, cache, held, inserted,
          stmt, scan, out, before>>

HF == INSTANCE HeapFile

Kinds == {"select", "delete", "insert", "limit"}

ClosedScan(n) == [nPages |-> n, pgNo |-> 0, open |-> FALSE, page |-> 0,
                  pos |-> 0, live |-> FALSE, slots |-> HF!EmptyPage]

TypeOK ==
  /\ HF!TypeOK
  /\ stmt \in [kind : Kinds \cup {"none"},
               phase : {"idle", "running", "emitted"},
               outcome : {"none", "committed", "aborted"}]
  /\ scan \in [nPages : 0 .. MaxPages, pgNo : 0 .. MaxPages, open : BOOLEAN,
               page : HF!Pages, pos : 0 .. NumSlots, live : BOOLEAN,
               slots : [HF!Slots -> Tuples \cup {NoTuple}]]
  /\ scan.open /\ scan.live => scan.page \in DOMAIN cache
  /\ IsABag(out) /\ BagToSet(out) \subseteq Tuples
  /\ IsABag(before) /\ BagToSet(before) \subseteq Tuples

\* Seeded fault: the iterator compares pgNo with f.NumPages() on every
\* page instead of the count it took when it was built.
ScanEndedLive(st, sc) == sc.pgNo = st.numPages

\* The iterator has opened every page that existed when it was built.
ScanEnded(st, sc) == sc.pgNo = sc.nPages

\* Seeded fault: tupleIter advances i before reading slot i.
NextSlotsSkip(sl, pos) == {s \in HF!Slots : s > pos /\ sl[s] # NoTuple}

\* tupleIter: the non-nil slots at or after position pos of slot array sl.
NextSlots(sl, pos) == {s \in HF!Slots : s >= pos /\ sl[s] # NoTuple}

(***************************************************************************)
(* One call of the HeapFile.Iterator closure on store st: open the next    *)
(* page through the pool when no page is open (a failed GetPage returns    *)
(* the error, pgNo = nPages returns nil), else return the next non-nil     *)
(* slot of the page object at or after pos, with rid {page, slot}; a page  *)
(* with none left is closed and the loop goes on.  The set of outcomes     *)
(* [st, sc, res, t, slot].                                                 *)
(***************************************************************************)
RECURSIVE ScanPull(_, _)
ScanPull(st, sc) ==
  IF ~sc.open
  THEN IF ScanEnded(st, sc)
       THEN {[st |-> st, sc |-> sc, res |-> "end", t |-> NoTuple, slot |-> 0]}
       ELSE UNION
         {IF ~g.ok
          THEN {[st |-> [st EXCEPT !.cache = g.cache, !.err = TRUE], sc |-> sc,
                 res |-> "error", t |-> NoTuple, slot |-> 0]}
          ELSE ScanPull([st EXCEPT !.cache = g.cache],
                        [sc EXCEPT !.open = TRUE, !.page = sc.pgNo, !.pos = 0,
                                   !.live = TRUE, !.pgNo = sc.pgNo + 1]) :
           g \in HF!GetPage(st.cache, st.disk, sc.pgNo)}
  ELSE LET sl   == IF sc.live THEN st.cache[sc.page].slots ELSE sc.slots
           next == NextSlots(sl, sc.pos)
       IN  IF next = {}
           THEN ScanPull(st, [sc EXCEPT !.open = FALSE])
           ELSE LET s == CHOOSE s \in next : \A r \in next : s <= r IN
                {[st |-> st, sc |-> [sc EXCEPT !.pos = s + 1], res |-> "tuple",
                  t |-> sl[s], slot |-> s]}

\* Seeded fault: the predicate's comparison is inverted.
FilterAcceptsNegated(t) == t \notin Match

\* Filter's predicate (left op right, evaluated on the tuple) abstracted to
\* membership in Match; a rejected tuple sends the loop to the next pull.
FilterAccepts(t) == t \in Match

\* Seeded fault: the orphaned page object is not noticed.
TrackNoFreeze(sc, c0, c1) == sc

(***************************************************************************)
(* A call that fetched other pages (insertTuple's probe) may have evicted  *)
(* the page object the scan is reading; it is then orphaned with the       *)
(* slots it had before the call (a page is only changed by the call's      *)
(* last step, after which it is not evicted).                              *)
(***************************************************************************)
Track(sc, c0, c1) ==
  IF sc.open /\ sc.live /\ sc.page \notin DOMAIN c1
  THEN [sc EXCEPT !.live = FALSE, !.slots = c0[sc.page].slots]
  ELSE sc

\* The statement ends; its iterators are dropped.
Finish(outcome) ==
  /\ stmt' = [kind |-> "none", phase |-> "idle", outcome |-> outcome]
  /\ scan' = ClosedScan(0)
  /\ out' = EmptyBag
  /\ before' = EmptyBag

\* The operator has drained its child and returns its count tuple.
Emit ==
  /\ stmt' = [stmt EXCEPT !.phase = "emitted"]
  /\ scan' = ClosedScan(0)
  /\ UNCHANGED <<out, before>>

-----------------------------------------------------------------------------
(* Actions *)

(***************************************************************************)
(* BeginTransaction (empty), the plan's Iterator, and its first pull,      *)
(* which builds the scan and so takes its nPages snapshot.  An insert      *)
(* statement starts only while the file may double (bound MaxPages).       *)
(***************************************************************************)
StartStmt(k) ==
  /\ stmt.phase = "idle"
  /\ k = "insert" => 2 * numPages <= MaxPages
  /\ stmt' = [kind |-> k, phase |-> "running", outcome |-> "none"]
  /\ scan' = ClosedScan(numPages)
  /\ out' = EmptyBag
  /\ before' = HF!RowBag
  /\ UNCHANGED <<disk, numPages, lastEmptyPage, cache, held, inserted>>

(***************************************************************************)
(* One child tuple of the running statement.  An error from the scan or    *)
(* from insertTuple/deleteTuple ends the pull with it and the caller       *)
(* calls AbortTransaction, which is empty: nothing is undone.              *)
(***************************************************************************)
SelectStep ==
  /\ stmt.kind = "select" /\ stmt.phase = "running"
  /\ \E r \in ScanPull(HF!Store, scan) :
       /\ HF!SetStore(r.st)
       /\ IF r.res = "tuple"
          THEN /\ scan' = r.sc
               /\ out' = out (+) SetToBag({r.t})
               /\ UNCHANGED <<stmt, before>>
          ELSE Finish(IF r.res = "end" THEN "committed" ELSE "aborted")
  /\ UNCHANGED <<held, inserted>>

\* DeleteOp's loop body over Filter(scan): a tuple the Filter rejects is
\* skipped; an accepted one is deleted through its rid.
DeleteStep ==
  /\ stmt.kind = "delete" /\ stmt.phase = "running"
  /\ \E r \in ScanPull(HF!Store, scan) :
       CASE r.res = "end" ->
              /\ HF!SetStore(r.st) /\ Emit
         [] r.res = "error" ->
              /\ HF!SetStore(r.st) /\ Finish("aborted")
         [] r.res = "tuple" /\ ~FilterAccepts(r.t) ->
              /\ HF!SetStore(r.st) /\ scan' = r.sc
              /\ UNCHANGED <<stmt, out, before>>
         [] OTHER ->
              \E d \in HF!DeleteOutcomes(r.st, [page |-> r.sc.page,
                                                 slot |-> r.slot]) :
                /\ HF!SetStore(d)
                /\ IF d.err THEN Finish("aborted")
                   ELSE /\ scan' = Track(r.sc, r.st.cache, d.cache)
                        /\ UNCHANGED <<stmt, out, before>>
  /\ UNCHANGED <<held, inserted>>

\* InsertOp's loop body: each tuple the scan returns is inserted again.
InsertStep ==
  /\ stmt.kind = "insert" /\ stmt.phase = "running"
  /\ \E r \in ScanPull(HF!Store, scan) :
       CASE r.res = "end" ->
              /\ HF!SetStore(r.st) /\ Emit
         [] r.res = "error" ->
              /\ HF!SetStore(r.st) /\ Finish("aborted")
         [] OTHER ->
              \E i \in HF!InsertOutcomes(r.st, r.t) :
                /\ HF!SetStore(i)
                /\ IF i.err THEN Finish("aborted")
                   ELSE /\ scan' = Track(r.sc, r.st.cache, i.cache)
                        /\ UNCHANGED <<stmt, out, before>>
  /\ UNCHANGED <<held, inserted>>

\* limit.EvalPred(IntField{cnt}, OpEq): cnt has reached the limit.
LimitReached(cnt) == cnt = LimitN

(***************************************************************************)
(* One call of LimitOp's closure: it pulls the child first, and only then  *)
(* returns nil at the child's end or once cnt equals the limit; an error   *)
(* of the child is returned as it is.  The consumer collects the tuple,    *)
(* or ends the statement at nil (commit) or at an error (abort).           *)
(***************************************************************************)
LimitStep ==
  /\ stmt.kind = "limit" /\ stmt.phase = "running"
  /\ \E r \in ScanPull(HF!Store, scan) :
       /\ HF!SetStore(r.st)
       /\ CASE r.res = "error" -> Finish("aborted")
            [] r.res = "end" \/ LimitReached(BagCardinality(out)) ->
                 Finish("committed")
            [] OTHER -> /\ scan' = r.sc
                        /\ out' = out (+) SetToBag({r.t})
                        /\ UNCHANGED <<stmt, before>>
  /\ UNCHANGED <<held, inserted>>

(***************************************************************************)
(* The consumer after InsertOp/DeleteOp returned its count tuple.  Every   *)
(* later pull returns another count tuple (count 0), never nil: a          *)
(* consumer that drains the iterator pulls forever; one that drops it      *)
(* after the first tuple commits (CommitTransaction is empty).             *)
(***************************************************************************)
ConsumerPull ==
  /\ stmt.phase = "emitted"
  /\ IF DrainConsumer THEN UNCHANGED <<stmt, scan, out, before>>
     ELSE Finish("committed")
  /\ UNCHANGED <<disk, numPages, lastEmptyPage, cache, held, inserted>>

\* Between statements: CSV rows, single inserts and FlushAllPages.
ClientStep ==
  /\ stmt.phase = "idle"
  /\ \/ \E t \in Tuples : HF!LoadRow(t) \/ HF!InsertTuple(t)
     \/ HF!FlushAllPages
  /\ UNCHANGED <<stmt, scan, out, before>>

Init ==
  /\ HF!Init
  /\ stmt = [kind |-> "none", phase |-> "idle", outcome |-> "none"]
  /\ scan = ClosedScan(0)
  /\ out = EmptyBag
  /\ before = EmptyBag

StmtNext == SelectStep \/ DeleteStep \/ InsertStep \/ LimitStep \/ ConsumerPull

Next ==
  \/ \E k \in Kinds : StartStmt(k)
  \/ StmtNext
  \/ ClientStep

\* A statement's first pull runs to its end once started: the statement's
\* steps are one synchronous call of the consumer.
Spec == Init /\ [][Next]_vars /\ WF_vars(StmtNext)

-----------------------------------------------------------------------------
(* Properties *)

Ended(o) == stmt.phase # "idle" /\ stmt'.phase = "idle" /\ stmt'.outcome = o

\* spec.md 4.2: a scan returns every tuple of the file exactly once, across
\* page boundaries and the evictions its own GetPage calls cause.
ScanYieldsTable ==
  [][stmt.kind = "select" /\ Ended("committed") => out = before]_vars

\* DELETE ... WHERE: DeleteOp over a Filter over a scan of the same file
\* removes exactly the accepted tuples present when it started, although
\* it deletes from the page the scan is reading.
DeleteRemovesMatches ==
  [][stmt.kind = "delete" /\ Ended("committed") =>
       HF!RowBag' = [t \in BagToSet(before) \ Match |-> before[t]]]_vars

\* spec.md 6: the first pull of every statement returns: the scan under
\* it stops although InsertOp's own inserts may grow the file it reads,
\* and the operator hands back its first result (the count tuple of
\* InsertOp/DeleteOp, nil, or an error).  Nothing more is promised: a
\* consumer that then pulls until nil gets count tuples forever
\* (insert_op.go/delete_op.go return one on every call).
FirstPullEnds == stmt.phase = "running" ~> stmt.phase # "running"

\* AbortTransaction is empty, so a statement that fails halfway keeps what
\* it did before the failure; it must never do more or other than that: an
\* aborted select leaves the table as it was, an aborted delete has removed
\* only accepted tuples present when it started, and an aborted insert has
\* lost none of them (how many copies it added is InsertDoubles' concern).
AbortKeepsPartialEffect ==
  [][Ended("aborted") =>
       CASE stmt.kind = "select" -> HF!RowBag' = before
         [] stmt.kind = "delete" ->
              /\ HF!RowBag' \sqsubseteq before
              /\ \A t \in BagToSet(before) \ Match :
                   CopiesIn(t, HF!RowBag') = before[t]
         [] OTHER -> before \sqsubseteq HF!RowBag']_vars

\* spec.md 4.3: Limit emits at most L child tuples, then yields
\* end-of-stream: the pull after the L-th tuple ends the statement, and
\* ends it without an error.  LimitOp pulls the child before testing cnt.
LimitEndsAfterL ==
  [][stmt.kind = "limit" /\ stmt.phase = "running"
       /\ BagCardinality(out) = LimitN => Ended("committed")]_stmt

\* INSERT INTO t SELECT * FROM t inserts each tuple present when it
\* started once: the table doubles.
InsertDoubles ==
  [][stmt.kind = "insert" /\ stmt.phase = "running" /\ stmt'.phase = "emitted"
       => HF!RowBag' = before (+) before]_vars

=============================================================================
