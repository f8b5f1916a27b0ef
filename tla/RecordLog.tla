----------------------------- MODULE RecordLog -----------------------------
(***************************************************************************)
(* What the write-ahead log promises its users (spec.md 5, "Append         *)
(* semantics"), with no notion of bytes, offsets or file positions: a      *)
(* sequence of records on disk and a sequence appended in memory.          *)
(*                                                                         *)
(*   log      the records a reader of the file finds, in order             *)
(*   pending  the records appended since the last force                    *)
(*                                                                         *)
(* Appends go to the end and only to the end; a force moves every pending  *)
(* record to disk in order; a crash keeps a prefix of the pending records, *)
(* or with TornWrites a prefix followed by a partial record.  Nothing ever *)
(* rewrites a record that is already on disk.                              *)
(***************************************************************************)
EXTENDS Sequences, SequencesExt

CONSTANTS
  Rec,         \* the records
  TornRec,     \* what a reader finds at a partial record
  TornWrites   \* whether a crash may leave a partial record

VARIABLES log, pending

\* log_*: one record goes to the end of the buffer.
AppendOne ==
  /\ Len(pending') = Len(pending) + 1
  /\ IsPrefix(pending, pending') /\ Last(pending') \in Rec
  /\ UNCHANGED log

\* force(), and every seek, which forces first.
Flush ==
  /\ log' = log \o pending
  /\ pending' = <<>>

\* seek to the end, append one record and force it, in one go.
AppendForced ==
  /\ Len(log') = Len(log) + Len(pending) + 1
  /\ IsPrefix(log \o pending, log') /\ Last(log') \in Rec
  /\ pending' = <<>>

Crash ==
  /\ \E k \in 0 .. Len(pending) :
       \/ log' = log \o SubSeq(pending, 1, k)
       \/ TornWrites /\ k < Len(pending)
          /\ log' = log \o SubSeq(pending, 1, k) \o <<TornRec>>
  /\ pending' = <<>>

Init == log = <<>> /\ pending = <<>>

Next == AppendOne \/ AppendForced \/ Flush \/ Crash

Spec == Init /\ [][Next]_<<log, pending>>

=============================================================================
