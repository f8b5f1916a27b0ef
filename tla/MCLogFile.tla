------------------------------ MODULE MCLogFile ------------------------------
(***************************************************************************)
(* Model-checking instance of LogFile: transaction ids and page numbers   *)
(* are small integers, as binary.Write stores them.                        *)
(***************************************************************************)
EXTENDS LogFile

MCTids == {1, 2}
MCPages == {1}
MCNoTid == -1

=============================================================================
