----------------------------- MODULE MCFieldSum -----------------------------
(***************************************************************************)
(* Model-checking instance of FieldSum: tuples are the int values 1 and 2, *)
(* two slots per page and a pool that can hold the whole file.             *)
(***************************************************************************)
EXTENDS FieldSum

MCTuples == {1, 2}

=============================================================================
