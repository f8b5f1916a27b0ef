---------------------------- MODULE MCLogRecovery ----------------------------
(***************************************************************************)
(* Model-checking instance of LogRecovery: two transactions, two pages.  *)
(***************************************************************************)
EXTENDS LogRecovery

CONSTANTS T1, T2, P1, P2

MCTids == {T1, T2}
MCPages == {P1, P2}

=============================================================================
