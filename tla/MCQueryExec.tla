---------------------------- MODULE MCQueryExec ----------------------------
(***************************************************************************)
(* Model-checking instance of QueryExec: two tuple values, of which the    *)
(* delete's Filter accepts one; copies made by insert statements are the   *)
(* same value.                                                             *)
(***************************************************************************)
EXTENDS QueryExec

CONSTANTS t1, t2, t3

MCTuples == {t1, t2, t3}
MCMatch == {t1}

=============================================================================
