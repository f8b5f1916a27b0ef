----------------------------- MODULE MCOperators -----------------------------
(* Instantiation of Operators for TLC: the key list and directions of the  *)
(* spec's scenario S4 (name ascending, age descending).                    *)
EXTENDS Operators

MCVals == {1, 2}
MCSel == {"name"}
MCOrderKeys == <<"name", "age">>
MCAsc == <<TRUE, FALSE>>

\* Tables whose descriptor has no int field, and tables whose age is IntType.
MCIntTypes == {{}, {"age"}}

=============================================================================
