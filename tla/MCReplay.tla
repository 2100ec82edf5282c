------------------------------ MODULE MCReplay ------------------------------
(* Replay for TLC: a program that repeats one iteration of six operations    *)
(* whose first two are the same operation, with the alignment of five        *)
(* operations that Vigil uses.  Its only restore is a rollback or a load.    *)
EXTENDS Replay

Opening == {[ops |-> <<"a", "a", "b", "c", "d", "a">>, plan |-> TRUE]}
=============================================================================
