---------------------------- MODULE MCDataSources ----------------------------
(* A small instance of DataSources. *)
EXTENDS DataSources, TLC

CONSTANTS f1, w1

MCFlag == {f1}
MCSegment == {}
MCWaiter == {w1}
MCItem == [version : 1..MaxVersion, deleted : BOOLEAN, deps : {{}}]

Symmetry == Permutations(Slot)
=============================================================================
