----------------------------- MODULE MCSimCList -----------------------------
(***************************************************************************)
(* A small instance of SimCList for TLC.                                   *)
(***************************************************************************)
EXTENDS SimCList

MCKey == [d \in Data |-> IF d = "c" THEN 2 ELSE 1]   \* "a" and "b" are equal for the comparator
MCWords == [d \in Data |-> IF d = "a" THEN 1 ELSE 2] \* "b" and "c" have the same size
MCSources == BoundedSeq({"a", "c"}, 3)
=============================================================================
