----------------------------- MODULE MCTryCatch -----------------------------
(***************************************************************************)
(* Small instances of TryCatch for TLC: a root type with one sub-type, and *)
(* exceptions of both.                                                     *)
(***************************************************************************)
EXTENDS TryCatch

CONSTANTS Exception, IO,    \* types
          e1, e2, e3        \* exceptions

MCTypes == {Exception, IO}
MCSuper == [t \in MCTypes |-> Exception]
MCTypeOf == [e \in Exc |-> IF e = e1 THEN Exception ELSE IO]

\* jmp_bufs are only compared, and the exceptions other than e1 have one type.
MCSymmetry == Permutations(JmpBufs) \cup Permutations(Exc \ {e1})
=============================================================================
