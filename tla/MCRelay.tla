------------------------------- MODULE MCRelay -------------------------------
(***************************************************************************)
(* Small instances of Relay for TLC: one exception type, and contexts and  *)
(* jmp_bufs that are only compared.                                        *)
(***************************************************************************)
EXTENDS Relay

CONSTANTS Exception   \* the type

MCTypes == {Exception}
MCSuper == [t \in MCTypes |-> Exception]
MCTypeOf == [e \in Exc |-> Exception]

MCSymmetry == Permutations(JmpBufs) \cup Permutations(Exc) \cup Permutations(Ctxs)
=============================================================================
