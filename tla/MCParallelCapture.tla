------------------------- MODULE MCParallelCapture -------------------------
(***************************************************************************)
(* A small instance of ParallelCapture for TLC: one exception type.        *)
(***************************************************************************)
EXTENDS ParallelCapture

CONSTANT Exception   \* the root type

MCTypes == {Exception}
MCSuper == [t \in MCTypes |-> Exception]
MCTypeOf == [e \in Exc |-> Exception]
MCJmpBufs == Threads \cup {TryJmp}
=============================================================================
