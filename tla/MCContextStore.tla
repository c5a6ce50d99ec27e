--------------------------- MODULE MCContextStore ---------------------------
(***************************************************************************)
(* Small instances of ContextStore for TLC.                                *)
(***************************************************************************)
EXTENDS ContextStore, TLC

MCSymmetry == Permutations(Threads \ {Main}) \cup Permutations(Ids) \cup Permutations(Exc)
=============================================================================
