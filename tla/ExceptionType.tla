---------------------------- MODULE ExceptionType ----------------------------
(***************************************************************************)
(* The type hierarchy of src/src/exception_type.c.  A type is a constant   *)
(* record in the program; here it is a value of Types, and Super is its    *)
(* `super` pointer.  DEFINE_EXCEPTION_TYPE always sets the pointer, and a  *)
(* root type points to itself, so Super is total.                          *)
(***************************************************************************)
EXTENDS Naturals, FiniteSets

CONSTANTS Types,   \* the exception types the program defines
          Super    \* the super type of every type

ASSUME SuperAssumption == Super \in [Types -> Types]

\* Up[n][t] is the type that n turns of the loop in ExceptionType_is_a reach
\* from t: each turn follows `super` (a root stays where it is).
Up[n \in Nat] == IF n = 0 THEN [t \in Types |-> t]
                          ELSE [t \in Types |-> Super[Up[n-1][t]]]

\* ExceptionType_is_a: type is self or one of the types above it.  A walk that
\* has not met type after Cardinality(Types) turns has reached a root.
IsA(self, type) == \E n \in 0 .. Cardinality(Types) : Up[n][self] = type
=============================================================================
