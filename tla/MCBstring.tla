----------------------------- MODULE MCBstring -----------------------------
(***************************************************************************)
(* For TLC: a program that has one bstring, or one CBString, under every   *)
(* sequence of calls.                                                      *)
(***************************************************************************)
EXTENDS Messages, CBString

MCInit == Init /\ CBInit

MCNext ==
  \/ c = Made(<< >>, Smallest) /\ Next /\ UNCHANGED c
  \/ b = Bfromcstr(<< >>) /\ CBNext /\ UNCHANGED b

MCSpec == MCInit /\ [][MCNext]_<<b, c>>

\* Whichever string the program has lies in its buffer, with its terminator behind it, after
\* any sequence of calls and of failed allocations; what WellFormed and CBWellFormed except
\* is a call that failed.
StringsWellFormed == WellFormed /\ CBWellFormed
=============================================================================
