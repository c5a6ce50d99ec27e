------------------------- MODULE CollectExceptions -------------------------
(***************************************************************************)
(* What README.md:329-383 promises of capture_exceptions, throw_captured   *)
(* and uncapture_exceptions: exceptions of parallel code wait, one of them *)
(* is thrown after the join, and the rest are discarded.  There are no     *)
(* threads here, no locks, no lists and no frames.                         *)
(***************************************************************************)
CONSTANTS Exc,     \* exceptions
          NoExc    \* no exception

VARIABLES forked,    \* a parallel region is running
          waiting,   \* the waiting area
          inFlight   \* the exception that was thrown and is not yet caught

vars == <<forked, waiting, inFlight>>

Init == forked = FALSE /\ waiting = {} /\ inFlight = NoExc

Fork == ~forked /\ forked' = TRUE /\ UNCHANGED <<waiting, inFlight>>

Join == forked /\ forked' = FALSE /\ UNCHANGED <<waiting, inFlight>>

\* An exception of the region waits; nothing that waits is lost meanwhile.
Capture == /\ forked
           /\ \E e \in Exc \ waiting : waiting' = waiting \cup {e}
           /\ UNCHANGED <<forked, inFlight>>

\* An exception is thrown outside the regions, past those that wait.
ThrowPast == /\ ~forked /\ inFlight = NoExc
             /\ inFlight' \in Exc \ waiting
             /\ UNCHANGED <<forked, waiting>>

\* One that waits is thrown, the rest are discarded.
ThrowOne == /\ ~forked /\ inFlight = NoExc
            /\ inFlight' \in waiting
            /\ waiting' = {}
            /\ UNCHANGED forked

Handle == /\ ~forked /\ inFlight # NoExc
          /\ inFlight' = NoExc
          /\ UNCHANGED <<forked, waiting>>

\* The with_exceptions block ends with all that still waits.
EndScope == /\ ~forked /\ inFlight = NoExc
            /\ waiting' = {}
            /\ UNCHANGED <<forked, inFlight>>

Next == Fork \/ Join \/ Capture \/ ThrowPast \/ ThrowOne \/ Handle \/ EndScope

Spec == Init /\ [][Next]_vars
=============================================================================
