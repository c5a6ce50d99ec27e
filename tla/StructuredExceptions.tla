------------------------ MODULE StructuredExceptions ------------------------
(***************************************************************************)
(* What the macros promise (README.md:83): the try, catch and finally of   *)
(* C++ and Java, with the "catch" clauses inside "finally".  There are no  *)
(* frames, jump reasons, lists or memory here: only the nested blocks of   *)
(* one thread and the exception in flight.                                 *)
(***************************************************************************)
EXTENDS SequencesExt, Naturals

CONSTANTS Exc,       \* exceptions
          NoExc,     \* not an exception
          MaxDepth   \* bound: how deep blocks are nested

VARIABLES open,      \* the open blocks, innermost last
          inFlight   \* the exception being thrown, NoExc if none

vars == <<open, inFlight>>

\* var is the exception that the block's "catch" is handling; handled says that
\* one of the block's clauses has been selected: no other one will be.
Block == [phase : {"body", "finally", "catch"}, var : Exc \cup {NoExc}, handled : BOOLEAN]

TypeOK == open \in Seq(Block) /\ inFlight \in Exc \cup {NoExc}

Init == open = << >> /\ inFlight = NoExc

Top == Last(open)
In(phase) == open # << >> /\ Top.phase = phase
WithTop(block) == Append(Front(open), block)

\* The innermost of these blocks goes to its "finally"; there it no longer has
\* the exception it was handling.
Unwound(blocks) ==
  IF blocks = << >> THEN blocks
  ELSE Append(Front(blocks), [Last(blocks) EXCEPT !.phase = "finally", !.var = NoExc])

\* A block is entered when nothing is in flight.
Enter == /\ Len(open) < MaxDepth /\ inFlight = NoExc
         /\ open' = Append(open, [phase |-> "body", var |-> NoExc, handled |-> FALSE])
         /\ UNCHANGED inFlight

LeaveBody == /\ In("body")
             /\ open' = WithTop([Top EXCEPT !.phase = "finally"])
             /\ UNCHANGED inFlight

\* Thrown in a body or in a "catch", an exception makes the block's "finally" run.
Raise(e) == /\ In("body") \/ In("catch")
            /\ inFlight' = e
            /\ open' = Unwound(open)

\* Thrown in "finally", it replaces what was in flight and leaves the block.
RaiseInFinally(e) == /\ In("finally")
                     /\ inFlight' = e
                     /\ open' = Unwound(Front(open))

\* A clause is selected once per block, and the exception is then handled.
Handle == /\ In("finally") /\ inFlight # NoExc /\ ~Top.handled
          /\ open' = WithTop([phase |-> "catch", var |-> inFlight, handled |-> TRUE])
          /\ inFlight' = NoExc

\* The exception handled by a "catch" may be released before the "catch" ends.
LetGo == \E i \in DOMAIN open :
           /\ open[i].phase = "catch" /\ open[i].var # NoExc
           /\ open' = [open EXCEPT ![i] = [@ EXCEPT !.var = NoExc]]
           /\ UNCHANGED inFlight

EndHandler == /\ In("catch")
              /\ open' = WithTop([Top EXCEPT !.phase = "finally", !.var = NoExc])
              /\ UNCHANGED inFlight

\* After "finally" the block is left, and what is in flight unwinds the next one.
Finish == /\ In("finally")
          /\ open' = IF inFlight = NoExc THEN Front(open) ELSE Unwound(Front(open))
          /\ UNCHANGED inFlight

Next == \/ Enter \/ LeaveBody \/ Handle \/ LetGo \/ EndHandler \/ Finish
        \/ \E e \in Exc : Raise(e) \/ RaiseInFinally(e)

Spec == Init /\ [][Next]_vars
=============================================================================
