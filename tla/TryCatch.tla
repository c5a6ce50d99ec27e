------------------------------ MODULE TryCatch ------------------------------
(***************************************************************************)
(* One thread of a C program that uses the try, finally, catch, throw,     *)
(* rethrow, rethrowe and release_exception macros of                       *)
(* src/include/exceptional.h on one ExceptionContext.                      *)
(*                                                                         *)
(* The program is arbitrary code: in every state it may take any step the  *)
(* macros and the C language let it take there.  README.md restricts what  *)
(* careful code does; Usage names the liberties a program takes beyond     *)
(* that discipline:                                                        *)
(*   "throwInFinally"    throw in "finally", outside the "catch" blocks    *)
(*   "nestInFinally"     open a "try" there                                *)
(*   "nestInCatch"       open a "try" in a "catch" (README.md:181 does)    *)
(*   "throwInCatch"      throw in a "catch" without its exception as cause *)
(*   "causeOfCause"      rethrow with a cause that has a cause itself      *)
(*   "goOnUncaught"      throw outside every "try", or go on after an      *)
(*                       exception was left uncaught                       *)
(*   "returnFromCatch"   C `return` from a "catch" (README.md:174 does)    *)
(*                                                                         *)
(* A step is one macro's run-time call, with the longjmp it ends in and    *)
(* the ExceptionContext_try call of the "try" that the longjmp lands in.   *)
(***************************************************************************)
EXTENDS ExceptionContext

CONSTANTS MaxDepth,   \* bound: how deep "try" blocks are nested
          Usage,      \* the liberties of the program, see above
          Free        \* the cause of an exception that is not allocated

Liberties == {"throwInFinally", "nestInFinally", "nestInCatch", "throwInCatch",
              "causeOfCause", "goOnUncaught", "returnFromCatch"}

ASSUME UsageAssumption == /\ Usage \subseteq Liberties
                          /\ MaxDepth \in Nat
                          /\ Free \notin Exc /\ Free # NoExc
                          /\ NoJmp \notin JmpBufs

VARIABLES blocks,  \* the "try" blocks on the C stack, innermost last
          ctx,     \* the ExceptionContext
          cause,   \* the heap: the cause of every allocated exception
          ub       \* the program has run into undefined behaviour

vars == <<blocks, ctx, cause, ub>>

Phase == {"body", "finally", "catch"}

\* A block's jmp_buf, the macro that control is in, the variable of its "catch"
\* (NoExc outside a "catch" or once released), and one history field: whether a
\* "catch" of this block has been entered.
Block == [jmp : JmpBufs, phase : Phase, var : Exc \cup {NoExc}, handled : BOOLEAN]

Init == /\ blocks = << >>
        /\ ctx = EmptyContext
        /\ cause = [e \in Exc |-> Free]
        /\ ub = FALSE

Depth == Len(blocks)
Outside == blocks = << >>
In(phase) == ~Outside /\ Last(blocks).phase = phase
InCatchHolding == In("catch") /\ Last(blocks).var # NoExc

WithTop(block) == [blocks EXCEPT ![Depth] = block]

-----------------------------------------------------------------------------
(* The heap *)

Live == {e \in Exc : cause[e] # Free}

\* Exception_destroy_and_free on every exception of S also frees their causes.
Freed(heap, S) == S \cup {heap[e] : e \in S}
Release(heap, S) == [e \in Exc |-> IF e \in Freed(heap, S) THEN Free ELSE heap[e]]

\* Exception_destroy follows `cause` of what it has just freed, which frees the
\* third exception of a chain twice.
Corrupts(heap, S) == \E e \in S : \/ heap[e] = Free
                                  \/ heap[e] # NoExc /\ heap[heap[e]] # NoExc

New(heap, e, c) == [heap EXCEPT ![e] = c]

-----------------------------------------------------------------------------
(* Control *)

\* The loop condition of "try" decides between its block and what follows.
PhaseAfter(c) == IF IsTrying(c) THEN "body" ELSE "finally"

\* Control after a call that returned r, when the heap is h: it goes on with the
\* blocks of `rest` if the call returned to its caller, else in the block that
\* owns the jmp_buf.  The C stack above that block is gone, variables included.
\* No open block may own it: then longjmp is undefined.
Go(r, h, rest) ==
  \/ /\ r.to = NoJmp
     /\ ctx' = r.ctx
     /\ blocks' = rest
     /\ cause' = h
     /\ UNCHANGED ub
  \/ \E i \in DOMAIN blocks :
       /\ blocks[i].jmp = r.to
       /\ ctx' = Try(r.ctx, r.to, r.why)
       /\ blocks' = Append(SubSeq(blocks, 1, i - 1),
                           [blocks[i] EXCEPT !.phase = PhaseAfter(ctx'), !.var = NoExc])
       /\ LET cleared == ToSet(r.ctx.exceptions) \ ToSet(ctx'.exceptions)
          IN  /\ cause' = Release(h, cleared)
              /\ ub' = Corrupts(h, cleared)
  \/ /\ r.to # NoJmp
     /\ \A i \in DOMAIN blocks : blocks[i].jmp # r.to
     /\ ub' = TRUE
     /\ UNCHANGED <<blocks, ctx, cause>>

-----------------------------------------------------------------------------
(* try *)

MayOpen == \/ Outside /\ (~HasExceptions(ctx) \/ "goOnUncaught" \in Usage)
           \/ In("body")
           \/ In("catch") /\ "nestInCatch" \in Usage
           \/ In("finally") /\ "nestInFinally" \in Usage

OpenTry ==
  /\ ~ub /\ Depth < MaxDepth /\ MayOpen
  /\ \E jmp \in JmpBufs :
       /\ \A i \in DOMAIN blocks : blocks[i].jmp # jmp
       /\ \A i \in DOMAIN ctx.frames : ctx.frames[i].jmp # jmp
       /\ ctx' = Try(ctx, jmp, DONT)
       /\ blocks' = Append(blocks, [jmp |-> jmp, phase |-> PhaseAfter(ctx'),
                                    var |-> NoExc, handled |-> FALSE])
  /\ UNCHANGED <<cause, ub>>

\* The block of "try" ends, or C `continue` ends it.
EndBody ==
  /\ ~ub /\ In("body")
  /\ ctx' = StopTrying(ctx)
  /\ blocks' = WithTop([Last(blocks) EXCEPT !.phase = PhaseAfter(ctx')])
  /\ UNCHANGED <<cause, ub>>

\* C `break` leaves the loop of "try" without its last step.
BreakBody ==
  /\ ~ub /\ In("body")
  /\ blocks' = WithTop([Last(blocks) EXCEPT !.phase = "finally"])
  /\ UNCHANGED <<ctx, cause, ub>>

-----------------------------------------------------------------------------
(* throw *)

MayThrow == \/ Outside /\ "goOnUncaught" \in Usage
            \/ In("body")
            \/ In("catch") /\ (Last(blocks).var = NoExc \/ "throwInCatch" \in Usage)
            \/ In("finally") /\ "throwInFinally" \in Usage

\* throw, throwd, throwf
ThrowNew ==
  /\ ~ub /\ MayThrow
  /\ \E e \in Exc \ Live : Go(Throw(ctx, e), New(cause, e, NoExc), blocks)

\* rethrow, rethrowd, rethrowf: the caught exception becomes the cause.
Rethrow ==
  /\ ~ub /\ InCatchHolding
  /\ cause[Last(blocks).var] = NoExc \/ "causeOfCause" \in Usage
  /\ \E e \in Exc \ Live : Go(Throw(ctx, e), New(cause, e, Last(blocks).var), blocks)

\* A rethrowe that is handed a null pointer after release_exception.
RethrowNothing ==
  /\ ~ub /\ In("catch")
  /\ Go(Throw(ctx, Last(blocks).var), cause, blocks)

\* rethrowe: the caught exception itself is thrown.
RethrowSame ==
  /\ ~ub /\ InCatchHolding
  /\ Go(Throw(ctx, Last(blocks).var), cause, blocks)

-----------------------------------------------------------------------------
(* finally, catch *)

CatchHit(type) ==
  /\ ~ub /\ In("finally")
  /\ LET r == Catch(ctx, type)
     IN  /\ r.caught # NoExc
         /\ ctx' = r.ctx
         /\ blocks' = WithTop([Last(blocks) EXCEPT !.phase = "catch", !.var = r.caught,
                                                   !.handled = TRUE])
  /\ UNCHANGED <<cause, ub>>

\* A catch_done that forgets to free the exception.
CatchDoneLeaks ==
  /\ ~ub /\ InCatchHolding
  /\ blocks' = WithTop([Last(blocks) EXCEPT !.phase = "finally", !.var = NoExc])
  /\ UNCHANGED <<ctx, cause, ub>>

\* The "catch" block ends: its exception is destroyed.
CatchDone ==
  /\ ~ub /\ InCatchHolding
  /\ blocks' = WithTop([Last(blocks) EXCEPT !.phase = "finally", !.var = NoExc])
  /\ cause' = Release(cause, {Last(blocks).var})
  /\ ub' = Corrupts(cause, {Last(blocks).var})
  /\ UNCHANGED ctx

\* release_exception in a "catch" block, also on the variable of an enclosing one
ReleaseException ==
  \E i \in DOMAIN blocks :
    /\ ~ub /\ blocks[i].phase = "catch" /\ blocks[i].var # NoExc
    /\ blocks' = [blocks EXCEPT ![i] = [@ EXCEPT !.var = NoExc]]
    /\ cause' = Release(cause, {blocks[i].var})
    /\ ub' = Corrupts(cause, {blocks[i].var})
    /\ UNCHANGED ctx

\* C `break` out of a "catch" whose exception has been released
BreakCatch ==
  /\ ~ub /\ In("catch") /\ Last(blocks).var = NoExc
  /\ blocks' = WithTop([Last(blocks) EXCEPT !.phase = "finally"])
  /\ UNCHANGED <<ctx, cause, ub>>

\* C `return` from such a "catch" leaves the function's blocks, not their frames.
ReturnFromCatch ==
  /\ ~ub /\ In("catch") /\ Last(blocks).var = NoExc /\ "returnFromCatch" \in Usage
  /\ \E i \in DOMAIN blocks : blocks' = SubSeq(blocks, 1, i - 1)
  /\ UNCHANGED <<ctx, cause, ub>>

EndFinally ==
  /\ ~ub /\ In("finally")
  /\ Go(FinallyDone(ctx), cause, Front(blocks))

-----------------------------------------------------------------------------

Next == \/ OpenTry \/ EndBody \/ BreakBody
        \/ ThrowNew \/ Rethrow \/ RethrowSame
        \/ \E type \in Types : CatchHit(type)
        \/ CatchDone \/ ReleaseException \/ BreakCatch \/ ReturnFromCatch
        \/ EndFinally

Spec == Init /\ [][Next]_vars

\* The code of a "finally" block ends.
FairSpec == Spec /\ WF_vars(EndFinally)
-----------------------------------------------------------------------------
(* Properties *)

\* Every variable has the type its C declaration and the heap give it.
TypeOK == /\ blocks \in Seq(Block)
          /\ ctx \in Context
          /\ cause \in [Exc -> Exc \cup {NoExc, Free}]
          /\ ub \in BOOLEAN

\* The frames of the context are the jump points of the open blocks, in order:
\* whatever is thrown, caught and rethrown, no frame is missing or left over.
FramesMatchBlocks ==
  ~ub => /\ Len(ctx.frames) = Len(blocks)
         /\ \A i \in DOMAIN blocks : ctx.frames[i].jmp = blocks[i].jmp

\* The frame's reason and the list of exceptions agree: in "finally" the frame
\* unwinds exactly when one exception is in flight, and none is in flight in the
\* body of a "try" or in a "catch".
UnwindingMatches ==
  (~ub /\ ~Outside) =>
     IF In("finally")
     THEN \/ CurrentFrame(ctx).reason # DONT /\ Len(ctx.exceptions) = 1
          \/ CurrentFrame(ctx).reason = DONT /\ Len(ctx.exceptions) = 0
     ELSE Len(ctx.exceptions) = 0

\* Who will free exception e
Owners(e) ==
  {<<"list", i>> : i \in {j \in DOMAIN ctx.exceptions : ctx.exceptions[j] = e}}
  \cup {<<"var", i>> : i \in {j \in DOMAIN blocks : blocks[j].var = e}}
  \cup {<<"cause", x>> : x \in {y \in Live : cause[y] = e}}

\* No exception has two owners, that would both free it, and no freed one has an
\* owner, that would use it: ownership goes from list to variable to cause.
OneOwner ==
  ~ub => \A e \in Exc : /\ Cardinality(Owners(e)) <= 1
                        /\ e \notin Live => Owners(e) = {}

\* An allocated exception always has somebody to free it (README.md:167 and 193).
NoLeak == ~ub => \A e \in Live : Owners(e) # {}

\* The macros never free memory twice nor jump into a block that has ended.
NoUndefinedBehaviour == ~ub

\* The oldest exception in flight survives all that is thrown meanwhile ("Make sure
\* we have no more than one", exception_context.c:179): a "catch" receives it first.
OldestKept ==
  [][HasExceptions(ctx) =>
       \/ HasExceptions(ctx') /\ ctx'.exceptions[1] = ctx.exceptions[1]
       \/ \E i \in DOMAIN blocks' : blocks'[i].var = ctx.exceptions[1]]_vars

\* A throw makes its exception the one in flight (exceptional.h:154: it is caught,
\* or unwinds until it is, or is left uncaught): the macros do not drop it.
ThrownIsInFlight ==
  [][ThrowNew => ub' \/ \E e \in Exc \ Live : e \in ToSet(ctx'.exceptions)]_vars

\* A "catch" executes "only if an exception ... was thrown in the preceding try
\* code block" (exceptional.h:117): never when the frame is not unwinding.
CatchOnlyIfThrown ==
  [][\A type \in Types : CatchHit(type) => CurrentFrame(ctx).reason # DONT]_vars

\* "A matching finally code block ... will *always* be executed" (exceptional.h:90):
\* a block is left only from its "finally", and by the innermost block.
FinallyNeverSkipped ==
  [][\A i \in DOMAIN blocks :
       (i \notin DOMAIN blocks' \/ blocks'[i].jmp # blocks[i].jmp)
          => i = Depth /\ In("finally")]_vars

\* An exception caught by a "catch" of a "try", or thrown from that "catch", is
\* not for the "catch" clauses of the same "try" (exception_context.c:225).
CatchOnlyOnce ==
  [][\A i \in DOMAIN blocks :
       i \in DOMAIN blocks' /\ blocks[i].phase # "catch" /\ blocks'[i].phase = "catch"
          => ~blocks[i].handled]_vars

\* An exception in flight is eventually caught, or leaves the outermost "try".
Resolved == HasExceptions(ctx) ~> ~HasExceptions(ctx) \/ Outside

\* The macros implement the try, catch and finally of C++ and Java.
Structured == INSTANCE StructuredExceptions WITH
  open     <- [i \in DOMAIN blocks |-> [phase |-> blocks[i].phase, var |-> blocks[i].var,
                                        handled |-> blocks[i].handled]],
  inFlight <- IF HasExceptions(ctx) THEN ctx.exceptions[1] ELSE NoExc

ImplementsStructured == Structured!Spec
=============================================================================
