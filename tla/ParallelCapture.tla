-------------------------- MODULE ParallelCapture --------------------------
(***************************************************************************)
(* A team of OpenMP threads that share one ExceptionScope, as in           *)
(* README.md:329-383:                                                      *)
(*                                                                         *)
(*   with_exceptions (openmp) {                                            *)
(*     try {                                                               *)
(*       parallel for: capture_exceptions { ... throw ... }                *)
(*       uncapture_exceptions();  throw_captured();                        *)
(*     } finally catch (Exception, e) ...                                  *)
(*   }                                                                     *)
(*                                                                         *)
(* Every thread has a context of its own (exception_scope_openmp.c:28);    *)
(* the scope's list and lock are shared.  The master runs the sequential   *)
(* part, in any order of regions, uncapture_exceptions and throw_captured. *)
(* Steps of a thread are as fine as the shared data demands: list_append   *)
(* reads the list in one step and links the new element in another.        *)
(***************************************************************************)
EXTENDS ExceptionContext

CONSTANTS Threads,           \* the team; a thread also names the jmp_buf of its capture block
          Master,            \* the thread that forks and joins
          NoThread,          \* nobody holds the lock
          TryJmp,            \* the jmp_buf of the try
          Iterations,        \* bound: iterations of one parallel loop
          CaptureInFinally   \* whether the program also captures in its "finally"

ASSUME TeamAssumption == /\ Master \in Threads
                         /\ NoThread \notin Threads
                         /\ TryJmp \notin Threads
                         /\ JmpBufs = Threads \cup {TryJmp}
                         /\ Iterations \in Nat
                         /\ CaptureInFinally \in BOOLEAN

VARIABLES ctx,       \* the context of each thread
          captured,  \* scope: captured_exceptions
          lock,      \* scope: lock
          live,      \* the heap: exceptions that are allocated
          main,      \* where the sequential part is
          forked,    \* a parallel region is running
          todo,      \* iterations of the loop that no thread has begun
          pc,        \* where each thread is in the region
          moving,    \* what the thread's for_each loop has not yet appended
          tail       \* the list that list_append of the thread has read

scopeVars == <<captured, lock>>
mainVars == <<main, forked>>
threadVars == <<pc, moving, tail>>
vars == <<ctx, scopeVars, live, mainVars, todo, threadVars>>

Init == /\ ctx = [t \in Threads |-> EmptyContext]
        /\ captured = << >>
        /\ lock = NoThread
        /\ live = {}
        /\ main = "outside"
        /\ forked = FALSE
        /\ todo = 0
        /\ pc = [t \in Threads |-> "idle"]
        /\ moving = [t \in Threads |-> << >>]
        /\ tail = [t \in Threads |-> << >>]

At(t, here) == forked /\ pc[t] = here
Goto(t, there) == pc' = [pc EXCEPT ![t] = there]

-----------------------------------------------------------------------------
(* A thread in the region: capture_exceptions *)

\* setjmp returned 0: the jump point is pushed.
Begin(t) ==
  /\ At(t, "idle") /\ todo > 0
  /\ todo' = todo - 1
  /\ ctx' = [ctx EXCEPT ![t] = PushFrame(@, t, DONT, FALSE, FALSE)]
  /\ Goto(t, "body")
  /\ UNCHANGED <<scopeVars, live, mainVars, moving, tail>>

\* An end of the block that forgets to pop.
EndBlockKeepsFrame(t) ==
  /\ At(t, "body")
  /\ Goto(t, "idle")
  /\ UNCHANGED <<ctx, scopeVars, live, mainVars, todo, moving, tail>>

\* The block ends and nothing was thrown.
EndBlock(t) ==
  /\ At(t, "body")
  /\ ctx' = [ctx EXCEPT ![t] = PopFrame(@)]
  /\ Goto(t, "idle")
  /\ UNCHANGED <<scopeVars, live, mainVars, todo, moving, tail>>

\* A throw, and the landing in capture_exceptions: with nothing to move it
\* would return at once.
ThrowInBlock(t) ==
  /\ At(t, "body")
  /\ \E e \in Exc \ live :
       LET r == Throw(ctx[t], e)
       IN  /\ r.to = t
           /\ ctx' = [ctx EXCEPT ![t] = r.ctx]
           /\ Goto(t, IF HasExceptions(r.ctx) THEN "landed" ELSE "idle")
           /\ live' = live \cup {e}
  /\ UNCHANGED <<scopeVars, mainVars, todo, moving, tail>>

\* A move that takes the lock but does not wait for it.
LockWithoutWaiting(t) ==
  /\ At(t, "landed")
  /\ lock' = t
  /\ moving' = [moving EXCEPT ![t] = ctx[t].exceptions]
  /\ Goto(t, "appending")
  /\ UNCHANGED <<ctx, captured, live, mainVars, todo, tail>>

\* omp_set_lock
Lock(t) ==
  /\ At(t, "landed") /\ lock = NoThread
  /\ lock' = t
  /\ moving' = [moving EXCEPT ![t] = ctx[t].exceptions]
  /\ Goto(t, "appending")
  /\ UNCHANGED <<ctx, captured, live, mainVars, todo, tail>>

\* The first half of list_append: the list and its length are read.
ReadTail(t) ==
  /\ At(t, "appending") /\ moving[t] # << >>
  /\ tail' = [tail EXCEPT ![t] = captured]
  /\ Goto(t, "linking")
  /\ UNCHANGED <<ctx, scopeVars, live, mainVars, todo, moving>>

\* A for_each that advances before its body, and so appends a null at the end.
LinkPastEnd(t) ==
  /\ At(t, "linking")
  /\ captured' = Append(tail[t], IF Len(moving[t]) > 1 THEN moving[t][2] ELSE NoExc)
  /\ moving' = [moving EXCEPT ![t] = Tail(@)]
  /\ tail' = [tail EXCEPT ![t] = << >>]
  /\ Goto(t, "appending")
  /\ UNCHANGED <<ctx, lock, live, mainVars, todo>>

\* The second half of list_append, for the next element of the loop
Link(t) ==
  /\ At(t, "linking")
  /\ captured' = Append(tail[t], Head(moving[t]))
  /\ moving' = [moving EXCEPT ![t] = Tail(@)]
  /\ tail' = [tail EXCEPT ![t] = << >>]
  /\ Goto(t, "appending")
  /\ UNCHANGED <<ctx, lock, live, mainVars, todo>>

\* omp_unset_lock
Unlock(t) ==
  /\ At(t, "appending") /\ moving[t] = << >>
  /\ lock' = NoThread
  /\ Goto(t, "clearing")
  /\ UNCHANGED <<ctx, captured, live, mainVars, todo, moving, tail>>

\* A move that goes on while the scope's list, not the thread's, has elements.
ClearLoops(t) ==
  /\ At(t, "clearing")
  /\ ctx' = [ctx EXCEPT ![t] = ClearAll(@)]
  /\ Goto(t, IF captured = << >> THEN "idle" ELSE "landed")
  /\ UNCHANGED <<scopeVars, live, mainVars, todo, moving, tail>>

\* list_clear empties the context's list without freeing what was in it.
Clear(t) ==
  /\ At(t, "clearing")
  /\ ctx' = [ctx EXCEPT ![t] = ClearAll(@)]
  /\ Goto(t, "idle")
  /\ UNCHANGED <<scopeVars, live, mainVars, todo, moving, tail>>

ThreadStep(t) == \/ Begin(t) \/ EndBlock(t) \/ ThrowInBlock(t)
                 \/ Lock(t) \/ ReadTail(t) \/ Link(t) \/ Unlock(t) \/ Clear(t)

-----------------------------------------------------------------------------
(* The sequential part *)

InMain(here) == ~forked /\ main = here

\* with_exceptions and try
Start ==
  /\ InMain("outside")
  /\ captured' = << >>
  /\ lock' = NoThread
  /\ ctx' = [ctx EXCEPT ![Master] = Try(@, TryJmp, DONT)]
  /\ main' = "body"
  /\ UNCHANGED <<live, forked, todo, threadVars>>

Fork ==
  /\ \/ InMain("body")
     \/ InMain("finally") /\ CaptureInFinally
  /\ forked' = TRUE
  /\ todo' \in 1 .. Iterations
  /\ UNCHANGED <<ctx, scopeVars, live, main, threadVars>>

\* The implicit barrier at the end of a region
Join ==
  /\ forked /\ todo = 0 /\ \A t \in Threads : pc[t] = "idle"
  /\ forked' = FALSE
  /\ UNCHANGED <<ctx, scopeVars, live, main, todo, threadVars>>

\* What is in the master's list after exceptional_list_move has emptied the scope's
Uncaptured == [ctx[Master] EXCEPT !.exceptions = @ \o captured]

Uncapture ==
  /\ InMain("body") /\ captured # << >>
  /\ ctx' = [ctx EXCEPT ![Master] = Uncaptured]
  /\ captured' = << >>
  /\ UNCHANGED <<lock, live, mainVars, todo, threadVars>>

\* The landing of r in the try of the master, where all but the first of the
\* exceptions is destroyed; `allocated` are those that were.
LandInTry(r, allocated) ==
  LET c == Try(r.ctx, r.to, r.why)
  IN  /\ r.to = TryJmp
      /\ ctx' = [ctx EXCEPT ![Master] = c]
      /\ live' = allocated \ (ToSet(r.ctx.exceptions) \ ToSet(c.exceptions))
      /\ main' = IF IsTrying(c) THEN "body" ELSE "finally"

\* A move that copies the scope's list and does not clear it.
ThrowCapturedAgain ==
  /\ InMain("body") /\ HasExceptions(Uncaptured)
  /\ LandInTry(JumpThrowing(Uncaptured), live)
  /\ UNCHANGED <<scopeVars, forked, todo, threadVars>>

\* With nothing in the list it would do nothing.
ThrowCaptured ==
  /\ InMain("body") /\ HasExceptions(Uncaptured)
  /\ captured' = << >>
  /\ LandInTry(JumpThrowing(Uncaptured), live)
  /\ UNCHANGED <<lock, forked, todo, threadVars>>

\* A throw of the master outside the regions
ThrowInTry ==
  /\ InMain("body") /\ ~HasExceptions(ctx[Master])
  /\ \E e \in Exc \ live : LandInTry(Throw(ctx[Master], e), live \cup {e})
  /\ UNCHANGED <<scopeVars, forked, todo, threadVars>>

\* The body ends; what was uncaptured has to be thrown first.
EndBody ==
  /\ InMain("body") /\ ~HasExceptions(ctx[Master])
  /\ ctx' = [ctx EXCEPT ![Master] = StopTrying(@)]
  /\ main' = "finally"
  /\ UNCHANGED <<scopeVars, live, forked, todo, threadVars>>

\* A catch of the root type with its catch_done
CatchAny ==
  /\ InMain("finally")
  /\ \E type \in Types :
       LET r == Catch(ctx[Master], type)
       IN  /\ r.caught # NoExc
           /\ ctx' = [ctx EXCEPT ![Master] = r.ctx]
           /\ live' = live \ {r.caught}
  /\ UNCHANGED <<scopeVars, mainVars, todo, threadVars>>

\* The try ends, and with_exceptions with it: ExceptionScope_destroy.
Finish ==
  /\ InMain("finally") /\ ~HasExceptions(ctx[Master])
  /\ LET r == FinallyDone(ctx[Master])
     IN  /\ r.to = NoJmp
         /\ ctx' = [ctx EXCEPT ![Master] = r.ctx]
  /\ live' = live \ ToSet(captured)
  /\ captured' = << >>
  /\ main' = "outside"
  /\ UNCHANGED <<lock, forked, todo, threadVars>>

MainStep == \/ Start \/ Fork \/ Join \/ Uncapture \/ ThrowCaptured \/ ThrowInTry
            \/ EndBody \/ CatchAny \/ Finish

-----------------------------------------------------------------------------

Next == MainStep \/ \E t \in Threads : ThreadStep(t)

Spec == Init /\ [][Next]_vars

\* Threads of the team are scheduled, their blocks end, and the barrier opens.
FairSpec == Spec /\ WF_vars(Join) /\ \A t \in Threads : WF_vars(ThreadStep(t))

-----------------------------------------------------------------------------
(* Properties *)

\* Contexts, the scope and the heap keep the types their C declarations give them.
TypeOK == /\ ctx \in [Threads -> Context]
          /\ captured \in Seq(Exc)
          /\ lock \in Threads \cup {NoThread}
          /\ live \subseteq Exc
          /\ main \in {"outside", "body", "finally"}
          /\ forked \in BOOLEAN
          /\ todo \in Nat
          /\ pc \in [Threads -> {"idle", "body", "landed", "appending", "linking", "clearing"}]
          /\ moving \in [Threads -> Seq(Exc)]
          /\ tail \in [Threads -> Seq(Exc)]

\* When a thread links an element, the list is still what list_append has read of it:
\* no thread of the team, nor the master after the join, has changed it in between.
AppendNotStale == \A t \in Threads : At(t, "linking") => tail[t] = captured

\* What thread t still has to hand to the scope, or keeps
Holding(t) == IF pc[t] \in {"appending", "linking", "clearing"} THEN moving[t]
                                                                ELSE ctx[t].exceptions

\* The places where exception e is
Places(e) == {<<"captured", i>> : i \in {j \in DOMAIN captured : captured[j] = e}}
             \cup UNION {{<<"thread", t, i>> : i \in {j \in DOMAIN Holding(t) : Holding(t)[j] = e}}
                           : t \in Threads}

\* However the threads interleave, every exception that is allocated is in exactly
\* one place and every freed one in none: move_exceptions_from_context loses none
\* to a concurrent append, duplicates none and leaves none to be freed twice.
\* Contexts, scope and heap keep their types.
ExactlyOnce == TypeOK /\ \A e \in Exc : Cardinality(Places(e)) = IF e \in live THEN 1 ELSE 0

\* The jump points of a thread are the try, for the master, and the capture block
\* it is in: a capture leaves no frame behind on either way out, so that
\* throw_captured jumps to the try and not into a block of the region.
FramesMatchTeam ==
  \A t \in Threads :
    [i \in DOMAIN ctx[t].frames |-> ctx[t].frames[i].jmp]
      = (IF t = Master /\ main # "outside" THEN <<TryJmp>> ELSE << >>)
        \o (IF pc[t] = "body" THEN <<t>> ELSE << >>)

\* The region ends: no thread waits forever for the scope's lock.
RegionEnds == forked ~> ~forked

\* An exception was thrown in the try and is not yet caught.
Thrown == InMain("finally") /\ HasExceptions(ctx[Master])

\* "If not caught, execution will continue to unwind until it is" (exceptional.h:154):
\* a finally that was entered with an exception still unwinds while it has one.
UnwindingKept ==
  Thrown => CurrentFrame(ctx[Master]).reason # DONT

Waiting == LET held == UNION {ToSet(Holding(t)) : t \in Threads}
           IN  ToSet(captured) \cup (IF Thrown THEN {} ELSE held)

Collect == INSTANCE CollectExceptions WITH
  waiting  <- Waiting,
  inFlight <- IF Thrown THEN ctx[Master].exceptions[1] ELSE NoExc

\* The scope, its lock and the contexts implement the waiting area of README.md.
ImplementsCollect == Collect!Spec
=============================================================================
