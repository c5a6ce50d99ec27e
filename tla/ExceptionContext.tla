-------------------------- MODULE ExceptionContext --------------------------
(***************************************************************************)
(* The operations of src/src/exception_context.c on one ExceptionContext:  *)
(* the stack of frames (jump points) and the list of exceptions.           *)
(*                                                                         *)
(* A context is a record [frames, exceptions].  The current frame, which   *)
(* the code keeps at position 0 of its list, is the LAST element here;     *)
(* exceptions are in list order.  A frame's jmp names the jmp_buf that     *)
(* setjmp filled, that is, the block that a longjmp would re-enter.        *)
(*                                                                         *)
(* A C function that may end in longjmp returns a record [ctx, to, why]:   *)
(* the context it leaves, the jmp_buf it jumps to (NoJmp when it returns   *)
(* to its caller) and the reason it passes.                                *)
(***************************************************************************)
EXTENDS SequencesExt, ExceptionType

CONSTANTS Exc,       \* exception instances
          TypeOf,    \* the type of each instance
          JmpBufs,   \* the jmp_buf of each block the program may have open
          NoJmp,     \* not a jmp_buf
          NoExc      \* the null exception pointer

ASSUME ContextAssumption == /\ TypeOf \in [Exc -> Types]
                            /\ NoJmp \notin JmpBufs
                            /\ NoExc \notin Exc

DONT    == "dont"       \* JUMP_REASON_DONT
THROW   == "throw"      \* JUMP_REASON_THROW
RETHROW == "rethrow"    \* JUMP_REASON_RETHROW

JumpReason == {DONT, THROW, RETHROW}

Frame == [jmp : JmpBufs, reason : JumpReason, trying : BOOLEAN, rethrowing : BOOLEAN]

Context == [frames : Seq(Frame), exceptions : Seq(Exc)]

EmptyContext == [frames |-> << >>, exceptions |-> << >>]

-----------------------------------------------------------------------------
(* Frames *)

HasFrame(c) == c.frames # << >>

CurrentFrame(c) == Last(c.frames)

\* c with its current frame replaced
WithCurrentFrame(c, frame) == [c EXCEPT !.frames[Len(c.frames)] = frame]

NewFrame(jmp, reason, trying, rethrowing) ==
  [jmp |-> jmp, reason |-> reason, trying |-> trying, rethrowing |-> rethrowing]

PushFrame(c, jmp, reason, trying, rethrowing) ==
  [c EXCEPT !.frames = Append(@, NewFrame(jmp, reason, trying, rethrowing))]

\* list_fetch on the frames
FetchFrame(c) == [c EXCEPT !.frames = Front(@)]

SetReason(c, reason) == WithCurrentFrame(c, [CurrentFrame(c) EXCEPT !.reason = reason])

\* A pop that forgets to maintain the reason on the last frame.
PopFrameForgetsReason(c) == IF HasFrame(c) THEN FetchFrame(c) ELSE c

PopFrame(c) ==
  IF ~HasFrame(c) THEN c
  ELSE LET rest == FetchFrame(c)
       IN  IF HasFrame(rest) THEN SetReason(rest, CurrentFrame(c).reason) ELSE rest

\* With no frame left the exception stays uncaught and the caller goes on.
JumpBecause(c, reason) ==
  IF ~HasFrame(c) THEN [ctx |-> c, to |-> NoJmp, why |-> DONT]
  ELSE IF reason = DONT THEN [ctx |-> FetchFrame(c), to |-> NoJmp, why |-> DONT]
  ELSE [ctx |-> FetchFrame(c), to |-> CurrentFrame(c).jmp, why |-> reason]

Jump(c) == JumpBecause(c, IF HasFrame(c) THEN CurrentFrame(c).reason ELSE DONT)

IsTrying(c) == HasFrame(c) /\ CurrentFrame(c).trying

StopTrying(c) ==
  IF HasFrame(c) THEN WithCurrentFrame(c, [CurrentFrame(c) EXCEPT !.trying = FALSE]) ELSE c

-----------------------------------------------------------------------------
(* Exceptions *)

AddException(c, e) == [c EXCEPT !.exceptions = Append(@, e)]

Matches(c, i, type) == IsA(TypeOf[c.exceptions[i]], type)

\* The position of the first exception of the given type, if there is one
FirstMatch(c, type) == {i \in DOMAIN c.exceptions :
                          Matches(c, i, type) /\ \A j \in 1 .. i - 1 : ~Matches(c, j, type)}

\* A fetch that does not delete what it has found.
FetchKeepsInList(c, type) ==
  IF FirstMatch(c, type) = {} THEN [ctx |-> c, caught |-> NoExc]
  ELSE LET i == CHOOSE i \in FirstMatch(c, type) : TRUE
       IN  [ctx |-> c, caught |-> c.exceptions[i]]

\* What is fetched, and the context without it; NoExc when there is no match
FetchException(c, type) ==
  IF FirstMatch(c, type) = {} THEN [ctx |-> c, caught |-> NoExc]
  ELSE LET i == CHOOSE i \in FirstMatch(c, type) : TRUE
       IN  [ctx |-> [c EXCEPT !.exceptions = RemoveAt(@, i)], caught |-> c.exceptions[i]]

HasExceptions(c) == c.exceptions # << >>

\* A clear that forgets the exception it has to keep.
ClearAll(c) == [c EXCEPT !.exceptions = << >>]

\* ExceptionContext_clear_exceptions(self, true)
ClearAllButFirst(c) ==
  IF HasExceptions(c) THEN [c EXCEPT !.exceptions = <<c.exceptions[1]>>] ELSE c

-----------------------------------------------------------------------------
(* Helpers: what try, throw, catch and finally call *)

\* A try that does not re-insert its jump point when an exception landed in it.
TryForgetsFrame(c, jmp, reason) ==
  IF reason = DONT THEN PushFrame(c, jmp, DONT, TRUE, FALSE)
  ELSE ClearAllButFirst(IF reason = RETHROW THEN PushFrame(c, jmp, THROW, FALSE, TRUE) ELSE c)

\* A try that treats every landing as a first throw.
TryForgetsRethrow(c, jmp, reason) ==
  IF reason = DONT THEN PushFrame(c, jmp, DONT, TRUE, FALSE)
  ELSE ClearAllButFirst(PushFrame(c, jmp, THROW, FALSE, FALSE))

\* First entry pushes the jump point; a landing re-inserts it, because an
\* exception might be thrown again in "finally", and keeps one exception.
Try(c, jmp, reason) ==
  IF reason = DONT THEN PushFrame(c, jmp, DONT, TRUE, FALSE)
  ELSE ClearAllButFirst(PushFrame(c, jmp, THROW, FALSE, reason = RETHROW))

IsRethrowing(c) == HasFrame(c) /\ CurrentFrame(c).rethrowing

\* The jump of a throw: RETHROW when the current try has already caught one.
JumpThrowing(c) == JumpBecause(c, IF IsRethrowing(c) THEN RETHROW ELSE THROW)

Throw(c, e) == JumpThrowing(AddException(c, e))

\* What a hit does to the frame: it stops unwinding, and later exceptions of
\* this try are rethrown ones.
Handling(c) ==
  IF HasFrame(c) THEN WithCurrentFrame(c, [CurrentFrame(c) EXCEPT !.reason = DONT, !.rethrowing = TRUE])
                 ELSE c

\* A catch that does not look whether an exception is being rethrown.
CatchWhileRethrowing(c, type) ==
  LET r == FetchException(c, type)
  IN  IF r.caught = NoExc THEN r ELSE [r EXCEPT !.ctx = Handling(@)]

\* A catch that leaves the frame unwinding.
CatchKeepsReason(c, type) ==
  IF IsRethrowing(c) THEN [ctx |-> c, caught |-> NoExc] ELSE FetchException(c, type)

\* Nothing is caught while an exception is rethrown.
Catch(c, type) ==
  IF IsRethrowing(c) THEN [ctx |-> c, caught |-> NoExc]
  ELSE LET r == FetchException(c, type)
       IN  IF r.caught = NoExc THEN r ELSE [r EXCEPT !.ctx = Handling(@)]

\* When unwinding, the frame of the current try is popped and the jump is to
\* the next one; otherwise Jump merely frees the frame of the current try.
FinallyDone(c) ==
  Jump(IF HasFrame(c) /\ CurrentFrame(c).reason # DONT THEN PopFrame(c) ELSE c)
=============================================================================
