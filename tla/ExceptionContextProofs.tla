----------------------- MODULE ExceptionContextProofs -----------------------
(***************************************************************************)
(* What each operation of ExceptionContext does to the stack of frames and *)
(* to the list of exceptions, for every context.                           *)
(***************************************************************************)
EXTENDS ExceptionContext, StackLemmas, TLAPS

-----------------------------------------------------------------------------
(* Frames *)

\* Two stacks of n frames have the same jump points.
SameJmps(f, g, n) == \A i \in 1 .. n : f[i].jmp = g[i].jmp

\* A context is its two fields: replacing one keeps the other.
LEMMA ContextExcept ==
  ASSUME NEW c \in Context, NEW g
  PROVE  /\ [c EXCEPT !.frames = g] = [frames |-> g, exceptions |-> c.exceptions]
         /\ [c EXCEPT !.exceptions = g] = [frames |-> c.frames, exceptions |-> g]
BY DEF Context

LEMMA PushFrameFacts ==
  ASSUME NEW c \in Context, NEW jmp \in JmpBufs, NEW reason \in JumpReason,
         NEW trying \in BOOLEAN, NEW rethrowing \in BOOLEAN
  PROVE  LET d == PushFrame(c, jmp, reason, trying, rethrowing)
         IN  /\ d \in Context
             /\ d.exceptions = c.exceptions
             /\ HasFrame(d)
             /\ CurrentFrame(d) = NewFrame(jmp, reason, trying, rethrowing)
             /\ d.frames = Append(c.frames, NewFrame(jmp, reason, trying, rethrowing))
             /\ Len(d.frames) = Len(c.frames) + 1
             /\ \A i \in 1 .. Len(c.frames) : d.frames[i] = c.frames[i]
<1> DEFINE d == PushFrame(c, jmp, reason, trying, rethrowing)
           f == NewFrame(jmp, reason, trying, rethrowing)
<1>1. f \in Frame /\ c.frames \in Seq(Frame) /\ c.exceptions \in Seq(Exc)
  BY DEF Frame, Context, NewFrame
<1>2. d = [frames |-> Append(c.frames, f), exceptions |-> c.exceptions]
  BY ContextExcept DEF PushFrame
<1> HIDE DEF f
<1>3. Append(c.frames, f) \in Seq(Frame)
  BY <1>1
<1>4. d \in Context /\ d.exceptions = c.exceptions /\ d.frames = Append(c.frames, f)
  BY <1>1, <1>2, <1>3 DEF Context
<1>5. /\ Append(c.frames, f) # << >>
      /\ Len(Append(c.frames, f)) = Len(c.frames) + 1
      /\ \A i \in 1 .. Len(c.frames) : Append(c.frames, f)[i] = c.frames[i]
      /\ Last(Append(c.frames, f)) = f
  BY <1>1, AppendProperties DEF Last
<1> QED BY <1>4, <1>5 DEF CurrentFrame, HasFrame, f

LEMMA WithCurrentFrameFacts ==
  ASSUME NEW c \in Context, HasFrame(c), NEW f \in Frame
  PROVE  LET d == WithCurrentFrame(c, f)
         IN  /\ d \in Context
             /\ HasFrame(d)
             /\ d.exceptions = c.exceptions
             /\ CurrentFrame(d) = f
             /\ Len(d.frames) = Len(c.frames)
             /\ \A i \in 1 .. Len(c.frames) - 1 : d.frames[i] = c.frames[i]
<1> DEFINE d == WithCurrentFrame(c, f)
<1>1. c.frames \in Seq(Frame) /\ c.frames # << >>
  BY DEF Context, HasFrame
<1>2. d.frames = [c.frames EXCEPT ![Len(c.frames)] = f] /\ d.exceptions = c.exceptions
  BY DEF WithCurrentFrame, Context
<1>3. d = [frames |-> [c.frames EXCEPT ![Len(c.frames)] = f], exceptions |-> c.exceptions]
  BY DEF WithCurrentFrame, Context
<1>4. d \in Context
  BY <1>1, <1>3, ReplaceLastFacts DEF Context
<1> QED BY <1>1, <1>2, <1>4, ReplaceLastFacts DEF HasFrame, CurrentFrame

\* The current frame is a frame; changing its flags keeps it one.
LEMMA CurrentFrameFacts ==
  ASSUME NEW c \in Context, HasFrame(c)
  PROVE  /\ Len(c.frames) \in Nat \ {0}
         /\ CurrentFrame(c) \in Frame
         /\ CurrentFrame(c) = c.frames[Len(c.frames)]
<1>1. c.frames \in Seq(Frame) /\ c.frames # << >>
  BY DEF Context, HasFrame
<1> QED BY <1>1, FrontFacts DEF CurrentFrame

LEMMA FetchFrameFacts ==
  ASSUME NEW c \in Context, HasFrame(c)
  PROVE  LET d == FetchFrame(c)
         IN  /\ d \in Context
             /\ d.exceptions = c.exceptions
             /\ Len(d.frames) = Len(c.frames) - 1
             /\ \A i \in 1 .. Len(c.frames) - 1 : d.frames[i] = c.frames[i]
<1>1. c.frames \in Seq(Frame) /\ c.frames # << >>
  BY DEF Context, HasFrame
<1>2. FetchFrame(c) = [frames |-> Front(c.frames), exceptions |-> c.exceptions]
  BY DEF FetchFrame, Context
<1>3. FetchFrame(c) \in Context
  <2>1. Front(c.frames) \in Seq(Frame) /\ c.exceptions \in Seq(Exc)
    BY <1>1, FrontFacts DEF Context
  <2> QED BY <1>2, <2>1 DEF Context
<1> QED BY <1>1, <1>2, <1>3, FrontFacts
\* A pop leaves the frames below as they are, except that the new current frame
\* takes over the reason of the popped one.
LEMMA PopFrameFacts ==
  ASSUME NEW c \in Context, HasFrame(c)
  PROVE  LET d == PopFrame(c)
         IN  /\ d \in Context
             /\ d.exceptions = c.exceptions
             /\ Len(d.frames) = Len(c.frames) - 1
             /\ SameJmps(d.frames, c.frames, Len(c.frames) - 1)
             /\ \A i \in 1 .. Len(c.frames) - 2 : d.frames[i] = c.frames[i]
             /\ HasFrame(d) => CurrentFrame(d).reason = CurrentFrame(c).reason
<1> DEFINE d == PopFrame(c)
           rest == FetchFrame(c)
<1>1. /\ rest \in Context
      /\ rest.exceptions = c.exceptions
      /\ Len(rest.frames) = Len(c.frames) - 1
      /\ \A i \in 1 .. Len(c.frames) - 1 : rest.frames[i] = c.frames[i]
  BY FetchFrameFacts
<1>2. Len(c.frames) \in Nat \ {0} /\ CurrentFrame(c) \in Frame
  BY CurrentFrameFacts
<1>3. CASE ~HasFrame(rest)
  <2>1. d = rest
    BY <1>3 DEF PopFrame
  <2>2. \A i \in 1 .. Len(c.frames) - 2 : i \in 1 .. Len(c.frames) - 1
    BY <1>2
  <2>3. SameJmps(rest.frames, c.frames, Len(c.frames) - 1)
    BY <1>1 DEF SameJmps
  <2> HIDE DEF rest
  <2> QED BY <1>1, <1>3, <2>1, <2>2, <2>3, Zenon
<1>4. CASE HasFrame(rest)
  <2> DEFINE f == [CurrentFrame(rest) EXCEPT !.reason = CurrentFrame(c).reason]
  <2>1. d = WithCurrentFrame(rest, f)
    BY <1>4 DEF PopFrame, SetReason
  <2>2. /\ Len(rest.frames) \in Nat \ {0}
        /\ CurrentFrame(rest) \in Frame
        /\ CurrentFrame(rest) = rest.frames[Len(rest.frames)]
    BY <1>1, <1>4, CurrentFrameFacts
  <2>3. f \in Frame /\ f.reason = CurrentFrame(c).reason /\ f.jmp = CurrentFrame(rest).jmp
    BY <1>2, <2>2 DEF Frame
  <2> HIDE DEF f, d, rest
  <2>4. /\ d \in Context
        /\ HasFrame(d)
        /\ d.exceptions = rest.exceptions
        /\ CurrentFrame(d) = f
        /\ Len(d.frames) = Len(rest.frames)
        /\ \A i \in 1 .. Len(rest.frames) - 1 : d.frames[i] = rest.frames[i]
    BY <1>1, <1>4, <2>1, <2>3, WithCurrentFrameFacts
  <2>5. CurrentFrame(d) = d.frames[Len(d.frames)]
    BY <2>4, CurrentFrameFacts
  <2>6. SameJmps(d.frames, rest.frames, Len(rest.frames))
    <3> SUFFICES ASSUME NEW i \in 1 .. Len(rest.frames)
                 PROVE  d.frames[i].jmp = rest.frames[i].jmp
      BY DEF SameJmps
    <3>1. CASE i = Len(rest.frames)
      BY <2>2, <2>3, <2>4, <2>5, <3>1
    <3>2. CASE i # Len(rest.frames)
      <4>1. i \in 1 .. Len(rest.frames) - 1
        BY <2>2, <3>2
      <4> QED BY <2>4, <4>1
    <3> QED BY <3>1, <3>2
  <2> QED BY <1>1, <1>2, <2>3, <2>4, <2>6 DEF SameJmps, d, rest
<1> QED BY <1>3, <1>4

\* The record of a C function that may end in longjmp.
JumpResult == [ctx : Context, to : JmpBufs \cup {NoJmp}, why : JumpReason]

\* r goes to the jump point of frame k of c and keeps the frames below it.
LandsAt(c, r, k) == /\ r.to = c.frames[k].jmp
                    /\ r.why # DONT
                    /\ Len(r.ctx.frames) = k - 1
                    /\ SameJmps(r.ctx.frames, c.frames, k - 1)

\* A jump goes to the current frame and fetches it, or returns.
LEMMA JumpBecauseFacts ==
  ASSUME NEW c \in Context, NEW reason \in JumpReason
  PROVE  LET r == JumpBecause(c, reason)
         IN  /\ r \in JumpResult
             /\ r.ctx.exceptions = c.exceptions
             /\ ~HasFrame(c) => r.to = NoJmp /\ r.ctx = c
             /\ HasFrame(c) => \A i \in 1 .. Len(c.frames) - 1 : r.ctx.frames[i] = c.frames[i]
             /\ HasFrame(c) /\ reason = DONT => r.to = NoJmp /\ r.ctx = FetchFrame(c)
             /\ HasFrame(c) /\ reason # DONT => r.why = reason /\ LandsAt(c, r, Len(c.frames))
<1> DEFINE r == JumpBecause(c, reason)
<1>1. DONT \in JumpReason
  BY DEF JumpReason
<1>2. CASE ~HasFrame(c)
  <2>1. r = [ctx |-> c, to |-> NoJmp, why |-> DONT]
    BY <1>2 DEF JumpBecause
  <2> QED BY <1>1, <1>2, <2>1 DEF JumpResult
<1>3. CASE HasFrame(c)
  <2>1. /\ FetchFrame(c) \in Context
        /\ FetchFrame(c).exceptions = c.exceptions
        /\ Len(FetchFrame(c).frames) = Len(c.frames) - 1
        /\ \A i \in 1 .. Len(c.frames) - 1 : FetchFrame(c).frames[i] = c.frames[i]
    BY <1>3, FetchFrameFacts
  <2>2. /\ CurrentFrame(c).jmp \in JmpBufs
        /\ CurrentFrame(c) = c.frames[Len(c.frames)]
    BY <1>3, CurrentFrameFacts DEF Frame
  <2>3. CASE reason = DONT
    <3>1. r = [ctx |-> FetchFrame(c), to |-> NoJmp, why |-> DONT]
      BY <1>3, <2>3 DEF JumpBecause
    <3> QED BY <1>1, <1>3, <2>1, <2>3, <3>1 DEF JumpResult
  <2>4. CASE reason # DONT
    <3>1. r = [ctx |-> FetchFrame(c), to |-> CurrentFrame(c).jmp, why |-> reason]
      BY <1>3, <2>4 DEF JumpBecause
    <3> QED BY <1>3, <2>1, <2>2, <2>4, <3>1 DEF JumpResult, LandsAt, SameJmps
  <2> QED BY <2>3, <2>4
<1> QED BY <1>2, <1>3
\* The end of the loop of "try" only changes the flag of the current frame.
LEMMA StopTryingFacts ==
  ASSUME NEW c \in Context
  PROVE  LET d == StopTrying(c)
         IN  /\ d \in Context
             /\ d.exceptions = c.exceptions
             /\ Len(d.frames) = Len(c.frames)
             /\ ~IsTrying(d)
             /\ \A i \in 1 .. Len(c.frames) - 1 : d.frames[i] = c.frames[i]
             /\ SameJmps(d.frames, c.frames, Len(c.frames))
             /\ HasFrame(c) => /\ HasFrame(d)
                               /\ CurrentFrame(d).reason = CurrentFrame(c).reason
                               /\ CurrentFrame(d).rethrowing = CurrentFrame(c).rethrowing
<1> DEFINE d == StopTrying(c)
           f == [CurrentFrame(c) EXCEPT !.trying = FALSE]
<1>1. CASE ~HasFrame(c)
  BY <1>1 DEF StopTrying, IsTrying, SameJmps
<1>2. CASE HasFrame(c)
  <2>1. d = WithCurrentFrame(c, f)
    BY <1>2 DEF StopTrying
  <2>2. /\ Len(c.frames) \in Nat \ {0}
        /\ CurrentFrame(c) \in Frame
        /\ CurrentFrame(c) = c.frames[Len(c.frames)]
    BY <1>2, CurrentFrameFacts
  <2>3. /\ f \in Frame /\ f.trying = FALSE
        /\ f.jmp = CurrentFrame(c).jmp
        /\ f.reason = CurrentFrame(c).reason
        /\ f.rethrowing = CurrentFrame(c).rethrowing
    BY <2>2 DEF Frame
  <2> HIDE DEF f, d
  <2>4. /\ d \in Context
        /\ HasFrame(d)
        /\ d.exceptions = c.exceptions
        /\ CurrentFrame(d) = f
        /\ Len(d.frames) = Len(c.frames)
        /\ \A i \in 1 .. Len(c.frames) - 1 : d.frames[i] = c.frames[i]
    BY <1>2, <2>1, <2>3, WithCurrentFrameFacts
  <2>5. CurrentFrame(d) = d.frames[Len(d.frames)]
    BY <2>4, CurrentFrameFacts
  <2>6. SameJmps(d.frames, c.frames, Len(c.frames))
    <3> SUFFICES ASSUME NEW i \in 1 .. Len(c.frames)
                 PROVE  d.frames[i].jmp = c.frames[i].jmp
      BY DEF SameJmps
    <3>1. i = Len(c.frames) \/ i \in 1 .. Len(c.frames) - 1
      BY <2>2
    <3> QED BY <3>1, <2>2, <2>3, <2>4, <2>5
  <2> QED BY <2>3, <2>4, <2>6 DEF IsTrying, d
<1> QED BY <1>1, <1>2

-----------------------------------------------------------------------------
(* Exceptions *)

LEMMA AddExceptionFacts ==
  ASSUME NEW c \in Context, NEW e \in Exc
  PROVE  LET d == AddException(c, e)
         IN  /\ d \in Context
             /\ d.frames = c.frames
             /\ d.exceptions = Append(c.exceptions, e)
             /\ HasExceptions(d)
             /\ HasExceptions(c) => d.exceptions[1] = c.exceptions[1]
             /\ ~HasExceptions(c) => d.exceptions = <<e>>
<1>1. c.frames \in Seq(Frame) /\ c.exceptions \in Seq(Exc)
  BY DEF Context
<1>2. AddException(c, e) = [frames |-> c.frames, exceptions |-> Append(c.exceptions, e)]
  BY ContextExcept DEF AddException
<1>3. Append(c.exceptions, e) \in Seq(Exc) /\ Append(c.exceptions, e) # << >>
  BY <1>1, AppendProperties
<1>4. AddException(c, e) \in Context
  BY <1>1, <1>2, <1>3 DEF Context
<1>5. HasExceptions(c) => Append(c.exceptions, e)[1] = c.exceptions[1]
  BY <1>1 DEF HasExceptions
<1>6. ~HasExceptions(c) => Append(c.exceptions, e) = <<e>>
  <2>1. Append(<< >>, e) = <<e>>
    OBVIOUS
  <2> QED BY <2>1, Zenon DEF HasExceptions
<1> QED BY <1>2, <1>3, <1>4, <1>5, <1>6 DEF HasExceptions

\* A clear keeps the first exception, and only that one.
LEMMA ClearAllButFirstFacts ==
  ASSUME NEW c \in Context
  PROVE  LET d == ClearAllButFirst(c)
         IN  /\ d \in Context
             /\ d.frames = c.frames
             /\ HasExceptions(c) => d.exceptions = <<c.exceptions[1]>>
             /\ ~HasExceptions(c) => d = c
<1>1. c.frames \in Seq(Frame) /\ c.exceptions \in Seq(Exc)
  BY DEF Context
<1>2. CASE HasExceptions(c)
  <2>1. <<c.exceptions[1]>> \in Seq(Exc)
    BY <1>1, <1>2 DEF HasExceptions
  <2>2. ClearAllButFirst(c) = [frames |-> c.frames, exceptions |-> <<c.exceptions[1]>>]
    BY <1>2, ContextExcept DEF ClearAllButFirst
  <2> QED BY <1>1, <1>2, <2>1, <2>2 DEF Context
<1>3. CASE ~HasExceptions(c)
  BY <1>3 DEF ClearAllButFirst
<1> QED BY <1>2, <1>3
-----------------------------------------------------------------------------
(* try, throw, catch, finally *)

\* The frame that a "try" pushes when it is entered for this reason
TryFrame(jmp, reason) ==
  CASE reason = DONT    -> NewFrame(jmp, DONT, TRUE, FALSE)
    [] reason = THROW   -> NewFrame(jmp, THROW, FALSE, FALSE)
    [] reason = RETHROW -> NewFrame(jmp, THROW, FALSE, TRUE)

\* A "try" adds its frame, and after a landing keeps one exception.
LEMMA TryFacts ==
  ASSUME NEW c \in Context, NEW jmp \in JmpBufs, NEW reason \in JumpReason
  PROVE  LET d == Try(c, jmp, reason)
         IN  /\ d \in Context
             /\ HasFrame(d)
             /\ Len(d.frames) = Len(c.frames) + 1
             /\ \A i \in 1 .. Len(c.frames) : d.frames[i] = c.frames[i]
             /\ CurrentFrame(d) = TryFrame(jmp, reason)
             /\ reason = DONT => d.exceptions = c.exceptions
             /\ reason # DONT /\ HasExceptions(c) => d.exceptions = <<c.exceptions[1]>>
             /\ ~HasExceptions(c) => d.exceptions = << >>
<1> DEFINE d == Try(c, jmp, reason)
<1>1. DONT \in JumpReason /\ THROW \in JumpReason
  BY DEF JumpReason
<1>2. DONT # THROW /\ DONT # RETHROW /\ THROW # RETHROW
  BY DEF DONT, THROW, RETHROW
<1>3. CASE reason = DONT
  <2>1. d = PushFrame(c, jmp, DONT, TRUE, FALSE)
    BY <1>3 DEF Try
  <2>2. TryFrame(jmp, reason) = NewFrame(jmp, DONT, TRUE, FALSE)
    BY <1>2, <1>3 DEF TryFrame
  <2> HIDE DEF d
  <2>3. /\ d \in Context
        /\ d.exceptions = c.exceptions
        /\ HasFrame(d)
        /\ CurrentFrame(d) = NewFrame(jmp, DONT, TRUE, FALSE)
        /\ Len(d.frames) = Len(c.frames) + 1
        /\ \A i \in 1 .. Len(c.frames) : d.frames[i] = c.frames[i]
    BY <1>1, <2>1, PushFrameFacts
  <2> QED BY <1>3, <2>2, <2>3 DEF HasExceptions, d
<1> DEFINE Pushed(p, f) == /\ p \in Context
                           /\ p.exceptions = c.exceptions
                           /\ HasFrame(p)
                           /\ CurrentFrame(p) = f
                           /\ Len(p.frames) = Len(c.frames) + 1
                           /\ \A i \in 1 .. Len(c.frames) : p.frames[i] = c.frames[i]
<1>4. ASSUME NEW p, Pushed(p, TryFrame(jmp, reason)), d = ClearAllButFirst(p)
      PROVE  /\ d \in Context
             /\ HasFrame(d)
             /\ Len(d.frames) = Len(c.frames) + 1
             /\ \A i \in 1 .. Len(c.frames) : d.frames[i] = c.frames[i]
             /\ CurrentFrame(d) = TryFrame(jmp, reason)
             /\ HasExceptions(c) => d.exceptions = <<c.exceptions[1]>>
             /\ ~HasExceptions(c) => d.exceptions = << >>
  <2> HIDE DEF d
  <2>1. /\ d \in Context
        /\ d.frames = p.frames
        /\ HasExceptions(p) => d.exceptions = <<p.exceptions[1]>>
        /\ ~HasExceptions(p) => d = p
    BY <1>4, ClearAllButFirstFacts
  <2>2. HasFrame(d) /\ CurrentFrame(d) = CurrentFrame(p)
    BY <1>4, <2>1 DEF HasFrame, CurrentFrame
  <2> QED BY <1>4, <2>1, <2>2 DEF HasExceptions
<1>5. CASE reason = THROW
  <2> DEFINE p == PushFrame(c, jmp, THROW, FALSE, FALSE)
  <2>1. (reason = RETHROW) = FALSE
    BY <1>2, <1>5
  <2>2. d = ClearAllButFirst(p)
    BY <1>2, <1>5, <2>1, Zenon DEF Try
  <2>3. TryFrame(jmp, reason) = NewFrame(jmp, THROW, FALSE, FALSE)
    BY <1>2, <1>5 DEF TryFrame
  <2>4. Pushed(p, TryFrame(jmp, reason))
    BY <1>1, <2>3, PushFrameFacts
  <2>5. reason # DONT
    BY <1>2, <1>5
  <2> HIDE DEF d, p, Pushed
  <2> QED BY <1>4, <2>2, <2>4, <2>5 DEF d
<1>6. CASE reason = RETHROW
  <2> DEFINE p == PushFrame(c, jmp, THROW, FALSE, TRUE)
  <2>1. (reason = RETHROW) = TRUE
    BY <1>6
  <2>2. d = ClearAllButFirst(p)
    BY <1>2, <1>6, <2>1, Zenon DEF Try
  <2>3. TryFrame(jmp, reason) = NewFrame(jmp, THROW, FALSE, TRUE)
    BY <1>2, <1>6 DEF TryFrame
  <2>4. Pushed(p, TryFrame(jmp, reason))
    BY <1>1, <2>3, PushFrameFacts
  <2>5. reason # DONT
    BY <1>2, <1>6
  <2> HIDE DEF d, p, Pushed
  <2> QED BY <1>4, <2>2, <2>4, <2>5 DEF d
<1> QED BY <1>3, <1>5, <1>6 DEF JumpReason

\* A throw adds its exception and goes to the current frame; with no frame it returns.
LEMMA ThrowFacts ==
  ASSUME NEW c \in Context, NEW e \in Exc
  PROVE  LET r == Throw(c, e)
         IN  /\ r \in JumpResult
             /\ r.ctx.exceptions = Append(c.exceptions, e)
             /\ ~HasFrame(c) => r.to = NoJmp /\ r.ctx.frames = c.frames
             /\ HasFrame(c) => LandsAt(c, r, Len(c.frames))
             /\ HasFrame(c) => \A i \in 1 .. Len(c.frames) - 1 : r.ctx.frames[i] = c.frames[i]
             /\ HasFrame(c) => r.why = IF IsRethrowing(c) THEN RETHROW ELSE THROW
<1> DEFINE d == AddException(c, e)
           reason == IF IsRethrowing(c) THEN RETHROW ELSE THROW
           r == Throw(c, e)
<1>1. d \in Context /\ d.frames = c.frames /\ d.exceptions = Append(c.exceptions, e)
  BY AddExceptionFacts
<1>2. HasFrame(d) = HasFrame(c) /\ IsRethrowing(d) = IsRethrowing(c)
  BY <1>1 DEF HasFrame, IsRethrowing, CurrentFrame
<1>3. r = JumpBecause(d, reason)
  BY <1>2 DEF Throw, JumpThrowing
<1>4. reason \in JumpReason /\ reason # DONT
  BY DEF JumpReason, DONT, THROW, RETHROW
<1> HIDE DEF reason, d, r
<1>5. /\ r \in JumpResult
      /\ r.ctx.exceptions = d.exceptions
      /\ ~HasFrame(d) => r.to = NoJmp /\ r.ctx = d
      /\ HasFrame(d) => \A i \in 1 .. Len(d.frames) - 1 : r.ctx.frames[i] = d.frames[i]
      /\ HasFrame(d) => r.why = reason /\ LandsAt(d, r, Len(d.frames))
  BY <1>1, <1>3, <1>4, JumpBecauseFacts
<1> QED BY <1>1, <1>2, <1>5 DEF LandsAt, reason, r

\* At the end of "finally" the current frame goes, and an unwinding one sends
\* control to the jump point below it, with the reason kept.
LEMMA FinallyDoneFacts ==
  ASSUME NEW c \in Context, HasFrame(c)
  PROVE  LET r == FinallyDone(c)
             n == Len(c.frames)
         IN  /\ r \in JumpResult
             /\ r.ctx.exceptions = c.exceptions
             /\ CurrentFrame(c).reason = DONT \/ n = 1 =>
                   /\ r.to = NoJmp
                   /\ Len(r.ctx.frames) = n - 1
                   /\ \A i \in 1 .. n - 1 : r.ctx.frames[i] = c.frames[i]
             /\ CurrentFrame(c).reason # DONT /\ n > 1 =>
                   /\ LandsAt(c, r, n - 1)
                   /\ r.why = CurrentFrame(c).reason
                   /\ \A i \in 1 .. n - 2 : r.ctx.frames[i] = c.frames[i]
<1> DEFINE r == FinallyDone(c)
           n == Len(c.frames)
           p == PopFrame(c)
<1>1. n \in Nat \ {0} /\ CurrentFrame(c).reason \in JumpReason
  BY CurrentFrameFacts DEF Frame
<1>2. CASE CurrentFrame(c).reason = DONT
  <2>1. r = JumpBecause(c, DONT) /\ DONT \in JumpReason
    BY <1>2 DEF FinallyDone, Jump, JumpReason
  <2> QED BY <1>2, <2>1, JumpBecauseFacts, FetchFrameFacts
<1>3. CASE CurrentFrame(c).reason # DONT
  <2>1. r = JumpBecause(p, IF HasFrame(p) THEN CurrentFrame(p).reason ELSE DONT)
    BY <1>3 DEF FinallyDone, Jump
  <2>2. /\ p \in Context
        /\ p.exceptions = c.exceptions
        /\ Len(p.frames) = n - 1
        /\ SameJmps(p.frames, c.frames, n - 1)
        /\ \A i \in 1 .. n - 2 : p.frames[i] = c.frames[i]
        /\ HasFrame(p) => CurrentFrame(p).reason = CurrentFrame(c).reason
    BY PopFrameFacts
  <2> HIDE DEF r, p
  <2>3. p.frames \in Seq(Frame)
    BY <2>2 DEF Context
  <2>4. CASE n = 1
    <3>1. ~HasFrame(p)
      BY <2>2, <2>3, <2>4 DEF HasFrame
    <3>2. r = JumpBecause(p, DONT) /\ DONT \in JumpReason
      BY <2>1, <3>1 DEF JumpReason
    <3>3. r \in JumpResult /\ r.ctx.exceptions = p.exceptions /\ r.to = NoJmp /\ r.ctx = p
      BY <2>2, <3>1, <3>2, JumpBecauseFacts
    <3> QED BY <1>1, <2>2, <2>4, <3>3 DEF r
  <2>5. CASE n # 1
    <3> DEFINE reason == CurrentFrame(c).reason
    <3>1. HasFrame(p)
      <4>1. Len(p.frames) # 0
        BY <1>1, <2>2, <2>5
      <4> QED BY <4>1, EmptySeq DEF HasFrame
    <3>2. r = JumpBecause(p, reason)
      BY <2>1, <2>2, <3>1
    <3>3. /\ r \in JumpResult
          /\ r.ctx.exceptions = p.exceptions
          /\ \A i \in 1 .. Len(p.frames) - 1 : r.ctx.frames[i] = p.frames[i]
          /\ r.why = reason /\ LandsAt(p, r, Len(p.frames))
      BY <1>1, <1>3, <2>2, <3>1, <3>2, JumpBecauseFacts
    <3>4. LandsAt(c, r, n - 1)
      <4>1. n - 1 \in 1 .. n - 1
        <5> HIDE DEF n
        <5> QED BY <1>1, <2>5
      <4>2. p.frames[n - 1].jmp = c.frames[n - 1].jmp
        BY <2>2, <4>1 DEF SameJmps
      <4>3. \A i \in 1 .. (n - 1) - 1 : i \in 1 .. n - 1
        BY <1>1
      <4>4. /\ r.to = p.frames[n - 1].jmp
            /\ r.why # DONT
            /\ Len(r.ctx.frames) = (n - 1) - 1
            /\ SameJmps(r.ctx.frames, p.frames, (n - 1) - 1)
        BY <2>2, <3>3 DEF LandsAt
      <4>5. SameJmps(r.ctx.frames, c.frames, (n - 1) - 1)
        BY <2>2, <4>3, <4>4 DEF SameJmps
      <4> QED BY <4>2, <4>4, <4>5 DEF LandsAt
    <3>5. \A i \in 1 .. n - 2 : r.ctx.frames[i] = c.frames[i]
      BY <1>1, <2>2, <2>5, <3>3
    <3> QED BY <1>1, <1>3, <2>2, <2>5, <3>3, <3>4, <3>5 DEF r
  <2> QED BY <2>4, <2>5
<1> QED BY <1>2, <1>3
\* The fetched exception leaves the list, and nothing else changes.
LEMMA FetchExceptionFacts ==
  ASSUME NEW c \in Context, NEW type
  PROVE  LET r == FetchException(c, type)
         IN  /\ r.ctx \in Context
             /\ r.caught \in Exc \cup {NoExc}
             /\ r.ctx.frames = c.frames
             /\ r.caught = NoExc => r.ctx = c
             /\ r.caught # NoExc =>
                   \E i \in 1 .. Len(c.exceptions) : /\ r.caught = c.exceptions[i]
                                                     /\ r.ctx.exceptions = RemoveAt(c.exceptions, i)
<1> DEFINE r == FetchException(c, type)
<1>1. c.frames \in Seq(Frame) /\ c.exceptions \in Seq(Exc)
  BY DEF Context
<1>2. CASE FirstMatch(c, type) = {}
  <2>1. r = [ctx |-> c, caught |-> NoExc]
    BY <1>2 DEF FetchException
  <2> QED BY <2>1
<1>3. CASE FirstMatch(c, type) # {}
  <2> DEFINE i == CHOOSE i \in FirstMatch(c, type) : TRUE
             s == RemoveAt(c.exceptions, i)
  <2>1. i \in FirstMatch(c, type)
    BY <1>3
  <2>2. i \in 1 .. Len(c.exceptions)
    BY <1>1, <2>1, LenProperties DEF FirstMatch
  <2>3. r = [ctx |-> [frames |-> c.frames, exceptions |-> s], caught |-> c.exceptions[i]]
    BY <1>3, ContextExcept DEF FetchException
  <2> HIDE DEF i
  <2>4. s \in Seq(Exc)
    <3> USE <1>1, <2>2
    <3>1. c.exceptions[i] \in Exc
      BY ElementOfSeq
    <3>2. SubSeq(c.exceptions, 1, i - 1) \in Seq(Exc) /\ SubSeq(c.exceptions, i + 1, Len(c.exceptions)) \in Seq(Exc)
      OBVIOUS
    <3> QED BY <3>2 DEF RemoveAt
  <2>5. c.exceptions[i] \in Exc
    BY <1>1, <2>2, ElementOfSeq
  <2> HIDE DEF s
  <2>6. r.ctx \in Context /\ r.ctx.frames = c.frames /\ r.ctx.exceptions = s /\ r.caught = c.exceptions[i]
    BY <1>1, <2>3, <2>4 DEF Context
  <2>7. r.caught \in Exc /\ r.caught # NoExc
    BY <2>5, <2>6, ContextAssumption
  <2> HIDE DEF r
  <2> QED BY <2>2, <2>6, <2>7 DEF s, r
<1> QED BY <1>2, <1>3

\* A hit takes its exception off the list and stops the unwinding; a miss does
\* nothing, and so does a "catch" of a frame that is rethrowing.
LEMMA CatchFacts ==
  ASSUME NEW c \in Context, HasFrame(c), NEW type
  PROVE  LET r == Catch(c, type)
         IN  /\ r.ctx \in Context
             /\ r.caught \in Exc \cup {NoExc}
             /\ r.caught = NoExc => r.ctx = c
             /\ r.caught # NoExc =>
                   /\ ~CurrentFrame(c).rethrowing
                   /\ HasFrame(r.ctx)
                   /\ CurrentFrame(r.ctx).reason = DONT /\ CurrentFrame(r.ctx).rethrowing
                   /\ Len(r.ctx.frames) = Len(c.frames)
                   /\ \A i \in 1 .. Len(c.frames) - 1 : r.ctx.frames[i] = c.frames[i]
                   /\ SameJmps(r.ctx.frames, c.frames, Len(c.frames))
                   /\ \E i \in 1 .. Len(c.exceptions) : /\ r.caught = c.exceptions[i]
                                                        /\ r.ctx.exceptions = RemoveAt(c.exceptions, i)
<1> DEFINE r == Catch(c, type)
           q == FetchException(c, type)
<1>1. CASE IsRethrowing(c)
  <2>1. r = [ctx |-> c, caught |-> NoExc]
    BY <1>1 DEF Catch
  <2> QED BY <2>1
<1>2. CASE ~IsRethrowing(c)
  <2>1. /\ q.ctx \in Context
        /\ q.caught \in Exc \cup {NoExc}
        /\ q.ctx.frames = c.frames
        /\ q.caught = NoExc => q.ctx = c
        /\ q.caught # NoExc =>
              \E i \in 1 .. Len(c.exceptions) : /\ q.caught = c.exceptions[i]
                                                /\ q.ctx.exceptions = RemoveAt(c.exceptions, i)
    BY FetchExceptionFacts
  <2>2. q.caught = NoExc => r = q
    BY <1>2 DEF Catch
  <2>3. q.caught # NoExc => r.ctx = Handling(q.ctx) /\ r.caught = q.caught
    <3>1. q = [ctx |-> q.ctx, caught |-> q.caught]
      BY DEF FetchException
    <3>2. q.caught # NoExc => r = [q EXCEPT !.ctx = Handling(q.ctx)]
      BY <1>2 DEF Catch
    <3> HIDE DEF q, r
    <3> QED BY <3>1, <3>2
  <2> DEFINE f == [CurrentFrame(c) EXCEPT !.reason = DONT, !.rethrowing = TRUE]
             d == WithCurrentFrame(q.ctx, f)
  <2>4. HasFrame(q.ctx) /\ CurrentFrame(q.ctx) = CurrentFrame(c) /\ ~CurrentFrame(c).rethrowing
    BY <1>2, <2>1 DEF HasFrame, CurrentFrame, IsRethrowing
  <2>5. Handling(q.ctx) = d
    BY <2>4 DEF Handling
  <2>6. /\ Len(c.frames) \in Nat \ {0}
        /\ CurrentFrame(c) \in Frame
        /\ CurrentFrame(c) = c.frames[Len(c.frames)]
    BY CurrentFrameFacts
  <2>7. f \in Frame /\ f.jmp = CurrentFrame(c).jmp /\ f.reason = DONT /\ f.rethrowing
    BY <2>6 DEF Frame, JumpReason
  <2> HIDE DEF f, q
  <2>8. /\ d \in Context
        /\ HasFrame(d)
        /\ d.exceptions = q.ctx.exceptions
        /\ CurrentFrame(d) = f
        /\ Len(d.frames) = Len(c.frames)
        /\ \A i \in 1 .. Len(c.frames) - 1 : d.frames[i] = c.frames[i]
    BY <2>1, <2>4, <2>7, WithCurrentFrameFacts
  <2> HIDE DEF d
  <2>9. SameJmps(d.frames, c.frames, Len(c.frames))
    <3> SUFFICES ASSUME NEW i \in 1 .. Len(c.frames)
                 PROVE  d.frames[i].jmp = c.frames[i].jmp
      BY DEF SameJmps
    <3>1. CurrentFrame(d) = d.frames[Len(d.frames)]
      BY <2>8, CurrentFrameFacts
    <3>2. i = Len(c.frames) \/ i \in 1 .. Len(c.frames) - 1
      BY <2>6
    <3> QED BY <3>1, <3>2, <2>6, <2>7, <2>8
  <2> HIDE DEF r
  <2>10. CASE q.caught = NoExc
    BY <2>1, <2>2, <2>10 DEF r
  <2>11. CASE q.caught # NoExc
    BY <2>1, <2>3, <2>4, <2>5, <2>7, <2>8, <2>9, <2>11 DEF r
  <2> QED BY <2>10, <2>11
<1> QED BY <1>1, <1>2
=============================================================================
