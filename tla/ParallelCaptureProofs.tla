----------------------- MODULE ParallelCaptureProofs -----------------------
(***************************************************************************)
(* Theorems about ParallelCapture, for any team, any exceptions and any    *)
(* number of iterations.                                                   *)
(***************************************************************************)
EXTENDS ParallelCapture, ExceptionContextProofs, FiniteSetTheorems

Region == {"idle", "body", "landed", "appending", "linking", "clearing"}

InLoop(t) == pc[t] \in {"appending", "linking"}

\* Whoever appends holds the lock.
Holder == \A t \in Threads : InLoop(t) => lock = t

\* Outside a region no thread is in a capture block.
Joined == ~forked => \A t \in Threads : pc[t] = "idle"

Fresh == \A t \in Threads : pc[t] = "linking" => tail[t] = captured

Exclusive == /\ pc \in [Threads -> Region]
             /\ DOMAIN tail = Threads
             /\ Holder /\ Joined /\ Fresh

LEMMA ExclusiveInit == Init => Exclusive
  BY TeamAssumption DEF Init, Exclusive, Holder, Joined, Fresh, InLoop, Region

\* A step of thread t leaves the other threads where they are.
LEMMA ExclusiveThread ==
  ASSUME Exclusive, NEW t \in Threads, ThreadStep(t)
  PROVE  Exclusive'
<1> USE TeamAssumption DEF Exclusive, Holder, Joined, Fresh, InLoop, Region,
                           At, Goto, scopeVars, mainVars
<1>1. CASE Begin(t)        BY <1>1 DEF Begin
<1>2. CASE EndBlock(t)     BY <1>2 DEF EndBlock
<1>3. CASE ThrowInBlock(t)
  <2>1. PICK there \in {"landed", "idle"} : Goto(t, there)
    BY <1>3 DEF ThrowInBlock
  <2> QED BY <1>3, <2>1 DEF ThrowInBlock
<1>4. CASE Lock(t)         BY <1>4 DEF Lock
<1>5. CASE ReadTail(t)     BY <1>5 DEF ReadTail
<1>6. CASE Link(t)         BY <1>6 DEF Link
<1>7. CASE Unlock(t)       BY <1>7 DEF Unlock
<1>8. CASE Clear(t)        BY <1>8 DEF Clear
<1> QED BY <1>1, <1>2, <1>3, <1>4, <1>5, <1>6, <1>7, <1>8 DEF ThreadStep

\* The sequential part touches lock and list only when all threads are idle.
LEMMA ExclusiveMain ==
  ASSUME Exclusive, MainStep
  PROVE  Exclusive'
<1> USE DEF Exclusive, Holder, Joined, Fresh, InLoop, Region, InMain,
            scopeVars, mainVars, threadVars
<1>1. CASE Start         BY <1>1 DEF Start
<1>2. CASE Fork          BY <1>2 DEF Fork
<1>3. CASE Join          BY <1>3 DEF Join
<1>4. CASE Uncapture     BY <1>4 DEF Uncapture
<1>5. CASE ThrowCaptured BY <1>5 DEF ThrowCaptured
<1>6. CASE ThrowInTry    BY <1>6 DEF ThrowInTry
<1>7. CASE EndBody       BY <1>7 DEF EndBody
<1>8. CASE CatchAny      BY <1>8 DEF CatchAny
<1>9. CASE Finish        BY <1>9 DEF Finish
<1> QED BY <1>1, <1>2, <1>3, <1>4, <1>5, <1>6, <1>7, <1>8, <1>9 DEF MainStep

LEMMA ExclusiveNext == Exclusive /\ [Next]_vars => Exclusive'
<1> SUFFICES ASSUME Exclusive, [Next]_vars PROVE Exclusive'  OBVIOUS
<1>1. CASE MainStep                           BY <1>1, ExclusiveMain
<1>2. CASE \E t \in Threads : ThreadStep(t)   BY <1>2, ExclusiveThread
<1>3. CASE UNCHANGED vars
  BY <1>3 DEF Exclusive, Holder, Joined, Fresh, InLoop, vars, scopeVars, mainVars, threadVars
<1> QED BY <1>1, <1>2, <1>3 DEF Next

\* No append to the scope's list works on a stale list, whatever the size of the
\* team: exception_scope.c:31 is in a critical section, and exception_scope.c:43
\* runs only when no thread is in it.
THEOREM NoStaleAppend == Spec => []AppendNotStale
<1>1. Exclusive => AppendNotStale
  BY DEF Exclusive, Fresh, AppendNotStale, At
<1> QED BY <1>1, ExclusiveInit, ExclusiveNext, PTL DEF Spec
-----------------------------------------------------------------------------
(* Types and frames *)

\* 1 if the try of the master is open in t, and if t is in its capture block
Outer(t) == IF t = Master /\ main # "outside" THEN 1 ELSE 0
Inner(t) == IF pc[t] = "body" THEN 1 ELSE 0

\* The jump points of t, one by one
Paired == \A t \in Threads :
            LET frames == ctx[t].frames
            IN  /\ Len(frames) = Outer(t) + Inner(t)
                /\ Outer(t) = 1 => frames[1].jmp = TryJmp
                /\ Inner(t) = 1 => frames[Outer(t) + 1].jmp = t

\* There is an element to link, and none is left when the loop is over.
Loops == \A t \in Threads : /\ pc[t] = "linking" => moving[t] # << >>
                            /\ pc[t] = "clearing" => moving[t] = << >>

\* Regions are in the try, and nothing waits outside it.
Started == /\ forked => main # "outside"
           /\ main = "outside" => captured = << >>

Team == TypeOK /\ Exclusive /\ Paired /\ Loops /\ Started

LEMMA EmptyContextType == EmptyContext \in Context
  BY DEF EmptyContext, Context

LEMMA ClearAllFacts ==
  ASSUME NEW c \in Context
  PROVE  ClearAll(c) \in Context /\ ClearAll(c).frames = c.frames /\ ClearAll(c).exceptions = << >>
<1>1. ClearAll(c) = [frames |-> c.frames, exceptions |-> << >>]
  BY ContextExcept DEF ClearAll
<1> QED BY <1>1 DEF Context

\* A step that changes the context of t only
LEMMA OneContext ==
  ASSUME TypeOK, NEW t \in Threads, NEW d \in Context, ctx' = [ctx EXCEPT ![t] = d]
  PROVE  /\ ctx' \in [Threads -> Context]
         /\ ctx'[t] = d
         /\ \A u \in Threads : u # t => ctx'[u] = ctx[u]
BY DEF TypeOK

LEMMA TeamInit == Init => Team
<1> SUFFICES ASSUME Init PROVE Team  OBVIOUS
<1>1. TypeOK
  <2>1. << >> \in Seq(Exc)
    BY EmptySeq
  <2>2. pc \in [Threads -> {"idle", "body", "landed", "appending", "linking", "clearing"}]
    BY DEF Init
  <2>3. ctx \in [Threads -> Context]
    BY EmptyContextType DEF Init
  <2>4. moving \in [Threads -> Seq(Exc)] /\ tail \in [Threads -> Seq(Exc)]
    BY <2>1 DEF Init
  <2> QED BY <2>1, <2>2, <2>3, <2>4 DEF Init, TypeOK
<1>2. Paired
  BY EmptySeq DEF Init, Paired, Outer, Inner, EmptyContext
<1> QED BY <1>1, <1>2, ExclusiveInit DEF Init, Team, Loops, Started

\* In its block t has a frame, and it is its own.
LEMMA OwnFrame ==
  ASSUME Team, NEW t \in Threads, pc[t] = "body"
  PROVE  /\ ctx[t] \in Context /\ HasFrame(ctx[t])
         /\ Len(ctx[t].frames) = Outer(t) + 1
         /\ ctx[t].frames[Len(ctx[t].frames)].jmp = t
<1>1. ctx[t] \in Context
  BY DEF Team, TypeOK
<1>2. Len(ctx[t].frames) = Outer(t) + 1 /\ ctx[t].frames[Outer(t) + 1].jmp = t
  BY DEF Team, Paired, Inner
<1>3. ctx[t].frames # << >>
  BY <1>2, EmptySeq DEF Outer
<1> QED BY <1>1, <1>2, <1>3 DEF HasFrame

\* What t throws in its block goes to the block, and is the last of its exceptions.
LEMMA ThrowInBlockFacts ==
  ASSUME Team, NEW t \in Threads, pc[t] = "body", NEW e \in Exc
  PROVE  LET d == Throw(ctx[t], e).ctx
         IN  /\ d \in Context
             /\ d.exceptions = Append(ctx[t].exceptions, e)
             /\ HasExceptions(d)
             /\ Len(d.frames) = Outer(t)
             /\ Outer(t) = 1 => d.frames[1].jmp = ctx[t].frames[1].jmp
<1> DEFINE r == Throw(ctx[t], e)
<1>1. ctx[t] \in Context /\ HasFrame(ctx[t]) /\ Len(ctx[t].frames) = Outer(t) + 1
  BY OwnFrame
<1>2. Outer(t) \in {0, 1}
  BY DEF Outer
<1>3. /\ r \in JumpResult /\ r.ctx.exceptions = Append(ctx[t].exceptions, e)
      /\ LandsAt(ctx[t], r, Len(ctx[t].frames))
  BY <1>1, ThrowFacts
<1> HIDE DEF r
<1>4. r.ctx \in Context
  BY <1>3 DEF JumpResult
<1>5. HasExceptions(r.ctx)
  <2>1. ctx[t].exceptions \in Seq(Exc)
    BY <1>1 DEF Context
  <2> QED BY <1>3, <2>1, AppendProperties DEF HasExceptions
<1>6. Len(r.ctx.frames) = Outer(t) /\ SameJmps(r.ctx.frames, ctx[t].frames, Outer(t))
  BY <1>1, <1>2, <1>3 DEF LandsAt
<1>7. Outer(t) = 1 => r.ctx.frames[1].jmp = ctx[t].frames[1].jmp
  BY <1>6 DEF SameJmps
<1> QED BY <1>3, <1>4, <1>5, <1>6, <1>7 DEF r

\* A step of t keeps the pairs if the frames of t end up as its new place demands.
LEMMA PairedStep ==
  ASSUME Team, NEW t \in Threads, NEW d \in Context, NEW there \in Region,
         ctx' = [ctx EXCEPT ![t] = d], Goto(t, there), UNCHANGED main,
         Len(d.frames) = Outer(t) + (IF there = "body" THEN 1 ELSE 0),
         Outer(t) = 1 => d.frames[1].jmp = ctx[t].frames[1].jmp,
         there = "body" => d.frames[Outer(t) + 1].jmp = t
  PROVE  Paired'
<1> SUFFICES ASSUME NEW u \in Threads
             PROVE  /\ Len(ctx'[u].frames) = Outer(u)' + Inner(u)'
                    /\ Outer(u)' = 1 => ctx'[u].frames[1].jmp = TryJmp
                    /\ Inner(u)' = 1 => ctx'[u].frames[Outer(u)' + 1].jmp = u
  BY DEF Paired
<1>1. Outer(u)' = Outer(u)
  BY DEF Outer
<1>2. pc'[t] = there /\ (u # t => pc'[u] = pc[u])
  BY DEF Goto, Team, TypeOK
<1>3. ctx'[t] = d /\ (u # t => ctx'[u] = ctx[u])
  BY OneContext DEF Team
<1>4. CASE u = t
  <2>1. Inner(u)' = IF there = "body" THEN 1 ELSE 0
    BY <1>2, <1>4 DEF Inner
  <2>2. Outer(u) = 1 => ctx[t].frames[1].jmp = TryJmp
    BY <1>4 DEF Team, Paired
  <2> QED BY <1>1, <1>3, <1>4, <2>1, <2>2
<1>5. CASE u # t
  <2>1. Inner(u)' = Inner(u)
    BY <1>2, <1>5 DEF Inner
  <2> QED BY <1>1, <1>3, <1>5, <2>1 DEF Team, Paired
<1> QED BY <1>4, <1>5

\* The steps of the loop that moves exceptions leave the frames alone.
LEMMA PairedLoop ==
  ASSUME Team, NEW t \in Threads, pc[t] # "body", NEW there \in Region \ {"body"},
         UNCHANGED <<ctx, main>>, Goto(t, there)
  PROVE  Paired'
<1>1. \A u \in Threads : Outer(u)' = Outer(u) /\ Inner(u)' = Inner(u)
  BY DEF Outer, Inner, Goto, Team, TypeOK
<1> QED BY <1>1 DEF Team, Paired

\* The places of the threads after a step of t to another place
LEMMA PlaceType ==
  ASSUME TypeOK, NEW t \in Threads, NEW there \in Region, Goto(t, there)
  PROVE  /\ pc' \in [Threads -> Region]
         /\ pc'[t] = there
         /\ \A u \in Threads : u # t => pc'[u] = pc[u]
BY DEF TypeOK, Goto, Region

LEMMA TeamThread ==
  ASSUME Team, NEW t \in Threads, ThreadStep(t)
  PROVE  Team'
<1> USE DEF At, Region, scopeVars, mainVars
<1>1. TypeOK /\ Loops /\ Started /\ ctx[t] \in Context
  BY DEF Team, TypeOK
<1>2. forked /\ main # "outside"
  BY <1>1 DEF ThreadStep, Begin, EndBlock, ThrowInBlock, Lock, ReadTail, Link, Unlock, Clear, Started
<1>3. Exclusive'
  BY ExclusiveThread DEF Team
<1>4. Outer(t) \in {0, 1} /\ Outer(t) = Len(ctx[t].frames) - Inner(t)
  BY DEF Team, Paired, Outer, Inner
<1>5. ASSUME pc' \in [Threads -> Region], UNCHANGED main, UNCHANGED forked
      PROVE  Started'
  BY <1>2, <1>5 DEF Started
<1>6. CASE Begin(t)
  <2> DEFINE d == PushFrame(ctx[t], t, DONT, FALSE, FALSE)
  <2>1. ctx' = [ctx EXCEPT ![t] = d] /\ Goto(t, "body") /\ pc[t] = "idle"
    BY <1>6 DEF Begin
  <2>2. t \in JmpBufs /\ DONT \in JumpReason
    BY TeamAssumption DEF JumpReason
  <2>3. /\ d \in Context /\ HasFrame(d)
        /\ CurrentFrame(d) = NewFrame(t, DONT, FALSE, FALSE)
        /\ Len(d.frames) = Len(ctx[t].frames) + 1
        /\ \A i \in 1 .. Len(ctx[t].frames) : d.frames[i] = ctx[t].frames[i]
    BY <1>1, <2>2, PushFrameFacts
  <2> HIDE DEF d
  <2>4. CurrentFrame(d) = d.frames[Len(d.frames)]
    BY <2>3, CurrentFrameFacts
  <2>5. Len(ctx[t].frames) = Outer(t)
    BY <1>4, <2>1, <1>1, LenProperties DEF Inner, Context
  <2>6. d.frames[Outer(t) + 1].jmp = t /\ (Outer(t) = 1 => d.frames[1] = ctx[t].frames[1])
    BY <2>3, <2>4, <2>5 DEF NewFrame
  <2>7. Paired'
    BY <1>6, <2>1, <2>3, <2>5, <2>6, PairedStep, Zenon DEF Begin
  <2>8. TypeOK'
    <3>1. todo' \in Nat
      BY <1>1, <1>6 DEF Begin, TypeOK
    <3> QED BY <1>1, <1>6, <2>1, <2>3, <3>1, OneContext, PlaceType DEF Begin, TypeOK
  <2>9. Loops'
    BY <1>1, <1>6, <2>1, PlaceType DEF Begin, Loops
  <2> QED BY <1>3, <1>5, <1>6, <2>1, <2>7, <2>8, <2>9, PlaceType, <1>1 DEF Team, Begin
<1>7. CASE EndBlock(t)
  <2> DEFINE d == PopFrame(ctx[t])
  <2>1. ctx' = [ctx EXCEPT ![t] = d] /\ Goto(t, "idle") /\ pc[t] = "body"
    BY <1>7 DEF EndBlock
  <2>2. HasFrame(ctx[t]) /\ Len(ctx[t].frames) = Outer(t) + 1
    BY <2>1, OwnFrame
  <2>3. /\ d \in Context /\ Len(d.frames) = Outer(t)
        /\ SameJmps(d.frames, ctx[t].frames, Outer(t))
    <3>1. Outer(t) = Len(ctx[t].frames) - 1
      BY <1>4, <2>2
    <3>2. /\ d \in Context /\ Len(d.frames) = Len(ctx[t].frames) - 1
          /\ SameJmps(d.frames, ctx[t].frames, Len(ctx[t].frames) - 1)
      BY <1>1, <2>2, PopFrameFacts
    <3> QED BY <3>1, <3>2
  <2> HIDE DEF d
  <2>4. Outer(t) = 1 => d.frames[1].jmp = ctx[t].frames[1].jmp
    BY <2>3 DEF SameJmps
  <2>5. Paired'
    <3>1. Len(d.frames) = Outer(t) + (IF "idle" = "body" THEN 1 ELSE 0)
      BY <1>4, <2>3
    <3> QED BY <1>7, <2>1, <2>3, <2>4, <3>1, PairedStep DEF EndBlock
  <2>6. TypeOK'
    BY <1>1, <1>7, <2>1, <2>3, OneContext, PlaceType DEF EndBlock, TypeOK
  <2>7. Loops'
    BY <1>1, <1>7, <2>1, PlaceType DEF EndBlock, Loops
  <2> QED BY <1>3, <1>5, <1>7, <2>1, <2>5, <2>6, <2>7, PlaceType, <1>1 DEF Team, EndBlock
<1>8. CASE ThrowInBlock(t)
  <2>1. PICK e \in Exc \ live : LET r == Throw(ctx[t], e)
                               IN  /\ ctx' = [ctx EXCEPT ![t] = r.ctx]
                                   /\ Goto(t, IF HasExceptions(r.ctx) THEN "landed" ELSE "idle")
                                   /\ live' = live \cup {e}
    BY <1>8 DEF ThrowInBlock
  <2> DEFINE d == Throw(ctx[t], e).ctx
  <2>2. pc[t] = "body"
    BY <1>8 DEF ThrowInBlock
  <2>3. /\ d \in Context /\ HasExceptions(d)
        /\ Len(d.frames) = Outer(t)
        /\ Outer(t) = 1 => d.frames[1].jmp = ctx[t].frames[1].jmp
    BY <2>2, ThrowInBlockFacts
  <2>4. ctx' = [ctx EXCEPT ![t] = d] /\ Goto(t, "landed")
    BY <2>1, <2>3
  <2> HIDE DEF d
  <2>5. Paired'
    <3>1. Len(d.frames) = Outer(t) + (IF "landed" = "body" THEN 1 ELSE 0)
      BY <1>4, <2>3
    <3> QED BY <1>8, <2>3, <2>4, <3>1, PairedStep DEF ThrowInBlock
  <2>6. TypeOK'
    BY <1>1, <1>8, <2>1, <2>3, <2>4, OneContext, PlaceType DEF ThrowInBlock, TypeOK
  <2>7. Loops'
    BY <1>1, <1>8, <2>4, PlaceType DEF ThrowInBlock, Loops
  <2> QED BY <1>3, <1>5, <1>8, <2>4, <2>5, <2>6, <2>7, PlaceType, <1>1 DEF Team, ThrowInBlock
<1>9. CASE Lock(t)
  <2>1. pc[t] = "landed" /\ Goto(t, "appending") /\ ctx' = ctx
    BY <1>9 DEF Lock
  <2>2. ctx[t].exceptions \in Seq(Exc)
    BY <1>1 DEF Context
  <2>3. TypeOK'
    BY <1>1, <1>9, <2>1, <2>2, PlaceType DEF Lock, TypeOK
  <2>4. Loops'
    BY <1>1, <1>9, <2>1, PlaceType DEF Lock, Loops, TypeOK
  <2>5. Paired'
    BY <1>9, <2>1, PairedLoop DEF Lock
  <2> QED BY <1>1, <1>3, <1>5, <1>9, <2>1, <2>3, <2>4, <2>5, PlaceType DEF Team, Lock
<1>10. CASE ReadTail(t)
  <2>1. pc[t] = "appending" /\ Goto(t, "linking") /\ ctx' = ctx
    BY <1>10 DEF ReadTail
  <2>2. TypeOK'
    BY <1>1, <1>10, <2>1, PlaceType DEF ReadTail, TypeOK
  <2>3. Loops'
    BY <1>1, <1>10, <2>1, PlaceType DEF ReadTail, Loops
  <2>4. Paired'
    BY <1>10, <2>1, PairedLoop DEF ReadTail
  <2> QED BY <1>1, <1>3, <1>5, <1>10, <2>1, <2>2, <2>3, <2>4, PlaceType DEF Team, ReadTail
<1>11. CASE Link(t)
  <2>1. pc[t] = "linking" /\ Goto(t, "appending") /\ ctx' = ctx
    BY <1>11 DEF Link
  <2>2. moving[t] \in Seq(Exc) /\ moving[t] # << >> /\ tail[t] \in Seq(Exc) /\ << >> \in Seq(Exc)
    BY <1>1, <2>1, EmptySeq DEF TypeOK, Loops
  <2>3. Head(moving[t]) \in Exc /\ Tail(moving[t]) \in Seq(Exc)
    BY <2>2, HeadTailProperties
  <2>4. Append(tail[t], Head(moving[t])) \in Seq(Exc)
    BY <2>2, <2>3, AppendProperties
  <2>5. TypeOK'
    BY <1>1, <1>11, <2>1, <2>2, <2>3, <2>4, PlaceType DEF Link, TypeOK
  <2>6. Loops'
    BY <1>1, <1>11, <2>1, PlaceType DEF Link, Loops, TypeOK
  <2>7. Paired'
    BY <1>11, <2>1, PairedLoop DEF Link
  <2> QED BY <1>1, <1>2, <1>3, <1>11, <2>1, <2>5, <2>6, <2>7 DEF Team, Link, Started
<1>12. CASE Unlock(t)
  <2>1. pc[t] = "appending" /\ Goto(t, "clearing") /\ ctx' = ctx
    BY <1>12 DEF Unlock
  <2>2. TypeOK'
    BY <1>1, <1>12, <2>1, PlaceType DEF Unlock, TypeOK
  <2>3. Loops'
    BY <1>1, <1>12, <2>1, PlaceType DEF Unlock, Loops
  <2>4. Paired'
    BY <1>12, <2>1, PairedLoop DEF Unlock
  <2> QED BY <1>1, <1>3, <1>5, <1>12, <2>1, <2>2, <2>3, <2>4, PlaceType DEF Team, Unlock
<1>13. CASE Clear(t)
  <2> DEFINE d == ClearAll(ctx[t])
  <2>1. ctx' = [ctx EXCEPT ![t] = d] /\ Goto(t, "idle") /\ pc[t] = "clearing"
    BY <1>13 DEF Clear
  <2>2. d \in Context /\ d.frames = ctx[t].frames
    BY <1>1, ClearAllFacts
  <2>3. Len(d.frames) = Outer(t) + (IF "idle" = "body" THEN 1 ELSE 0)
    BY <1>4, <2>1, <2>2 DEF Inner
  <2> HIDE DEF d
  <2>4. Paired'
    BY <1>13, <2>1, <2>2, <2>3, PairedStep DEF Clear
  <2>5. TypeOK'
    BY <1>1, <1>13, <2>1, <2>2, OneContext, PlaceType DEF Clear, TypeOK
  <2>6. Loops'
    BY <1>1, <1>13, <2>1, PlaceType DEF Clear, Loops
  <2> QED BY <1>1, <1>3, <1>5, <1>13, <2>1, <2>4, <2>5, <2>6, PlaceType DEF Team, Clear
<1> QED BY <1>6, <1>7, <1>8, <1>9, <1>10, <1>11, <1>12, <1>13 DEF ThreadStep

\* Outside a region only the master has a frame, that of its try.
LEMMA MainFrame ==
  ASSUME Team, ~forked
  PROVE  /\ \A t \in Threads : pc[t] = "idle" /\ Inner(t) = 0
         /\ Master \in Threads /\ ctx[Master] \in Context
         /\ main # "outside" => /\ HasFrame(ctx[Master])
                                /\ Len(ctx[Master].frames) = 1
                                /\ ctx[Master].frames[1].jmp = TryJmp
         /\ main = "outside" => Len(ctx[Master].frames) = 0
<1>1. \A t \in Threads : pc[t] = "idle" /\ Inner(t) = 0
  BY DEF Team, Exclusive, Joined, Inner
<1>2. Master \in Threads /\ ctx[Master] \in Context
  BY TeamAssumption DEF Team, TypeOK
<1>3. /\ Len(ctx[Master].frames) = Outer(Master)
      /\ Outer(Master) = 1 => ctx[Master].frames[1].jmp = TryJmp
  BY <1>1, <1>2 DEF Team, Paired, Outer
<1>4. Outer(Master) = 1 => ctx[Master].frames # << >>
  BY <1>3, EmptySeq
<1> QED BY <1>1, <1>2, <1>3, <1>4 DEF HasFrame, Outer

LEMMA PairedMain ==
  ASSUME Team, ~forked, NEW d \in Context,
         ctx' = [ctx EXCEPT ![Master] = d], UNCHANGED pc,
         Len(d.frames) = IF main' = "outside" THEN 0 ELSE 1,
         main' # "outside" => d.frames[1].jmp = TryJmp
  PROVE  Paired'
<1> SUFFICES ASSUME NEW u \in Threads
             PROVE  /\ Len(ctx'[u].frames) = Outer(u)' + Inner(u)'
                    /\ Outer(u)' = 1 => ctx'[u].frames[1].jmp = TryJmp
                    /\ Inner(u)' = 1 => ctx'[u].frames[Outer(u)' + 1].jmp = u
  BY DEF Paired
<1>1. Inner(u) = 0 /\ Master \in Threads
  BY MainFrame
<1>2. Inner(u)' = 0
  BY <1>1 DEF Inner
<1>3. ctx'[Master] = d /\ (u # Master => ctx'[u] = ctx[u])
  BY <1>1, OneContext DEF Team
<1>4. CASE u = Master
  BY <1>2, <1>3, <1>4 DEF Outer
<1>5. CASE u # Master
  <2>1. Outer(u)' = 0 /\ Outer(u) = 0
    BY <1>5 DEF Outer
  <2>2. Len(ctx[u].frames) = 0
    <3>1. Len(ctx[u].frames) = Outer(u) + Inner(u)
      BY DEF Team, Paired
    <3> QED BY <1>1, <2>1, <3>1
  <2> QED BY <1>2, <1>3, <1>5, <2>1, <2>2
<1> QED BY <1>4, <1>5

\* A throw of the master lands in its try, where the first exception is kept.
LEMMA LandInTryFacts ==
  ASSUME Team, InMain("body"), NEW full \in Context,
         full.frames = ctx[Master].frames, HasExceptions(full)
  PROVE  LET r == JumpThrowing(full)
             c == Try(r.ctx, r.to, r.why)
         IN  /\ r.ctx.exceptions = full.exceptions
             /\ c \in Context
             /\ c.exceptions = <<full.exceptions[1]>>
             /\ Len(c.frames) = 1
             /\ c.frames[1].jmp = TryJmp
             /\ ~IsTrying(c)
<1> DEFINE r == JumpThrowing(full)
           reason == IF IsRethrowing(full) THEN RETHROW ELSE THROW
           c == Try(r.ctx, r.to, r.why)
<1>1. HasFrame(ctx[Master]) /\ Len(full.frames) = 1 /\ full.frames[1].jmp = TryJmp
  BY MainFrame DEF InMain
<1>2. HasFrame(full)
  BY <1>1 DEF HasFrame
<1>3. reason \in JumpReason /\ reason # DONT
  BY DEF JumpReason, DONT, THROW, RETHROW
<1>4. r = JumpBecause(full, reason)
  BY DEF JumpThrowing
<1> HIDE DEF r, reason
<1>5. /\ r \in JumpResult /\ r.ctx.exceptions = full.exceptions
      /\ r.why = reason /\ LandsAt(full, r, Len(full.frames))
  BY <1>2, <1>3, <1>4, JumpBecauseFacts
<1>6. r.to = TryJmp /\ Len(r.ctx.frames) = 0 /\ r.ctx \in Context /\ r.why \in JumpReason
  BY <1>1, <1>5 DEF LandsAt, JumpResult
<1>7. r.to \in JmpBufs /\ HasExceptions(r.ctx)
  BY <1>5, <1>6, TeamAssumption DEF HasExceptions
<1>8. /\ c \in Context /\ HasFrame(c) /\ Len(c.frames) = Len(r.ctx.frames) + 1
      /\ CurrentFrame(c) = TryFrame(r.to, r.why)
      /\ r.why # DONT /\ HasExceptions(r.ctx) => c.exceptions = <<r.ctx.exceptions[1]>>
  BY <1>6, <1>7, TryFacts
<1> HIDE DEF c
<1>9. Len(c.frames) = 1 /\ c.exceptions = <<full.exceptions[1]>>
  BY <1>3, <1>5, <1>6, <1>7, <1>8
<1>10. TryFrame(r.to, r.why).jmp = r.to /\ TryFrame(r.to, r.why).trying = FALSE
  <2>1. r.why = THROW \/ r.why = RETHROW
    BY <1>3, <1>5 DEF JumpReason
  <2> QED BY <2>1 DEF TryFrame, NewFrame, DONT, THROW, RETHROW
<1>11. c.frames[1].jmp = TryJmp
  <2>1. CurrentFrame(c) = c.frames[1]
    BY <1>8, <1>9, CurrentFrameFacts
  <2> QED BY <1>6, <1>8, <1>10, <2>1
<1> QED BY <1>5, <1>8, <1>9, <1>10, <1>11 DEF r, c, IsTrying

\* What the master has after exceptional_list_move
LEMMA UncapturedFacts ==
  ASSUME Team
  PROVE  /\ Uncaptured \in Context
         /\ Uncaptured.frames = ctx[Master].frames
         /\ Uncaptured.exceptions = ctx[Master].exceptions \o captured
<1>1. ctx[Master] \in Context /\ captured \in Seq(Exc)
  BY TeamAssumption DEF Team, TypeOK
<1>2. ctx[Master].exceptions \in Seq(Exc) /\ ctx[Master].frames \in Seq(Frame)
  BY <1>1 DEF Context
<1>3. ctx[Master].exceptions \o captured \in Seq(Exc)
  BY <1>1, <1>2, ConcatProperties
<1>4. Uncaptured = [frames |-> ctx[Master].frames, exceptions |-> ctx[Master].exceptions \o captured]
  BY <1>1, ContextExcept DEF Uncaptured
<1> QED BY <1>2, <1>3, <1>4 DEF Context

LEMMA TeamMain ==
  ASSUME Team, MainStep
  PROVE  Team'
<1> USE DEF InMain, scopeVars, mainVars, threadVars
<1>1. TypeOK /\ Loops /\ Started /\ Master \in Threads /\ ctx[Master] \in Context
  BY TeamAssumption DEF Team, TypeOK
<1>2. Exclusive'
  BY ExclusiveMain DEF Team
<1>3. << >> \in Seq(Exc)
  BY EmptySeq
<1>4. ASSUME UNCHANGED threadVars PROVE Loops'
  BY <1>1, <1>4 DEF Loops
<1>5. ASSUME UNCHANGED <<ctx, main, pc>> PROVE Paired'
  <2>1. \A u \in Threads : Outer(u)' = Outer(u) /\ Inner(u)' = Inner(u)
    BY <1>5 DEF Outer, Inner
  <2> QED BY <1>5, <2>1 DEF Team, Paired
<1>6. CASE Start
  <2> DEFINE d == Try(ctx[Master], TryJmp, DONT)
  <2>1. ctx' = [ctx EXCEPT ![Master] = d] /\ ~forked /\ main = "outside" /\ main' = "body"
    BY <1>6 DEF Start
  <2>2. Len(ctx[Master].frames) = 0
    BY <2>1, MainFrame
  <2>3. TryJmp \in JmpBufs /\ DONT \in JumpReason
    BY TeamAssumption DEF JumpReason
  <2>4. /\ d \in Context /\ HasFrame(d) /\ Len(d.frames) = 1
        /\ CurrentFrame(d) = TryFrame(TryJmp, DONT)
    <3>1. /\ d \in Context /\ HasFrame(d) /\ Len(d.frames) = Len(ctx[Master].frames) + 1
          /\ CurrentFrame(d) = TryFrame(TryJmp, DONT)
      BY <1>1, <2>3, TryFacts
    <3> QED BY <2>2, <3>1
  <2> HIDE DEF d
  <2>5. d.frames[1].jmp = TryJmp
    <3>1. CurrentFrame(d) = d.frames[1]
      BY <2>4, CurrentFrameFacts
    <3>2. TryFrame(TryJmp, DONT).jmp = TryJmp
      BY DEF TryFrame, NewFrame, DONT, THROW, RETHROW
    <3> QED BY <2>4, <3>1, <3>2
  <2>6. Paired'
    BY <1>6, <2>1, <2>4, <2>5, PairedMain DEF Start
  <2>7. TypeOK'
    BY <1>1, <1>3, <1>6, <2>1, <2>4, OneContext DEF Start, TypeOK
  <2> QED BY <1>2, <1>4, <1>6, <2>6, <2>7 DEF Team, Start, Started
<1>7. CASE Fork
  <2>1. forked' = TRUE /\ main # "outside" /\ UNCHANGED <<ctx, scopeVars, live, main, threadVars>>
    BY <1>7 DEF Fork
  <2>2. todo' \in Nat
    BY <1>7, TeamAssumption DEF Fork
  <2>3. TypeOK'
    BY <1>1, <2>1, <2>2 DEF TypeOK
  <2> QED BY <1>1, <1>2, <1>4, <1>5, <2>1, <2>3 DEF Team, Started
<1>8. CASE Join
  <2>1. forked' = FALSE /\ UNCHANGED <<ctx, scopeVars, live, main, todo, threadVars>>
    BY <1>8 DEF Join
  <2>2. TypeOK'
    BY <1>1, <2>1 DEF TypeOK
  <2> QED BY <1>1, <1>2, <1>4, <1>5, <2>1, <2>2 DEF Team, Started
<1>9. CASE Uncapture
  <2>1. /\ ctx' = [ctx EXCEPT ![Master] = Uncaptured]
        /\ ~forked /\ main = "body" /\ captured' = << >>
        /\ UNCHANGED <<lock, live, mainVars, todo, threadVars>>
    BY <1>9 DEF Uncapture
  <2>2. Uncaptured \in Context /\ Uncaptured.frames = ctx[Master].frames
    BY UncapturedFacts
  <2>3. Len(Uncaptured.frames) = 1 /\ Uncaptured.frames[1].jmp = TryJmp
    BY <2>1, <2>2, MainFrame
  <2>4. Paired'
    BY <2>1, <2>2, <2>3, PairedMain
  <2>5. TypeOK'
    BY <1>1, <1>3, <2>1, <2>2, OneContext DEF TypeOK
  <2> QED BY <1>1, <1>2, <1>4, <2>1, <2>4, <2>5 DEF Team, Started
<1>10. ASSUME NEW full \in Context, NEW allocated \in SUBSET Exc,
             full.frames = ctx[Master].frames, HasExceptions(full), InMain("body"),
             LandInTry(JumpThrowing(full), allocated),
             captured' \in Seq(Exc), UNCHANGED <<lock, forked, todo, threadVars>>
       PROVE  TypeOK' /\ Paired' /\ main' # "outside"
  <2> DEFINE r == JumpThrowing(full)
             c == Try(r.ctx, r.to, r.why)
  <2>1. /\ ctx' = [ctx EXCEPT ![Master] = c]
        /\ main' \in {"body", "finally"}
        /\ live' \subseteq Exc
    BY <1>10 DEF LandInTry
  <2>2. c \in Context /\ Len(c.frames) = 1 /\ c.frames[1].jmp = TryJmp
    BY <1>10, LandInTryFacts
  <2> HIDE DEF c
  <2>3. Paired'
    BY <1>10, <2>1, <2>2, PairedMain
  <2>4. TypeOK'
    BY <1>1, <1>10, <2>1, <2>2, OneContext DEF TypeOK
  <2> QED BY <2>1, <2>3, <2>4
<1>11. CASE ThrowCaptured
  <2>1. live \in SUBSET Exc /\ captured' = << >>
    BY <1>1, <1>11 DEF ThrowCaptured, TypeOK
  <2>2. TypeOK' /\ Paired' /\ main' # "outside"
    BY <1>3, <1>10, <1>11, <2>1, UncapturedFacts DEF ThrowCaptured
  <2> QED BY <1>2, <1>4, <1>11, <2>1, <2>2 DEF Team, Started, ThrowCaptured
<1>12. CASE ThrowInTry
  <2>1. PICK e \in Exc \ live : LandInTry(Throw(ctx[Master], e), live \cup {e})
    BY <1>12 DEF ThrowInTry
  <2> DEFINE full == AddException(ctx[Master], e)
  <2>2. full \in Context /\ full.frames = ctx[Master].frames /\ HasExceptions(full)
    BY <1>1, AddExceptionFacts
  <2>3. live \cup {e} \in SUBSET Exc /\ captured' = captured /\ captured \in Seq(Exc)
    BY <1>1, <1>12 DEF ThrowInTry, TypeOK
  <2>4. LandInTry(JumpThrowing(full), live \cup {e})
    BY <2>1 DEF Throw
  <2> HIDE DEF full
  <2>5. TypeOK' /\ Paired' /\ main' # "outside"
    BY <1>10, <1>12, <2>2, <2>3, <2>4 DEF ThrowInTry
  <2> QED BY <1>2, <1>4, <1>12, <2>5 DEF Team, Started, ThrowInTry
<1>13. CASE EndBody
  <2> DEFINE d == StopTrying(ctx[Master])
  <2>1. /\ ctx' = [ctx EXCEPT ![Master] = d]
        /\ ~forked /\ main = "body" /\ main' = "finally"
        /\ UNCHANGED <<scopeVars, live, forked, todo, threadVars>>
    BY <1>13 DEF EndBody
  <2>2. /\ d \in Context /\ Len(d.frames) = Len(ctx[Master].frames)
        /\ SameJmps(d.frames, ctx[Master].frames, Len(ctx[Master].frames))
    BY <1>1, StopTryingFacts
  <2> HIDE DEF d
  <2>3. Len(d.frames) = 1 /\ d.frames[1].jmp = TryJmp
    BY <2>1, <2>2, MainFrame DEF SameJmps
  <2>4. Paired'
    BY <2>1, <2>2, <2>3, PairedMain
  <2>5. TypeOK'
    BY <1>1, <2>1, <2>2, OneContext DEF TypeOK
  <2> QED BY <1>2, <1>4, <2>1, <2>4, <2>5 DEF Team, Started
<1>14. CASE CatchAny
  <2>1. PICK type \in Types : LET r == Catch(ctx[Master], type)
                              IN  /\ r.caught # NoExc
                                  /\ ctx' = [ctx EXCEPT ![Master] = r.ctx]
                                  /\ live' = live \ {r.caught}
    BY <1>14 DEF CatchAny
  <2> DEFINE d == Catch(ctx[Master], type).ctx
  <2>2. ~forked /\ main = "finally" /\ UNCHANGED <<scopeVars, mainVars, todo, threadVars>>
    BY <1>14 DEF CatchAny
  <2>3. HasFrame(ctx[Master]) /\ Len(ctx[Master].frames) = 1 /\ ctx[Master].frames[1].jmp = TryJmp
    BY <2>2, MainFrame
  <2>4. /\ d \in Context /\ Len(d.frames) = Len(ctx[Master].frames)
        /\ SameJmps(d.frames, ctx[Master].frames, Len(ctx[Master].frames))
    BY <1>1, <2>1, <2>3, CatchFacts
  <2>5. ctx' = [ctx EXCEPT ![Master] = d] /\ live' \subseteq live
    BY <2>1
  <2> HIDE DEF d
  <2>6. Len(d.frames) = 1 /\ d.frames[1].jmp = TryJmp
    BY <2>3, <2>4 DEF SameJmps
  <2>7. Paired'
    BY <2>2, <2>4, <2>5, <2>6, PairedMain
  <2>8. TypeOK'
    BY <1>1, <2>2, <2>4, <2>5, OneContext DEF TypeOK
  <2> QED BY <1>1, <1>2, <1>4, <2>2, <2>7, <2>8 DEF Team, Started
<1>15. CASE Finish
  <2> DEFINE d == FinallyDone(ctx[Master]).ctx
  <2>1. /\ ctx' = [ctx EXCEPT ![Master] = d] /\ live' \subseteq live
        /\ ~forked /\ main = "finally" /\ main' = "outside" /\ captured' = << >>
        /\ UNCHANGED <<lock, forked, todo, threadVars>>
    BY <1>15 DEF Finish
  <2>2. HasFrame(ctx[Master]) /\ Len(ctx[Master].frames) = 1
    BY <2>1, MainFrame
  <2>3. FinallyDone(ctx[Master]) \in JumpResult /\ Len(d.frames) = Len(ctx[Master].frames) - 1
    BY <1>1, <2>2, FinallyDoneFacts
  <2>4. d \in Context /\ Len(d.frames) = 0
    BY <2>2, <2>3 DEF JumpResult
  <2> HIDE DEF d
  <2>5. Paired'
    BY <2>1, <2>4, PairedMain
  <2>6. TypeOK'
    BY <1>1, <1>3, <2>1, <2>4, OneContext DEF TypeOK
  <2> QED BY <1>2, <1>4, <2>1, <2>5, <2>6 DEF Team, Started
<1> QED BY <1>6, <1>7, <1>8, <1>9, <1>11, <1>12, <1>13, <1>14, <1>15 DEF MainStep

LEMMA TeamNext == Team /\ [Next]_vars => Team'
<1> SUFFICES ASSUME Team, [Next]_vars PROVE Team'  OBVIOUS
<1>1. CASE MainStep                           BY <1>1, TeamMain
<1>2. CASE \E t \in Threads : ThreadStep(t)   BY <1>2, TeamThread
<1>3. CASE UNCHANGED vars
  <2> USE <1>3 DEF vars, scopeVars, mainVars, threadVars
  <2>1. Exclusive'
    BY ExclusiveNext DEF Team
  <2>2. TypeOK'
    BY DEF Team, TypeOK
  <2>3. Paired'
    BY DEF Team, Paired, Outer, Inner
  <2>4. Loops' /\ Started'
    BY DEF Team, Loops, Started
  <2> QED BY <2>1, <2>2, <2>3, <2>4 DEF Team
<1> QED BY <1>1, <1>2, <1>3 DEF Next

\* The jump points one by one are the sequence of them.
LEMMA PairedMatch == Team => FramesMatchTeam
<1> SUFFICES ASSUME Team, NEW t \in Threads
             PROVE  [i \in DOMAIN ctx[t].frames |-> ctx[t].frames[i].jmp]
                      = (IF t = Master /\ main # "outside" THEN <<TryJmp>> ELSE << >>)
                        \o (IF pc[t] = "body" THEN <<t>> ELSE << >>)
  BY DEF FramesMatchTeam
<1> DEFINE frames == ctx[t].frames
<1>1. frames \in Seq(Frame)
  BY DEF Team, TypeOK, Context
<1>2. /\ Len(frames) = Outer(t) + Inner(t)
      /\ Outer(t) = 1 => frames[1].jmp = TryJmp
      /\ Inner(t) = 1 => frames[Outer(t) + 1].jmp = t
  BY DEF Team, Paired
<1>3. DOMAIN frames = 1 .. Len(frames)
  BY <1>1, LenProperties
<1> HIDE DEF frames
<1>4. CASE t = Master /\ main # "outside" /\ pc[t] = "body"
  <2>1. Len(frames) = 2 /\ frames[1].jmp = TryJmp /\ frames[2].jmp = t
    BY <1>2, <1>4 DEF Outer, Inner
  <2>2. [i \in 1 .. 2 |-> frames[i].jmp] = <<TryJmp, t>>
    BY <2>1
  <2>3. <<TryJmp>> \o <<t>> = <<TryJmp, t>>
    <3> DEFINE S == {TryJmp, t}
    <3>1. <<TryJmp>> \in Seq(S) /\ <<t>> \in Seq(S) /\ <<TryJmp, t>> \in Seq(S)
      OBVIOUS
    <3>2. /\ Len(<<TryJmp>> \o <<t>>) = Len(<<TryJmp>>) + Len(<<t>>)
          /\ (<<TryJmp>> \o <<t>>)[1] = TryJmp /\ (<<TryJmp>> \o <<t>>)[2] = t
          /\ <<TryJmp>> \o <<t>> \in Seq(S)
      BY <3>1, ConcatProperties
    <3>3. Len(<<TryJmp>> \o <<t>>) = Len(<<TryJmp, t>>)
      BY <3>2
    <3>4. \A i \in 1 .. Len(<<TryJmp>> \o <<t>>) :
            (<<TryJmp>> \o <<t>>)[i] = <<TryJmp, t>>[i]
      <4>1. \A i \in 1 .. Len(<<TryJmp>> \o <<t>>) : i = 1 \/ i = 2
        BY <3>2
      <4> QED BY <3>2, <4>1
    <3> HIDE DEF S
    <3> QED BY <3>1, <3>2, <3>3, <3>4, SeqEqual
  <2> QED BY <1>3, <1>4, <2>1, <2>2, <2>3 DEF frames
<1>5. CASE t = Master /\ main # "outside" /\ pc[t] # "body"
  <2>1. Len(frames) = 1 /\ frames[1].jmp = TryJmp
    BY <1>2, <1>5 DEF Outer, Inner
  <2>2. [i \in 1 .. 1 |-> frames[i].jmp] = <<TryJmp>>
    BY <2>1
  <2>3. <<TryJmp>> \o << >> = <<TryJmp>>
    OBVIOUS
  <2> QED BY <1>3, <1>5, <2>1, <2>2, <2>3 DEF frames
<1>6. CASE ~(t = Master /\ main # "outside") /\ pc[t] = "body"
  <2>1. Len(frames) = 1 /\ frames[1].jmp = t
    BY <1>2, <1>6 DEF Outer, Inner
  <2>2. [i \in 1 .. 1 |-> frames[i].jmp] = <<t>>
    BY <2>1
  <2>3. << >> \o <<t>> = <<t>>
    OBVIOUS
  <2> QED BY <1>3, <1>6, <2>1, <2>2, <2>3 DEF frames
<1>7. CASE ~(t = Master /\ main # "outside") /\ pc[t] # "body"
  <2>1. Len(frames) = 0
    BY <1>2, <1>7 DEF Outer, Inner
  <2>2. frames = << >>
    BY <1>1, <2>1, EmptySeq
  <2>3. [i \in DOMAIN frames |-> frames[i].jmp] = << >>
    BY <2>2
  <2>4. << >> \o << >> = << >>
    OBVIOUS
  <2> QED BY <1>7, <2>3, <2>4 DEF frames
<1> QED BY <1>4, <1>5, <1>6, <1>7

\* In every thread the frames are those of the try, for the master, and of the block it
\* is in: whatever the team does, capture_exceptions leaves none behind on either of its
\* ways out (exceptional.h:138-145), so that no jump lands in a block that has ended.
THEOREM FramesStayMatched == Spec => []FramesMatchTeam
<1> QED BY TeamInit, TeamNext, PairedMatch, PTL DEF Spec

-----------------------------------------------------------------------------
(* Every exception in one place *)

\* The lists have no element twice and none in common, and hold what is allocated.
Once == /\ NoRepeat(captured)
        /\ \A t \in Threads : NoRepeat(Holding(t)) /\ Apart(captured, Holding(t))
        /\ \A t, u \in Threads : t # u => Apart(Holding(t), Holding(u))
        /\ \A e \in Exc : e \in live <=> Has(captured, e) \/ \E t \in Threads : Has(Holding(t), e)

LEMMA HoldingType ==
  ASSUME Team, NEW t \in Threads
  PROVE  /\ Holding(t) \in Seq(Exc) /\ captured \in Seq(Exc)
         /\ \A i \in DOMAIN Holding(t) : Holding(t)[i] \in Exc
         /\ \A i \in DOMAIN captured : captured[i] \in Exc
<1>1. ctx[t].exceptions \in Seq(Exc) /\ moving[t] \in Seq(Exc) /\ captured \in Seq(Exc)
  BY DEF Team, TypeOK, Context
<1>2. Holding(t) \in Seq(Exc)
  BY <1>1 DEF Holding
<1> QED BY <1>1, <1>2, ElementOfSeq, LenProperties

LEMMA OnceInit == Init => Once
<1> SUFFICES ASSUME Init PROVE Once  OBVIOUS
<1>1. captured = << >> /\ live = {} /\ DOMAIN << >> = {}
  BY DEF Init
<1>2. \A t \in Threads : Holding(t) = << >>
  BY DEF Init, Holding, EmptyContext
<1> QED BY <1>1, <1>2 DEF Once, NoRepeat, Apart, Has

\* A step that changes only the list of the scope and what t holds: it keeps what they had,
\* but for what it frees, and adds what was not allocated.
LEMMA OnceStep ==
  ASSUME Team, Once, Team', NEW t \in Threads,
         \A u \in Threads : u # t => Holding(u)' = Holding(u),
         NoRepeat(captured'), NoRepeat(Holding(t)'), Apart(captured', Holding(t)'),
         \A e \in Exc : Has(captured', e) \/ Has(Holding(t)', e)
                          => Has(captured, e) \/ Has(Holding(t), e) \/ e \notin live,
         \A e \in Exc : e \in live' <=> \/ Has(captured', e) \/ Has(Holding(t)', e)
                                        \/ e \in live /\ ~Has(captured, e) /\ ~Has(Holding(t), e)
  PROVE  Once'
<1>1. ASSUME NEW u \in Threads, u # t, NEW e \in Exc, Has(Holding(u), e)
      PROVE  e \in live /\ ~Has(captured, e) /\ ~Has(Holding(t), e)
             /\ ~Has(captured', e) /\ ~Has(Holding(t)', e)
  <2>1. e \in live
    BY <1>1 DEF Once
  <2>2. ~Has(captured, e) /\ ~Has(Holding(t), e)
    BY <1>1 DEF Once, Apart, Has
  <2> QED BY <2>1, <2>2
<1>2. \A u \in Threads : NoRepeat(Holding(u)')
  BY DEF Once
<1>3. \A u \in Threads : Apart(captured', Holding(u)')
  <2> SUFFICES ASSUME NEW u \in Threads, u # t, NEW i \in DOMAIN captured', NEW j \in DOMAIN Holding(u),
                      captured'[i] = Holding(u)[j]
               PROVE  FALSE
    BY DEF Apart
  <2>1. Holding(u)[j] \in Exc /\ Has(Holding(u), Holding(u)[j]) /\ Has(captured', Holding(u)[j])
    BY HoldingType DEF Has
  <2> QED BY <1>1, <2>1
<1>4. \A u, v \in Threads : u # v => Apart(Holding(u)', Holding(v)')
  <2>1. \A u \in Threads \ {t} : Apart(Holding(t)', Holding(u)) /\ Apart(Holding(u), Holding(t)')
    <3> SUFFICES ASSUME NEW u \in Threads, u # t, NEW i \in DOMAIN Holding(t)', NEW j \in DOMAIN Holding(u),
                        Holding(t)'[i] = Holding(u)[j]
                 PROVE  FALSE
      BY DEF Apart
    <3>1. Holding(u)[j] \in Exc /\ Has(Holding(u), Holding(u)[j]) /\ Has(Holding(t)', Holding(u)[j])
      BY HoldingType DEF Has
    <3> QED BY <1>1, <3>1
  <2> QED BY <2>1 DEF Once
<1>5. \A e \in Exc : e \in live' <=> Has(captured', e) \/ \E u \in Threads : Has(Holding(u)', e)
  <2> TAKE e \in Exc
  <2>1. e \in live /\ ~Has(captured, e) /\ ~Has(Holding(t), e) => \E u \in Threads \ {t} : Has(Holding(u), e)
    BY DEF Once
  <2>2. (\E u \in Threads \ {t} : Has(Holding(u), e)) => e \in live /\ ~Has(captured, e) /\ ~Has(Holding(t), e)
    BY <1>1
  <2>3. (\E u \in Threads : Has(Holding(u)', e)) <=> Has(Holding(t)', e) \/ \E u \in Threads \ {t} : Has(Holding(u), e)
    OBVIOUS
  <2> QED BY <2>1, <2>2, <2>3
<1> QED BY <1>2, <1>3, <1>4, <1>5 DEF Once

\* A step that moves and frees nothing
LEMMA OnceSame ==
  ASSUME Once, \A t \in Threads : Holding(t)' = Holding(t), UNCHANGED <<captured, live>>
  PROVE  Once'
BY DEF Once

\* The steps of a thread leave alone what the others hold.
LEMMA HoldingOthers ==
  ASSUME NEW t \in Threads, NEW u \in Threads, u # t,
         pc'[u] = pc[u], ctx'[u] = ctx[u], moving'[u] = moving[u]
  PROVE  Holding(u)' = Holding(u)
BY DEF Holding

\* A step of t to another place that neither moves nor frees an exception.
LEMMA OnceKept ==
  ASSUME Team, Once, NEW t \in Threads, NEW there \in Region, Goto(t, there),
         \A u \in Threads : u # t => ctx'[u] = ctx[u] /\ moving'[u] = moving[u],
         UNCHANGED <<captured, live>>, Holding(t)' = Holding(t)
  PROVE  Once'
<1>1. \A u \in Threads : Holding(u)' = Holding(u)
  BY PlaceType, HoldingOthers DEF Team
<1> QED BY <1>1, OnceSame

LEMMA OnceThread ==
  ASSUME Team, Once, Team', NEW t \in Threads, ThreadStep(t)
  PROVE  Once'
<1> USE DEF At, Region, scopeVars, mainVars
<1>1. TypeOK /\ Loops /\ ctx[t] \in Context
  BY DEF Team, TypeOK
<1>2. CASE Begin(t)
  <2> DEFINE d == PushFrame(ctx[t], t, DONT, FALSE, FALSE)
  <2>1. /\ ctx' = [ctx EXCEPT ![t] = d] /\ Goto(t, "body") /\ pc[t] = "idle"
        /\ UNCHANGED <<captured, live, moving>>
    BY <1>2 DEF Begin
  <2>2. t \in JmpBufs /\ DONT \in JumpReason
    BY TeamAssumption DEF JumpReason
  <2>3. d \in Context /\ d.exceptions = ctx[t].exceptions
    BY <1>1, <2>2, PushFrameFacts
  <2> HIDE DEF d
  <2>4. Holding(t)' = Holding(t)
    BY <1>1, <2>1, <2>3, OneContext, PlaceType DEF Holding
  <2> QED BY <1>1, <2>1, <2>3, <2>4, OneContext, OnceKept
<1>3. CASE EndBlock(t)
  <2> DEFINE d == PopFrame(ctx[t])
  <2>1. /\ ctx' = [ctx EXCEPT ![t] = d] /\ Goto(t, "idle") /\ pc[t] = "body"
        /\ UNCHANGED <<captured, live, moving>>
    BY <1>3 DEF EndBlock
  <2>2. d \in Context /\ d.exceptions = ctx[t].exceptions
    BY <1>1, <2>1, OwnFrame, PopFrameFacts
  <2> HIDE DEF d
  <2>3. Holding(t)' = Holding(t)
    BY <1>1, <2>1, <2>2, OneContext, PlaceType DEF Holding
  <2> QED BY <1>1, <2>1, <2>2, <2>3, OneContext, OnceKept
<1>4. CASE ThrowInBlock(t)
  <2>1. PICK e \in Exc \ live : LET r == Throw(ctx[t], e)
                               IN  /\ ctx' = [ctx EXCEPT ![t] = r.ctx]
                                   /\ Goto(t, IF HasExceptions(r.ctx) THEN "landed" ELSE "idle")
                                   /\ live' = live \cup {e}
    BY <1>4 DEF ThrowInBlock
  <2> DEFINE d == Throw(ctx[t], e).ctx
  <2>2. pc[t] = "body" /\ captured' = captured /\ moving' = moving
    BY <1>4 DEF ThrowInBlock
  <2>3. d \in Context /\ HasExceptions(d) /\ d.exceptions = Append(ctx[t].exceptions, e)
    BY <2>2, ThrowInBlockFacts
  <2>4. ctx' = [ctx EXCEPT ![t] = d] /\ Goto(t, "landed")
    BY <2>1, <2>3
  <2> HIDE DEF d
  <2>5. Holding(t)' = Append(Holding(t), e) /\ Holding(t) \in Seq(Exc)
    BY <1>1, <2>2, <2>3, <2>4, OneContext, PlaceType, HoldingType DEF Holding
  <2>6. \A u \in Threads : u # t => Holding(u)' = Holding(u)
    BY <1>1, <2>2, <2>3, <2>4, OneContext, PlaceType, HoldingOthers
  <2>7. ~Has(captured, e) /\ ~Has(Holding(t), e)
    BY DEF Once
  <2>8. /\ \A x : Has(Holding(t)', x) <=> Has(Holding(t), x) \/ x = e
        /\ NoRepeat(Holding(t)')
    BY <2>5, <2>7, AppendHas DEF Once
  <2>9. Apart(captured', Holding(t)')
    BY <2>2, <2>7, <2>8, ApartHas DEF Once
  <2>10. \A x \in Exc : x \in live' <=> \/ Has(captured', x) \/ Has(Holding(t)', x)
                                        \/ x \in live /\ ~Has(captured, x) /\ ~Has(Holding(t), x)
    BY <2>1, <2>2, <2>8 DEF Once
  <2>11. \A x \in Exc : Has(captured', x) \/ Has(Holding(t)', x)
                           => Has(captured, x) \/ Has(Holding(t), x) \/ x \notin live
    BY <2>2, <2>8
  <2>12. NoRepeat(captured')
    BY <2>2 DEF Once
  <2> QED BY <2>6, <2>8, <2>9, <2>10, <2>11, <2>12, OnceStep
<1>5. CASE Lock(t)
  <2>1. /\ pc[t] = "landed" /\ Goto(t, "appending")
        /\ moving' = [moving EXCEPT ![t] = ctx[t].exceptions]
        /\ UNCHANGED <<ctx, captured, live>>
    BY <1>5 DEF Lock
  <2>2. moving'[t] = ctx[t].exceptions /\ \A u \in Threads : u # t => moving'[u] = moving[u]
    BY <1>1, <2>1 DEF TypeOK
  <2>3. Holding(t)' = Holding(t)
    BY <1>1, <2>1, <2>2, PlaceType DEF Holding
  <2> QED BY <2>1, <2>2, <2>3, OnceKept
<1>6. CASE ReadTail(t)
  <2>1. pc[t] = "appending" /\ Goto(t, "linking") /\ UNCHANGED <<ctx, captured, live, moving>>
    BY <1>6 DEF ReadTail
  <2>2. Holding(t)' = Holding(t)
    BY <1>1, <2>1, PlaceType DEF Holding
  <2> QED BY <2>1, <2>2, OnceKept
<1>7. CASE Link(t)
  <2>1. /\ pc[t] = "linking" /\ Goto(t, "appending")
        /\ captured' = Append(tail[t], Head(moving[t]))
        /\ moving' = [moving EXCEPT ![t] = Tail(@)]
        /\ UNCHANGED <<ctx, live>>
    BY <1>7 DEF Link
  <2>2. /\ tail[t] = captured /\ moving[t] # << >>
        /\ moving[t] \in Seq(Exc) /\ captured \in Seq(Exc) /\ Holding(t) = moving[t]
    BY <1>1, <2>1 DEF Team, Exclusive, Fresh, Loops, TypeOK, Holding
  <2> DEFINE e == Head(moving[t])
             rest == Tail(moving[t])
  <2>3. e \in Exc
    BY <2>2, HeadTailProperties
  <2>4. /\ \A x : Has(Holding(t), x) <=> Has(rest, x) \/ x = e
        /\ NoRepeat(rest) /\ ~Has(rest, e)
    BY <2>2, HeadTailHas DEF Once
  <2>5. moving'[t] = rest /\ \A u \in Threads : u # t => moving'[u] = moving[u]
    BY <1>1, <2>1 DEF TypeOK
  <2>6. captured' = Append(captured, e)
    BY <2>1, <2>2
  <2> HIDE DEF e, rest
  <2>7. Holding(t)' = rest
    BY <1>1, <2>1, <2>5, PlaceType DEF Holding
  <2>8. \A u \in Threads : u # t => Holding(u)' = Holding(u)
    BY <1>1, <2>1, <2>5, PlaceType, HoldingOthers
  <2>9. \A x : ~(Has(captured, x) /\ Has(Holding(t), x))
    BY ApartHas DEF Once
  <2>10. ~Has(captured, e)
    BY <2>4, <2>9
  <2>11. /\ \A x : Has(captured', x) <=> Has(captured, x) \/ x = e
         /\ NoRepeat(captured')
    BY <2>2, <2>3, <2>6, <2>10, AppendHas DEF Once
  <2>12. Apart(captured', Holding(t)')
    BY <2>4, <2>7, <2>9, <2>11, ApartHas
  <2>13. \A x \in Exc : Has(captured', x) \/ Has(Holding(t)', x)
                           => Has(captured, x) \/ Has(Holding(t), x) \/ x \notin live
    BY <2>4, <2>7, <2>11
  <2>14. \A x \in Exc : x \in live' <=> \/ Has(captured', x) \/ Has(Holding(t)', x)
                                        \/ x \in live /\ ~Has(captured, x) /\ ~Has(Holding(t), x)
    <3>1. \A x \in Exc : Has(captured, x) \/ Has(Holding(t), x) => x \in live
      BY DEF Once
    <3> QED BY <2>1, <2>4, <2>7, <2>11, <3>1
  <2>15. NoRepeat(Holding(t)')
    BY <2>4, <2>7
  <2> QED BY <2>8, <2>11, <2>12, <2>13, <2>14, <2>15, OnceStep
<1>8. CASE Unlock(t)
  <2>1. pc[t] = "appending" /\ Goto(t, "clearing") /\ UNCHANGED <<ctx, captured, live, moving>>
    BY <1>8 DEF Unlock
  <2>2. Holding(t)' = Holding(t)
    BY <1>1, <2>1, PlaceType DEF Holding
  <2> QED BY <2>1, <2>2, OnceKept
<1>9. CASE Clear(t)
  <2> DEFINE d == ClearAll(ctx[t])
  <2>1. /\ ctx' = [ctx EXCEPT ![t] = d] /\ Goto(t, "idle") /\ pc[t] = "clearing"
        /\ UNCHANGED <<captured, live, moving>>
    BY <1>9 DEF Clear
  <2>2. d \in Context /\ d.exceptions = << >> /\ moving[t] = << >>
    BY <1>1, <2>1, ClearAllFacts DEF Loops
  <2> HIDE DEF d
  <2>3. Holding(t)' = Holding(t)
    BY <1>1, <2>1, <2>2, OneContext, PlaceType DEF Holding
  <2> QED BY <1>1, <2>1, <2>2, <2>3, OneContext, OnceKept
<1> QED BY <1>2, <1>3, <1>4, <1>5, <1>6, <1>7, <1>8, <1>9 DEF ThreadStep

\* Outside a region every thread holds what is in its context.
LEMMA HoldingMain ==
  ASSUME Team, ~forked, NEW d \in Context, ctx' = [ctx EXCEPT ![Master] = d], UNCHANGED threadVars
  PROVE  /\ Master \in Threads
         /\ Holding(Master) = ctx[Master].exceptions
         /\ Holding(Master)' = d.exceptions
         /\ \A u \in Threads : u # Master => Holding(u)' = Holding(u)
<1>1. /\ Master \in Threads
      /\ \A u \in Threads : pc[u] = "idle" /\ pc'[u] = "idle" /\ moving'[u] = moving[u]
  BY MainFrame DEF threadVars
<1>2. ctx'[Master] = d /\ \A u \in Threads : u # Master => ctx'[u] = ctx[u]
  BY <1>1, OneContext DEF Team
<1> QED BY <1>1, <1>2 DEF Holding

LEMMA OnceMain ==
  ASSUME Team, Once, Team', MainStep
  PROVE  Once'
<1> USE DEF InMain, scopeVars, mainVars
<1>1. TypeOK /\ Started /\ Master \in Threads /\ ctx[Master] \in Context
  BY TeamAssumption DEF Team, TypeOK
<1>2. ASSUME NEW d \in Context, ctx' = [ctx EXCEPT ![Master] = d], ~forked,
             d.exceptions = ctx[Master].exceptions, UNCHANGED <<captured, live, threadVars>>
      PROVE  Once'
  <2>1. \A u \in Threads : Holding(u)' = Holding(u)
    BY <1>2, HoldingMain
  <2> QED BY <1>2, <2>1, OnceSame
<1>3. ASSUME UNCHANGED <<ctx, captured, live, threadVars>>
      PROVE  Once'
  <2>1. \A u \in Threads : Holding(u)' = Holding(u)
    BY <1>3 DEF Holding, threadVars
  <2> QED BY <1>3, <2>1, OnceSame
<1>4. ~Has(<< >>, NoExc) /\ NoRepeat(<< >>) /\ \A e : ~Has(<< >>, e)
  BY EmptyHas
<1>5. \A x : ~(Has(captured, x) /\ Has(Holding(Master), x))
  BY <1>1, ApartHas DEF Once
<1>6. \A x \in Exc : Has(captured, x) \/ Has(Holding(Master), x) => x \in live
  BY <1>1 DEF Once
<1>7. CASE Start
  <2> DEFINE d == Try(ctx[Master], TryJmp, DONT)
  <2>1. /\ ctx' = [ctx EXCEPT ![Master] = d] /\ ~forked
        /\ captured' = captured /\ UNCHANGED <<live, threadVars>>
    BY <1>1, <1>7 DEF Start, Started
  <2>2. TryJmp \in JmpBufs /\ DONT \in JumpReason
    BY TeamAssumption DEF JumpReason
  <2>3. d \in Context /\ d.exceptions = ctx[Master].exceptions
    BY <1>1, <2>2, TryFacts
  <2> HIDE DEF d
  <2> QED BY <1>2, <2>1, <2>3
<1>8. CASE Fork
  BY <1>3, <1>8 DEF Fork
<1>9. CASE Join
  BY <1>3, <1>9 DEF Join
\* The master's list with the scope's behind it
<1>10. ASSUME ~forked
       PROVE  /\ Uncaptured \in Context
              /\ Uncaptured.exceptions \in Seq(Exc)
              /\ NoRepeat(Uncaptured.exceptions)
              /\ \A e : Has(Uncaptured.exceptions, e) <=> Has(captured, e) \/ Has(Holding(Master), e)
  <2>1. Holding(Master) = ctx[Master].exceptions
    BY <1>1, <1>10, MainFrame DEF Holding
  <2>2. /\ Uncaptured \in Context
        /\ Uncaptured.exceptions = Holding(Master) \o captured
    BY <2>1, UncapturedFacts
  <2>3. Holding(Master) \in Seq(Exc) /\ captured \in Seq(Exc)
    BY <1>1, HoldingType
  <2>4. Apart(Holding(Master), captured)
    BY <1>5, ApartHas
  <2>5. NoRepeat(Holding(Master)) /\ NoRepeat(captured)
    BY <1>1 DEF Once
  <2> QED BY <2>2, <2>3, <2>4, <2>5, ConcatHas DEF Context
<1>11. CASE Uncapture
  <2>1. /\ ctx' = [ctx EXCEPT ![Master] = Uncaptured] /\ ~forked
        /\ captured' = << >> /\ UNCHANGED <<live, threadVars>>
    BY <1>11 DEF Uncapture
  <2>2. /\ Holding(Master)' = Uncaptured.exceptions
        /\ \A u \in Threads : u # Master => Holding(u)' = Holding(u)
    BY <1>10, <2>1, HoldingMain
  <2>3. Apart(captured', Holding(Master)')
    BY <1>4, <2>1, ApartHas
  <2>4. \A x \in Exc : Has(captured', x) \/ Has(Holding(Master)', x)
                          => Has(captured, x) \/ Has(Holding(Master), x) \/ x \notin live
    BY <1>4, <1>10, <2>1, <2>2
  <2>5. \A x \in Exc : x \in live' <=> \/ Has(captured', x) \/ Has(Holding(Master)', x)
                                       \/ x \in live /\ ~Has(captured, x) /\ ~Has(Holding(Master), x)
    BY <1>4, <1>6, <1>10, <2>1, <2>2
  <2>6. NoRepeat(captured') /\ NoRepeat(Holding(Master)')
    BY <1>4, <1>10, <2>1, <2>2
  <2> QED BY <1>1, <2>2, <2>3, <2>4, <2>5, <2>6, OnceStep
\* A landing in the try keeps the first exception and frees the others.
<1>12. ASSUME NEW full \in Context, NEW allocated \in SUBSET Exc, InMain("body"),
              full.frames = ctx[Master].frames, HasExceptions(full),
              LandInTry(JumpThrowing(full), allocated), UNCHANGED threadVars,
              NoRepeat(captured'),
              \A x : Has(captured', x) => ~Has(full.exceptions, x),
              \A x \in Exc : Has(captured', x) \/ Has(full.exceptions, x)
                                => Has(captured, x) \/ Has(Holding(Master), x) \/ x \notin live,
              \A x \in Exc : x \in allocated <=> \/ Has(captured', x) \/ Has(full.exceptions, x)
                                                 \/ x \in live /\ ~Has(captured, x) /\ ~Has(Holding(Master), x)
       PROVE  Once'
  <2> DEFINE r == JumpThrowing(full)
             c == Try(r.ctx, r.to, r.why)
             first == full.exceptions[1]
  <2>1. /\ ctx' = [ctx EXCEPT ![Master] = c] /\ ~forked
        /\ live' = allocated \ (ToSet(r.ctx.exceptions) \ ToSet(c.exceptions))
    BY <1>12 DEF LandInTry
  <2>2. c \in Context /\ c.exceptions = <<first>> /\ r.ctx.exceptions = full.exceptions
    BY <1>12, LandInTryFacts
  <2>3. Has(full.exceptions, first)
    <3>1. full.exceptions \in Seq(Exc) /\ full.exceptions # << >>
      BY <1>12 DEF Context, HasExceptions
    <3> QED BY <3>1, HeadTailHas, HeadTailProperties
  <2> HIDE DEF c, r, first
  <2>4. Holding(Master)' = <<first>> /\ \A u \in Threads : u # Master => Holding(u)' = Holding(u)
    BY <1>12, <2>1, <2>2, HoldingMain
  <2>5. NoRepeat(Holding(Master)') /\ \A x : Has(Holding(Master)', x) <=> x = first
    BY <2>4, SingleHas
  <2>6. \A x : x \in live' <=> x \in allocated /\ (Has(full.exceptions, x) => x = first)
    <3>1. \A x : x \in ToSet(full.exceptions) <=> Has(full.exceptions, x)
      BY ToSetHas
    <3>2. \A x : x \in ToSet(<<first>>) <=> x = first
      BY ToSetHas, SingleHas
    <3> QED BY <2>1, <2>2, <3>1, <3>2
  <2>7. Apart(captured', Holding(Master)')
    BY <1>12, <2>3, <2>5, ApartHas
  <2>8. \A x \in Exc : Has(captured', x) \/ Has(Holding(Master)', x)
                          => Has(captured, x) \/ Has(Holding(Master), x) \/ x \notin live
    BY <1>12, <2>3, <2>5
  <2>9. \A x \in Exc : x \in live' <=> \/ Has(captured', x) \/ Has(Holding(Master)', x)
                                       \/ x \in live /\ ~Has(captured, x) /\ ~Has(Holding(Master), x)
    <3> TAKE x \in Exc
    <3>1. x \in live' => \/ Has(captured', x) \/ Has(Holding(Master)', x)
                         \/ x \in live /\ ~Has(captured, x) /\ ~Has(Holding(Master), x)
      BY <1>12, <2>5, <2>6
    <3>2. Has(captured', x) \/ Has(Holding(Master)', x) => x \in live'
      BY <1>12, <2>3, <2>5, <2>6
    <3>3. x \in live /\ ~Has(captured, x) /\ ~Has(Holding(Master), x) => x \in live'
      BY <1>12, <2>6
    <3> QED BY <3>1, <3>2, <3>3
  <2> QED BY <1>1, <1>12, <2>4, <2>5, <2>7, <2>8, <2>9, OnceStep
<1>13. CASE ThrowCaptured
  <2>1. /\ InMain("body") /\ HasExceptions(Uncaptured) /\ captured' = << >>
        /\ LandInTry(JumpThrowing(Uncaptured), live) /\ UNCHANGED threadVars
    BY <1>13 DEF ThrowCaptured
  <2>2. live \in SUBSET Exc /\ Uncaptured.frames = ctx[Master].frames
    BY <1>1, UncapturedFacts DEF TypeOK
  <2>3. \A x \in Exc : Has(captured', x) \/ Has(Uncaptured.exceptions, x)
                          => Has(captured, x) \/ Has(Holding(Master), x) \/ x \notin live
    BY <1>4, <1>10, <2>1
  <2>4. \A x \in Exc : x \in live <=> \/ Has(captured', x) \/ Has(Uncaptured.exceptions, x)
                                      \/ x \in live /\ ~Has(captured, x) /\ ~Has(Holding(Master), x)
    BY <1>4, <1>6, <1>10, <2>1
  <2>5. NoRepeat(captured') /\ \A x : Has(captured', x) => ~Has(Uncaptured.exceptions, x)
    BY <1>4, <2>1
  <2> QED BY <1>10, <1>12, <2>1, <2>2, <2>3, <2>4, <2>5
<1>14. CASE ThrowInTry
  <2>1. PICK e \in Exc \ live : LandInTry(Throw(ctx[Master], e), live \cup {e})
    BY <1>14 DEF ThrowInTry
  <2> DEFINE full == AddException(ctx[Master], e)
  <2>2. /\ full \in Context /\ full.frames = ctx[Master].frames /\ HasExceptions(full)
        /\ full.exceptions = Append(ctx[Master].exceptions, e)
    BY <1>1, AddExceptionFacts
  <2>3. /\ live \cup {e} \in SUBSET Exc /\ captured' = captured /\ InMain("body")
        /\ UNCHANGED threadVars
    BY <1>1, <1>14 DEF ThrowInTry, TypeOK
  <2>4. LandInTry(JumpThrowing(full), live \cup {e})
    BY <2>1 DEF Throw
  <2> HIDE DEF full
  <2>5. Holding(Master) = ctx[Master].exceptions /\ ctx[Master].exceptions \in Seq(Exc)
    BY <1>1, <2>3, MainFrame DEF Holding, Context
  <2>6. \A x : Has(full.exceptions, x) <=> Has(Holding(Master), x) \/ x = e
    BY <2>2, <2>5, AppendHas
  <2>7. \A x : Has(captured', x) => ~Has(full.exceptions, x)
    BY <1>5, <1>6, <2>3, <2>6
  <2>8. \A x \in Exc : Has(captured', x) \/ Has(full.exceptions, x)
                          => Has(captured, x) \/ Has(Holding(Master), x) \/ x \notin live
    BY <2>3, <2>6
  <2>9. \A x \in Exc : x \in live \cup {e} <=> \/ Has(captured', x) \/ Has(full.exceptions, x)
                                               \/ x \in live /\ ~Has(captured, x) /\ ~Has(Holding(Master), x)
    BY <1>6, <2>3, <2>6
  <2>10. NoRepeat(captured')
    BY <2>3 DEF Once
  <2> QED BY <1>12, <2>2, <2>3, <2>4, <2>7, <2>8, <2>9, <2>10
<1>15. CASE EndBody
  <2> DEFINE d == StopTrying(ctx[Master])
  <2>1. ctx' = [ctx EXCEPT ![Master] = d] /\ ~forked /\ UNCHANGED <<captured, live, threadVars>>
    BY <1>15 DEF EndBody
  <2>2. d \in Context /\ d.exceptions = ctx[Master].exceptions
    BY <1>1, StopTryingFacts
  <2> HIDE DEF d
  <2> QED BY <1>2, <2>1, <2>2
<1>16. CASE CatchAny
  <2>1. PICK type \in Types : LET r == Catch(ctx[Master], type)
                              IN  /\ r.caught # NoExc
                                  /\ ctx' = [ctx EXCEPT ![Master] = r.ctx]
                                  /\ live' = live \ {r.caught}
    BY <1>16 DEF CatchAny
  <2> DEFINE d == Catch(ctx[Master], type).ctx
             s == ctx[Master].exceptions
  <2>2. ~forked /\ main = "finally" /\ captured' = captured /\ UNCHANGED threadVars
    BY <1>16 DEF CatchAny
  <2>3. /\ d \in Context
        /\ \E i \in 1 .. Len(s) : /\ Catch(ctx[Master], type).caught = s[i]
                                  /\ d.exceptions = RemoveAt(s, i)
    BY <1>1, <2>1, <2>2, MainFrame, CatchFacts
  <2>4. PICK k \in 1 .. Len(s) : d.exceptions = RemoveAt(s, k) /\ live' = live \ {s[k]}
    BY <2>1, <2>3
  <2>5. ctx' = [ctx EXCEPT ![Master] = d]
    BY <2>1
  <2> HIDE DEF d
  <2>6. /\ Holding(Master) = s /\ Holding(Master)' = RemoveAt(s, k)
        /\ \A u \in Threads : u # Master => Holding(u)' = Holding(u)
    BY <2>2, <2>3, <2>4, <2>5, HoldingMain
  <2>7. s \in Seq(Exc) /\ NoRepeat(s)
    BY <1>1, <2>6 DEF Once, Context
  <2>8. Has(s, s[k])
    BY <2>7, LenProperties DEF Has
  <2> HIDE DEF s
  <2>9. /\ NoRepeat(Holding(Master)')
        /\ \A x : Has(Holding(Master)', x) <=> Has(s, x) /\ x # s[k]
    <3>1. /\ \A x : Has(RemoveAt(s, k), x) => Has(s, x)
          /\ \A x : Has(s, x) /\ x # s[k] => Has(RemoveAt(s, k), x)
          /\ NoRepeat(RemoveAt(s, k)) /\ ~Has(RemoveAt(s, k), s[k])
      BY <2>4, <2>7, RemoveAtHas
    <3> QED BY <2>6, <3>1
  <2>10. Apart(captured', Holding(Master)')
    BY <1>5, <2>2, <2>6, <2>9, ApartHas
  <2>11. \A x \in Exc : Has(captured', x) \/ Has(Holding(Master)', x)
                           => Has(captured, x) \/ Has(Holding(Master), x) \/ x \notin live
    BY <2>2, <2>6, <2>9
  <2>12. \A x \in Exc : x \in live' <=> \/ Has(captured', x) \/ Has(Holding(Master)', x)
                                        \/ x \in live /\ ~Has(captured, x) /\ ~Has(Holding(Master), x)
    BY <1>5, <1>6, <2>2, <2>4, <2>6, <2>8, <2>9
  <2>13. NoRepeat(captured')
    BY <2>2 DEF Once
  <2> QED BY <1>1, <2>6, <2>9, <2>10, <2>11, <2>12, <2>13, OnceStep
<1>17. CASE Finish
  <2> DEFINE d == FinallyDone(ctx[Master]).ctx
  <2>1. /\ ctx' = [ctx EXCEPT ![Master] = d] /\ live' = live \ ToSet(captured)
        /\ ~forked /\ main = "finally" /\ captured' = << >> /\ UNCHANGED threadVars
    BY <1>17 DEF Finish
  <2>2. d \in Context /\ d.exceptions = ctx[Master].exceptions
    BY <1>1, <2>1, MainFrame, FinallyDoneFacts DEF JumpResult
  <2> HIDE DEF d
  <2>3. \A u \in Threads : Holding(u)' = Holding(u)
    BY <2>1, <2>2, HoldingMain
  <2>4. \A x : x \in live' <=> x \in live /\ ~Has(captured, x)
    BY <2>1, ToSetHas
  <2>5. NoRepeat(captured') /\ Apart(captured', Holding(Master)') /\ NoRepeat(Holding(Master)')
    BY <1>1, <1>4, <2>1, <2>3, ApartHas DEF Once
  <2>6. \A x \in Exc : Has(captured', x) \/ Has(Holding(Master)', x)
                          => Has(captured, x) \/ Has(Holding(Master), x) \/ x \notin live
    BY <1>1, <1>4, <2>1, <2>3
  <2>7. \A x \in Exc : x \in live' <=> \/ Has(captured', x) \/ Has(Holding(Master)', x)
                                       \/ x \in live /\ ~Has(captured, x) /\ ~Has(Holding(Master), x)
    BY <1>1, <1>4, <1>5, <1>6, <2>1, <2>3, <2>4
  <2> QED BY <1>1, <2>3, <2>5, <2>6, <2>7, OnceStep
<1> QED BY <1>7, <1>8, <1>9, <1>11, <1>13, <1>14, <1>15, <1>16, <1>17 DEF MainStep

LEMMA OnceNext == Team /\ Once /\ [Next]_vars => Once'
<1> SUFFICES ASSUME Team, Once, [Next]_vars PROVE Once'  OBVIOUS
<1>1. Team'
  BY TeamNext
<1>2. CASE MainStep                           BY <1>1, <1>2, OnceMain
<1>3. CASE \E t \in Threads : ThreadStep(t)   BY <1>1, <1>3, OnceThread
<1>4. CASE UNCHANGED vars
  <2>1. \A t \in Threads : Holding(t)' = Holding(t)
    BY <1>4 DEF vars, threadVars, Holding
  <2> QED BY <1>4, <2>1, OnceSame DEF vars, scopeVars
<1> QED BY <1>2, <1>3, <1>4 DEF Next

\* The positions of the lists, counted
LEMMA OncePlaces == Team /\ Once => ExactlyOnce
<1> SUFFICES ASSUME Team, Once, NEW e \in Exc
             PROVE  Cardinality(Places(e)) = IF e \in live THEN 1 ELSE 0
  BY DEF ExactlyOnce, Team
<1> DEFINE inScope == {j \in DOMAIN captured : captured[j] = e}
           with(t) == {j \in DOMAIN Holding(t) : Holding(t)[j] = e}
<1>1. Places(e) = {<<"captured", i>> : i \in inScope}
                  \cup UNION {{<<"thread", t, i>> : i \in with(t)} : t \in Threads}
  BY DEF Places
<1>2. /\ Has(captured, e) <=> inScope # {}
      /\ \A t \in Threads : Has(Holding(t), e) <=> with(t) # {}
  BY DEF Has
<1>3. /\ \A i, j \in inScope : i = j
      /\ \A t \in Threads : \A i, j \in with(t) : i = j
      /\ \A t \in Threads : inScope # {} => with(t) = {}
      /\ \A t, u \in Threads : with(t) # {} /\ with(u) # {} => t = u
  BY DEF Once, NoRepeat, Apart
<1> HIDE DEF inScope, with
<1>4. CASE e \notin live
  <2>1. inScope = {} /\ \A t \in Threads : with(t) = {}
    BY <1>2, <1>4 DEF Once
  <2>2. Places(e) = {}
    BY <1>1, <2>1
  <2> QED BY <1>4, <2>2, FS_EmptySet
<1>5. CASE e \in live /\ inScope # {}
  <2>1. PICK k \in inScope : inScope = {k}
    BY <1>3, <1>5
  <2>2. Places(e) = {<<"captured", k>>}
    BY <1>1, <1>3, <1>5, <2>1
  <2> QED BY <1>5, <2>2, FS_Singleton
<1>6. CASE e \in live /\ inScope = {}
  <2>1. PICK t \in Threads : with(t) # {}
    BY <1>2, <1>6 DEF Once
  <2>2. PICK k \in with(t) : with(t) = {k}
    BY <1>3, <2>1
  <2>3. \A u \in Threads : u # t => with(u) = {}
    BY <1>3, <2>1
  <2>4. Places(e) = {<<"thread", t, k>>}
    BY <1>1, <1>6, <2>2, <2>3
  <2> QED BY <1>6, <2>4, FS_Singleton
<1> QED BY <1>4, <1>5, <1>6

\* However large the team and however its threads interleave, an exception that is
\* allocated is in one place and a freed one in none: the loop that appends under the
\* lock (exception_scope.c:27-36) neither loses nor duplicates what it moves, and
\* throw_captured and "finally" free each exception at most once.
THEOREM EveryExceptionOnce == Spec => []ExactlyOnce
<1>1. Init => Team /\ Once
  BY TeamInit, OnceInit
<1>2. Team /\ Once /\ [Next]_vars => (Team /\ Once)'
  BY TeamNext, OnceNext
<1> QED BY <1>1, <1>2, OncePlaces, PTL DEF Spec

-----------------------------------------------------------------------------
(* The team implements the waiting area *)

\* A region is in the body of the try; a "finally" has one exception at most; and a thread
\* that is in no capture, or still in the block, has none, but for the master.
Settled == /\ forked => main = "body"
           /\ main = "finally" =>
                \A x, y : Has(ctx[Master].exceptions, x) /\ Has(ctx[Master].exceptions, y) => x = y
           /\ \A t \in Threads : t # Master /\ pc[t] \in {"idle", "body"} => ctx[t].exceptions = << >>

LEMMA HasNone ==
  ASSUME NEW s \in Seq(Exc)
  PROVE  (s = << >>) <=> \A x : ~Has(s, x)
<1>1. s # << >> => Has(s, Head(s))
  BY HeadTailHas
<1> QED BY <1>1, EmptyHas

\* What a step of t to another place has to do to the exceptions of t
LEMMA SettledStep ==
  ASSUME Team, Settled, NEW t \in Threads, NEW there \in Region, Goto(t, there), forked,
         UNCHANGED <<main, forked>>,
         \A u \in Threads : u # t => ctx'[u] = ctx[u],
         t # Master /\ there \in {"idle", "body"} => ctx'[t].exceptions = << >>
  PROVE  Settled'
<1>1. main' = "body"
  BY DEF Settled
<1>2. /\ pc'[t] = there
      /\ \A u \in Threads : u # t => pc'[u] = pc[u]
  BY PlaceType DEF Team
<1> QED BY <1>1, <1>2 DEF Settled

LEMMA SettledThread ==
  ASSUME Team, Settled, NEW t \in Threads, ThreadStep(t)
  PROVE  Settled'
<1> USE DEF At, Region, mainVars
<1>1. TypeOK /\ ctx[t] \in Context
  BY DEF Team, TypeOK
<1>2. CASE Begin(t)
  <2> DEFINE d == PushFrame(ctx[t], t, DONT, FALSE, FALSE)
  <2>1. /\ ctx' = [ctx EXCEPT ![t] = d] /\ Goto(t, "body") /\ pc[t] = "idle"
        /\ forked /\ UNCHANGED <<main, forked>>
    BY <1>2 DEF Begin
  <2>2. t \in JmpBufs /\ DONT \in JumpReason
    BY TeamAssumption DEF JumpReason
  <2>3. d \in Context /\ d.exceptions = ctx[t].exceptions
    BY <1>1, <2>2, PushFrameFacts
  <2> HIDE DEF d
  <2>4. ctx'[t] = d /\ \A u \in Threads : u # t => ctx'[u] = ctx[u]
    BY <1>1, <2>1, <2>3, OneContext
  <2>5. t # Master => ctx'[t].exceptions = << >>
    BY <2>1, <2>3, <2>4 DEF Settled
  <2> QED BY <2>1, <2>4, <2>5, SettledStep
<1>3. CASE EndBlock(t)
  <2> DEFINE d == PopFrame(ctx[t])
  <2>1. /\ ctx' = [ctx EXCEPT ![t] = d] /\ Goto(t, "idle") /\ pc[t] = "body"
        /\ forked /\ UNCHANGED <<main, forked>>
    BY <1>3 DEF EndBlock
  <2>2. d \in Context /\ d.exceptions = ctx[t].exceptions
    BY <1>1, <2>1, OwnFrame, PopFrameFacts
  <2> HIDE DEF d
  <2>3. ctx'[t] = d /\ \A u \in Threads : u # t => ctx'[u] = ctx[u]
    BY <1>1, <2>1, <2>2, OneContext
  <2>4. t # Master => ctx'[t].exceptions = << >>
    BY <2>1, <2>2, <2>3 DEF Settled
  <2> QED BY <2>1, <2>3, <2>4, SettledStep
<1>4. CASE ThrowInBlock(t)
  <2>1. PICK e \in Exc \ live : LET r == Throw(ctx[t], e)
                               IN  /\ ctx' = [ctx EXCEPT ![t] = r.ctx]
                                   /\ Goto(t, IF HasExceptions(r.ctx) THEN "landed" ELSE "idle")
    BY <1>4 DEF ThrowInBlock
  <2> DEFINE d == Throw(ctx[t], e).ctx
  <2>2. pc[t] = "body" /\ forked /\ UNCHANGED <<main, forked>>
    BY <1>4 DEF ThrowInBlock
  <2>3. d \in Context /\ HasExceptions(d)
    BY <2>2, ThrowInBlockFacts
  <2>4. ctx' = [ctx EXCEPT ![t] = d] /\ Goto(t, "landed")
    BY <2>1, <2>3
  <2> HIDE DEF d
  <2>5. \A u \in Threads : u # t => ctx'[u] = ctx[u]
    BY <1>1, <2>3, <2>4, OneContext
  <2> QED BY <2>2, <2>4, <2>5, SettledStep
<1>5. CASE Lock(t)
  <2>1. forked /\ Goto(t, "appending") /\ UNCHANGED <<ctx, main, forked>>
    BY <1>5 DEF Lock
  <2> QED BY <2>1, SettledStep
<1>6. CASE ReadTail(t)
  <2>1. forked /\ Goto(t, "linking") /\ UNCHANGED <<ctx, main, forked>>
    BY <1>6 DEF ReadTail
  <2> QED BY <2>1, SettledStep
<1>7. CASE Link(t)
  <2>1. forked /\ Goto(t, "appending") /\ UNCHANGED <<ctx, main, forked>>
    BY <1>7 DEF Link
  <2> QED BY <2>1, SettledStep
<1>8. CASE Unlock(t)
  <2>1. forked /\ Goto(t, "clearing") /\ UNCHANGED <<ctx, main, forked>>
    BY <1>8 DEF Unlock
  <2> QED BY <2>1, SettledStep
<1>9. CASE Clear(t)
  <2> DEFINE d == ClearAll(ctx[t])
  <2>1. /\ ctx' = [ctx EXCEPT ![t] = d] /\ Goto(t, "idle")
        /\ forked /\ UNCHANGED <<main, forked>>
    BY <1>9 DEF Clear
  <2>2. d \in Context /\ d.exceptions = << >>
    BY <1>1, ClearAllFacts
  <2> HIDE DEF d
  <2>3. ctx'[t] = d /\ \A u \in Threads : u # t => ctx'[u] = ctx[u]
    BY <1>1, <2>1, <2>2, OneContext
  <2> QED BY <2>1, <2>2, <2>3, SettledStep
<1> QED BY <1>2, <1>3, <1>4, <1>5, <1>6, <1>7, <1>8, <1>9 DEF ThreadStep

\* What the threads hold outside a region, and what waits there
LEMMA SettledMain ==
  ASSUME Team, Once, Settled, ~forked
  PROVE  /\ Master \in Threads /\ ctx[Master] \in Context
         /\ Holding(Master) = ctx[Master].exceptions
         /\ \A t \in Threads : t # Master => Holding(t) = << >>
         /\ \A x \in Exc : x \in live <=> Has(captured, x) \/ Has(ctx[Master].exceptions, x)
<1>1. \A t \in Threads : pc[t] = "idle"
  BY MainFrame
<1>2. Master \in Threads /\ ctx[Master] \in Context /\ Holding(Master) = ctx[Master].exceptions
  BY <1>1, MainFrame DEF Holding
<1>3. \A t \in Threads : t # Master => Holding(t) = << >>
  BY <1>1 DEF Settled, Holding
<1> QED BY <1>2, <1>3, EmptyHas DEF Once

\* A landing in the try ends its body with one exception.
LEMMA Landing ==
  ASSUME Team, InMain("body"), NEW full \in Context, NEW allocated,
         full.frames = ctx[Master].frames, HasExceptions(full),
         LandInTry(JumpThrowing(full), allocated)
  PROVE  /\ main' = "finally"
         /\ ctx'[Master].exceptions = <<full.exceptions[1]>>
         /\ \A t \in Threads : t # Master => ctx'[t] = ctx[t]
<1> DEFINE r == JumpThrowing(full)
           c == Try(r.ctx, r.to, r.why)
<1>1. ctx' = [ctx EXCEPT ![Master] = c] /\ main' = IF IsTrying(c) THEN "body" ELSE "finally"
  BY DEF LandInTry
<1>2. c \in Context /\ c.exceptions = <<full.exceptions[1]>> /\ ~IsTrying(c)
  BY LandInTryFacts
<1> HIDE DEF c
<1>3. TypeOK /\ Master \in Threads
  BY TeamAssumption DEF Team
<1> QED BY <1>1, <1>2, <1>3, OneContext

LEMMA SettledMainNext ==
  ASSUME Team, Settled, ~CaptureInFinally, MainStep
  PROVE  Settled'
<1> USE DEF InMain, scopeVars, mainVars, threadVars
<1>1. TypeOK /\ Master \in Threads /\ ctx[Master] \in Context
  BY TeamAssumption DEF Team, TypeOK
\* Steps outside the "finally" that touch no context but the master's
<1>2. ASSUME main' \in {"body", "outside"}, forked' => main' = "body", UNCHANGED pc,
             \A t \in Threads : t # Master => ctx'[t] = ctx[t]
      PROVE  Settled'
  BY <1>2 DEF Settled
<1>3. ASSUME NEW d, ctx' = [ctx EXCEPT ![Master] = d]
      PROVE  \A t \in Threads : t # Master => ctx'[t] = ctx[t]
  BY <1>1, <1>3 DEF TypeOK
\* Steps to the "finally", or in it
<1>4. ASSUME ~forked', main' = "finally", UNCHANGED pc,
             \A t \in Threads : t # Master => ctx'[t] = ctx[t],
             \A x, y : Has(ctx'[Master].exceptions, x) /\ Has(ctx'[Master].exceptions, y) => x = y
      PROVE  Settled'
  BY <1>4 DEF Settled
<1>5. CASE Start
  BY <1>2, <1>3, <1>5 DEF Start
<1>6. CASE Fork
  <2>1. main' = "body" /\ UNCHANGED <<ctx, pc>>
    BY <1>6 DEF Fork
  <2> QED BY <1>2, <2>1
<1>7. CASE Join
  <2>1. main' = "body" /\ UNCHANGED <<ctx, pc>>
    BY <1>7 DEF Join, Settled
  <2> QED BY <1>2, <2>1
<1>8. CASE Uncapture
  BY <1>2, <1>3, <1>8 DEF Uncapture
<1>9. CASE ThrowCaptured
  <2>1. /\ main' = "finally"
        /\ ctx'[Master].exceptions = <<Uncaptured.exceptions[1]>>
        /\ \A t \in Threads : t # Master => ctx'[t] = ctx[t]
    BY <1>9, UncapturedFacts, Landing DEF ThrowCaptured
  <2> QED BY <1>4, <1>9, <2>1, SingleHas DEF ThrowCaptured
<1>10. CASE ThrowInTry
  <2>1. PICK e \in Exc \ live : LandInTry(Throw(ctx[Master], e), live \cup {e})
    BY <1>10 DEF ThrowInTry
  <2> DEFINE full == AddException(ctx[Master], e)
  <2>2. full \in Context /\ full.frames = ctx[Master].frames /\ HasExceptions(full)
    BY <1>1, AddExceptionFacts
  <2>3. LandInTry(JumpThrowing(full), live \cup {e})
    BY <2>1 DEF Throw
  <2> HIDE DEF full
  <2>4. /\ main' = "finally"
        /\ ctx'[Master].exceptions = <<full.exceptions[1]>>
        /\ \A t \in Threads : t # Master => ctx'[t] = ctx[t]
    BY <1>10, <2>2, <2>3, Landing DEF ThrowInTry
  <2> QED BY <1>4, <1>10, <2>4, SingleHas DEF ThrowInTry
<1>11. CASE EndBody
  <2> DEFINE d == StopTrying(ctx[Master])
  <2>1. /\ ctx' = [ctx EXCEPT ![Master] = d] /\ ~forked' /\ main' = "finally" /\ UNCHANGED pc
        /\ ctx[Master].exceptions = << >>
    BY <1>11 DEF EndBody, HasExceptions
  <2>2. d \in Context /\ d.exceptions = << >>
    BY <1>1, <2>1, StopTryingFacts
  <2> HIDE DEF d
  <2>3. ctx'[Master].exceptions = << >>
    BY <1>1, <2>1, <2>2, OneContext
  <2> QED BY <1>3, <1>4, <2>1, <2>3, EmptyHas
<1>12. CASE CatchAny
  <2>1. PICK type \in Types : LET r == Catch(ctx[Master], type)
                              IN  /\ r.caught # NoExc
                                  /\ ctx' = [ctx EXCEPT ![Master] = r.ctx]
    BY <1>12 DEF CatchAny
  <2> DEFINE d == Catch(ctx[Master], type).ctx
             s == ctx[Master].exceptions
  <2>2. ~forked /\ main = "finally" /\ UNCHANGED <<forked, main, pc>>
    BY <1>12 DEF CatchAny
  <2>3. d \in Context /\ \E i \in 1 .. Len(s) : d.exceptions = RemoveAt(s, i)
    BY <1>1, <2>1, <2>2, MainFrame, CatchFacts
  <2>4. ctx' = [ctx EXCEPT ![Master] = d]
    BY <2>1
  <2> HIDE DEF d
  <2>5. \A x : Has(d.exceptions, x) => Has(s, x)
    <3>1. s \in Seq(Exc)
      BY <1>1 DEF Context
    <3> HIDE DEF s
    <3> QED BY <2>3, <3>1, RemoveAtHas
  <2>6. ctx'[Master] = d
    BY <1>1, <2>3, <2>4, OneContext
  <2> QED BY <1>3, <1>4, <2>2, <2>4, <2>5, <2>6 DEF Settled
<1>13. CASE Finish
  BY <1>2, <1>3, <1>13 DEF Finish
<1> QED BY <1>5, <1>6, <1>7, <1>8, <1>9, <1>10, <1>11, <1>12, <1>13 DEF MainStep

LEMMA SettledInit == Init => Settled
<1> SUFFICES ASSUME Init PROVE Settled  OBVIOUS
<1>1. ~forked /\ main = "outside" /\ \A t \in Threads : ctx[t].exceptions = << >>
  BY DEF Init, EmptyContext
<1> QED BY <1>1 DEF Settled

LEMMA SettledNext == ~CaptureInFinally /\ Team /\ Settled /\ [Next]_vars => Settled'
<1> SUFFICES ASSUME ~CaptureInFinally, Team, Settled, [Next]_vars PROVE Settled'  OBVIOUS
<1>1. CASE MainStep                           BY <1>1, SettledMainNext
<1>2. CASE \E t \in Threads : ThreadStep(t)   BY <1>2, SettledThread
<1>3. CASE UNCHANGED vars
  BY <1>3 DEF Settled, vars, mainVars, threadVars
<1> QED BY <1>1, <1>2, <1>3 DEF Next

\* Unless an exception is thrown, all that is allocated waits.
LEMMA WaitingFacts ==
  ASSUME Team, Once
  PROVE  /\ Thrown => Waiting = ToSet(captured)
         /\ ~Thrown => Waiting = live
<1>1. Thrown => Waiting = ToSet(captured)
  BY DEF Waiting
<1>2. ASSUME ~Thrown PROVE Waiting = live
  <2>1. \A x : x \in Waiting <=> Has(captured, x) \/ \E t \in Threads : Has(Holding(t), x)
    BY <1>2, ToSetHas DEF Waiting
  <2>2. \A x : (Has(captured, x) \/ \E t \in Threads : Has(Holding(t), x)) => x \in Exc
    BY HoldingType, TeamAssumption DEF Has
  <2>3. live \subseteq Exc
    BY DEF Team, TypeOK
  <2> QED BY <2>1, <2>2, <2>3 DEF Once
<1> QED BY <1>1, <1>2

InFlight == IF Thrown THEN ctx[Master].exceptions[1] ELSE NoExc

\* A step in which nothing is thrown, before or after
LEMMA SameWaiting ==
  ASSUME ~Thrown, ~Thrown', Waiting = live, Waiting' = live', UNCHANGED <<live, forked>>
  PROVE  UNCHANGED <<forked, Waiting, InFlight>>
BY DEF InFlight

LEMMA CollectThread ==
  ASSUME Team, Once, Team', Waiting' = live', NEW t \in Threads, ThreadStep(t)
  PROVE  Collect!Capture \/ UNCHANGED <<forked, Waiting, InFlight>>
<1> USE DEF At, scopeVars, mainVars
<1>1. forked /\ UNCHANGED forked
  BY DEF ThreadStep, Begin, EndBlock, ThrowInBlock, Lock, ReadTail, Link, Unlock, Clear
<1>2. ~Thrown /\ ~Thrown'
  BY <1>1 DEF Thrown, InMain
<1>3. Waiting = live
  BY <1>2, WaitingFacts
<1>4. CASE ThrowInBlock(t)
  <2>1. PICK e \in Exc \ live : live' = live \cup {e}
    BY <1>4 DEF ThrowInBlock
  <2> QED BY <1>1, <1>2, <1>3, <2>1 DEF Collect!Capture
<1>5. CASE ~ThrowInBlock(t)
  <2>1. live' = live
    BY <1>5 DEF ThreadStep, Begin, EndBlock, ThrowInBlock, Lock, ReadTail, Link, Unlock, Clear
  <2> QED BY <1>1, <1>2, <1>3, <2>1, SameWaiting
<1> QED BY <1>4, <1>5

LEMMA CollectMain ==
  ASSUME ~CaptureInFinally, Team, Once, Settled, Team', Once', Settled',
         Thrown' => Waiting' = ToSet(captured'), ~Thrown' => Waiting' = live', MainStep
  PROVE  Collect!Next \/ UNCHANGED <<forked, Waiting, InFlight>>
<1> USE DEF InMain, scopeVars, mainVars, threadVars
<1>1. TypeOK /\ Master \in Threads /\ ctx[Master] \in Context
  BY TeamAssumption DEF Team, TypeOK
<1>2. /\ Thrown => Waiting = ToSet(captured)
      /\ ~Thrown => Waiting = live
  BY WaitingFacts
<1>3. live \subseteq Exc /\ captured \in Seq(Exc)
  BY <1>1 DEF TypeOK
<1>4. CASE Start
  <2>1. main # "finally" /\ main' # "finally" /\ UNCHANGED <<live, forked>>
    BY <1>4 DEF Start
  <2> QED BY <1>2, <2>1, SameWaiting DEF Thrown
<1>5. CASE Fork
  <2>1. main = "body" /\ main' = "body" /\ ~forked /\ forked' /\ UNCHANGED live
    BY <1>5 DEF Fork
  <2>2. ~Thrown /\ ~Thrown'
    BY <2>1 DEF Thrown
  <2>3. forked' = TRUE /\ Waiting' = Waiting
    BY <1>2, <1>5, <2>1, <2>2 DEF Fork
  <2> QED BY <2>1, <2>2, <2>3 DEF Collect!Fork, Collect!Next, InFlight
<1>6. CASE Join
  <2>1. main = "body" /\ main' = "body" /\ forked /\ forked' = FALSE /\ UNCHANGED live
    BY <1>6 DEF Join, Settled
  <2>2. ~Thrown /\ ~Thrown'
    BY <2>1 DEF Thrown
  <2> QED BY <1>2, <2>1, <2>2 DEF Collect!Join, Collect!Next, InFlight
<1>7. CASE Uncapture
  <2>1. main # "finally" /\ main' # "finally" /\ UNCHANGED <<live, forked>>
    BY <1>7 DEF Uncapture
  <2> QED BY <1>2, <2>1, SameWaiting DEF Thrown
<1>8. CASE ThrowCaptured
  <2> DEFINE first == Uncaptured.exceptions[1]
  <2>1. /\ ~forked /\ forked' = forked /\ main = "body" /\ captured' = << >>
        /\ HasExceptions(Uncaptured) /\ LandInTry(JumpThrowing(Uncaptured), live)
    BY <1>8 DEF ThrowCaptured
  <2>2. /\ Uncaptured \in Context /\ Uncaptured.frames = ctx[Master].frames
        /\ Uncaptured.exceptions = ctx[Master].exceptions \o captured
    BY UncapturedFacts
  <2>3. main' = "finally" /\ ctx'[Master].exceptions = <<first>>
    BY <2>1, <2>2, Landing
  <2>4. first \in live
    <3>1. ctx[Master].exceptions \in Seq(Exc) /\ Uncaptured.exceptions \in Seq(Exc)
      BY <1>1, <2>2 DEF Context
    <3>2. Has(Uncaptured.exceptions, first) /\ first \in Exc
      BY <2>1, <3>1, HeadTailHas, HeadTailProperties DEF HasExceptions
    <3>3. Has(ctx[Master].exceptions, first) \/ Has(captured, first)
      <4> HIDE DEF first
      <4>1. \A x : Has(ctx[Master].exceptions \o captured, x)
                     <=> Has(ctx[Master].exceptions, x) \/ Has(captured, x)
        BY <1>3, <3>1, ConcatHas
      <4> QED BY <2>2, <3>2, <4>1
    <3> QED BY <2>1, <3>2, <3>3, SettledMain
  <2> HIDE DEF first
  <2>5. ~Thrown /\ Thrown' /\ InFlight' = first
    BY <2>1, <2>3, EmptySeq DEF Thrown, HasExceptions, InFlight
  <2>6. Waiting' = {}
    <3>1. ToSet(<< >>) = {}
      BY ToSetHas, EmptyHas
    <3> QED BY <2>1, <2>5, <3>1
  <2> QED BY <1>2, <2>1, <2>4, <2>5, <2>6 DEF Collect!ThrowOne, Collect!Next, InFlight
<1>9. CASE ThrowInTry
  <2>1. PICK e \in Exc \ live : LandInTry(Throw(ctx[Master], e), live \cup {e})
    BY <1>9 DEF ThrowInTry
  <2> DEFINE full == AddException(ctx[Master], e)
  <2>2. /\ ~forked /\ forked' = forked /\ main = "body" /\ captured' = captured
        /\ ctx[Master].exceptions = << >>
    BY <1>9 DEF ThrowInTry, HasExceptions
  <2>3. /\ full \in Context /\ full.frames = ctx[Master].frames /\ HasExceptions(full)
        /\ full.exceptions = <<e>>
    BY <1>1, <2>2, AddExceptionFacts DEF HasExceptions
  <2>4. LandInTry(JumpThrowing(full), live \cup {e})
    BY <2>1 DEF Throw
  <2> HIDE DEF full
  <2>5. main' = "finally" /\ ctx'[Master].exceptions = <<e>>
    BY <2>2, <2>3, <2>4, Landing
  <2>6. ~Thrown /\ Thrown' /\ InFlight' = e
    BY <2>2, <2>5, EmptySeq DEF Thrown, HasExceptions, InFlight
  <2>7. live = ToSet(captured)
    <3>1. \A x \in Exc : x \in live <=> Has(captured, x)
      BY <2>2, SettledMain, EmptyHas
    <3>2. \A x : Has(captured, x) => x \in Exc
      BY <1>1, HoldingType DEF Has
    <3> QED BY <1>3, <3>1, <3>2, ToSetHas
  <2> QED BY <1>2, <2>1, <2>2, <2>6, <2>7 DEF Collect!ThrowPast, Collect!Next, InFlight
<1>10. CASE EndBody
  <2> DEFINE d == StopTrying(ctx[Master])
  <2>1. /\ ctx' = [ctx EXCEPT ![Master] = d] /\ main = "body" /\ ctx[Master].exceptions = << >>
        /\ UNCHANGED <<live, forked>>
    BY <1>10 DEF EndBody, HasExceptions
  <2>2. d \in Context /\ d.exceptions = << >>
    BY <1>1, <2>1, StopTryingFacts
  <2> HIDE DEF d
  <2>3. ctx'[Master].exceptions = << >>
    BY <1>1, <2>1, <2>2, OneContext
  <2>4. ~Thrown /\ ~Thrown'
    BY <2>1, <2>3 DEF Thrown, HasExceptions
  <2> QED BY <1>2, <2>1, <2>4, SameWaiting
<1>11. CASE CatchAny
  <2>1. PICK type \in Types : LET r == Catch(ctx[Master], type)
                              IN  /\ r.caught # NoExc
                                  /\ ctx' = [ctx EXCEPT ![Master] = r.ctx]
                                  /\ live' = live \ {r.caught}
    BY <1>11 DEF CatchAny
  <2> DEFINE d == Catch(ctx[Master], type).ctx
             s == ctx[Master].exceptions
  <2>2. ~forked /\ forked' = forked /\ main = "finally" /\ main' = "finally" /\ captured' = captured
    BY <1>11 DEF CatchAny
  <2>3. /\ d \in Context
        /\ \E i \in 1 .. Len(s) : /\ Catch(ctx[Master], type).caught = s[i]
                                  /\ d.exceptions = RemoveAt(s, i)
    BY <1>1, <2>1, <2>2, MainFrame, CatchFacts
  <2>4. PICK k \in 1 .. Len(s) : d.exceptions = RemoveAt(s, k) /\ live' = live \ {s[k]}
    BY <2>1, <2>3
  <2>5. ctx' = [ctx EXCEPT ![Master] = d]
    BY <2>1
  <2> HIDE DEF d
  <2>6. ctx'[Master].exceptions = RemoveAt(s, k) /\ RemoveAt(s, k) \in Seq(Exc)
    <3>1. ctx'[Master] = d
      BY <1>1, <2>3, <2>5, OneContext
    <3> QED BY <2>3, <2>4, <3>1 DEF Context
  <2>7. /\ s \in Seq(Exc) /\ NoRepeat(s) /\ Apart(captured, s)
        /\ \A x, y : Has(s, x) /\ Has(s, y) => x = y
    BY <1>1, <2>2, SettledMain DEF Once, Context, Settled
  <2>8. \A x \in Exc : x \in live <=> Has(captured, x) \/ Has(s, x)
    BY <2>2, SettledMain
  <2> HIDE DEF s
  <2>9. Has(s, s[k]) /\ s # << >> /\ s[1] \in Exc
    BY <2>4, <2>7, LenProperties, EmptySeq, ElementOfSeq DEF Has
  <2>10. RemoveAt(s, k) = << >>
    BY <2>4, <2>6, <2>7, <2>9, RemoveAtHas, HasNone
  <2>11. Thrown /\ InFlight = s[1] /\ InFlight # NoExc
    BY <2>2, <2>9, ContextAssumption DEF Thrown, HasExceptions, InFlight, s
  <2>12. ~Thrown' /\ InFlight' = NoExc
    BY <2>6, <2>10 DEF Thrown, HasExceptions, InFlight
  <2>13. live' = ToSet(captured)
    <3>1. \A x \in Exc : x \in live' <=> Has(captured, x)
      BY <2>4, <2>7, <2>8, <2>9, ApartHas
    <3>2. \A x : Has(captured, x) => x \in Exc
      BY <1>1, HoldingType DEF Has
    <3> QED BY <1>3, <2>4, <3>1, <3>2, ToSetHas
  <2> QED BY <1>2, <2>2, <2>11, <2>12, <2>13 DEF Collect!Handle, Collect!Next, InFlight
<1>12. CASE Finish
  <2>1. /\ ~forked /\ forked' = forked /\ main' = "outside" /\ ctx[Master].exceptions = << >>
        /\ live' = live \ ToSet(captured)
    BY <1>12 DEF Finish, HasExceptions
  <2>2. ~Thrown /\ ~Thrown'
    BY <2>1 DEF Thrown, HasExceptions
  <2>3. live' = {}
    <3>1. \A x \in Exc : x \in live <=> Has(captured, x)
      BY <2>1, SettledMain, EmptyHas
    <3> QED BY <1>3, <2>1, <3>1, ToSetHas
  <2> QED BY <1>2, <2>1, <2>2, <2>3 DEF Collect!EndScope, Collect!Next, InFlight
<1> QED BY <1>4, <1>5, <1>6, <1>7, <1>8, <1>9, <1>10, <1>11, <1>12 DEF MainStep

LEMMA CollectNext ==
  ASSUME ~CaptureInFinally, Team, Once, Settled, Team', Once', Settled',
         Thrown' => Waiting' = ToSet(captured'), ~Thrown' => Waiting' = live', [Next]_vars
  PROVE  Collect!Next \/ UNCHANGED <<forked, Waiting, InFlight>>
<1>1. CASE MainStep
  BY <1>1, CollectMain
<1>2. CASE \E t \in Threads : ThreadStep(t)
  <2>1. PICK t \in Threads : ThreadStep(t)
    BY <1>2
  <2>2. forked'
    <3> USE DEF At, scopeVars, mainVars
    <3>1. forked /\ UNCHANGED forked
      BY <2>1 DEF ThreadStep, Begin, EndBlock, ThrowInBlock, Lock, ReadTail, Link, Unlock, Clear
    <3> QED BY <3>1
  <2>3. Waiting' = live'
    BY <2>2 DEF Thrown, InMain
  <2> QED BY <2>1, <2>3, CollectThread DEF Collect!Next
<1>3. CASE UNCHANGED vars
  <2>1. \A t \in Threads : Holding(t)' = Holding(t)
    BY <1>3 DEF vars, threadVars, Holding
  <2>2. Thrown' = Thrown /\ Waiting' = Waiting
    <3>1. Thrown' = Thrown
      BY <1>3 DEF Thrown, InMain, HasExceptions, vars, mainVars
    <3>2. (UNION {ToSet(Holding(t)) : t \in Threads})' = UNION {ToSet(Holding(t)) : t \in Threads}
      BY <2>1 DEF ToSet
    <3> QED BY <1>3, <3>1, <3>2 DEF Waiting, vars, scopeVars, ToSet
  <2> QED BY <1>3, <2>2 DEF vars, mainVars, InFlight
<1> QED BY <1>1, <1>2, <1>3 DEF Next

LEMMA CollectInit == Init => Collect!Init
<1> SUFFICES ASSUME Init PROVE Collect!Init  OBVIOUS
<1>1. Team /\ Once /\ live = {} /\ forked = FALSE /\ main = "outside"
  BY TeamInit, OnceInit DEF Init
<1>2. ~Thrown
  BY <1>1 DEF Thrown, InMain
<1>3. Waiting = {}
  BY <1>1, <1>2, WaitingFacts
<1> QED BY <1>1, <1>2, <1>3 DEF Collect!Init

\* Threads, lock, lists and frames together are the waiting area that README.md:329-383
\* describes, for any team: what is captured waits, one exception is thrown, the rest are
\* discarded. The program does not capture in a "finally", where this is false.
THEOREM CaptureImplementsCollect == ~CaptureInFinally => (Spec => ImplementsCollect)
<1> SUFFICES ASSUME ~CaptureInFinally PROVE Spec => ImplementsCollect  OBVIOUS
<1> DEFINE Inv == Team /\ Once /\ Settled
<1>1. Init => Inv /\ Collect!Init
  BY TeamInit, OnceInit, SettledInit, CollectInit
<1>2. Inv /\ [Next]_vars => Inv'
  BY TeamNext, OnceNext, SettledNext
<1>3. Inv => (Thrown => Waiting = ToSet(captured)) /\ (~Thrown => Waiting = live)
  BY WaitingFacts
<1>4. Inv /\ Inv' /\ ((Thrown => Waiting = ToSet(captured)) /\ (~Thrown => Waiting = live))' /\ [Next]_vars
        => [Collect!Next]_<<forked, Waiting, InFlight>>
  BY CollectNext
<1>5. [Collect!Next]_<<forked, Waiting, InFlight>> => [Collect!Next]_(Collect!vars)
  BY DEF Collect!vars, InFlight
<1> HIDE DEF Inv
<1> QED BY <1>1, <1>2, <1>3, <1>4, <1>5, PTL DEF Spec, ImplementsCollect, Collect!Spec
=============================================================================
