--------------------------- MODULE TryCatchProofs ---------------------------
(***************************************************************************)
(* Theorems about TryCatch, for any exceptions, types, depth and Usage:    *)
(* type correctness, and for the programs whose Usage a theorem names, that*)
(* frames and blocks match, that unwinding and the list of exceptions      *)
(* match, that no "finally" is skipped, that the oldest exception is kept, *)
(* that an exception has one owner, that nothing undefined happens, that   *)
(* no exception leaks, and that the macros implement try, catch, finally.  *)
(***************************************************************************)
EXTENDS TryCatch, ExceptionContextProofs, FiniteSetTheorems

Heap == [Exc -> Exc \cup {NoExc, Free}]

-----------------------------------------------------------------------------
(* Type correctness *)

LEMMA ReleaseType ==
  ASSUME NEW h \in Heap, NEW S
  PROVE  Release(h, S) \in Heap /\ Corrupts(h, S) \in BOOLEAN
BY DEF Release, Heap, Corrupts

LEMMA NewType ==
  ASSUME NEW h \in Heap, NEW e \in Exc, NEW c \in Exc \cup {NoExc}
  PROVE  New(h, e, c) \in Heap
BY DEF New, Heap

LEMMA PhaseAfterType == ASSUME NEW c PROVE PhaseAfter(c) \in Phase
BY DEF PhaseAfter, Phase

\* Control is in a block only if there is one, and the innermost block is a block.
LEMMA TopBlock ==
  ASSUME TypeOK, ~Outside
  PROVE  /\ Depth \in Nat \ {0}
         /\ Depth \in DOMAIN blocks
         /\ DOMAIN blocks = 1 .. Depth
         /\ Last(blocks) = blocks[Depth]
         /\ Last(blocks) \in Block
         /\ Front(blocks) \in Seq(Block)
         /\ Len(Front(blocks)) = Depth - 1
         /\ \A i \in 1 .. Depth - 1 : Front(blocks)[i] = blocks[i]
<1>1. blocks \in Seq(Block) /\ blocks # << >>
  BY DEF TypeOK, Outside
<1>2. /\ Len(blocks) \in Nat \ {0}
      /\ Front(blocks) \in Seq(Block)
      /\ Len(Front(blocks)) = Len(blocks) - 1
      /\ \A i \in 1 .. Len(blocks) - 1 : Front(blocks)[i] = blocks[i]
      /\ Last(blocks) = blocks[Len(blocks)] /\ Last(blocks) \in Block
  BY <1>1, FrontFacts
<1>3. DOMAIN blocks = 1 .. Len(blocks)
  BY <1>1, LenProperties
<1>4. Len(blocks) \in 1 .. Len(blocks)
  BY <1>2
<1> QED BY <1>2, <1>3, <1>4, Zenon DEF Depth

\* Changing the innermost block keeps the others.
LEMMA WithTopFacts ==
  ASSUME TypeOK, ~Outside, NEW b \in Block
  PROVE  /\ WithTop(b) \in Seq(Block)
         /\ Len(WithTop(b)) = Depth
         /\ WithTop(b) # << >>
         /\ Last(WithTop(b)) = b
         /\ \A i \in 1 .. Depth - 1 : WithTop(b)[i] = blocks[i]
<1>1. blocks \in Seq(Block) /\ blocks # << >>
  BY DEF TypeOK, Outside
<1> QED BY <1>1, ReplaceLastFacts DEF WithTop, Depth

\* The blocks after a landing in block i.
LEMMA LandedFacts ==
  ASSUME NEW s \in Seq(Block), NEW i \in DOMAIN s, NEW b \in Block
  PROVE  LET t == Append(SubSeq(s, 1, i - 1), b)
         IN  /\ t \in Seq(Block)
             /\ Len(t) = i
             /\ t # << >>
             /\ Last(t) = b /\ t[i] = b
             /\ \A j \in 1 .. i - 1 : t[j] = s[j]
<1>1. i \in 1 .. Len(s) /\ Len(s) \in Nat
  BY LenProperties
<1>2. PICK n \in Nat : n = i - 1
  BY <1>1
<1> DEFINE u == SubSeq(s, 1, n)
           t == Append(u, b)
<1>3. /\ u \in Seq(Block)
      /\ Len(u) = n
      /\ \A j \in 1 .. n : u[j] = s[j]
  BY <1>1, <1>2, PrefixFacts
<1> HIDE DEF u
<1>4. /\ t \in Seq(Block)
      /\ Len(t) = n + 1
      /\ t # << >>
      /\ t[n + 1] = b
      /\ \A j \in 1 .. n : t[j] = u[j]
  BY <1>3, AppendProperties
<1>5. n + 1 = i
  BY <1>1, <1>2
<1> HIDE DEF t
<1>6. Last(t) = b
  BY <1>4 DEF Last
<1>7. t = Append(SubSeq(s, 1, i - 1), b)
  BY <1>2 DEF t, u
<1> QED BY <1>2, <1>3, <1>4, <1>5, <1>6, <1>7

\* Wherever a call goes to, the state stays well typed.
LEMMA GoType ==
  ASSUME TypeOK, NEW r \in JumpResult, NEW h \in Heap, NEW rest \in Seq(Block), Go(r, h, rest)
  PROVE  TypeOK'
<1>1. CASE /\ r.to = NoJmp
           /\ ctx' = r.ctx
           /\ blocks' = rest
           /\ cause' = h
           /\ UNCHANGED ub
  BY <1>1 DEF TypeOK, JumpResult, Heap
<1>2. ASSUME NEW i \in DOMAIN blocks,
             blocks[i].jmp = r.to,
             ctx' = Try(r.ctx, r.to, r.why),
             blocks' = Append(SubSeq(blocks, 1, i - 1),
                              [blocks[i] EXCEPT !.phase = PhaseAfter(ctx'), !.var = NoExc]),
             NEW S, cause' = Release(h, S), ub' = Corrupts(h, S)
      PROVE  TypeOK'
  <2>1. blocks \in Seq(Block) /\ blocks[i] \in Block
    BY <1>2, ElementOfSeq, LenProperties DEF TypeOK
  <2>2. r.to \in JmpBufs /\ r.ctx \in Context /\ r.why \in JumpReason
    BY <1>2, <2>1 DEF Block, JumpResult
  <2>3. ctx' \in Context
    BY <1>2, <2>2, TryFacts
  <2>4. [blocks[i] EXCEPT !.phase = PhaseAfter(ctx'), !.var = NoExc] \in Block
    BY <2>1, PhaseAfterType DEF Block
  <2>5. blocks' \in Seq(Block)
    BY <1>2, <2>1, <2>4, LandedFacts
  <2>6. cause' \in Heap /\ ub' \in BOOLEAN
    BY <1>2, ReleaseType
  <2> QED BY <2>3, <2>5, <2>6 DEF TypeOK, Heap
<1>3. CASE /\ ub' = TRUE
           /\ UNCHANGED <<blocks, ctx, cause>>
  BY <1>3 DEF TypeOK
<1> QED BY <1>1, <1>2, <1>3 DEF Go

\* What the end of "finally" does is a jump, with or without a frame.
LEMMA FinallyDoneType ==
  ASSUME NEW c \in Context
  PROVE  FinallyDone(c) \in JumpResult
<1>1. CASE HasFrame(c)
  BY <1>1, FinallyDoneFacts
<1>2. CASE ~HasFrame(c)
  <2>1. FinallyDone(c) = JumpBecause(c, DONT) /\ DONT \in JumpReason
    BY <1>2 DEF FinallyDone, Jump, JumpReason
  <2> QED BY <2>1, JumpBecauseFacts
<1> QED BY <1>1, <1>2

LEMMA CatchType ==
  ASSUME NEW c \in Context, NEW type
  PROVE  Catch(c, type).ctx \in Context /\ Catch(c, type).caught \in Exc \cup {NoExc}
<1>1. CASE HasFrame(c)
  BY <1>1, CatchFacts
<1>2. CASE ~HasFrame(c)
  <2> DEFINE q == FetchException(c, type)
  <2>1. q.ctx \in Context /\ q.caught \in Exc \cup {NoExc} /\ ~HasFrame(q.ctx)
    BY <1>2, FetchExceptionFacts DEF HasFrame
  <2>2. q = [ctx |-> q.ctx, caught |-> q.caught]
    BY DEF FetchException
  <2>3. Catch(c, type) = IF q.caught = NoExc THEN q ELSE [q EXCEPT !.ctx = Handling(@)]
    BY <1>2 DEF Catch, IsRethrowing
  <2>4. Handling(q.ctx) = q.ctx
    BY <2>1 DEF Handling
  <2> HIDE DEF q
  <2> QED BY <2>1, <2>2, <2>3, <2>4
<1> QED BY <1>1, <1>2

LEMMA EmptyContextType == EmptyContext \in Context
<1>1. << >> \in Seq(Frame) /\ << >> \in Seq(Exc)
  OBVIOUS
<1> QED BY <1>1 DEF Context, EmptyContext

LEMMA InitType == Init => TypeOK
<1> SUFFICES ASSUME Init PROVE TypeOK
  OBVIOUS
<1>1. blocks \in Seq(Block)
  BY DEF Init
<1>2. ctx \in Context
  BY EmptyContextType DEF Init
<1>3. cause \in [Exc -> Exc \cup {NoExc, Free}] /\ ub \in BOOLEAN
  BY DEF Init
<1> QED BY <1>1, <1>2, <1>3 DEF TypeOK

\* Every step keeps the types.
LEMMA NextType == TypeOK /\ [Next]_vars => TypeOK'
<1> SUFFICES ASSUME TypeOK, [Next]_vars PROVE TypeOK'
  OBVIOUS
<1>1. blocks \in Seq(Block) /\ ctx \in Context /\ cause \in Heap /\ ub \in BOOLEAN
  BY DEF TypeOK, Heap
<1>2. DONT \in JumpReason
  BY DEF JumpReason
<1>3. \A phase : In(phase) => ~Outside
  BY DEF In
<1>4. CASE OpenTry
  <2>1. PICK jmp \in JmpBufs :
           /\ ctx' = Try(ctx, jmp, DONT)
           /\ blocks' = Append(blocks, [jmp |-> jmp, phase |-> PhaseAfter(ctx'),
                                        var |-> NoExc, handled |-> FALSE])
           /\ UNCHANGED <<cause, ub>>
    BY <1>4 DEF OpenTry
  <2>2. ctx' \in Context
    BY <1>1, <1>2, <2>1, TryFacts
  <2>3. [jmp |-> jmp, phase |-> PhaseAfter(ctx'), var |-> NoExc, handled |-> FALSE] \in Block
    BY PhaseAfterType DEF Block
  <2>4. blocks' \in Seq(Block)
    BY <1>1, <2>1, <2>3, AppendProperties
  <2> QED BY <1>1, <2>1, <2>2, <2>4 DEF TypeOK, Heap
<1>5. CASE EndBody
  <2>1. ctx' \in Context
    BY <1>1, <1>5, StopTryingFacts DEF EndBody
  <2>2. Last(blocks) \in Block /\ ~Outside
    BY <1>3, <1>5, TopBlock DEF EndBody
  <2>3. [Last(blocks) EXCEPT !.phase = PhaseAfter(ctx')] \in Block
    BY <2>2, PhaseAfterType DEF Block
  <2>4. blocks' \in Seq(Block)
    BY <1>5, <2>2, <2>3, WithTopFacts DEF EndBody
  <2> QED BY <1>1, <1>5, <2>1, <2>4 DEF EndBody, TypeOK, Heap
<1>6. CASE BreakBody
  <2>1. Last(blocks) \in Block /\ ~Outside
    BY <1>3, <1>6, TopBlock DEF BreakBody
  <2>2. [Last(blocks) EXCEPT !.phase = "finally"] \in Block
    BY <2>1 DEF Block, Phase
  <2>3. blocks' \in Seq(Block)
    BY <1>6, <2>1, <2>2, WithTopFacts DEF BreakBody
  <2> QED BY <1>1, <1>6, <2>3 DEF BreakBody, TypeOK, Heap
<1>7. CASE ThrowNew
  <2>1. PICK e \in Exc : Go(Throw(ctx, e), New(cause, e, NoExc), blocks)
    BY <1>7 DEF ThrowNew
  <2>2. Throw(ctx, e) \in JumpResult /\ New(cause, e, NoExc) \in Heap
    BY <1>1, ThrowFacts, NewType
  <2> QED BY <1>1, <2>1, <2>2, GoType
<1>8. CASE Rethrow
  <2>1. PICK e \in Exc : Go(Throw(ctx, e), New(cause, e, Last(blocks).var), blocks)
    BY <1>8 DEF Rethrow
  <2>2. Last(blocks).var \in Exc \cup {NoExc}
    BY <1>3, <1>8, TopBlock DEF Rethrow, InCatchHolding, Block
  <2>3. Throw(ctx, e) \in JumpResult /\ New(cause, e, Last(blocks).var) \in Heap
    BY <1>1, <2>2, ThrowFacts, NewType
  <2> QED BY <1>1, <2>1, <2>3, GoType
<1>9. CASE RethrowSame
  <2>1. Last(blocks).var \in Exc
    BY <1>3, <1>9, TopBlock DEF RethrowSame, InCatchHolding, Block
  <2>2. Throw(ctx, Last(blocks).var) \in JumpResult
    BY <1>1, <2>1, ThrowFacts
  <2> QED BY <1>1, <1>9, <2>2, GoType DEF RethrowSame
<1>10. ASSUME NEW type \in Types, CatchHit(type) PROVE TypeOK'
  <2> DEFINE r == Catch(ctx, type)
  <2>1. r.ctx \in Context /\ r.caught \in Exc \cup {NoExc}
    BY <1>1, CatchType
  <2>2. /\ ctx' = r.ctx
        /\ blocks' = WithTop([Last(blocks) EXCEPT !.phase = "catch", !.var = r.caught,
                                                  !.handled = TRUE])
        /\ UNCHANGED <<cause, ub>>
    BY <1>10 DEF CatchHit
  <2>3. Last(blocks) \in Block /\ ~Outside
    BY <1>3, <1>10, TopBlock DEF CatchHit
  <2> HIDE DEF r
  <2>4. [Last(blocks) EXCEPT !.phase = "catch", !.var = r.caught, !.handled = TRUE] \in Block
    BY <2>1, <2>3 DEF Block, Phase
  <2>5. blocks' \in Seq(Block)
    BY <2>2, <2>3, <2>4, WithTopFacts
  <2> QED BY <1>1, <2>1, <2>2, <2>5 DEF TypeOK, Heap
<1>11. CASE CatchDone
  <2>1. Last(blocks) \in Block /\ ~Outside
    BY <1>3, <1>11, TopBlock DEF CatchDone, InCatchHolding
  <2>2. [Last(blocks) EXCEPT !.phase = "finally", !.var = NoExc] \in Block
    BY <2>1 DEF Block, Phase
  <2>3. blocks' \in Seq(Block)
    BY <1>11, <2>1, <2>2, WithTopFacts DEF CatchDone
  <2>4. cause' \in Heap /\ ub' \in BOOLEAN
    BY <1>1, <1>11, ReleaseType DEF CatchDone
  <2> QED BY <1>1, <1>11, <2>3, <2>4 DEF CatchDone, TypeOK, Heap
<1>12. CASE ReleaseException
  <2>1. PICK i \in DOMAIN blocks :
          /\ blocks' = [blocks EXCEPT ![i] = [@ EXCEPT !.var = NoExc]]
          /\ cause' = Release(cause, {blocks[i].var})
          /\ ub' = Corrupts(cause, {blocks[i].var})
          /\ UNCHANGED ctx
    BY <1>12 DEF ReleaseException
  <2>2. blocks[i] \in Block /\ i \in 1 .. Len(blocks)
    BY <1>1, ElementOfSeq, LenProperties
  <2>3. [blocks[i] EXCEPT !.var = NoExc] \in Block
    BY <2>2 DEF Block
  <2>4. blocks' = [blocks EXCEPT ![i] = [blocks[i] EXCEPT !.var = NoExc]]
    BY <2>1
  <2>5. blocks' \in Seq(Block)
    BY <1>1, <2>2, <2>3, <2>4, ExceptSeq
  <2>6. cause' \in Heap /\ ub' \in BOOLEAN
    BY <1>1, <2>1, ReleaseType
  <2> QED BY <1>1, <2>1, <2>5, <2>6 DEF TypeOK, Heap
<1>13. CASE BreakCatch
  <2>1. Last(blocks) \in Block /\ ~Outside
    BY <1>3, <1>13, TopBlock DEF BreakCatch
  <2>2. [Last(blocks) EXCEPT !.phase = "finally"] \in Block
    BY <2>1 DEF Block, Phase
  <2>3. blocks' \in Seq(Block)
    BY <1>13, <2>1, <2>2, WithTopFacts DEF BreakCatch
  <2> QED BY <1>1, <1>13, <2>3 DEF BreakCatch, TypeOK, Heap
<1>14. CASE ReturnFromCatch
  <2>1. PICK i \in DOMAIN blocks : blocks' = SubSeq(blocks, 1, i - 1)
    BY <1>14 DEF ReturnFromCatch
  <2>2. i \in 1 .. Len(blocks) /\ Len(blocks) \in Nat
    BY <1>1, LenProperties
  <2>3. PICK n \in Nat : n = i - 1 /\ n <= Len(blocks)
    BY <2>2
  <2>4. blocks' \in Seq(Block)
    BY <1>1, <2>1, <2>3, PrefixFacts
  <2> QED BY <1>1, <1>14, <2>4 DEF ReturnFromCatch, TypeOK, Heap
<1>15. CASE EndFinally
  <2>1. FinallyDone(ctx) \in JumpResult
    BY <1>1, FinallyDoneType
  <2>2. Front(blocks) \in Seq(Block)
    BY <1>3, <1>15, TopBlock DEF EndFinally
  <2> QED BY <1>1, <1>15, <2>1, <2>2, GoType DEF EndFinally
<1>16. CASE UNCHANGED vars
  BY <1>16 DEF vars, TypeOK
<1> QED BY <1>4, <1>5, <1>6, <1>7, <1>8, <1>9, <1>10, <1>11, <1>12, <1>13, <1>14, <1>15, <1>16
        DEF Next

\* Whatever the program does, every variable keeps its type: no operation of the
\* context builds a frame, a list or a block that the code could not hold.
THEOREM TypeCorrect == Spec => []TypeOK
BY InitType, NextType, PTL DEF Spec
-----------------------------------------------------------------------------
(* Frames and blocks *)

\* The usage that keeps frames and blocks together: no `return` out of a "catch".
NoReturn == "returnFromCatch" \notin Usage

\* The frames are the jump points of the open blocks, and these are distinct, so
\* that a jump to a frame lands in the block that pushed it.
Matching == /\ Len(ctx.frames) = Len(blocks)
            /\ SameJmps(ctx.frames, blocks, Len(blocks))
            /\ \A i, j \in 1 .. Len(blocks) : blocks[i].jmp = blocks[j].jmp => i = j

MatchingInv == TypeOK /\ Matching

\* A frame exists exactly when control is in a block.
LEMMA FrameIffInside ==
  ASSUME TypeOK, Matching
  PROVE  /\ HasFrame(ctx) <=> ~Outside
         /\ Len(ctx.frames) = Depth
         /\ Depth \in Nat
<1>1. ctx.frames \in Seq(Frame) /\ blocks \in Seq(Block)
  BY DEF TypeOK, Context
<1>2. /\ Len(ctx.frames) \in Nat /\ (Len(ctx.frames) = 0 <=> ctx.frames = << >>)
      /\ Len(blocks) \in Nat /\ (Len(blocks) = 0 <=> blocks = << >>)
  BY <1>1, EmptySeq, LenProperties
<1> QED BY <1>2 DEF Matching, HasFrame, Outside, Depth

\* Blocks that have the jump points of matching ones match their frames too.
LEMMA MatchingKept ==
  ASSUME Matching, Len(ctx'.frames) = Len(blocks'), Len(blocks') \in Nat, Len(blocks') <= Len(blocks),
         Len(blocks) \in Nat,
         SameJmps(ctx'.frames, ctx.frames, Len(blocks')), SameJmps(blocks', blocks, Len(blocks'))
  PROVE  Matching'
<1>1. \A i \in 1 .. Len(blocks') : i \in 1 .. Len(blocks)
  OBVIOUS
<1>2. SameJmps(ctx'.frames, blocks', Len(blocks'))
  BY <1>1 DEF Matching, SameJmps
<1>3. \A i, j \in 1 .. Len(blocks') : blocks'[i].jmp = blocks'[j].jmp => i = j
  BY <1>1 DEF Matching, SameJmps
<1> QED BY <1>2, <1>3 DEF Matching

\* A jump to frame k lands in block k.
LEMMA Landing ==
  ASSUME TypeOK, Matching, NEW r \in JumpResult, NEW h \in Heap, NEW rest, Go(r, h, rest),
         NEW k \in 1 .. Depth, LandsAt(ctx, r, k)
  PROVE  /\ ctx' = Try(r.ctx, r.to, r.why)
         /\ blocks' = Append(SubSeq(blocks, 1, k - 1),
                             [blocks[k] EXCEPT !.phase = PhaseAfter(ctx'), !.var = NoExc])
<1>1. blocks \in Seq(Block) /\ DOMAIN blocks = 1 .. Depth /\ Depth = Len(blocks)
  BY LenProperties DEF TypeOK, Depth
<1>2. r.to = blocks[k].jmp /\ blocks[k] \in Block
  BY <1>1, ElementOfSeq DEF LandsAt, Matching, SameJmps
<1>3. r.to # NoJmp
  BY <1>2, ContextAssumption DEF Block
<1>4. \A i \in DOMAIN blocks : blocks[i].jmp = r.to => i = k
  BY <1>1, <1>2 DEF Matching
<1> QED BY <1>1, <1>2, <1>3, <1>4 DEF Go

LEMMA LandingMatches ==
  ASSUME TypeOK, Matching, NEW r \in JumpResult, NEW h \in Heap, NEW rest, Go(r, h, rest),
         NEW k \in 1 .. Depth, LandsAt(ctx, r, k)
  PROVE  /\ Matching'
         /\ Len(blocks') = k
         /\ \A i \in 1 .. k : blocks'[i].jmp = blocks[i].jmp
<1> DEFINE b == [blocks[k] EXCEPT !.phase = PhaseAfter(ctx'), !.var = NoExc]
<1>1. ctx' = Try(r.ctx, r.to, r.why) /\ blocks' = Append(SubSeq(blocks, 1, k - 1), b)
  BY Landing
<1>2. blocks \in Seq(Block) /\ DOMAIN blocks = 1 .. Depth /\ Depth = Len(blocks) /\ Depth \in Nat
  BY LenProperties DEF TypeOK, Depth
<1>3. blocks[k] \in Block
  BY <1>2, ElementOfSeq
<1>4. b \in Block /\ b.jmp = blocks[k].jmp
  BY <1>3, PhaseAfterType DEF Block
<1> HIDE DEF b
<1>5. /\ Len(blocks') = k
      /\ blocks'[k] = b
      /\ \A j \in 1 .. k - 1 : blocks'[j] = blocks[j]
  BY <1>1, <1>2, <1>4, LandedFacts
<1>6. \A i \in 1 .. k : i = k \/ i \in 1 .. k - 1
  BY <1>2
<1>7. SameJmps(blocks', blocks, k)
  BY <1>4, <1>5, <1>6 DEF SameJmps
<1>8. /\ r.ctx \in Context /\ r.why \in JumpReason /\ r.to \in JmpBufs
      /\ Len(r.ctx.frames) = k - 1
      /\ SameJmps(r.ctx.frames, ctx.frames, k - 1)
      /\ r.to = ctx.frames[k].jmp
  <2>1. r.to = blocks[k].jmp
    BY <1>2 DEF LandsAt, Matching, SameJmps
  <2> QED BY <1>3, <2>1 DEF LandsAt, JumpResult, Block
<1>9. /\ ctx' \in Context
      /\ HasFrame(ctx')
      /\ Len(ctx'.frames) = (k - 1) + 1
      /\ \A i \in 1 .. k - 1 : ctx'.frames[i] = r.ctx.frames[i]
      /\ CurrentFrame(ctx') = TryFrame(r.to, r.why)
  <2> DEFINE d == Try(r.ctx, r.to, r.why)
  <2>1. /\ d \in Context
        /\ HasFrame(d)
        /\ Len(d.frames) = Len(r.ctx.frames) + 1
        /\ \A i \in 1 .. Len(r.ctx.frames) : d.frames[i] = r.ctx.frames[i]
        /\ CurrentFrame(d) = TryFrame(r.to, r.why)
    BY <1>8, TryFacts
  <2>2. ctx' = d
    BY <1>1
  <2> HIDE DEF d
  <2> QED BY <1>8, <2>1, <2>2
<1>10. Len(ctx'.frames) = k
  BY <1>2, <1>9
<1>11. ctx'.frames[k].jmp = r.to
  <2>1. CurrentFrame(ctx') = ctx'.frames[k]
    BY <1>9, <1>10, CurrentFrameFacts
  <2>2. TryFrame(r.to, r.why).jmp = r.to
    BY <1>8 DEF TryFrame, NewFrame, JumpReason
  <2> QED BY <1>9, <2>1, <2>2
<1>12. SameJmps(ctx'.frames, ctx.frames, k)
  BY <1>6, <1>8, <1>9, <1>11 DEF SameJmps
<1>13. Matching'
  BY <1>2, <1>5, <1>7, <1>10, <1>12, MatchingKept
<1> QED BY <1>5, <1>7, <1>13 DEF SameJmps
\* The blocks that a step leaves: every one is still there, except that the
\* innermost may end if control is in its "finally".
KeepsBlocks ==
  \A i \in 1 .. Depth : \/ i <= Len(blocks') /\ blocks'[i].jmp = blocks[i].jmp
                        \/ i = Depth /\ In("finally")

LEMMA ThrowMatches ==
  ASSUME TypeOK, Matching, NEW e \in Exc, NEW h \in Heap, Go(Throw(ctx, e), h, blocks)
  PROVE  Matching' /\ KeepsBlocks
<1> DEFINE r == Throw(ctx, e)
<1>1. /\ r \in JumpResult
      /\ ~HasFrame(ctx) => r.to = NoJmp /\ r.ctx.frames = ctx.frames
      /\ HasFrame(ctx) => LandsAt(ctx, r, Len(ctx.frames))
  BY ThrowFacts DEF TypeOK
<1>2. HasFrame(ctx) <=> ~Outside /\ Len(ctx.frames) = Depth /\ Depth \in Nat
  BY FrameIffInside
<1> HIDE DEF r
<1>3. Go(r, h, blocks)
  BY DEF r
<1>4. CASE Outside
  <2>1. blocks = << >> /\ Len(blocks) = 0 /\ DOMAIN blocks = {} /\ Depth = 0
    BY <1>4, EmptySeq DEF Outside, Depth
  <2>2. ctx' = r.ctx /\ blocks' = blocks
    BY <1>1, <1>2, <1>3, <1>4, <2>1 DEF Go
  <2>3. ctx'.frames = ctx.frames
    BY <1>1, <1>2, <1>4, <2>2
  <2> QED BY <2>1, <2>2, <2>3 DEF Matching, SameJmps, KeepsBlocks
<1>5. CASE ~Outside
  <2>1. LandsAt(ctx, r, Depth) /\ Depth \in 1 .. Depth
    BY <1>1, <1>2, <1>5, TopBlock, FrameIffInside
  <2>2. /\ Matching'
        /\ Len(blocks') = Depth
        /\ \A i \in 1 .. Depth : blocks'[i].jmp = blocks[i].jmp
    BY <1>1, <1>3, <2>1, LandingMatches
  <2> QED BY <1>2, <2>2 DEF KeepsBlocks
<1> QED BY <1>4, <1>5

LEMMA FinallyMatches ==
  ASSUME TypeOK, Matching, EndFinally
  PROVE  Matching' /\ KeepsBlocks
<1> DEFINE r == FinallyDone(ctx)
           n == Depth
<1>1. In("finally") /\ ~Outside /\ Go(r, cause, Front(blocks))
  BY DEF EndFinally, In
<1>2. HasFrame(ctx) /\ Len(ctx.frames) = n /\ n \in Nat \ {0} /\ Len(blocks) = n
  BY <1>1, FrameIffInside, TopBlock DEF Depth
<1>3. /\ r \in JumpResult
      /\ CurrentFrame(ctx).reason = DONT \/ n = 1 =>
            /\ r.to = NoJmp
            /\ Len(r.ctx.frames) = n - 1
            /\ \A i \in 1 .. n - 1 : r.ctx.frames[i] = ctx.frames[i]
      /\ CurrentFrame(ctx).reason # DONT /\ n > 1 => LandsAt(ctx, r, n - 1)
  BY <1>2, FinallyDoneFacts DEF TypeOK
<1>4. cause \in Heap /\ blocks \in Seq(Block)
  BY DEF TypeOK, Heap
<1>5. /\ Front(blocks) \in Seq(Block)
      /\ Len(Front(blocks)) = n - 1
      /\ \A i \in 1 .. n - 1 : Front(blocks)[i] = blocks[i]
  BY <1>1, TopBlock
<1> HIDE DEF r, n
<1>6. CASE CurrentFrame(ctx).reason = DONT \/ n = 1
  <2>1. \A i \in DOMAIN blocks : blocks[i].jmp # r.to
    <3>1. \A i \in DOMAIN blocks : blocks[i] \in Block
      BY <1>4, ElementOfSeq, LenProperties
    <3>2. \A i \in DOMAIN blocks : blocks[i].jmp \in JmpBufs
      BY <3>1 DEF Block
    <3> QED BY <1>3, <1>6, <3>2, ContextAssumption
  <2>2. ctx' = r.ctx /\ blocks' = Front(blocks)
    BY <1>1, <1>3, <1>6, <2>1 DEF Go
  <2>3. /\ Len(ctx'.frames) = n - 1 /\ Len(blocks') = n - 1
        /\ SameJmps(ctx'.frames, ctx.frames, n - 1)
        /\ SameJmps(blocks', blocks, n - 1)
    BY <1>3, <1>5, <1>6, <2>2 DEF SameJmps
  <2>4. Matching'
    BY <1>2, <2>3, MatchingKept
  <2>5. \A i \in 1 .. n : i = n \/ i \in 1 .. n - 1
    BY <1>2
  <2> QED BY <1>1, <1>2, <2>3, <2>4, <2>5 DEF KeepsBlocks, SameJmps, n
<1>7. CASE CurrentFrame(ctx).reason # DONT /\ n # 1
  <2>1. LandsAt(ctx, r, n - 1) /\ n - 1 \in 1 .. n
    BY <1>2, <1>3, <1>7
  <2>2. /\ Matching'
        /\ Len(blocks') = n - 1
        /\ \A i \in 1 .. n - 1 : blocks'[i].jmp = blocks[i].jmp
    BY <1>1, <1>3, <1>4, <2>1, LandingMatches DEF n
  <2>3. \A i \in 1 .. n : i = n \/ i \in 1 .. n - 1
    BY <1>2
  <2> QED BY <1>1, <1>2, <2>2, <2>3 DEF KeepsBlocks, n
<1> QED BY <1>6, <1>7
\* A step that neither opens nor leaves a block.
LEMMA SameBlocks ==
  ASSUME TypeOK, Matching,
         Len(ctx'.frames) = Len(ctx.frames), SameJmps(ctx'.frames, ctx.frames, Len(ctx.frames)),
         Len(blocks') = Depth, SameJmps(blocks', blocks, Depth)
  PROVE  Matching' /\ KeepsBlocks
<1>1. Len(ctx.frames) = Depth /\ Depth \in Nat /\ Len(blocks) = Depth
  BY FrameIffInside DEF Depth
<1>2. Matching'
  BY <1>1, MatchingKept
<1> QED BY <1>1, <1>2 DEF KeepsBlocks, SameJmps

LEMMA SameJmpsReflexive == ASSUME NEW f, NEW n PROVE SameJmps(f, f, n)
BY DEF SameJmps

\* Changing the innermost block, but not its jump point
LEMMA WithTopJmps ==
  ASSUME TypeOK, ~Outside, NEW b \in Block, b.jmp = Last(blocks).jmp
  PROVE  Len(WithTop(b)) = Depth /\ SameJmps(WithTop(b), blocks, Depth)
<1>1. /\ WithTop(b) \in Seq(Block)
      /\ Len(WithTop(b)) = Depth
      /\ Last(WithTop(b)) = b
      /\ \A i \in 1 .. Depth - 1 : WithTop(b)[i] = blocks[i]
  BY WithTopFacts
<1>2. Last(blocks) = blocks[Depth] /\ Depth \in Nat \ {0}
  BY TopBlock
<1>3. WithTop(b)[Depth].jmp = blocks[Depth].jmp
  BY <1>1, <1>2 DEF Last
<1>4. \A i \in 1 .. Depth : i = Depth \/ i \in 1 .. Depth - 1
  BY <1>2
<1> QED BY <1>1, <1>3, <1>4 DEF SameJmps

LEMMA OpenMatches ==
  ASSUME TypeOK, Matching, OpenTry
  PROVE  Matching' /\ KeepsBlocks
<1>1. PICK jmp \in JmpBufs :
         /\ \A i \in DOMAIN blocks : blocks[i].jmp # jmp
         /\ ctx' = Try(ctx, jmp, DONT)
         /\ blocks' = Append(blocks, [jmp |-> jmp, phase |-> PhaseAfter(ctx'),
                                      var |-> NoExc, handled |-> FALSE])
  BY DEF OpenTry
<1> DEFINE b == [jmp |-> jmp, phase |-> PhaseAfter(ctx'), var |-> NoExc, handled |-> FALSE]
           n == Depth
<1>2. /\ blocks \in Seq(Block) /\ ctx \in Context /\ n \in Nat /\ Len(blocks) = n
      /\ Len(ctx.frames) = n /\ DOMAIN blocks = 1 .. n
  BY FrameIffInside, LenProperties DEF TypeOK, Depth
<1>3. b \in Block /\ b.jmp = jmp
  BY PhaseAfterType DEF Block
<1>4. DONT \in JumpReason
  BY DEF JumpReason
<1> DEFINE d == Try(ctx, jmp, DONT)
<1>5. /\ d \in Context /\ HasFrame(d)
      /\ Len(d.frames) = Len(ctx.frames) + 1
      /\ \A i \in 1 .. Len(ctx.frames) : d.frames[i] = ctx.frames[i]
      /\ CurrentFrame(d) = TryFrame(jmp, DONT)
  BY <1>2, <1>4, TryFacts
<1>6. TryFrame(jmp, DONT).jmp = jmp
  BY DEF TryFrame, NewFrame
<1> HIDE DEF d, b, n
<1>7. d.frames[n + 1].jmp = jmp /\ Len(d.frames) = n + 1 /\ \A i \in 1 .. n : d.frames[i] = ctx.frames[i]
  <2>1. CurrentFrame(d) = d.frames[Len(d.frames)]
    BY <1>5, CurrentFrameFacts
  <2> QED BY <1>2, <1>5, <1>6, <2>1
<1>8. ctx' = d /\ blocks' = Append(blocks, b)
  BY <1>1 DEF d, b
<1>9. /\ Len(blocks') = n + 1 /\ blocks'[n + 1].jmp = jmp
      /\ \A i \in 1 .. n : blocks'[i] = blocks[i]
  BY <1>2, <1>3, <1>8, AppendProperties
<1>10. \A i \in 1 .. n + 1 : i = n + 1 \/ i \in 1 .. n
  BY <1>2
<1>11. \A i \in 1 .. n : ctx.frames[i].jmp = blocks[i].jmp
  BY <1>2 DEF Matching, SameJmps
<1>12. SameJmps(ctx'.frames, blocks', n + 1)
  BY <1>7, <1>8, <1>9, <1>10, <1>11 DEF SameJmps
<1>13. \A i, j \in 1 .. n + 1 : blocks'[i].jmp = blocks'[j].jmp => i = j
  <2>1. \A i, j \in 1 .. n : blocks[i].jmp = blocks[j].jmp => i = j
    BY <1>2 DEF Matching
  <2>2. \A i \in 1 .. n : blocks[i].jmp # jmp
    BY <1>1, <1>2
  <2> QED BY <1>9, <1>10, <2>1, <2>2
<1>14. Matching'
  BY <1>7, <1>8, <1>9, <1>12, <1>13 DEF Matching
<1>15. n <= n + 1 /\ \A i \in 1 .. n : i <= n + 1
  BY <1>2
<1> QED BY <1>9, <1>14, <1>15 DEF KeepsBlocks, n

\* Every step but a `return` keeps frames and blocks together, and leaves a block
\* only at the end of its "finally".
LEMMA NextMatches ==
  ASSUME TypeOK, Matching, NoReturn, [Next]_vars
  PROVE  Matching' /\ KeepsBlocks
<1>1. ctx \in Context /\ cause \in Heap /\ blocks \in Seq(Block)
  BY DEF TypeOK, Heap
<1>2. \A phase : In(phase) => ~Outside
  BY DEF In
<1>3. SameJmps(ctx.frames, ctx.frames, Len(ctx.frames)) /\ SameJmps(blocks, blocks, Depth)
  BY SameJmpsReflexive
<1>4. CASE OpenTry
  BY <1>4, OpenMatches
<1>5. CASE EndBody
  <2>1. Last(blocks) \in Block /\ ~Outside
    BY <1>2, <1>5, TopBlock DEF EndBody
  <2>2. [Last(blocks) EXCEPT !.phase = PhaseAfter(ctx')] \in Block
        /\ [Last(blocks) EXCEPT !.phase = PhaseAfter(ctx')].jmp = Last(blocks).jmp
    BY <2>1, PhaseAfterType DEF Block
  <2>3. Len(blocks') = Depth /\ SameJmps(blocks', blocks, Depth)
    BY <1>5, <2>1, <2>2, WithTopJmps DEF EndBody
  <2>4. Len(ctx'.frames) = Len(ctx.frames) /\ SameJmps(ctx'.frames, ctx.frames, Len(ctx.frames))
    BY <1>1, <1>5, StopTryingFacts DEF EndBody
  <2> QED BY <2>3, <2>4, SameBlocks
<1>6. CASE BreakBody
  <2>1. Last(blocks) \in Block /\ ~Outside
    BY <1>2, <1>6, TopBlock DEF BreakBody
  <2>2. [Last(blocks) EXCEPT !.phase = "finally"] \in Block
        /\ [Last(blocks) EXCEPT !.phase = "finally"].jmp = Last(blocks).jmp
    BY <2>1 DEF Block, Phase
  <2>3. Len(blocks') = Depth /\ SameJmps(blocks', blocks, Depth)
    BY <1>6, <2>1, <2>2, WithTopJmps DEF BreakBody
  <2> QED BY <1>3, <1>6, <2>3, SameBlocks DEF BreakBody
<1>7. CASE ThrowNew
  <2>1. PICK e \in Exc : Go(Throw(ctx, e), New(cause, e, NoExc), blocks)
    BY <1>7 DEF ThrowNew
  <2>2. New(cause, e, NoExc) \in Heap
    BY <1>1, NewType
  <2> QED BY <2>1, <2>2, ThrowMatches
<1>8. CASE Rethrow
  <2>1. PICK e \in Exc : Go(Throw(ctx, e), New(cause, e, Last(blocks).var), blocks)
    BY <1>8 DEF Rethrow
  <2>2. Last(blocks).var \in Exc \cup {NoExc}
    BY <1>2, <1>8, TopBlock DEF Rethrow, InCatchHolding, Block
  <2>3. New(cause, e, Last(blocks).var) \in Heap
    BY <1>1, <2>2, NewType
  <2> QED BY <2>1, <2>3, ThrowMatches
<1>9. CASE RethrowSame
  <2>1. Last(blocks).var \in Exc
    BY <1>2, <1>9, TopBlock DEF RethrowSame, InCatchHolding, Block
  <2> QED BY <1>1, <1>9, <2>1, ThrowMatches DEF RethrowSame
<1>10. ASSUME NEW type \in Types, CatchHit(type) PROVE Matching' /\ KeepsBlocks
  <2> DEFINE r == Catch(ctx, type)
             b == [Last(blocks) EXCEPT !.phase = "catch", !.var = r.caught, !.handled = TRUE]
  <2>1. Last(blocks) \in Block /\ ~Outside /\ HasFrame(ctx)
    BY <1>2, <1>10, TopBlock, FrameIffInside DEF CatchHit
  <2>2. ctx' = r.ctx /\ blocks' = WithTop(b) /\ r.caught # NoExc
    BY <1>10 DEF CatchHit
  <2>3. /\ r.caught \in Exc \cup {NoExc}
        /\ Len(r.ctx.frames) = Len(ctx.frames)
        /\ SameJmps(r.ctx.frames, ctx.frames, Len(ctx.frames))
    BY <1>1, <2>1, <2>2, CatchFacts
  <2> HIDE DEF r
  <2>4. b \in Block /\ b.jmp = Last(blocks).jmp
    BY <2>1, <2>3 DEF Block, Phase
  <2>5. Len(blocks') = Depth /\ SameJmps(blocks', blocks, Depth)
    BY <2>1, <2>2, <2>4, WithTopJmps
  <2> QED BY <2>2, <2>3, <2>5, SameBlocks
<1>11. CASE CatchDone
  <2>1. Last(blocks) \in Block /\ ~Outside
    BY <1>2, <1>11, TopBlock DEF CatchDone, InCatchHolding
  <2>2. [Last(blocks) EXCEPT !.phase = "finally", !.var = NoExc] \in Block
        /\ [Last(blocks) EXCEPT !.phase = "finally", !.var = NoExc].jmp = Last(blocks).jmp
    BY <2>1 DEF Block, Phase
  <2>3. Len(blocks') = Depth /\ SameJmps(blocks', blocks, Depth)
    BY <1>11, <2>1, <2>2, WithTopJmps DEF CatchDone
  <2> QED BY <1>3, <1>11, <2>3, SameBlocks DEF CatchDone
<1>12. CASE ReleaseException
  <2>1. PICK i \in DOMAIN blocks :
          /\ blocks' = [blocks EXCEPT ![i] = [@ EXCEPT !.var = NoExc]]
          /\ UNCHANGED ctx
    BY <1>12 DEF ReleaseException
  <2>2. blocks[i] \in Block /\ i \in 1 .. Len(blocks)
    BY <1>1, ElementOfSeq, LenProperties
  <2>3. /\ [blocks[i] EXCEPT !.var = NoExc] \in Block
        /\ [blocks[i] EXCEPT !.var = NoExc].jmp = blocks[i].jmp
    BY <2>2 DEF Block
  <2>4. blocks' = [blocks EXCEPT ![i] = [blocks[i] EXCEPT !.var = NoExc]]
    BY <2>1
  <2>5. /\ Len(blocks') = Len(blocks)
        /\ \A j \in 1 .. Len(blocks) :
              blocks'[j] = IF j = i THEN [blocks[i] EXCEPT !.var = NoExc] ELSE blocks[j]
    BY <1>1, <2>2, <2>3, <2>4, ExceptSeq
  <2>6. SameJmps(blocks', blocks, Depth)
    BY <2>3, <2>5 DEF SameJmps, Depth
  <2> QED BY <1>3, <2>1, <2>5, <2>6, SameBlocks DEF Depth
<1>13. CASE BreakCatch
  <2>1. Last(blocks) \in Block /\ ~Outside
    BY <1>2, <1>13, TopBlock DEF BreakCatch
  <2>2. [Last(blocks) EXCEPT !.phase = "finally"] \in Block
        /\ [Last(blocks) EXCEPT !.phase = "finally"].jmp = Last(blocks).jmp
    BY <2>1 DEF Block, Phase
  <2>3. Len(blocks') = Depth /\ SameJmps(blocks', blocks, Depth)
    BY <1>13, <2>1, <2>2, WithTopJmps DEF BreakCatch
  <2> QED BY <1>3, <1>13, <2>3, SameBlocks DEF BreakCatch
<1>14. CASE ReturnFromCatch
  BY <1>14 DEF ReturnFromCatch, NoReturn
<1>15. CASE EndFinally
  BY <1>15, FinallyMatches
<1>16. CASE UNCHANGED vars
  BY <1>3, <1>16, SameBlocks DEF vars, Depth
<1> QED BY <1>4, <1>5, <1>6, <1>7, <1>8, <1>9, <1>10, <1>11, <1>12, <1>13, <1>14, <1>15, <1>16
        DEF Next

LEMMA InitMatches == Init => Matching
<1>1. Len(<< >>) = 0
  BY EmptySeq
<1> QED BY <1>1 DEF Init, EmptyContext, Matching, SameJmps

\* The invariant that the next two theorems rest on.
LEMMA MatchingInvariant == NoReturn => (Spec => []MatchingInv)
<1> SUFFICES ASSUME NoReturn PROVE Spec => []MatchingInv
  OBVIOUS
<1>1. Init => MatchingInv
  BY InitType, InitMatches DEF MatchingInv
<1>2. MatchingInv /\ [Next]_vars => MatchingInv'
  BY NextType, NextMatches DEF MatchingInv
<1> QED BY <1>1, <1>2, PTL DEF Spec

\* Unless the program returns out of a "catch", the frames of the context are the
\* jump points of the open blocks, however it throws, catches and nests: no jump
\* can reach a block that has ended.
THEOREM FramesAlwaysMatch == NoReturn => (Spec => []FramesMatchBlocks)
<1> SUFFICES ASSUME NoReturn PROVE Spec => []FramesMatchBlocks
  OBVIOUS
<1>1. MatchingInv => FramesMatchBlocks
  <2> SUFFICES ASSUME TypeOK, Matching PROVE FramesMatchBlocks
    BY DEF MatchingInv
  <2>1. DOMAIN blocks = 1 .. Len(blocks)
    BY LenProperties DEF TypeOK
  <2> QED BY <2>1 DEF Matching, SameJmps, FramesMatchBlocks
<1> QED BY <1>1, MatchingInvariant, PTL

\* Unless the program returns out of a "catch", a block is left only from its
\* "finally", innermost first: also by an exception that unwinds several blocks.
THEOREM NoFinallySkipped == NoReturn => (Spec => FinallyNeverSkipped)
<1> SUFFICES ASSUME NoReturn PROVE Spec => FinallyNeverSkipped
  OBVIOUS
<1> DEFINE A == \A i \in DOMAIN blocks :
                  (i \notin DOMAIN blocks' \/ blocks'[i].jmp # blocks[i].jmp)
                     => i = Depth /\ In("finally")
<1>1. MatchingInv /\ MatchingInv' /\ [Next]_vars => [A]_vars
  <2> SUFFICES ASSUME TypeOK, Matching, TypeOK', [Next]_vars, NEW i \in DOMAIN blocks,
                      ~(i = Depth /\ In("finally"))
               PROVE  i \in DOMAIN blocks' /\ blocks'[i].jmp = blocks[i].jmp
    BY DEF MatchingInv
  <2>1. i \in 1 .. Depth /\ DOMAIN blocks' = 1 .. Len(blocks')
    BY LenProperties DEF TypeOK, Depth
  <2>2. KeepsBlocks
    BY NextMatches
  <2> QED BY <2>1, <2>2 DEF KeepsBlocks
<1> QED BY <1>1, MatchingInvariant, PTL DEF Spec, FinallyNeverSkipped
-----------------------------------------------------------------------------
(* Unwinding *)

\* The usage that keeps the reason of the frames and the exceptions together:
\* blocks are opened only while nothing is in flight.
WellNested == Usage \cap {"nestInFinally", "goOnUncaught", "returnFromCatch"} = {}

\* No enclosing block unwinds, and the innermost one unwinds, in its "finally",
\* with one exception or does not unwind with none.
Unwinding ==
  /\ \A i \in 1 .. Depth - 1 : ctx.frames[i].reason = DONT
  /\ ~Outside => \/ In("finally") /\ CurrentFrame(ctx).reason # DONT /\ Len(ctx.exceptions) = 1
                 \/ CurrentFrame(ctx).reason = DONT /\ Len(ctx.exceptions) = 0

UnwindingInv == TypeOK /\ Matching /\ Unwinding

\* The current frame is the one of the innermost block.
LEMMA CurrentIsTop ==
  ASSUME TypeOK, Matching, ~Outside
  PROVE  /\ CurrentFrame(ctx) = ctx.frames[Depth]
         /\ Len(ctx.frames) = Depth
         /\ Depth \in Nat \ {0}
         /\ HasFrame(ctx)
         /\ ctx \in Context
BY FrameIffInside, CurrentFrameFacts DEF TypeOK

\* A landing with an exception in flight makes its block unwind.
LEMMA LandingUnwinds ==
  ASSUME TypeOK, Matching, NEW r \in JumpResult, NEW h \in Heap, NEW rest, Go(r, h, rest),
         NEW k \in 1 .. Depth, LandsAt(ctx, r, k), HasExceptions(r.ctx),
         \A i \in 1 .. k - 1 : r.ctx.frames[i] = ctx.frames[i] /\ ctx.frames[i].reason = DONT
  PROVE  Unwinding'
<1> DEFINE d == Try(r.ctx, r.to, r.why)
           b == [blocks[k] EXCEPT !.phase = PhaseAfter(ctx'), !.var = NoExc]
<1>1. ctx' = d /\ blocks' = Append(SubSeq(blocks, 1, k - 1), b)
  BY Landing
<1>2. blocks \in Seq(Block) /\ DOMAIN blocks = 1 .. Depth /\ Depth \in Nat
  BY LenProperties DEF TypeOK, Depth
<1>3. blocks[k] \in Block /\ k \in DOMAIN blocks
  BY <1>2, ElementOfSeq, LenProperties
<1>4. b \in Block /\ b.phase = PhaseAfter(ctx')
  BY <1>3, PhaseAfterType DEF Block
<1>5. /\ r.ctx \in Context /\ r.why \in JumpReason /\ r.to \in JmpBufs
      /\ r.why # DONT /\ Len(r.ctx.frames) = k - 1
  <2>1. r.to = blocks[k].jmp
    BY <1>2 DEF LandsAt, Matching, SameJmps, Depth
  <2> QED BY <1>3, <2>1 DEF LandsAt, JumpResult, Block
<1>6. /\ HasFrame(d)
      /\ \A i \in 1 .. Len(r.ctx.frames) : d.frames[i] = r.ctx.frames[i]
      /\ CurrentFrame(d) = TryFrame(r.to, r.why)
      /\ d.exceptions = <<r.ctx.exceptions[1]>>
  BY <1>5, TryFacts
<1>7. TryFrame(r.to, r.why).reason = THROW /\ TryFrame(r.to, r.why).trying = FALSE
  BY <1>5 DEF TryFrame, NewFrame, JumpReason, DONT, THROW, RETHROW
<1> HIDE DEF d, b
<1>8. /\ blocks' \in Seq(Block) /\ Len(blocks') = k /\ blocks' # << >> /\ Last(blocks') = b
  <2> DEFINE t == Append(SubSeq(blocks, 1, k - 1), b)
  <2>1. /\ t \in Seq(Block)
        /\ Len(t) = k
        /\ t # << >>
        /\ Last(t) = b /\ t[k] = b
        /\ \A j \in 1 .. k - 1 : t[j] = blocks[j]
    BY <1>2, <1>3, <1>4, LandedFacts
  <2>2. blocks' = t
    BY <1>1
  <2> HIDE DEF t
  <2> QED BY <2>1, <2>2
<1>9. In("finally")'
  BY <1>1, <1>4, <1>6, <1>7, <1>8 DEF In, Outside, PhaseAfter, IsTrying
<1>10. CurrentFrame(ctx').reason # DONT
  BY <1>1, <1>6, <1>7 DEF DONT, THROW
<1>11. Len(ctx'.exceptions) = 1
  BY <1>1, <1>6
<1>12. \A i \in 1 .. k - 1 : ctx'.frames[i].reason = DONT
  BY <1>1, <1>5, <1>6
<1> QED BY <1>8, <1>9, <1>10, <1>11, <1>12 DEF Unwinding, Depth

LEMMA ThrowUnwinds ==
  ASSUME TypeOK, Matching, Unwinding, ~Outside, NEW e \in Exc, NEW h \in Heap,
         Go(Throw(ctx, e), h, blocks)
  PROVE  Unwinding'
<1> DEFINE r == Throw(ctx, e)
<1>1. ctx.exceptions \in Seq(Exc)
  BY DEF TypeOK, Context
<1>2. /\ r \in JumpResult /\ r.ctx.exceptions = Append(ctx.exceptions, e)
      /\ LandsAt(ctx, r, Depth)
      /\ \A i \in 1 .. Depth - 1 : r.ctx.frames[i] = ctx.frames[i]
      /\ Depth \in 1 .. Depth
  <2>1. HasFrame(ctx) /\ ctx \in Context /\ Len(ctx.frames) = Depth /\ Depth \in Nat \ {0}
    BY CurrentIsTop
  <2>2. /\ r \in JumpResult /\ r.ctx.exceptions = Append(ctx.exceptions, e)
        /\ LandsAt(ctx, r, Len(ctx.frames))
        /\ \A i \in 1 .. Len(ctx.frames) - 1 : r.ctx.frames[i] = ctx.frames[i]
    BY <2>1, ThrowFacts
  <2>3. Depth \in 1 .. Depth
    BY <2>1
  <2> HIDE DEF r
  <2> QED BY <2>1, <2>2, <2>3
<1> HIDE DEF r
<1>3. HasExceptions(r.ctx)
  BY <1>1, <1>2, AppendProperties DEF HasExceptions
<1>4. Go(r, h, blocks)
  BY DEF r
<1> QED BY <1>2, <1>3, <1>4, LandingUnwinds DEF Unwinding

LEMMA FinallyUnwinds ==
  ASSUME TypeOK, Matching, Unwinding, EndFinally
  PROVE  Unwinding'
<1> DEFINE r == FinallyDone(ctx)
           n == Depth
<1>1. In("finally") /\ ~Outside /\ Go(r, cause, Front(blocks))
  BY DEF EndFinally, In
<1>2. /\ HasFrame(ctx) /\ Len(ctx.frames) = n /\ n \in Nat \ {0} /\ ctx \in Context
      /\ CurrentFrame(ctx) = ctx.frames[n]
  BY <1>1, CurrentIsTop
<1>3. /\ r \in JumpResult
      /\ r.ctx.exceptions = ctx.exceptions
      /\ CurrentFrame(ctx).reason = DONT \/ n = 1 =>
            /\ r.to = NoJmp
            /\ Len(r.ctx.frames) = n - 1
            /\ \A i \in 1 .. n - 1 : r.ctx.frames[i] = ctx.frames[i]
      /\ CurrentFrame(ctx).reason # DONT /\ n > 1 =>
            /\ LandsAt(ctx, r, n - 1)
            /\ \A i \in 1 .. n - 2 : r.ctx.frames[i] = ctx.frames[i]
  BY <1>2, FinallyDoneFacts
<1>4. cause \in Heap /\ blocks \in Seq(Block)
  BY DEF TypeOK, Heap
<1>5. Front(blocks) \in Seq(Block) /\ Len(Front(blocks)) = n - 1
  BY <1>1, TopBlock
<1>6. \A i \in 1 .. n - 1 : ctx.frames[i].reason = DONT
  BY DEF Unwinding
<1> HIDE DEF r, n
<1>7. CASE CurrentFrame(ctx).reason = DONT \/ n = 1
  <2>1. \A i \in DOMAIN blocks : blocks[i].jmp # r.to
    <3>1. \A i \in DOMAIN blocks : blocks[i] \in Block
      BY <1>4, ElementOfSeq, LenProperties
    <3>2. \A i \in DOMAIN blocks : blocks[i].jmp \in JmpBufs
      BY <3>1 DEF Block
    <3> QED BY <1>3, <1>7, <3>2, ContextAssumption
  <2>2. ctx' = r.ctx /\ blocks' = Front(blocks)
    BY <1>1, <1>3, <1>7, <2>1 DEF Go
  <2>3. \A i \in 1 .. (n - 1) - 1 : i \in 1 .. n - 1
    BY <1>2
  <2>4. Depth' = n - 1
    BY <1>5, <2>2 DEF Depth
  <2>5. \A i \in 1 .. Depth' - 1 : ctx'.frames[i].reason = DONT
    BY <1>3, <1>6, <1>7, <2>2, <2>3, <2>4
  <2>6. CASE n = 1
    <3>1. Outside'
      BY <1>5, <2>2, <2>6, EmptySeq DEF Outside
    <3> QED BY <2>5, <3>1 DEF Unwinding
  <2>7. CASE n # 1
    <3>1. n - 1 \in 1 .. n - 1 /\ n - 1 # 0
      BY <1>2, <2>7
    <3>2. Len(ctx.exceptions) = 0 /\ CurrentFrame(ctx).reason = DONT
      BY <1>1, <1>7, <2>7 DEF Unwinding
    <3>3. CurrentFrame(ctx') = ctx'.frames[n - 1]
      <4>1. ctx' \in Context /\ Len(ctx'.frames) = n - 1
        BY <1>3, <1>7, <2>2 DEF JumpResult
      <4>2. HasFrame(ctx')
        BY <3>1, <4>1, EmptySeq DEF HasFrame
      <4> QED BY <4>1, <4>2, CurrentFrameFacts
    <3>4. CurrentFrame(ctx').reason = DONT
      BY <1>3, <1>6, <1>7, <2>2, <3>1, <3>3
    <3> QED BY <1>3, <2>2, <2>5, <3>2, <3>4 DEF Unwinding
  <2> QED BY <2>6, <2>7
<1>8. CASE CurrentFrame(ctx).reason # DONT /\ n # 1
  <2>1. LandsAt(ctx, r, n - 1) /\ n - 1 \in 1 .. n /\ \A i \in 1 .. n - 2 : r.ctx.frames[i] = ctx.frames[i]
    BY <1>2, <1>3, <1>8
  <2>2. HasExceptions(r.ctx)
    <3>1. Len(ctx.exceptions) = 1
      BY <1>1, <1>8 DEF Unwinding
    <3>2. Len(<< >>) = 0
      BY EmptySeq
    <3>3. ctx.exceptions # << >>
      BY <3>1, <3>2
    <3> QED BY <1>3, <3>3 DEF HasExceptions
  <2>3. \A i \in 1 .. (n - 1) - 1 : i \in 1 .. n - 2 /\ i \in 1 .. n - 1
    BY <1>2
  <2> QED BY <1>1, <1>3, <1>4, <1>6, <2>1, <2>2, <2>3, LandingUnwinds DEF n
<1> QED BY <1>7, <1>8
\* A step inside a block that does not unwind and has nothing in flight.
LEMMA QuietStep ==
  ASSUME TypeOK, Matching, Unwinding, ~Outside, NEW top,
         blocks' = WithTop(top), top \in Block,
         \A i \in 1 .. Depth - 1 : ctx'.frames[i] = ctx.frames[i],
         CurrentFrame(ctx').reason = DONT, Len(ctx'.exceptions) = 0
  PROVE  Unwinding'
<1>1. Depth' = Depth
  BY WithTopFacts DEF Depth
<1> QED BY <1>1 DEF Unwinding

LEMMA OpenUnwinds ==
  ASSUME TypeOK, Matching, Unwinding, WellNested, OpenTry
  PROVE  Unwinding'
<1> DEFINE n == Depth
<1>1. MayOpen
  BY DEF OpenTry
<1>2. PICK jmp \in JmpBufs :
         /\ ctx' = Try(ctx, jmp, DONT)
         /\ blocks' = Append(blocks, [jmp |-> jmp, phase |-> PhaseAfter(ctx'),
                                      var |-> NoExc, handled |-> FALSE])
  BY DEF OpenTry
<1> DEFINE d == Try(ctx, jmp, DONT)
           b == [jmp |-> jmp, phase |-> PhaseAfter(ctx'), var |-> NoExc, handled |-> FALSE]
<1>3. blocks \in Seq(Block) /\ ctx \in Context /\ n \in Nat /\ Len(blocks) = n /\ Len(ctx.frames) = n
  BY FrameIffInside DEF TypeOK, Depth
<1>4. DONT \in JumpReason
  BY DEF JumpReason
<1>5. /\ Len(d.frames) = Len(ctx.frames) + 1
      /\ \A i \in 1 .. Len(ctx.frames) : d.frames[i] = ctx.frames[i]
      /\ CurrentFrame(d) = TryFrame(jmp, DONT)
      /\ d.exceptions = ctx.exceptions
  BY <1>3, <1>4, TryFacts
<1>6. TryFrame(jmp, DONT).reason = DONT
  BY DEF TryFrame, NewFrame, DONT, THROW, RETHROW
<1>7. ctx' = d /\ blocks' = Append(blocks, b)
  BY <1>2
<1>8. b \in Block
  BY PhaseAfterType DEF Block
<1> HIDE DEF d, b
<1>9. Len(blocks') = n + 1
  BY <1>3, <1>7, <1>8, AppendProperties
<1>10. Outside => Len(ctx.exceptions) = 0
  <2> SUFFICES ASSUME Outside PROVE Len(ctx.exceptions) = 0
    OBVIOUS
  <2>1. ~HasExceptions(ctx)
    BY <1>1 DEF MayOpen, WellNested, In
  <2>2. Len(<< >>) = 0
    BY EmptySeq
  <2> QED BY <2>1, <2>2 DEF HasExceptions
<1>11. ~Outside => CurrentFrame(ctx).reason = DONT /\ Len(ctx.exceptions) = 0
  <2>1. "finally" # "body" /\ "finally" # "catch"
    OBVIOUS
  <2>2. ~In("finally") \/ Outside
    BY <1>1, <2>1 DEF MayOpen, WellNested, In
  <2> QED BY <2>2 DEF Unwinding
<1>12. \A i \in 1 .. n : ctx.frames[i].reason = DONT
  <2> SUFFICES ASSUME NEW i \in 1 .. n PROVE ctx.frames[i].reason = DONT
    OBVIOUS
  <2>1. ~Outside
    BY <1>3, EmptySeq DEF Outside
  <2>2. CurrentFrame(ctx) = ctx.frames[n]
    BY <2>1, CurrentIsTop
  <2>3. i = n \/ i \in 1 .. n - 1
    BY <1>3
  <2> QED BY <1>11, <2>1, <2>2, <2>3 DEF Unwinding
<1> HIDE DEF n
<1>13. \A i \in 1 .. Depth' - 1 : ctx'.frames[i].reason = DONT
  <2>1. Depth' - 1 = n
    BY <1>3, <1>9 DEF Depth
  <2> QED BY <1>3, <1>5, <1>7, <1>12, <2>1
<1>14. CurrentFrame(ctx').reason = DONT /\ Len(ctx'.exceptions) = 0
  BY <1>5, <1>6, <1>7, <1>10, <1>11
<1> QED BY <1>13, <1>14 DEF Unwinding

\* Taking the only exception off the list leaves it empty.
LEMMA RemoveOnly ==
  ASSUME NEW S, NEW s \in Seq(S), Len(s) = 1, NEW i \in 1 .. Len(s)
  PROVE  Len(RemoveAt(s, i)) = 0
BY DEF RemoveAt

LEMMA CatchUnwinds ==
  ASSUME TypeOK, Matching, Unwinding, NEW type \in Types, CatchHit(type)
  PROVE  Unwinding'
<1> DEFINE r == Catch(ctx, type)
           b == [Last(blocks) EXCEPT !.phase = "catch", !.var = r.caught, !.handled = TRUE]
<1>1. /\ In("finally") /\ ~Outside /\ r.caught # NoExc
      /\ ctx' = r.ctx /\ blocks' = WithTop(b)
  BY DEF CatchHit, In
<1>2. /\ HasFrame(ctx) /\ ctx \in Context /\ Len(ctx.frames) = Depth
      /\ ctx.exceptions \in Seq(Exc)
  BY <1>1, CurrentIsTop DEF Context
<1>3. /\ r.caught \in Exc \cup {NoExc}
      /\ CurrentFrame(r.ctx).reason = DONT
      /\ \A i \in 1 .. Len(ctx.frames) - 1 : r.ctx.frames[i] = ctx.frames[i]
      /\ \E i \in 1 .. Len(ctx.exceptions) : /\ r.caught = ctx.exceptions[i]
                                             /\ r.ctx.exceptions = RemoveAt(ctx.exceptions, i)
  BY <1>1, <1>2, CatchFacts
<1> HIDE DEF r
<1>4. PICK i \in 1 .. Len(ctx.exceptions) : r.ctx.exceptions = RemoveAt(ctx.exceptions, i)
  BY <1>3
<1>5. Len(ctx.exceptions) = 1
  BY <1>1, <1>2, <1>4 DEF Unwinding
<1>6. Len(r.ctx.exceptions) = 0
  BY <1>2, <1>4, <1>5, RemoveOnly
<1>7. b \in Block
  BY <1>1, <1>3, TopBlock DEF Block, Phase
<1> HIDE DEF b
<1> QED BY <1>1, <1>2, <1>3, <1>6, <1>7, QuietStep
\* Every step of a well nested program keeps the invariant.
LEMMA NextUnwinds ==
  ASSUME TypeOK, Matching, Unwinding, WellNested, [Next]_vars
  PROVE  Unwinding'
<1>1. ctx \in Context /\ cause \in Heap /\ blocks \in Seq(Block)
  BY DEF TypeOK, Heap
<1>2. \A phase : In(phase) => ~Outside
  BY DEF In
<1>3. In("body") \/ In("catch") => /\ CurrentFrame(ctx).reason = DONT
                                 /\ Len(ctx.exceptions) = 0
                                 /\ HasFrame(ctx)
                                 /\ Len(ctx.frames) = Depth
  <2>1. "finally" # "body" /\ "finally" # "catch"
    OBVIOUS
  <2> QED BY <1>2, <2>1, CurrentIsTop DEF Unwinding, In
<1>4. CASE OpenTry
  BY <1>4, OpenUnwinds
<1>5. CASE EndBody
  <2>1. Last(blocks) \in Block /\ ~Outside /\ In("body")
    BY <1>2, <1>5, TopBlock DEF EndBody
  <2>2. [Last(blocks) EXCEPT !.phase = PhaseAfter(ctx')] \in Block
    BY <2>1, PhaseAfterType DEF Block
  <2> DEFINE d == StopTrying(ctx)
  <2>3. /\ d.exceptions = ctx.exceptions
        /\ \A i \in 1 .. Depth - 1 : d.frames[i] = ctx.frames[i]
        /\ CurrentFrame(d).reason = CurrentFrame(ctx).reason
    BY <1>1, <1>3, <2>1, StopTryingFacts
  <2>4. ctx' = d /\ blocks' = WithTop([Last(blocks) EXCEPT !.phase = PhaseAfter(ctx')])
    BY <1>5 DEF EndBody
  <2> HIDE DEF d
  <2> QED BY <1>3, <2>1, <2>2, <2>3, <2>4, QuietStep
<1>6. CASE BreakBody
  <2>1. Last(blocks) \in Block /\ ~Outside
    BY <1>2, <1>6, TopBlock DEF BreakBody
  <2>2. [Last(blocks) EXCEPT !.phase = "finally"] \in Block
    BY <2>1 DEF Block, Phase
  <2> QED BY <1>3, <1>6, <2>1, <2>2, QuietStep DEF BreakBody
<1>7. CASE ThrowNew
  <2>1. PICK e \in Exc : Go(Throw(ctx, e), New(cause, e, NoExc), blocks)
    BY <1>7 DEF ThrowNew
  <2>2. New(cause, e, NoExc) \in Heap
    BY <1>1, NewType
  <2>3. ~Outside
    BY <1>2, <1>7 DEF ThrowNew, MayThrow, WellNested
  <2> QED BY <2>1, <2>2, <2>3, ThrowUnwinds
<1>8. CASE Rethrow
  <2>1. PICK e \in Exc : Go(Throw(ctx, e), New(cause, e, Last(blocks).var), blocks)
    BY <1>8 DEF Rethrow
  <2>2. Last(blocks).var \in Exc \cup {NoExc} /\ ~Outside
    BY <1>2, <1>8, TopBlock DEF Rethrow, InCatchHolding, Block
  <2>3. New(cause, e, Last(blocks).var) \in Heap
    BY <1>1, <2>2, NewType
  <2> QED BY <2>1, <2>2, <2>3, ThrowUnwinds
<1>9. CASE RethrowSame
  <2>1. Last(blocks).var \in Exc /\ ~Outside
    BY <1>2, <1>9, TopBlock DEF RethrowSame, InCatchHolding, Block
  <2> QED BY <1>1, <1>9, <2>1, ThrowUnwinds DEF RethrowSame
<1>10. ASSUME NEW type \in Types, CatchHit(type) PROVE Unwinding'
  BY <1>10, CatchUnwinds
<1>11. CASE CatchDone
  <2>1. Last(blocks) \in Block /\ ~Outside
    BY <1>2, <1>11, TopBlock DEF CatchDone, InCatchHolding
  <2>2. [Last(blocks) EXCEPT !.phase = "finally", !.var = NoExc] \in Block
    BY <2>1 DEF Block, Phase
  <2> QED BY <1>3, <1>11, <2>1, <2>2, QuietStep DEF CatchDone, InCatchHolding
<1>12. CASE ReleaseException
  <2>1. PICK i \in DOMAIN blocks :
          /\ blocks' = [blocks EXCEPT ![i] = [@ EXCEPT !.var = NoExc]]
          /\ UNCHANGED ctx
    BY <1>12 DEF ReleaseException
  <2>2. blocks[i] \in Block /\ i \in 1 .. Len(blocks)
    BY <1>1, ElementOfSeq, LenProperties
  <2>3. /\ [blocks[i] EXCEPT !.var = NoExc] \in Block
        /\ [blocks[i] EXCEPT !.var = NoExc].phase = blocks[i].phase
    BY <2>2 DEF Block
  <2>4. blocks' = [blocks EXCEPT ![i] = [blocks[i] EXCEPT !.var = NoExc]]
    BY <2>1
  <2>5. /\ Len(blocks') = Len(blocks)
        /\ \A j \in 1 .. Len(blocks) : blocks'[j].phase = blocks[j].phase
    BY <1>1, <2>2, <2>3, <2>4, ExceptSeq
  <2>6. ~Outside /\ Len(blocks) \in 1 .. Len(blocks)
    BY <1>1, <2>2, EmptySeq, LenProperties DEF Outside
  <2>7. Last(blocks').phase = Last(blocks).phase
    BY <2>5, <2>6 DEF Last
  <2>8. Depth' = Depth
    BY <2>5 DEF Depth
  <2>9. In("finally") => In("finally")'
    <3>1. Len(blocks') # 0
      BY <2>5, <2>6
    <3>2. blocks' # << >>
      BY <3>1, EmptySeq
    <3> QED BY <2>7, <3>2 DEF In, Outside
  <2> QED BY <2>1, <2>6, <2>8, <2>9 DEF Unwinding
<1>13. CASE BreakCatch
  <2>1. Last(blocks) \in Block /\ ~Outside
    BY <1>2, <1>13, TopBlock DEF BreakCatch
  <2>2. [Last(blocks) EXCEPT !.phase = "finally"] \in Block
    BY <2>1 DEF Block, Phase
  <2> QED BY <1>3, <1>13, <2>1, <2>2, QuietStep DEF BreakCatch
<1>14. CASE ReturnFromCatch
  BY <1>14 DEF ReturnFromCatch, WellNested
<1>15. CASE EndFinally
  BY <1>15, FinallyUnwinds
<1>16. CASE UNCHANGED vars
  BY <1>16 DEF vars, Unwinding, Depth, Outside, In
<1> QED BY <1>4, <1>5, <1>6, <1>7, <1>8, <1>9, <1>10, <1>11, <1>12, <1>13, <1>14, <1>15, <1>16
        DEF Next

LEMMA UnwindingInvariant == WellNested => (Spec => []UnwindingInv)
<1> SUFFICES ASSUME WellNested PROVE Spec => []UnwindingInv
  OBVIOUS
<1>1. NoReturn
  BY DEF WellNested, NoReturn
<1>2. Init => UnwindingInv
  <2> SUFFICES ASSUME Init PROVE UnwindingInv
    OBVIOUS
  <2>1. Outside /\ Depth = 0
    BY EmptySeq DEF Init, Outside, Depth
  <2> QED BY <2>1, InitType, InitMatches DEF UnwindingInv, Unwinding
<1>3. UnwindingInv /\ [Next]_vars => UnwindingInv'
  BY <1>1, NextType, NextMatches, NextUnwinds DEF UnwindingInv
<1> QED BY <1>2, <1>3, PTL DEF Spec

\* In a program that opens no block while an exception is in flight and does not
\* return out of a "catch", what the frame says and what the list holds agree: in
\* "finally" the frame unwinds exactly when one exception is in flight, and no
\* "try" or "catch" code runs with one.
THEOREM UnwindingAlwaysMatches == WellNested => (Spec => []UnwindingMatches)
<1>1. UnwindingInv => UnwindingMatches
  BY DEF UnwindingInv, Unwinding, UnwindingMatches
<1> QED BY <1>1, UnwindingInvariant, PTL

-----------------------------------------------------------------------------
(* The exception that is thrown *)

\* No exception in flight may take the place of one that is thrown.
ThrowsAlone == WellNested /\ "throwInFinally" \notin Usage

\* Where nothing was in flight, the exception that is thrown is alone in the list after
\* the jump, for the "try" that it lands in keeps the first one.
LEMMA ThrownLands ==
  ASSUME TypeOK, ctx.exceptions = << >>, NEW e \in Exc, NEW h, Go(Throw(ctx, e), h, blocks)
  PROVE  ub' \/ e \in ToSet(ctx'.exceptions)
<1> DEFINE r == Throw(ctx, e)
<1>1. r \in JumpResult /\ r.ctx.exceptions = Append(ctx.exceptions, e)
  BY ThrowFacts DEF TypeOK
<1> HIDE DEF r
<1>2. r.ctx.exceptions = <<e>>
  <2>1. Append(<< >>, e) = <<e>>
    OBVIOUS
  <2> QED BY <1>1, <2>1
<1>3. Go(r, h, blocks)
  BY DEF r
<1>4. HasExceptions(r.ctx) /\ r.ctx.exceptions[1] = e
  BY <1>2 DEF HasExceptions
<1>5. CASE ctx' = r.ctx
  BY <1>2, <1>5 DEF ToSet
<1>6. ASSUME NEW i \in DOMAIN blocks, blocks[i].jmp = r.to, ctx' = Try(r.ctx, r.to, r.why)
      PROVE  e \in ToSet(ctx'.exceptions)
  <2>1. r.to \in JmpBufs
    <3>1. blocks[i] \in Block
      BY <1>6, ElementOfSeq, LenProperties DEF TypeOK
    <3> QED BY <1>6, <3>1 DEF Block
  <2>2. r.ctx \in Context /\ r.why \in JumpReason
    BY <1>1 DEF JumpResult
  <2>3. ctx'.exceptions = <<e>>
    BY <1>2, <1>4, <1>6, <2>1, <2>2, TryFacts
  <2> QED BY <2>3 DEF ToSet
<1> QED BY <1>3, <1>5, <1>6 DEF Go

\* In a program that opens no block while an exception is in flight, throws none in a
\* "finally" itself, and does not return out of a "catch", a thrown exception is the one
\* in flight after the throw: nothing that the macros do on the way drops it.
THEOREM AlwaysInFlight == ThrowsAlone => (Spec => ThrownIsInFlight)
<1> SUFFICES ASSUME ThrowsAlone PROVE Spec => ThrownIsInFlight
  OBVIOUS
<1>1. Spec => []UnwindingInv
  BY UnwindingInvariant DEF ThrowsAlone
<1>2. UnwindingInv => [ThrowNew => ub' \/ \E e \in Exc \ Live : e \in ToSet(ctx'.exceptions)]_vars
  <2> SUFFICES ASSUME UnwindingInv, ThrowNew
               PROVE  ub' \/ \E e \in Exc \ Live : e \in ToSet(ctx'.exceptions)
    OBVIOUS
  <2>1. In("body") \/ In("catch")
    BY DEF ThrowNew, MayThrow, ThrowsAlone, WellNested
  <2>2. ctx.exceptions = << >>
    <3>1. Len(ctx.exceptions) = 0
      <4>1. "finally" # "body" /\ "finally" # "catch"
        OBVIOUS
      <4> QED BY <2>1, <4>1 DEF UnwindingInv, Unwinding, In
    <3> QED BY <3>1, EmptySeq DEF UnwindingInv, TypeOK, Context
  <2>3. PICK e \in Exc \ Live : Go(Throw(ctx, e), New(cause, e, NoExc), blocks)
    BY DEF ThrowNew
  <2>4. ub' \/ e \in ToSet(ctx'.exceptions)
    BY <2>2, <2>3, ThrownLands DEF UnwindingInv
  <2> QED BY <2>4
<1> QED BY <1>1, <1>2, PTL DEF Spec, ThrownIsInFlight
-----------------------------------------------------------------------------
(* The oldest exception *)

\* The list still begins with the exception it began with, or a variable has it.
Survives == \/ HasExceptions(ctx') /\ ctx'.exceptions[1] = ctx.exceptions[1]
            \/ \E i \in DOMAIN blocks' : blocks'[i].var = ctx.exceptions[1]

\* Wherever control goes after a call that kept the oldest exception, it survives:
\* the "try" of the block that is jumped to clears all the others.
LEMMA GoSurvives ==
  ASSUME TypeOK, NEW r \in JumpResult, NEW h \in Heap, NEW rest, Go(r, h, rest), HasExceptions(ctx),
         HasExceptions(r.ctx), r.ctx.exceptions[1] = ctx.exceptions[1]
  PROVE  Survives
<1>1. CASE ctx' = r.ctx
  BY <1>1 DEF Survives
<1>2. CASE \E i \in DOMAIN blocks : blocks[i].jmp = r.to /\ ctx' = Try(r.ctx, r.to, r.why)
  <2> DEFINE d == Try(r.ctx, r.to, r.why)
  <2>1. PICK i \in DOMAIN blocks : blocks[i].jmp = r.to
    BY <1>2
  <2>2. r.to \in JmpBufs
    <3>1. blocks[i] \in Block
      BY <2>1, ElementOfSeq, LenProperties DEF TypeOK
    <3> QED BY <2>1, <3>1 DEF Block
  <2>3. r.ctx \in Context /\ r.why \in JumpReason
    BY DEF JumpResult
  <2>4. d.exceptions = r.ctx.exceptions \/ d.exceptions = <<r.ctx.exceptions[1]>>
    BY <2>2, <2>3, TryFacts
  <2>5. ctx' = d
    BY <1>2
  <2> HIDE DEF d
  <2>6. HasExceptions(d) /\ d.exceptions[1] = r.ctx.exceptions[1]
    BY <2>4 DEF HasExceptions
  <2> QED BY <2>5, <2>6 DEF Survives
<1>3. CASE UNCHANGED ctx
  BY <1>3 DEF Survives
<1> QED BY <1>1, <1>2, <1>3 DEF Go

\* A throw adds to the end of the list.
LEMMA ThrowSurvives ==
  ASSUME TypeOK, NEW e \in Exc, NEW h \in Heap, Go(Throw(ctx, e), h, blocks), HasExceptions(ctx)
  PROVE  Survives
<1> DEFINE r == Throw(ctx, e)
<1>1. ctx \in Context /\ ctx.exceptions \in Seq(Exc)
  BY DEF TypeOK, Context
<1>2. r \in JumpResult /\ r.ctx.exceptions = Append(ctx.exceptions, e)
  BY <1>1, ThrowFacts
<1> HIDE DEF r
<1>3. Len(ctx.exceptions) \in Nat \ {0}
  BY <1>1, FrontFacts DEF HasExceptions
<1>4. HasExceptions(r.ctx) /\ r.ctx.exceptions[1] = ctx.exceptions[1]
  BY <1>1, <1>2, <1>3, AppendProperties DEF HasExceptions
<1>5. Go(r, h, blocks)
  BY DEF r
<1> QED BY <1>2, <1>4, <1>5, GoSurvives

\* Taking a later exception off the list leaves the first one there.
LEMMA RemoveLater ==
  ASSUME NEW S, NEW s \in Seq(S), NEW i \in 1 .. Len(s), i # 1
  PROVE  RemoveAt(s, i) # << >> /\ RemoveAt(s, i)[1] = s[1]
<1> DEFINE f == SubSeq(s, 1, i - 1)
           g == SubSeq(s, i + 1, Len(s))
<1>1. i - 1 \in Nat \ {0} /\ i - 1 <= Len(s) /\ Len(s) \in Nat
  BY LenProperties
<1>2. f \in Seq(S) /\ Len(f) = i - 1 /\ f[1] = s[1]
  BY <1>1, PrefixFacts
<1>3. g \in Seq(S)
  BY <1>1
<1> HIDE DEF f, g
<1>4. Len(f \o g) # 0 /\ (f \o g)[1] = f[1]
  BY <1>1, <1>2, <1>3
<1>5. RemoveAt(s, i) = f \o g
  BY DEF RemoveAt, f, g
<1>6. f \o g # << >>
  BY <1>4, EmptySeq
<1> QED BY <1>2, <1>4, <1>5, <1>6

\* What "catch" takes off the list is in the variable of its block.
LEMMA CatchSurvives ==
  ASSUME TypeOK, Matching, NEW type \in Types, CatchHit(type), HasExceptions(ctx)
  PROVE  Survives
<1> DEFINE r == Catch(ctx, type)
           b == [Last(blocks) EXCEPT !.phase = "catch", !.var = r.caught, !.handled = TRUE]
<1>1. /\ ~Outside /\ r.caught # NoExc /\ ctx' = r.ctx /\ blocks' = WithTop(b)
  BY DEF CatchHit, In
<1>2. HasFrame(ctx) /\ ctx \in Context /\ ctx.exceptions \in Seq(Exc)
  BY <1>1, CurrentIsTop DEF Context
<1>3. /\ r.caught \in Exc \cup {NoExc}
      /\ \E i \in 1 .. Len(ctx.exceptions) : /\ r.caught = ctx.exceptions[i]
                                             /\ r.ctx.exceptions = RemoveAt(ctx.exceptions, i)
  BY <1>1, <1>2, CatchFacts
<1> HIDE DEF r
<1>4. PICK i \in 1 .. Len(ctx.exceptions) : /\ r.caught = ctx.exceptions[i]
                                            /\ r.ctx.exceptions = RemoveAt(ctx.exceptions, i)
  BY <1>3
<1>5. Last(blocks) \in Block /\ Depth \in DOMAIN blocks
  BY <1>1, TopBlock
<1>6. b.var = r.caught
  BY <1>5 DEF Block
<1> HIDE DEF b
<1>7. CASE i = 1
  <2>1. Depth \in DOMAIN blocks' /\ blocks'[Depth] = b
    BY <1>1, <1>5 DEF WithTop
  <2> QED BY <1>4, <1>6, <1>7, <2>1 DEF Survives
<1>8. CASE i # 1
  <2>1. HasExceptions(r.ctx) /\ r.ctx.exceptions[1] = ctx.exceptions[1]
    BY <1>2, <1>4, <1>8, RemoveLater DEF HasExceptions
  <2> QED BY <1>1, <2>1 DEF Survives
<1> QED BY <1>7, <1>8

\* Unless the program returns out of a "catch", the exception that is first in the
\* list stays there, or goes to the variable of a "catch", at every step: also when
\* a "finally", or what it calls, throws others meanwhile.
THEOREM OldestAlwaysKept == NoReturn => (Spec => OldestKept)
<1> SUFFICES ASSUME NoReturn PROVE Spec => OldestKept
  OBVIOUS
<1> DEFINE A == HasExceptions(ctx) =>
                  \/ HasExceptions(ctx') /\ ctx'.exceptions[1] = ctx.exceptions[1]
                  \/ \E i \in DOMAIN blocks' : blocks'[i].var = ctx.exceptions[1]
<1>1. MatchingInv /\ [Next]_vars => [A]_vars
  <2> SUFFICES ASSUME TypeOK, Matching, [Next]_vars, HasExceptions(ctx) PROVE Survives
    BY DEF MatchingInv, Survives
  <2>1. ctx \in Context /\ cause \in Heap
    BY DEF TypeOK, Heap
  <2>2. CASE UNCHANGED ctx
    BY <2>2 DEF Survives
  <2>3. CASE OpenTry
    <3>1. PICK jmp \in JmpBufs : ctx' = Try(ctx, jmp, DONT)
      BY <2>3 DEF OpenTry
    <3>2. Try(ctx, jmp, DONT).exceptions = ctx.exceptions
      BY <2>1, TryFacts DEF JumpReason
    <3> QED BY <3>1, <3>2 DEF Survives, HasExceptions
  <2>4. CASE EndBody
    <3>1. ctx' = StopTrying(ctx)
      BY <2>4 DEF EndBody
    <3>2. StopTrying(ctx).exceptions = ctx.exceptions
      BY <2>1, StopTryingFacts
    <3> QED BY <3>1, <3>2 DEF Survives, HasExceptions
  <2>5. CASE ThrowNew
    <3>1. PICK e \in Exc \ Live : Go(Throw(ctx, e), New(cause, e, NoExc), blocks)
      BY <2>5 DEF ThrowNew
    <3>2. New(cause, e, NoExc) \in Heap
      BY <2>1, NewType
    <3> QED BY <3>1, <3>2, ThrowSurvives
  <2>6. ASSUME InCatchHolding PROVE Last(blocks).var \in Exc
    BY <2>6, TopBlock DEF InCatchHolding, In, Block
  <2>7. CASE Rethrow
    <3>1. PICK e \in Exc \ Live : Go(Throw(ctx, e), New(cause, e, Last(blocks).var), blocks)
      BY <2>7 DEF Rethrow
    <3>2. New(cause, e, Last(blocks).var) \in Heap
      BY <2>1, <2>6, <2>7, NewType DEF Rethrow
    <3> QED BY <3>1, <3>2, ThrowSurvives
  <2>8. CASE RethrowSame
    BY <2>1, <2>6, <2>8, ThrowSurvives DEF RethrowSame
  <2>9. ASSUME NEW type \in Types, CatchHit(type) PROVE Survives
    BY <2>9, CatchSurvives
  <2>10. CASE EndFinally
    <3> DEFINE r == FinallyDone(ctx)
    <3>1. HasFrame(ctx)
      BY <2>10, FrameIffInside DEF EndFinally, In
    <3>2. r \in JumpResult /\ r.ctx.exceptions = ctx.exceptions
      BY <2>1, <3>1, FinallyDoneFacts
    <3>3. Go(r, cause, Front(blocks))
      BY <2>10 DEF EndFinally
    <3> HIDE DEF r
    <3>4. HasExceptions(r.ctx)
      BY <3>2 DEF HasExceptions
    <3> QED BY <2>1, <3>2, <3>3, <3>4, GoSurvives
  <2>11. BreakBody \/ CatchDone \/ ReleaseException \/ BreakCatch \/ ReturnFromCatch \/ UNCHANGED vars
           => UNCHANGED ctx
    BY DEF BreakBody, CatchDone, ReleaseException, BreakCatch, ReturnFromCatch, vars
  <2> QED BY <2>2, <2>3, <2>4, <2>5, <2>7, <2>8, <2>9, <2>10, <2>11 DEF Next
<1> QED BY <1>1, MatchingInvariant, PTL DEF Spec, OldestKept

-----------------------------------------------------------------------------
(* Ownership *)

\* Exceptions of the list and of the variables are allocated, each has one owner,
\* and an exception that is a cause has no cause and no other owner.
Owned(list, bs, heap) ==
  /\ \A i, j \in 1 .. Len(list) : list[i] = list[j] => i = j
  /\ \A i, j \in 1 .. Len(bs) : bs[i].var \in Exc /\ bs[i].var = bs[j].var => i = j
  /\ \A i \in 1 .. Len(list), j \in 1 .. Len(bs) : list[i] # bs[j].var
  /\ \A i \in 1 .. Len(list) : heap[list[i]] # Free
  /\ \A i \in 1 .. Len(bs) : bs[i].var \in Exc => heap[bs[i].var] # Free
  /\ \A x, y \in Exc : heap[x] \in Exc /\ heap[x] = heap[y] => x = y
  /\ \A x \in Exc : heap[x] \in Exc =>
        /\ heap[heap[x]] = NoExc
        /\ \A i \in 1 .. Len(list) : list[i] # heap[x]
        /\ \A i \in 1 .. Len(bs) : bs[i].var # heap[x]

\* The blocks of bs are some of those of `old`, with the variables they have there
\* or none.
Fewer(bs, old) == /\ Len(bs) <= Len(old)
                  /\ \A i \in 1 .. Len(bs) : bs[i].var = old[i].var \/ bs[i].var = NoExc

\* Losing a variable gives no exception a second owner.
LEMMA FewerOwned ==
  ASSUME NEW list \in Seq(Exc), NEW bs \in Seq(Block), NEW old \in Seq(Block), NEW heap \in Heap,
         Fewer(bs, old), Owned(list, old, heap)
  PROVE  Owned(list, bs, heap)
<1>1. Len(bs) \in Nat /\ Len(old) \in Nat /\ NoExc \notin Exc
  BY LenProperties, ContextAssumption
<1>2. \A i \in 1 .. Len(bs) : i \in 1 .. Len(old)
  BY <1>1 DEF Fewer
<1>3. \A i \in 1 .. Len(list) : list[i] \in Exc
  BY ElementOfSeq
<1>4. \A i \in 1 .. Len(bs) : i \in 1 .. Len(old) /\ (bs[i].var = old[i].var \/ bs[i].var = NoExc)
  BY <1>2 DEF Fewer
<1>5. \A i, j \in 1 .. Len(bs) : bs[i].var \in Exc /\ bs[i].var = bs[j].var => i = j
  BY <1>1, <1>4 DEF Owned
<1>6. \A i \in 1 .. Len(list), j \in 1 .. Len(bs) : list[i] # bs[j].var
  BY <1>1, <1>3, <1>4 DEF Owned
<1>7. \A i \in 1 .. Len(bs) : bs[i].var \in Exc => heap[bs[i].var] # Free
  BY <1>1, <1>4 DEF Owned
<1>8. \A x \in Exc : heap[x] \in Exc => \A i \in 1 .. Len(bs) : bs[i].var # heap[x]
  BY <1>1, <1>4 DEF Owned
<1> QED BY <1>5, <1>6, <1>7, <1>8 DEF Owned

\* Clearing all but the first exception frees the others, whole.
LEMMA ClearedOwned ==
  ASSUME NEW list \in Seq(Exc), list # << >>, NEW bs \in Seq(Block), NEW heap \in Heap,
         Owned(list, bs, heap), NEW S, S = ToSet(list) \ ToSet(<<list[1]>>)
  PROVE  Owned(<<list[1]>>, bs, Release(heap, S)) /\ ~Corrupts(heap, S)
<1>1. Len(list) \in Nat \ {0} /\ 1 \in 1 .. Len(list) /\ DOMAIN list = 1 .. Len(list)
  BY LenProperties, EmptySeq
<1>2. \A i \in 1 .. Len(list) : list[i] \in Exc
  BY ElementOfSeq
<1>3. \A e \in S : \E i \in 1 .. Len(list) : i # 1 /\ e = list[i]
  BY <1>1 DEF ToSet
<1>4. Free \notin Exc /\ NoExc \notin Exc /\ Free # NoExc
  BY ContextAssumption, UsageAssumption
<1>5. S \subseteq Exc
  BY <1>2, <1>3
<1>6. \A e \in S : heap[e] \in Exc \cup {NoExc}
  BY <1>2, <1>3 DEF Owned, Heap
<1>7. ~Corrupts(heap, S)
  BY <1>4, <1>5, <1>6 DEF Corrupts, Owned
<1> DEFINE g == Release(heap, S)
<1>8. \A x \in Exc : /\ g[x] = heap[x] \/ g[x] = Free
                     /\ g[x] = Free => heap[x] = Free \/ x \in S \/ \E e \in S : x = heap[e]
                     /\ x \in S => g[x] = Free
                     /\ (\E e \in S : x = heap[e]) => g[x] = Free
  BY DEF Release, Freed
<1> HIDE DEF g
<1>9. list[1] \in Exc /\ list[1] \notin S /\ \A e \in S : heap[e] # list[1]
  BY <1>1, <1>2, <1>3, <1>5, <1>6 DEF Owned
<1>10. \A i \in 1 .. Len(bs) : bs[i].var \in Exc =>
           bs[i].var \notin S /\ \A e \in S : heap[e] # bs[i].var
  BY <1>3, <1>5, <1>6 DEF Owned
<1>11. Len(<<list[1]>>) = 1 /\ \A i \in 1 .. 1 : i = 1 /\ <<list[1]>>[i] = list[1]
  OBVIOUS
<1>12. g[list[1]] # Free
  BY <1>1, <1>8, <1>9 DEF Owned
<1>13. \A i \in 1 .. Len(bs) : bs[i].var \in Exc => g[bs[i].var] # Free
  BY <1>8, <1>10 DEF Owned
<1>14. \A x \in Exc : g[x] \in Exc => g[x] = heap[x] /\ x \notin S /\ heap[x] \in Exc
  BY <1>4, <1>8
<1>15. \A x \in Exc : g[x] \in Exc => g[g[x]] = NoExc
  <2> SUFFICES ASSUME NEW x \in Exc, g[x] \in Exc PROVE g[g[x]] = NoExc
    OBVIOUS
  <2>1. g[x] = heap[x] /\ x \notin S /\ heap[heap[x]] = NoExc
    BY <1>14 DEF Owned
  <2>2. heap[x] \notin S
    BY <1>3, <2>1 DEF Owned
  <2>3. \A e \in S : heap[e] # heap[x]
    BY <1>5, <2>1 DEF Owned
  <2> QED BY <1>4, <1>8, <2>1, <2>2, <2>3
<1>16. Owned(<<list[1]>>, bs, g)
  BY <1>1, <1>9, <1>11, <1>12, <1>13, <1>14, <1>15 DEF Owned
<1> QED BY <1>7, <1>16 DEF g

\* The blocks of bs are those of `old`, but block i has no exception any more.
Dropped(bs, old, i) ==
  /\ Len(bs) = Len(old)
  /\ \A j \in 1 .. Len(old) : bs[j].var = IF j = i THEN NoExc ELSE old[j].var

LEMMA DroppedFewer ==
  ASSUME NEW bs \in Seq(Block), NEW old \in Seq(Block), NEW i, Dropped(bs, old, i)
  PROVE  Fewer(bs, old)
BY LenProperties DEF Dropped, Fewer

\* Freeing the exception of one variable frees no other one that has an owner.
LEMMA ReleasedOwned ==
  ASSUME NEW list \in Seq(Exc), NEW bs \in Seq(Block), NEW old \in Seq(Block), NEW heap \in Heap,
         NEW i \in 1 .. Len(old), old[i].var \in Exc, Dropped(bs, old, i),
         Owned(list, old, heap)
  PROVE  Owned(list, bs, Release(heap, {old[i].var})) /\ ~Corrupts(heap, {old[i].var})
<1> DEFINE v == old[i].var
           g == Release(heap, {v})
<1>1. Owned(list, bs, heap)
  BY DroppedFewer, FewerOwned
<1>2. \A j \in 1 .. Len(list) : list[j] \in Exc
  BY ElementOfSeq
<1>3. Free \notin Exc /\ NoExc \notin Exc /\ Free # NoExc
  BY ContextAssumption, UsageAssumption
<1>4. v \in Exc /\ heap[v] \in Exc \cup {NoExc} /\ (heap[v] \in Exc => heap[heap[v]] = NoExc)
  BY DEF Owned, Heap
<1>5. ~Corrupts(heap, {v})
  BY <1>3, <1>4 DEF Corrupts
<1>6. \A x \in Exc : g[x] = IF x = v \/ x = heap[v] THEN Free ELSE heap[x]
  BY DEF Release, Freed
<1> HIDE DEF g
<1>7. \A j \in 1 .. Len(list) : list[j] # v /\ list[j] # heap[v]
  BY <1>2, <1>3, <1>4 DEF Owned
<1>8. \A j \in 1 .. Len(bs) : bs[j].var \in Exc => bs[j].var # v /\ bs[j].var # heap[v]
  <2> SUFFICES ASSUME NEW j \in 1 .. Len(bs), bs[j].var \in Exc
               PROVE  bs[j].var # v /\ bs[j].var # heap[v]
    OBVIOUS
  <2>1. j \in 1 .. Len(old) /\ j # i /\ bs[j].var = old[j].var
    BY <1>3 DEF Dropped
  <2> QED BY <2>1, <1>4 DEF Owned
<1> HIDE DEF v
<1>9. \A j \in 1 .. Len(list) : g[list[j]] # Free
  BY <1>2, <1>6, <1>7 DEF Owned
<1>10. \A j \in 1 .. Len(bs) : bs[j].var \in Exc => g[bs[j].var] # Free
  BY <1>1, <1>6, <1>8 DEF Owned
<1>11. \A x \in Exc : g[x] \in Exc => g[x] = heap[x] /\ x # v
  BY <1>3, <1>6
<1>12. \A x \in Exc : g[x] \in Exc => g[g[x]] = NoExc
  <2> SUFFICES ASSUME NEW x \in Exc, g[x] \in Exc PROVE g[g[x]] = NoExc
    OBVIOUS
  <2>1. g[x] = heap[x] /\ x # v /\ heap[heap[x]] = NoExc
    BY <1>11 DEF Owned
  <2>2. heap[x] # v
    BY <1>11 DEF Owned, v
  <2>3. heap[x] # heap[v]
    BY <1>4, <1>11, <2>1 DEF Owned
  <2> QED BY <1>6, <2>1, <2>2, <2>3
<1>13. \A x, y \in Exc : g[x] \in Exc /\ g[x] = g[y] => x = y
  BY <1>11 DEF Owned
<1>14. \A x \in Exc : g[x] \in Exc => /\ \A j \in 1 .. Len(list) : list[j] # g[x]
                                     /\ \A j \in 1 .. Len(bs) : bs[j].var # g[x]
  BY <1>1, <1>11 DEF Owned
<1>15. Owned(list, bs, g)
  BY <1>1, <1>9, <1>10, <1>12, <1>13, <1>14 DEF Owned
<1> QED BY <1>5, <1>15 DEF g, v

\* The elements of a sequence with one more at its end
LEMMA AppendElements ==
  ASSUME NEW list \in Seq(Exc), NEW e \in Exc
  PROVE  /\ Append(list, e) \in Seq(Exc)
         /\ Len(list) \in Nat /\ Len(Append(list, e)) = Len(list) + 1
         /\ \A i \in 1 .. Len(list) + 1 :
               \/ i = Len(list) + 1 /\ Append(list, e)[i] = e
               \/ i \in 1 .. Len(list) /\ Append(list, e)[i] = list[i]
BY AppendProperties, LenProperties

\* An exception without an owner gets one: the list.
LEMMA AppendOwned ==
  ASSUME NEW list \in Seq(Exc), NEW bs \in Seq(Block), NEW heap \in Heap, NEW e \in Exc,
         Owned(list, bs, heap), heap[e] # Free,
         \A i \in 1 .. Len(list) : list[i] # e,
         \A i \in 1 .. Len(bs) : bs[i].var # e,
         \A x \in Exc : heap[x] # e
  PROVE  Owned(Append(list, e), bs, heap)
<1> DEFINE t == Append(list, e)
<1>1. /\ Len(list) \in Nat /\ Len(t) = Len(list) + 1
      /\ \A i \in 1 .. Len(list) + 1 : \/ i = Len(list) + 1 /\ t[i] = e
                                       \/ i \in 1 .. Len(list) /\ t[i] = list[i]
  BY AppendElements
<1> HIDE DEF t
<1>2. \A i, j \in 1 .. Len(t) : t[i] = t[j] => i = j
  BY <1>1 DEF Owned
<1>3. \A i \in 1 .. Len(t), j \in 1 .. Len(bs) : t[i] # bs[j].var
  BY <1>1 DEF Owned
<1>4. \A i \in 1 .. Len(t) : heap[t[i]] # Free
  BY <1>1 DEF Owned
<1>5. \A x \in Exc : heap[x] \in Exc => \A i \in 1 .. Len(t) : t[i] # heap[x]
  BY <1>1 DEF Owned
<1> QED BY <1>2, <1>3, <1>4, <1>5 DEF Owned, t

\* A new exception has no owner yet, and takes over the one that becomes its cause.
LEMMA NewOwned ==
  ASSUME NEW list \in Seq(Exc), NEW bs \in Seq(Block), NEW heap \in Heap,
         NEW e \in Exc, heap[e] = Free, NEW c \in Exc \cup {NoExc}, Owned(list, bs, heap),
         c \in Exc => /\ heap[c] = NoExc
                      /\ \A i \in 1 .. Len(list) : list[i] # c
                      /\ \A i \in 1 .. Len(bs) : bs[i].var # c
                      /\ \A x \in Exc : heap[x] # c
  PROVE  Owned(Append(list, e), bs, New(heap, e, c))
<1> DEFINE g == New(heap, e, c)
<1>1. Free \notin Exc /\ NoExc \notin Exc /\ Free # NoExc
  BY ContextAssumption, UsageAssumption
<1>2. \A i \in 1 .. Len(list) : list[i] \in Exc
  BY ElementOfSeq
<1>3. \A x \in Exc : g[x] = IF x = e THEN c ELSE heap[x]
  BY DEF New, Heap
<1>4. g \in Heap
  BY NewType
<1> HIDE DEF g
<1>5. /\ \A i \in 1 .. Len(list) : list[i] # e
      /\ \A i \in 1 .. Len(bs) : bs[i].var # e
      /\ \A x \in Exc : heap[x] # e
  <2>1. \A x \in Exc : heap[x] # e
    BY <1>1 DEF Owned
  <2> QED BY <1>2, <2>1 DEF Owned
<1>6. e # c
  BY <1>1
<1>7. \A i \in 1 .. Len(list) : g[list[i]] = heap[list[i]]
  BY <1>2, <1>3, <1>5
<1>8. \A i \in 1 .. Len(bs) : bs[i].var \in Exc => g[bs[i].var] = heap[bs[i].var]
  BY <1>3, <1>5
<1>9. \A x, y \in Exc : g[x] \in Exc /\ g[x] = g[y] => x = y
  BY <1>3 DEF Owned
<1>10. \A x \in Exc : g[x] \in Exc =>
          /\ g[g[x]] = NoExc
          /\ \A i \in 1 .. Len(list) : list[i] # g[x]
          /\ \A i \in 1 .. Len(bs) : bs[i].var # g[x]
  <2> SUFFICES ASSUME NEW x \in Exc, g[x] \in Exc
               PROVE  /\ g[g[x]] = NoExc
                      /\ \A i \in 1 .. Len(list) : list[i] # g[x]
                      /\ \A i \in 1 .. Len(bs) : bs[i].var # g[x]
    OBVIOUS
  <2>1. CASE x = e
    BY <1>3, <1>6, <2>1
  <2>2. CASE x # e
    BY <1>3, <1>5, <2>2 DEF Owned
  <2> QED BY <2>1, <2>2
<1>11. Owned(list, bs, g)
  BY <1>7, <1>8, <1>9, <1>10 DEF Owned
<1>12. g[e] # Free /\ \A x \in Exc : g[x] # e
  BY <1>1, <1>3, <1>5, <1>6
<1> QED BY <1>4, <1>5, <1>11, <1>12, AppendOwned DEF g

\* Throwing the exception of a variable moves it to the list.
LEMMA MovedOwned ==
  ASSUME NEW list \in Seq(Exc), NEW bs \in Seq(Block), NEW old \in Seq(Block), NEW heap \in Heap,
         NEW i \in 1 .. Len(old), NEW e \in Exc, old[i].var = e, Dropped(bs, old, i),
         Owned(list, old, heap)
  PROVE  Owned(Append(list, e), bs, heap)
<1>1. Owned(list, bs, heap)
  BY DroppedFewer, FewerOwned
<1>2. heap[e] # Free /\ \A j \in 1 .. Len(list) : list[j] # e
  BY DEF Owned
<1>3. \A j \in 1 .. Len(bs) : bs[j].var # e
  <2> SUFFICES ASSUME NEW j \in 1 .. Len(bs), bs[j].var = e PROVE FALSE
    OBVIOUS
  <2>1. j \in 1 .. Len(old) /\ j # i /\ old[j].var = e
    BY ContextAssumption DEF Dropped
  <2> QED BY <2>1 DEF Owned
<1>4. \A x \in Exc : heap[x] # e
  BY DEF Owned
<1> QED BY <1>1, <1>2, <1>3, <1>4, AppendOwned

\* A new exception takes over the exception of a variable as its cause.
LEMMA RethrownOwned ==
  ASSUME NEW list \in Seq(Exc), NEW bs \in Seq(Block), NEW old \in Seq(Block), NEW heap \in Heap,
         NEW i \in 1 .. Len(old), NEW c \in Exc, old[i].var = c, Dropped(bs, old, i),
         NEW e \in Exc, heap[e] = Free, heap[c] = NoExc,
         Owned(list, old, heap)
  PROVE  Owned(Append(list, e), bs, New(heap, e, c))
<1>1. Owned(list, bs, heap)
  BY DroppedFewer, FewerOwned
<1>2. \A j \in 1 .. Len(list) : list[j] # c
  BY DEF Owned
<1>3. \A j \in 1 .. Len(bs) : bs[j].var # c
  <2> SUFFICES ASSUME NEW j \in 1 .. Len(bs), bs[j].var = c PROVE FALSE
    OBVIOUS
  <2>1. j \in 1 .. Len(old) /\ j # i /\ old[j].var = c
    BY ContextAssumption DEF Dropped
  <2> QED BY <2>1 DEF Owned
<1>4. \A x \in Exc : heap[x] # c
  BY DEF Owned
<1> QED BY <1>1, <1>2, <1>3, <1>4, NewOwned

\* A sequence without its i-th element
LEMMA RemoveAtElements ==
  ASSUME NEW list \in Seq(Exc), NEW i \in 1 .. Len(list)
  PROVE  /\ RemoveAt(list, i) \in Seq(Exc)
         /\ Len(list) \in Nat /\ Len(RemoveAt(list, i)) = Len(list) - 1
         /\ \A j \in 1 .. Len(list) - 1 : RemoveAt(list, i)[j] = list[IF j < i THEN j ELSE j + 1]
<1>1. PICK n \in Nat : n = Len(list)
  BY LenProperties
<1>2. i \in 1 .. n
  BY <1>1
<1> DEFINE s == SubSeq(list, 1, i - 1)
           t == SubSeq(list, i + 1, n)
<1>3. /\ s \in Seq(Exc) /\ Len(s) = i - 1
      /\ \A j \in 1 .. i - 1 : s[j] = list[j]
  BY <1>1, <1>2, SubSeqProperties
<1>4. /\ t \in Seq(Exc) /\ Len(t) = n - i
      /\ \A j \in 1 .. n - i : t[j] = list[i + j]
  BY <1>1, <1>2, SubSeqProperties
<1>5. RemoveAt(list, i) = s \o t
  BY <1>1 DEF RemoveAt
<1> HIDE DEF s, t
<1>6. /\ s \o t \in Seq(Exc) /\ Len(s \o t) = n - 1
      /\ \A j \in 1 .. n - 1 : (s \o t)[j] = IF j <= Len(s) THEN s[j] ELSE t[j - Len(s)]
  BY <1>1, <1>2, <1>3, <1>4, ConcatProperties
<1>7. \A j \in 1 .. n - 1 : (s \o t)[j] = list[IF j < i THEN j ELSE j + 1]
  BY <1>1, <1>2, <1>3, <1>4, <1>6
<1> QED BY <1>1, <1>5, <1>6, <1>7

\* What a "catch" takes off the list becomes the exception of its variable.
LEMMA CaughtOwned ==
  ASSUME NEW list \in Seq(Exc), NEW bs \in Seq(Block), NEW old \in Seq(Block), NEW heap \in Heap,
         NEW i \in 1 .. Len(list), NEW n \in 1 .. Len(old), Len(bs) = Len(old),
         \A j \in 1 .. Len(old) : bs[j].var = IF j = n THEN list[i] ELSE old[j].var,
         Owned(list, old, heap)
  PROVE  Owned(RemoveAt(list, i), bs, heap)
<1> DEFINE t == RemoveAt(list, i)
           f(j) == IF j < i THEN j ELSE j + 1
<1>1. /\ Len(list) \in Nat /\ Len(t) = Len(list) - 1 /\ i \in 1 .. Len(list)
      /\ \A j \in 1 .. Len(list) - 1 : t[j] = list[f(j)]
  BY RemoveAtElements
<1>2. \A j \in 1 .. Len(list) - 1 : f(j) \in 1 .. Len(list) /\ f(j) # i
  BY <1>1
<1>3. \A j, k \in 1 .. Len(list) - 1 : f(j) = f(k) => j = k
  BY <1>1
<1>4. \A j \in 1 .. Len(list) : list[j] \in Exc
  BY ElementOfSeq
<1> HIDE DEF t, f
<1>5. \A j, k \in 1 .. Len(t) : t[j] = t[k] => j = k
  <2> SUFFICES ASSUME NEW j \in 1 .. Len(list) - 1, NEW k \in 1 .. Len(list) - 1, t[j] = t[k]
               PROVE  j = k
    BY <1>1
  <2>1. list[f(j)] = list[f(k)] /\ f(j) \in 1 .. Len(list) /\ f(k) \in 1 .. Len(list)
    BY <1>1, <1>2
  <2>2. f(j) = f(k)
    BY <2>1 DEF Owned
  <2> QED BY <1>3, <2>2
<1>6. \A j \in 1 .. Len(t) : \E k \in 1 .. Len(list) : k # i /\ t[j] = list[k]
  BY <1>1, <1>2
<1>7. \A j, k \in 1 .. Len(bs) : bs[j].var \in Exc /\ bs[j].var = bs[k].var => j = k
  BY DEF Owned
<1>8. \A j \in 1 .. Len(t), k \in 1 .. Len(bs) : t[j] # bs[k].var
  <2> SUFFICES ASSUME NEW j \in 1 .. Len(t), NEW k \in 1 .. Len(bs), t[j] = bs[k].var PROVE FALSE
    OBVIOUS
  <2>1. PICK l \in 1 .. Len(list) : l # i /\ t[j] = list[l]
    BY <1>6
  <2>2. CASE k = n
    BY <2>1, <2>2 DEF Owned
  <2>3. CASE k # n
    BY <2>1, <2>3 DEF Owned
  <2> QED BY <2>2, <2>3
<1>9. \A j \in 1 .. Len(t) : heap[t[j]] # Free
  BY <1>6 DEF Owned
<1>10. \A j \in 1 .. Len(bs) : bs[j].var \in Exc => heap[bs[j].var] # Free
  BY DEF Owned
<1>11. \A x \in Exc : heap[x] \in Exc => /\ \A j \in 1 .. Len(t) : t[j] # heap[x]
                                        /\ \A j \in 1 .. Len(bs) : bs[j].var # heap[x]
  BY <1>6 DEF Owned
<1> QED BY <1>5, <1>7, <1>8, <1>9, <1>10, <1>11 DEF Owned, t

\* A block that is opened has no exception.
LEMMA OpenedOwned ==
  ASSUME NEW list \in Seq(Exc), NEW bs \in Seq(Block), NEW b \in Block, b.var = NoExc, NEW heap \in Heap,
         Owned(list, bs, heap)
  PROVE  Owned(list, Append(bs, b), heap)
<1> DEFINE t == Append(bs, b)
<1>1. /\ Len(bs) \in Nat /\ Len(t) = Len(bs) + 1
      /\ \A i \in 1 .. Len(bs) + 1 : \/ i = Len(bs) + 1 /\ t[i].var = NoExc
                                     \/ i \in 1 .. Len(bs) /\ t[i] = bs[i]
  <2>1. /\ Len(t) = Len(bs) + 1 /\ t[Len(bs) + 1] = b /\ Len(bs) \in Nat
        /\ \A i \in 1 .. Len(bs) : t[i] = bs[i]
    BY AppendProperties, LenProperties
  <2> QED BY <2>1
<1>2. NoExc \notin Exc /\ \A i \in 1 .. Len(list) : list[i] \in Exc
  BY ElementOfSeq, ContextAssumption
<1> HIDE DEF t
<1>3. \A i, j \in 1 .. Len(t) : t[i].var \in Exc /\ t[i].var = t[j].var => i = j
  BY <1>1, <1>2 DEF Owned
<1>4. \A i \in 1 .. Len(list), j \in 1 .. Len(t) : list[i] # t[j].var
  BY <1>1, <1>2 DEF Owned
<1>5. \A i \in 1 .. Len(t) : t[i].var \in Exc => heap[t[i].var] # Free
  BY <1>1, <1>2 DEF Owned
<1>6. \A x \in Exc : heap[x] \in Exc => \A i \in 1 .. Len(t) : t[i].var # heap[x]
  BY <1>1, <1>2 DEF Owned
<1> QED BY <1>3, <1>4, <1>5, <1>6 DEF Owned, t

\* Nothing has gone wrong so far, and every exception has at most one owner.
OwnedInv == ~ub /\ Owned(ctx.exceptions, blocks, cause)

\* The usage that frees nothing twice: a chain of causes is at most one long, and
\* no block is left behind the macros' back.
FreesOnce == Usage \cap {"causeOfCause", "returnFromCatch"} = {}

\* Changing the innermost block so that it has no exception
LEMMA WithTopDropped ==
  ASSUME TypeOK, ~Outside, NEW b \in Block, b.var = NoExc
  PROVE  WithTop(b) \in Seq(Block) /\ Dropped(WithTop(b), blocks, Depth) /\ Fewer(WithTop(b), blocks)
<1>1. /\ WithTop(b) \in Seq(Block)
      /\ Len(WithTop(b)) = Depth
      /\ Last(WithTop(b)) = b
      /\ \A i \in 1 .. Depth - 1 : WithTop(b)[i] = blocks[i]
  BY WithTopFacts
<1>2. Depth \in Nat \ {0} /\ Depth = Len(blocks) /\ blocks \in Seq(Block)
  BY TopBlock DEF Depth, TypeOK
<1>3. \A i \in 1 .. Depth : i = Depth \/ i \in 1 .. Depth - 1
  BY <1>2
<1>4. WithTop(b)[Depth] = b
  BY <1>1 DEF Last
<1>5. Dropped(WithTop(b), blocks, Depth)
  <2>1. \A i \in 1 .. Depth - 1 : i # Depth
    BY <1>2
  <2> QED BY <1>1, <1>2, <1>3, <1>4, <2>1 DEF Dropped
<1> QED BY <1>1, <1>2, <1>5, DroppedFewer

\* All exceptions of the list but the first are freed.
Cleared(list, heap) ==
  LET S == ToSet(list) \ ToSet(ctx'.exceptions)
  IN  /\ ctx'.exceptions = IF list = << >> THEN list ELSE <<list[1]>>
      /\ cause' = Release(heap, S)
      /\ ub' = Corrupts(heap, S)

\* Where a jump lands, the list is cleared and the block loses its exception.
LEMMA LandingClears ==
  ASSUME TypeOK, Matching, NEW r \in JumpResult, NEW h \in Heap, NEW rest, Go(r, h, rest),
         NEW k \in 1 .. Depth, LandsAt(ctx, r, k)
  PROVE  /\ Cleared(r.ctx.exceptions, h)
         /\ blocks' \in Seq(Block) /\ Len(blocks') = k /\ blocks'[k].var = NoExc
         /\ \A j \in 1 .. k - 1 : blocks'[j] = blocks[j]
<1> DEFINE d == Try(r.ctx, r.to, r.why)
           list == r.ctx.exceptions
           b == [blocks[k] EXCEPT !.phase = PhaseAfter(ctx'), !.var = NoExc]
           t == Append(SubSeq(blocks, 1, k - 1), b)
<1>1. blocks \in Seq(Block) /\ DOMAIN blocks = 1 .. Depth /\ Depth = Len(blocks)
  BY LenProperties DEF TypeOK, Depth
<1>2. r.to = blocks[k].jmp /\ blocks[k] \in Block
  BY <1>1, ElementOfSeq DEF LandsAt, Matching, SameJmps
<1>3. r.to # NoJmp /\ r.to \in JmpBufs
  BY <1>2, UsageAssumption DEF Block
<1>4. PICK i \in DOMAIN blocks :
         /\ blocks[i].jmp = r.to
         /\ ctx' = d
         /\ LET S == ToSet(list) \ ToSet(ctx'.exceptions)
            IN  /\ cause' = Release(h, S)
                /\ ub' = Corrupts(h, S)
  BY <1>1, <1>2, <1>3 DEF Go
<1>5. r.ctx \in Context /\ r.why \in JumpReason /\ r.why # DONT
  BY DEF LandsAt, JumpResult
<1>6. /\ HasExceptions(r.ctx) => d.exceptions = <<list[1]>>
      /\ ~HasExceptions(r.ctx) => d.exceptions = << >>
  BY <1>3, <1>5, TryFacts
<1>7. b \in Block /\ b.var = NoExc
  BY <1>2, PhaseAfterType DEF Block
<1>8. blocks' = t
  BY Landing
<1> HIDE DEF d, b
<1>9. /\ t \in Seq(Block) /\ Len(t) = k /\ t[k] = b
      /\ \A j \in 1 .. k - 1 : t[j] = blocks[j]
  BY <1>1, <1>7, LandedFacts
<1> HIDE DEF t
<1>10. Cleared(list, h)
  <2>1. HasExceptions(r.ctx) <=> list # << >>
    BY DEF HasExceptions
  <2> HIDE DEF list
  <2> QED BY <1>4, <1>6, <2>1 DEF Cleared
<1> QED BY <1>7, <1>8, <1>9, <1>10

\* A throw adds its exception to the list; the landing takes the variable of its block.
LEMMA ThrowLands ==
  ASSUME TypeOK, Matching, NEW e \in Exc, NEW h \in Heap, Go(Throw(ctx, e), h, blocks)
  PROVE  /\ Outside => /\ ctx'.exceptions = Append(ctx.exceptions, e)
                       /\ blocks' = blocks /\ cause' = h /\ ub' = ub
         /\ ~Outside => /\ Cleared(Append(ctx.exceptions, e), h)
                        /\ blocks' \in Seq(Block) /\ Dropped(blocks', blocks, Depth)
<1> DEFINE r == Throw(ctx, e)
<1>1. (HasFrame(ctx) <=> ~Outside) /\ Len(ctx.frames) = Depth /\ Depth \in Nat /\ ctx \in Context
  BY FrameIffInside DEF TypeOK
<1>2. /\ r \in JumpResult
      /\ r.ctx.exceptions = Append(ctx.exceptions, e)
      /\ ~HasFrame(ctx) => r.to = NoJmp
      /\ HasFrame(ctx) => LandsAt(ctx, r, Len(ctx.frames))
  BY ThrowFacts DEF TypeOK
<1>3. Go(r, h, blocks)
  OBVIOUS
<1> HIDE DEF r
<1>4. CASE Outside
  <2>1. DOMAIN blocks = {}
    BY <1>4 DEF Outside
  <2> QED BY <1>1, <1>2, <1>3, <1>4, <2>1 DEF Go
<1>5. CASE ~Outside
  <2>1. LandsAt(ctx, r, Depth) /\ Depth \in 1 .. Depth /\ Len(blocks) = Depth
    BY <1>1, <1>2, <1>5, TopBlock DEF Depth
  <2>2. /\ Cleared(r.ctx.exceptions, h)
        /\ blocks' \in Seq(Block) /\ Len(blocks') = Depth /\ blocks'[Depth].var = NoExc
        /\ \A j \in 1 .. Depth - 1 : blocks'[j] = blocks[j]
    BY <1>2, <1>3, <2>1, LandingClears
  <2>3. \A j \in 1 .. Depth : j = Depth \/ (j \in 1 .. Depth - 1 /\ j # Depth)
    BY <2>1
  <2> QED BY <1>2, <1>5, <2>1, <2>2, <2>3 DEF Dropped
<1> QED BY <1>4, <1>5

\* The end of a "finally" leaves its block, and may land in the next one.
LEMMA FinallyLands ==
  ASSUME TypeOK, Matching, EndFinally
  PROVE  /\ blocks' \in Seq(Block) /\ Fewer(blocks', blocks)
         /\ \/ ctx'.exceptions = ctx.exceptions /\ cause' = cause /\ ub' = ub
            \/ Cleared(ctx.exceptions, cause)
<1> DEFINE r == FinallyDone(ctx)
           n == Depth
           f == Front(blocks)
<1>1. ~Outside /\ Go(r, cause, f)
  BY DEF EndFinally, In
<1>2. HasFrame(ctx) /\ Len(ctx.frames) = n /\ n \in Nat \ {0} /\ ctx \in Context
  BY <1>1, CurrentIsTop
<1>3. /\ r \in JumpResult
      /\ r.ctx.exceptions = ctx.exceptions
      /\ CurrentFrame(ctx).reason = DONT \/ n = 1 => r.to = NoJmp
      /\ CurrentFrame(ctx).reason # DONT /\ n > 1 => LandsAt(ctx, r, n - 1)
  BY <1>2, FinallyDoneFacts
<1>4. /\ cause \in Heap /\ blocks \in Seq(Block) /\ Len(blocks) = n
      /\ DOMAIN blocks = 1 .. n
  BY LenProperties DEF TypeOK, Heap, Depth
<1>5. f \in Seq(Block) /\ Len(f) = n - 1 /\ \A i \in 1 .. n - 1 : f[i] = blocks[i]
  BY <1>1, TopBlock
<1> HIDE DEF r, n, f
<1>6. CASE CurrentFrame(ctx).reason = DONT \/ n = 1
  <2>1. \A i \in DOMAIN blocks : blocks[i].jmp # r.to
    <3>1. \A i \in DOMAIN blocks : blocks[i] \in Block
      BY <1>4, ElementOfSeq
    <3>2. \A i \in DOMAIN blocks : blocks[i].jmp \in JmpBufs
      BY <3>1 DEF Block
    <3> QED BY <1>3, <1>6, <3>2, UsageAssumption
  <2>2. ctx' = r.ctx /\ blocks' = f /\ cause' = cause /\ ub' = ub
    BY <1>1, <1>3, <1>6, <2>1 DEF Go
  <2>3. Fewer(f, blocks)
    BY <1>2, <1>4, <1>5 DEF Fewer
  <2> QED BY <1>3, <1>5, <2>2, <2>3
<1>7. CASE CurrentFrame(ctx).reason # DONT /\ n # 1
  <2>1. PICK k \in Nat : k = n - 1 /\ k # 0
    BY <1>2, <1>7
  <2>2. LandsAt(ctx, r, k) /\ k \in 1 .. n
    BY <1>2, <1>3, <1>7, <2>1
  <2>3. /\ Cleared(r.ctx.exceptions, cause)
        /\ blocks' \in Seq(Block) /\ Len(blocks') = k /\ blocks'[k].var = NoExc
        /\ \A j \in 1 .. k - 1 : blocks'[j] = blocks[j]
    BY <1>1, <1>3, <1>4, <2>2, LandingClears DEF n
  <2>4. \A j \in 1 .. k : j = k \/ j \in 1 .. k - 1
    BY <2>1
  <2>5. Fewer(blocks', blocks)
    BY <1>2, <1>4, <2>1, <2>3, <2>4 DEF Fewer
  <2> QED BY <1>3, <2>3, <2>5
<1> QED BY <1>6, <1>7

\* Clearing the list frees nothing that has an owner.
LEMMA ClearedOnce ==
  ASSUME NEW list \in Seq(Exc), NEW h \in Heap, Cleared(list, h), blocks' \in Seq(Block),
         Owned(list, blocks', h)
  PROVE  OwnedInv'
<1> DEFINE S == ToSet(list) \ ToSet(ctx'.exceptions)
<1>1. /\ ctx'.exceptions = IF list = << >> THEN list ELSE <<list[1]>>
      /\ cause' = Release(h, S) /\ ub' = Corrupts(h, S)
  BY DEF Cleared
<1>2. CASE list = << >>
  <2>1. S = {}
    BY <1>2 DEF ToSet
  <2>2. Release(h, {}) = h /\ ~Corrupts(h, {})
    BY DEF Release, Freed, Corrupts, Heap
  <2> QED BY <1>1, <1>2, <2>1, <2>2 DEF OwnedInv
<1>3. CASE list # << >>
  <2>1. S = ToSet(list) \ ToSet(<<list[1]>>)
    BY <1>1, <1>3
  <2> HIDE DEF S
  <2>2. Owned(<<list[1]>>, blocks', Release(h, S)) /\ ~Corrupts(h, S)
    BY <1>3, <2>1, ClearedOwned
  <2> QED BY <1>1, <1>3, <2>2 DEF OwnedInv
<1> QED BY <1>2, <1>3

LEMMA ThrowOwned ==
  ASSUME TypeOK, Matching, ~ub, NEW e \in Exc, NEW h \in Heap, Go(Throw(ctx, e), h, blocks),
         Outside => Owned(Append(ctx.exceptions, e), blocks, h),
         ~Outside => \A bs \in Seq(Block) :
                        Dropped(bs, blocks, Depth) => Owned(Append(ctx.exceptions, e), bs, h)
  PROVE  OwnedInv'
<1>1. Append(ctx.exceptions, e) \in Seq(Exc)
  BY AppendElements DEF TypeOK, Context
<1>2. CASE Outside
  BY <1>2, ThrowLands DEF OwnedInv
<1>3. CASE ~Outside
  BY <1>1, <1>3, ThrowLands, ClearedOnce
<1> QED BY <1>2, <1>3

LEMMA FinallyOwned ==
  ASSUME TypeOK, Matching, OwnedInv, EndFinally
  PROVE  OwnedInv'
<1>1. /\ cause \in Heap /\ blocks \in Seq(Block) /\ ctx.exceptions \in Seq(Exc)
      /\ Owned(ctx.exceptions, blocks, cause) /\ ~ub
  BY DEF TypeOK, Heap, Context, OwnedInv
<1>2. Owned(ctx.exceptions, blocks', cause) /\ blocks' \in Seq(Block)
  BY <1>1, FinallyLands, FewerOwned
<1>3. CASE ctx'.exceptions = ctx.exceptions /\ cause' = cause /\ ub' = ub
  BY <1>1, <1>2, <1>3 DEF OwnedInv
<1>4. CASE Cleared(ctx.exceptions, cause)
  BY <1>1, <1>2, <1>4, ClearedOnce
<1> QED BY <1>3, <1>4, FinallyLands

LEMMA CatchOwned ==
  ASSUME TypeOK, Matching, OwnedInv, NEW type \in Types, CatchHit(type)
  PROVE  OwnedInv'
<1> DEFINE r == Catch(ctx, type)
           b == [Last(blocks) EXCEPT !.phase = "catch", !.var = r.caught, !.handled = TRUE]
<1>1. /\ ~Outside /\ r.caught # NoExc
      /\ ctx' = r.ctx /\ blocks' = WithTop(b) /\ cause' = cause /\ ub' = ub
  BY DEF CatchHit, In
<1>2. /\ HasFrame(ctx) /\ ctx \in Context /\ ctx.exceptions \in Seq(Exc)
      /\ blocks \in Seq(Block) /\ Len(blocks) = Depth /\ cause \in Heap
  BY <1>1, CurrentIsTop DEF Context, TypeOK, Heap, Depth
<1>3. /\ r.caught \in Exc \cup {NoExc}
      /\ \E i \in 1 .. Len(ctx.exceptions) : /\ r.caught = ctx.exceptions[i]
                                             /\ r.ctx.exceptions = RemoveAt(ctx.exceptions, i)
  BY <1>1, <1>2, CatchFacts
<1> HIDE DEF r
<1>4. PICK i \in 1 .. Len(ctx.exceptions) : /\ r.caught = ctx.exceptions[i]
                                            /\ r.ctx.exceptions = RemoveAt(ctx.exceptions, i)
  BY <1>3
<1>5. Last(blocks) \in Block /\ Depth \in Nat \ {0}
  BY <1>1, TopBlock
<1>6. b \in Block /\ b.var = r.caught
  BY <1>3, <1>5 DEF Block, Phase
<1> HIDE DEF b
<1>7. /\ blocks' \in Seq(Block) /\ Len(blocks') = Depth /\ Last(blocks') = b
      /\ \A j \in 1 .. Depth - 1 : blocks'[j] = blocks[j]
  BY <1>1, <1>6, WithTopFacts
<1>8. blocks'[Depth] = b
  BY <1>7 DEF Last
<1>9. \A j \in 1 .. Depth : j = Depth \/ (j \in 1 .. Depth - 1 /\ j # Depth)
  BY <1>5
<1>10. \A j \in 1 .. Depth : blocks'[j].var = IF j = Depth THEN ctx.exceptions[i] ELSE blocks[j].var
  BY <1>4, <1>6, <1>7, <1>8, <1>9
<1>11. Depth \in 1 .. Len(blocks)
  BY <1>2, <1>5
<1>12. Owned(RemoveAt(ctx.exceptions, i), blocks', cause)
  BY <1>2, <1>7, <1>10, <1>11, CaughtOwned DEF OwnedInv
<1> QED BY <1>1, <1>4, <1>12 DEF OwnedInv

\* Every step of a program that frees nothing twice keeps the invariant.
LEMMA NextOwned ==
  ASSUME TypeOK, Matching, OwnedInv, FreesOnce, [Next]_vars
  PROVE  OwnedInv'
<1>1. /\ ctx \in Context /\ cause \in Heap /\ blocks \in Seq(Block) /\ ctx.exceptions \in Seq(Exc)
      /\ Depth = Len(blocks) /\ DOMAIN blocks = 1 .. Len(blocks)
  BY LenProperties DEF TypeOK, Heap, Context, Depth
<1>2. \A phase : In(phase) => ~Outside
  BY DEF In
<1>3. ~ub /\ Owned(ctx.exceptions, blocks, cause)
  BY DEF OwnedInv
<1>4. ASSUME NEW bs \in Seq(Block), blocks' = bs, Fewer(bs, blocks),
             ctx'.exceptions = ctx.exceptions, cause' = cause, ub' = ub
      PROVE  OwnedInv'
  BY <1>1, <1>3, <1>4, FewerOwned DEF OwnedInv
<1>5. ASSUME ~Outside, NEW b \in Block, b.var = Last(blocks).var
      PROVE  WithTop(b) \in Seq(Block) /\ Fewer(WithTop(b), blocks)
  <2>1. /\ WithTop(b) \in Seq(Block) /\ Len(WithTop(b)) = Depth /\ Last(WithTop(b)) = b
        /\ \A i \in 1 .. Depth - 1 : WithTop(b)[i] = blocks[i]
    BY <1>5, WithTopFacts
  <2>2. Depth \in Nat \ {0} /\ Last(blocks) = blocks[Depth]
    BY <1>5, TopBlock
  <2>3. WithTop(b)[Depth] = b
    BY <2>1 DEF Last
  <2>4. \A i \in 1 .. Depth : i = Depth \/ i \in 1 .. Depth - 1
    BY <2>2
  <2> QED BY <1>1, <1>5, <2>1, <2>2, <2>3, <2>4 DEF Fewer
<1>6. CASE OpenTry
  <2>1. PICK jmp \in JmpBufs :
           /\ ctx' = Try(ctx, jmp, DONT)
           /\ blocks' = Append(blocks, [jmp |-> jmp, phase |-> PhaseAfter(ctx'),
                                        var |-> NoExc, handled |-> FALSE])
           /\ cause' = cause /\ ub' = ub
    BY <1>6 DEF OpenTry
  <2> DEFINE b == [jmp |-> jmp, phase |-> PhaseAfter(ctx'), var |-> NoExc, handled |-> FALSE]
             d == Try(ctx, jmp, DONT)
  <2>2. b \in Block /\ b.var = NoExc
    BY PhaseAfterType DEF Block
  <2>3. DONT \in JumpReason
    BY DEF JumpReason
  <2>4. d.exceptions = ctx.exceptions
    BY <1>1, <2>3, TryFacts
  <2>5. ctx' = d /\ blocks' = Append(blocks, b)
    BY <2>1
  <2> HIDE DEF b, d
  <2>6. Owned(ctx.exceptions, Append(blocks, b), cause)
    BY <1>1, <1>3, <2>2, OpenedOwned
  <2> QED BY <1>3, <2>1, <2>4, <2>5, <2>6 DEF OwnedInv
<1>7. CASE EndBody
  <2>1. Last(blocks) \in Block /\ ~Outside
    BY <1>2, <1>7, TopBlock DEF EndBody
  <2>2. [Last(blocks) EXCEPT !.phase = PhaseAfter(ctx')] \in Block
        /\ [Last(blocks) EXCEPT !.phase = PhaseAfter(ctx')].var = Last(blocks).var
    BY <2>1, PhaseAfterType DEF Block
  <2>3. StopTrying(ctx).exceptions = ctx.exceptions
    BY <1>1, StopTryingFacts
  <2> QED BY <1>4, <1>5, <1>7, <2>1, <2>2, <2>3 DEF EndBody
<1>8. CASE BreakBody
  <2>1. Last(blocks) \in Block /\ ~Outside
    BY <1>2, <1>8, TopBlock DEF BreakBody
  <2>2. [Last(blocks) EXCEPT !.phase = "finally"] \in Block
        /\ [Last(blocks) EXCEPT !.phase = "finally"].var = Last(blocks).var
    BY <2>1 DEF Block, Phase
  <2> QED BY <1>4, <1>5, <1>8, <2>1, <2>2 DEF BreakBody
<1>9. CASE ThrowNew
  <2>1. PICK e \in Exc \ Live : Go(Throw(ctx, e), New(cause, e, NoExc), blocks)
    BY <1>9 DEF ThrowNew
  <2>2. New(cause, e, NoExc) \in Heap /\ cause[e] = Free /\ NoExc \notin Exc
    BY <1>1, NewType, ContextAssumption DEF Live
  <2>3. Owned(Append(ctx.exceptions, e), blocks, New(cause, e, NoExc))
    BY <1>1, <1>3, <2>2, NewOwned
  <2>4. \A bs \in Seq(Block) :
           Dropped(bs, blocks, Depth) => Owned(Append(ctx.exceptions, e), bs, New(cause, e, NoExc))
    BY <1>1, <2>2, <2>3, AppendElements, DroppedFewer, FewerOwned
  <2> QED BY <1>3, <2>1, <2>2, <2>3, <2>4, ThrowOwned
<1>10. CASE Rethrow
  <2> DEFINE c == Last(blocks).var
  <2>1. PICK e \in Exc \ Live : Go(Throw(ctx, e), New(cause, e, c), blocks)
    BY <1>10 DEF Rethrow
  <2>2. /\ c \in Exc /\ ~Outside /\ cause[c] = NoExc /\ blocks[Depth].var = c
        /\ Depth \in 1 .. Len(blocks)
    BY <1>1, <1>2, <1>10, TopBlock DEF Rethrow, InCatchHolding, Block, FreesOnce
  <2> HIDE DEF c
  <2>3. New(cause, e, c) \in Heap /\ cause[e] = Free
    BY <1>1, <2>2, NewType DEF Live
  <2>4. \A bs \in Seq(Block) :
           Dropped(bs, blocks, Depth) => Owned(Append(ctx.exceptions, e), bs, New(cause, e, c))
    BY <1>1, <1>3, <2>2, <2>3, RethrownOwned
  <2> QED BY <1>3, <2>1, <2>2, <2>3, <2>4, ThrowOwned
<1>11. CASE RethrowSame
  <2> DEFINE e == Last(blocks).var
  <2>1. Go(Throw(ctx, e), cause, blocks)
    BY <1>11 DEF RethrowSame
  <2>2. e \in Exc /\ ~Outside /\ blocks[Depth].var = e /\ Depth \in 1 .. Len(blocks)
    BY <1>1, <1>2, <1>11, TopBlock DEF RethrowSame, InCatchHolding, Block
  <2> HIDE DEF e
  <2>3. \A bs \in Seq(Block) :
           Dropped(bs, blocks, Depth) => Owned(Append(ctx.exceptions, e), bs, cause)
    BY <1>1, <1>3, <2>2, MovedOwned
  <2> QED BY <1>1, <1>3, <2>1, <2>2, <2>3, ThrowOwned
<1>12. ASSUME NEW type \in Types, CatchHit(type) PROVE OwnedInv'
  BY <1>12, CatchOwned
<1>13. ASSUME NEW i \in 1 .. Len(blocks), blocks[i].var \in Exc,
              blocks' \in Seq(Block), Dropped(blocks', blocks, i), ctx' = ctx,
              cause' = Release(cause, {blocks[i].var}),
              ub' = Corrupts(cause, {blocks[i].var})
       PROVE  OwnedInv'
  BY <1>1, <1>3, <1>13, ReleasedOwned DEF OwnedInv
<1>14. CASE CatchDone
  <2> DEFINE b == [Last(blocks) EXCEPT !.phase = "finally", !.var = NoExc]
  <2>1. /\ Last(blocks) \in Block /\ ~Outside /\ Last(blocks).var \in Exc
        /\ Last(blocks) = blocks[Depth] /\ Depth \in 1 .. Len(blocks)
    BY <1>1, <1>2, <1>14, TopBlock DEF CatchDone, InCatchHolding, Block
  <2>2. b \in Block /\ b.var = NoExc
    BY <2>1 DEF Block, Phase
  <2>3. blocks' = WithTop(b)
    BY <1>14 DEF CatchDone
  <2> HIDE DEF b
  <2>4. blocks' \in Seq(Block) /\ Dropped(blocks', blocks, Depth)
    BY <2>1, <2>2, <2>3, WithTopDropped
  <2> QED BY <1>13, <1>14, <2>1, <2>4 DEF CatchDone
<1>15. CASE ReleaseException
  <2>1. PICK i \in DOMAIN blocks :
          /\ blocks[i].var # NoExc
          /\ blocks' = [blocks EXCEPT ![i] = [blocks[i] EXCEPT !.var = NoExc]]
          /\ cause' = Release(cause, {blocks[i].var})
          /\ ub' = Corrupts(cause, {blocks[i].var})
          /\ ctx' = ctx
    BY <1>15 DEF ReleaseException
  <2>2. blocks[i] \in Block /\ i \in 1 .. Len(blocks) /\ blocks[i].var \in Exc
    <3>1. blocks[i] \in Block /\ i \in 1 .. Len(blocks)
      BY <1>1, <2>1, ElementOfSeq
    <3>2. blocks[i].var \in Exc
      BY <2>1, <3>1 DEF Block
    <3> QED BY <3>1, <3>2
  <2>3. [blocks[i] EXCEPT !.var = NoExc] \in Block /\ [blocks[i] EXCEPT !.var = NoExc].var = NoExc
    BY <2>2 DEF Block
  <2>4. /\ blocks' \in Seq(Block) /\ Len(blocks') = Len(blocks)
        /\ \A j \in 1 .. Len(blocks) :
              blocks'[j] = IF j = i THEN [blocks[i] EXCEPT !.var = NoExc] ELSE blocks[j]
    BY <1>1, <2>1, <2>2, <2>3, ExceptSeq
  <2>5. Dropped(blocks', blocks, i)
    BY <2>3, <2>4 DEF Dropped
  <2> QED BY <1>13, <2>1, <2>2, <2>4, <2>5
<1>16. CASE BreakCatch
  <2>1. Last(blocks) \in Block /\ ~Outside
    BY <1>2, <1>16, TopBlock DEF BreakCatch
  <2>2. [Last(blocks) EXCEPT !.phase = "finally"] \in Block
        /\ [Last(blocks) EXCEPT !.phase = "finally"].var = Last(blocks).var
    BY <2>1 DEF Block, Phase
  <2> QED BY <1>4, <1>5, <1>16, <2>1, <2>2 DEF BreakCatch
<1>17. CASE ReturnFromCatch
  BY <1>17 DEF ReturnFromCatch, FreesOnce
<1>18. CASE EndFinally
  BY <1>18, FinallyOwned
<1>19. CASE UNCHANGED vars
  BY <1>19 DEF vars, OwnedInv
<1> QED BY <1>6, <1>7, <1>8, <1>9, <1>10, <1>11, <1>12, <1>14, <1>15, <1>16, <1>17, <1>18, <1>19
        DEF Next

LEMMA OwnedInvariant == FreesOnce => (Spec => [](MatchingInv /\ OwnedInv))
<1> SUFFICES ASSUME FreesOnce PROVE Spec => [](MatchingInv /\ OwnedInv)
  OBVIOUS
<1>1. NoReturn
  BY DEF FreesOnce, NoReturn
<1>2. Init => MatchingInv /\ OwnedInv
  <2> SUFFICES ASSUME Init PROVE MatchingInv /\ OwnedInv
    OBVIOUS
  <2>1. /\ Len(ctx.exceptions) = 0 /\ Len(blocks) = 0 /\ ~ub
        /\ \A e \in Exc : cause[e] = Free
    BY EmptySeq DEF Init, EmptyContext
  <2>2. Free \notin Exc
    BY UsageAssumption
  <2>3. Owned(ctx.exceptions, blocks, cause)
    BY <2>1, <2>2 DEF Owned
  <2> QED BY <2>1, <2>3, InitType, InitMatches DEF MatchingInv, OwnedInv
<1>3. (MatchingInv /\ OwnedInv) /\ [Next]_vars => (MatchingInv /\ OwnedInv)'
  BY <1>1, NextType, NextMatches, NextOwned DEF MatchingInv
<1> QED BY <1>2, <1>3, PTL DEF Spec

\* A set whose elements are all the same has at most one element.
LEMMA AtMostOne ==
  ASSUME NEW S, \A a, b \in S : a = b
  PROVE  Cardinality(S) <= 1
<1>1. CASE S = {}
  BY <1>1, FS_EmptySet
<1>2. CASE S # {}
  <2>1. PICK a : S = {a}
    BY <1>2
  <2> QED BY <2>1, FS_Singleton
<1> QED BY <1>1, <1>2

\* In a program that gives no exception a chain of causes and does not return out of
\* a "catch", every exception has at most one owner, whatever is thrown, caught,
\* rethrown and released in whatever nesting: the list, a variable or an exception
\* that it is the cause of.
THEOREM AlwaysOneOwner == FreesOnce => (Spec => []OneOwner)
<1> SUFFICES ASSUME FreesOnce PROVE Spec => []OneOwner
  OBVIOUS
<1>1. MatchingInv /\ OwnedInv => OneOwner
  <2> SUFFICES ASSUME TypeOK, OwnedInv, NEW e \in Exc
               PROVE  Cardinality(Owners(e)) <= 1 /\ (e \notin Live => Owners(e) = {})
    BY DEF OneOwner, MatchingInv
  <2> DEFINE I == {j \in DOMAIN ctx.exceptions : ctx.exceptions[j] = e}
             J == {j \in DOMAIN blocks : blocks[j].var = e}
             X == {y \in Live : cause[y] = e}
  <2>1. DOMAIN ctx.exceptions = 1 .. Len(ctx.exceptions) /\ DOMAIN blocks = 1 .. Len(blocks)
    BY LenProperties DEF TypeOK, Context
  <2>2. Owned(ctx.exceptions, blocks, cause) /\ Free \notin Exc /\ Free # NoExc
    BY UsageAssumption DEF OwnedInv
  <2>3. \A i, j \in I : i = j
    BY <2>1, <2>2 DEF Owned
  <2>4. \A i, j \in J : i = j
    BY <2>1, <2>2 DEF Owned
  <2>5. \A x, y \in X : x = y
    BY <2>2 DEF Owned, Live
  <2>6. I = {} \/ J = {}
    BY <2>1, <2>2 DEF Owned
  <2>7. X = {} \/ (I = {} /\ J = {})
    BY <2>1, <2>2 DEF Owned, Live
  <2>8. e \notin Live => I = {} /\ J = {} /\ X = {}
    BY <2>1, <2>2 DEF Owned, Live
  <2>9. Owners(e) = {<<"list", i>> : i \in I} \cup {<<"var", i>> : i \in J} \cup {<<"cause", x>> : x \in X}
    BY DEF Owners
  <2> HIDE DEF I, J, X
  <2>10. \A a, b \in Owners(e) : a = b
    BY <2>3, <2>4, <2>5, <2>6, <2>7, <2>9
  <2> QED BY <2>8, <2>9, <2>10, AtMostOne
<1> QED BY <1>1, OwnedInvariant, PTL

\* Such a program never frees memory twice, nor jumps into a block that has ended.
THEOREM NeverUndefined == FreesOnce => (Spec => []NoUndefinedBehaviour)
<1>1. MatchingInv /\ OwnedInv => NoUndefinedBehaviour
  BY DEF OwnedInv, NoUndefinedBehaviour
<1> QED BY <1>1, OwnedInvariant, PTL
-----------------------------------------------------------------------------
(* Leaks *)

\* e is on the list or in a variable.
Root(e, list, bs) == \/ \E i \in 1 .. Len(list) : list[i] = e
                     \/ \E i \in 1 .. Len(bs) : bs[i].var = e

\* Every allocated exception is on the list, in a variable, or a cause.
Kept(list, bs, heap) ==
  \A e \in Exc : heap[e] # Free => Root(e, list, bs) \/ \E x \in Exc : heap[x] = e

\* A cause has no cause itself.
OneCause(heap) == \A x \in Exc : heap[x] \in Exc => heap[heap[x]] = NoExc

\* What has left the list and the variables has been freed, with its cause.
LEMMA FreedKept ==
  ASSUME NEW list, NEW bs, NEW list2, NEW bs2, NEW heap \in Heap, NEW S, S \subseteq Exc,
         Kept(list, bs, heap), OneCause(heap),
         \A e \in Exc : Root(e, list, bs) => Root(e, list2, bs2) \/ e \in S
  PROVE  Kept(list2, bs2, Release(heap, S))
<1> DEFINE g == Release(heap, S)
<1> SUFFICES ASSUME NEW e \in Exc, g[e] # Free
             PROVE  Root(e, list2, bs2) \/ \E x \in Exc : g[x] = e
  BY DEF Kept
<1>1. \A x \in Exc : g[x] = IF x \in Freed(heap, S) THEN Free ELSE heap[x]
  BY DEF Release
<1> HIDE DEF g
<1>2. e \notin Freed(heap, S) /\ heap[e] # Free
  BY <1>1
<1>3. e \notin S /\ \A x \in S : heap[x] # e
  BY <1>2 DEF Freed
<1>4. CASE Root(e, list, bs)
  BY <1>3, <1>4
<1>5. ASSUME NEW x \in Exc, heap[x] = e PROVE g[x] = e
  <2>1. x \notin S
    BY <1>3, <1>5
  <2>2. \A s \in S : x # heap[s]
    BY <1>5, ContextAssumption DEF OneCause
  <2>3. x \notin Freed(heap, S)
    BY <2>1, <2>2 DEF Freed
  <2> QED BY <1>1, <1>5, <2>3
<1> QED BY <1>2, <1>4, <1>5 DEF Kept

\* Freeing nothing
LEMMA ReleaseNone == ASSUME NEW heap \in Heap PROVE Release(heap, {}) = heap
BY DEF Release, Freed, Heap

\* The new exception is on the list, and its cause stays allocated.
LEMMA NewKept ==
  ASSUME NEW list \in Seq(Exc), NEW bs, NEW bs2, NEW heap \in Heap, NEW e \in Exc, heap[e] = Free,
         NEW c \in Exc \cup {NoExc}, Kept(list, bs, heap),
         \A i \in 1 .. Len(bs) :
            bs[i].var \in Exc \ {c} => \E j \in 1 .. Len(bs2) : bs2[j].var = bs[i].var
  PROVE  Kept(Append(list, e), bs2, New(heap, e, c))
<1> DEFINE t == Append(list, e)
           g == New(heap, e, c)
<1> SUFFICES ASSUME NEW x \in Exc, g[x] # Free
             PROVE  Root(x, t, bs2) \/ \E y \in Exc : g[y] = x
  BY DEF Kept
<1>1. \A y \in Exc : g[y] = IF y = e THEN c ELSE heap[y]
  BY DEF New, Heap
<1>2. /\ Len(list) \in Nat /\ Len(t) = Len(list) + 1 /\ t[Len(list) + 1] = e
      /\ \A i \in 1 .. Len(list) : t[i] = list[i]
  BY AppendProperties, LenProperties
<1> HIDE DEF t, g
<1>3. CASE x = e
  <2>1. Len(list) + 1 \in 1 .. Len(t)
    BY <1>2
  <2> QED BY <1>2, <1>3, <2>1 DEF Root
<1>4. CASE x # e
  <2>1. heap[x] # Free
    BY <1>1, <1>4
  <2>2. ASSUME NEW i \in 1 .. Len(list), list[i] = x PROVE Root(x, t, bs2)
    <3>1. i \in 1 .. Len(t) /\ t[i] = x
      BY <1>2, <2>2
    <3> QED BY <3>1 DEF Root
  <2>3. ASSUME NEW i \in 1 .. Len(bs), bs[i].var = x PROVE Root(x, t, bs2) \/ \E y \in Exc : g[y] = x
    <3>1. CASE x = c
      BY <1>1, <3>1
    <3>2. CASE x # c
      BY <2>3, <3>2 DEF Root
    <3> QED BY <3>1, <3>2
  <2>4. ASSUME NEW y \in Exc, heap[y] = x PROVE g[y] = x
    BY <1>1, <2>1, <2>4, UsageAssumption
  <2> QED BY <2>1, <2>2, <2>3, <2>4 DEF Kept, Root
<1> QED BY <1>3, <1>4

\* Only the innermost block has an exception, and only in its "catch".
OnTop == \A i \in 1 .. Len(blocks) : blocks[i].var # NoExc => i = Len(blocks) /\ In("catch")

NoVars(bs) == \A i \in 1 .. Len(bs) : bs[i].var = NoExc

KeptInv == Kept(ctx.exceptions, blocks, cause) /\ OnTop

\* The usage in which no "catch" is left, by a throw or with its block, while its
\* variable has an exception.
LeaksNothing == Usage \cap {"throwInCatch", "nestInCatch", "causeOfCause", "returnFromCatch"} = {}

\* Clearing the list leaves nothing behind.
LEMMA ClearedKept ==
  ASSUME NEW list \in Seq(Exc), NEW h \in Heap, Cleared(list, h), Kept(list, blocks', h), OneCause(h)
  PROVE  Kept(ctx'.exceptions, blocks', cause')
<1> DEFINE S == ToSet(list) \ ToSet(ctx'.exceptions)
           l == ctx'.exceptions
<1>1. l = (IF list = << >> THEN list ELSE <<list[1]>>) /\ cause' = Release(h, S)
  BY DEF Cleared
<1>2. DOMAIN list = 1 .. Len(list) /\ \A i \in 1 .. Len(list) : list[i] \in Exc
  BY LenProperties, ElementOfSeq
<1>3. DOMAIN l = 1 .. Len(l)
  <2>1. l \in Seq(Exc)
    BY <1>1, <1>2, EmptySeq
  <2> QED BY <2>1, LenProperties
<1>4. S \subseteq Exc
  BY <1>2 DEF ToSet
<1>5. \A e \in Exc : Root(e, list, blocks') => Root(e, l, blocks') \/ e \in S
  BY <1>2, <1>3 DEF Root, ToSet
<1> HIDE DEF S, l
<1>6. Kept(l, blocks', Release(h, S))
  BY <1>4, <1>5, FreedKept
<1> QED BY <1>1, <1>6 DEF l

LEMMA NewOneCause ==
  ASSUME NEW heap \in Heap, NEW e \in Exc, heap[e] = Free, NEW c \in Exc \cup {NoExc},
         OneCause(heap), c \in Exc => heap[c] = NoExc
  PROVE  OneCause(New(heap, e, c))
<1> DEFINE g == New(heap, e, c)
<1>1. \A y \in Exc : g[y] = IF y = e THEN c ELSE heap[y]
  BY DEF New, Heap
<1> HIDE DEF g
<1>2. Free # NoExc /\ Free \notin Exc /\ NoExc \notin Exc
  BY ContextAssumption, UsageAssumption
<1>3. \A x \in Exc : g[x] \in Exc => g[g[x]] = NoExc
  BY <1>1, <1>2 DEF OneCause
<1> QED BY <1>3 DEF OneCause, g

\* Where no variable has an exception, the same list keeps the same exceptions.
LEMMA NoVarsKept ==
  ASSUME NEW list, NEW bs, NEW bs2, NEW heap, Kept(list, bs, heap), NoVars(bs)
  PROVE  Kept(list, bs2, heap)
<1>1. \A e \in Exc : Root(e, list, bs) => Root(e, list, bs2)
  BY ContextAssumption DEF NoVars, Root
<1> QED BY <1>1 DEF Kept

\* A throw whose exception, or the one it has for a cause, was the only one in a variable.
LEMMA ThrowKept ==
  ASSUME TypeOK, Matching, OnTop, NEW e \in Exc, NEW h \in Heap, Go(Throw(ctx, e), h, blocks),
         OneCause(h),
         Outside => Kept(Append(ctx.exceptions, e), blocks, h),
         ~Outside => \A bs \in Seq(Block) : Kept(Append(ctx.exceptions, e), bs, h)
  PROVE  KeptInv'
<1>1. /\ Append(ctx.exceptions, e) \in Seq(Exc)
      /\ blocks \in Seq(Block) /\ Len(blocks) = Depth
  BY AppendElements DEF TypeOK, Context, Depth
<1>2. CASE Outside
  <2>1. Len(blocks) = 0
    BY <1>2, EmptySeq DEF Outside
  <2>2. /\ ctx'.exceptions = Append(ctx.exceptions, e) /\ blocks' = blocks /\ cause' = h
    BY <1>2, ThrowLands
  <2>3. Len(blocks') = 0
    BY <2>1, <2>2
  <2>4. OnTop'
    BY <2>3 DEF OnTop
  <2> QED BY <1>2, <2>2, <2>4 DEF KeptInv
<1>3. CASE ~Outside
  <2>1. /\ Cleared(Append(ctx.exceptions, e), h)
        /\ blocks' \in Seq(Block) /\ Dropped(blocks', blocks, Depth)
    BY <1>3, ThrowLands
  <2>2. OnTop'
    BY <1>1, <2>1 DEF Dropped, OnTop
  <2>3. Kept(Append(ctx.exceptions, e), blocks', h)
    BY <1>3, <2>1
  <2> QED BY <1>1, <2>1, <2>2, <2>3, ClearedKept DEF KeptInv
<1> QED BY <1>2, <1>3

LEMMA FinallyKept ==
  ASSUME TypeOK, Matching, KeptInv, NoVars(blocks), OneCause(cause), EndFinally
  PROVE  KeptInv'
<1>1. cause \in Heap /\ ctx.exceptions \in Seq(Exc)
  BY DEF TypeOK, Heap, Context
<1>2. blocks' \in Seq(Block) /\ NoVars(blocks')
  <2>1. /\ blocks' \in Seq(Block) /\ Fewer(blocks', blocks)
        /\ Len(blocks') \in Nat /\ Len(blocks) \in Nat
    BY FinallyLands, LenProperties DEF TypeOK
  <2>2. \A i \in 1 .. Len(blocks') : i \in 1 .. Len(blocks)
    BY <2>1 DEF Fewer
  <2> QED BY <2>1, <2>2 DEF Fewer, NoVars
<1>3. Kept(ctx.exceptions, blocks', cause)
  BY NoVarsKept DEF KeptInv
<1>4. Kept(ctx'.exceptions, blocks', cause')
  BY <1>1, <1>3, FinallyLands, ClearedKept
<1>5. OnTop'
  BY <1>2 DEF NoVars, OnTop
<1> QED BY <1>4, <1>5 DEF KeptInv

LEMMA CatchKept ==
  ASSUME TypeOK, Matching, KeptInv, NoVars(blocks), NEW type \in Types, CatchHit(type)
  PROVE  KeptInv'
<1> DEFINE r == Catch(ctx, type)
           b == [Last(blocks) EXCEPT !.phase = "catch", !.var = r.caught, !.handled = TRUE]
           list == ctx.exceptions
<1>1. /\ ~Outside /\ r.caught # NoExc
      /\ ctx' = r.ctx /\ blocks' = WithTop(b) /\ cause' = cause
  BY DEF CatchHit, In
<1>2. HasFrame(ctx) /\ ctx \in Context /\ list \in Seq(Exc)
  BY <1>1, CurrentIsTop DEF Context
<1>3. /\ r.caught \in Exc \cup {NoExc}
      /\ \E i \in 1 .. Len(list) : r.caught = list[i] /\ r.ctx.exceptions = RemoveAt(list, i)
  BY <1>1, <1>2, CatchFacts
<1> HIDE DEF r
<1>4. PICK i \in 1 .. Len(list) : r.caught = list[i] /\ r.ctx.exceptions = RemoveAt(list, i)
  BY <1>3
<1>5. Last(blocks) \in Block /\ Depth \in Nat \ {0} /\ Len(blocks) = Depth
  BY <1>1, TopBlock DEF Depth
<1>6. b \in Block /\ b.var = r.caught /\ b.phase = "catch"
  BY <1>3, <1>5 DEF Block, Phase
<1> HIDE DEF b
<1>7. /\ Len(blocks') = Depth /\ Last(blocks') = b /\ blocks' # << >>
      /\ \A j \in 1 .. Depth - 1 : blocks'[j] = blocks[j]
  BY <1>1, <1>6, WithTopFacts
<1>8. blocks'[Depth] = b
  BY <1>7 DEF Last
<1>9. \A j \in 1 .. Depth : j = Depth \/ j \in 1 .. Depth - 1
  BY <1>5
<1>10. OnTop'
  <2>1. \A j \in 1 .. Depth - 1 : j \in 1 .. Len(blocks)
    BY <1>5
  <2>2. \A j \in 1 .. Len(blocks') : blocks'[j].var # NoExc => j = Len(blocks')
    BY <1>7, <1>9, <2>1 DEF NoVars
  <2>3. In("catch")'
    BY <1>6, <1>7 DEF In, Outside
  <2> QED BY <2>2, <2>3 DEF OnTop
<1> DEFINE t == RemoveAt(list, i)
<1>11. /\ Len(list) \in Nat /\ Len(t) = Len(list) - 1
       /\ \A j \in 1 .. Len(list) - 1 : t[j] = list[IF j < i THEN j ELSE j + 1]
  BY <1>2, RemoveAtElements
<1> HIDE DEF t
<1>12. ASSUME NEW j \in 1 .. Len(list), j # i PROVE \E k \in 1 .. Len(t) : t[k] = list[j]
  <2>1. CASE j < i
    <3>1. j \in 1 .. Len(list) - 1
      BY <1>11, <2>1
    <3> QED BY <1>11, <2>1, <3>1
  <2>2. CASE j > i
    <3>1. PICK k \in Int : k = j - 1
      BY <1>11
    <3>2. k \in 1 .. Len(list) - 1 /\ ~(k < i) /\ k + 1 = j
      BY <1>11, <2>2, <3>1
    <3> QED BY <1>11, <3>2
  <2> QED BY <1>11, <1>12, <2>1, <2>2
<1>13. \A e \in Exc : Root(e, list, blocks) => Root(e, t, blocks')
  <2> SUFFICES ASSUME NEW e \in Exc, Root(e, list, blocks) PROVE Root(e, t, blocks')
    OBVIOUS
  <2>1. PICK j \in 1 .. Len(list) : list[j] = e
    BY ContextAssumption DEF Root, NoVars
  <2>2. CASE j = i
    <3>1. Depth \in 1 .. Len(blocks')
      BY <1>5, <1>7
    <3> QED BY <1>4, <1>6, <1>8, <2>1, <2>2, <3>1 DEF Root
  <2>3. CASE j # i
    BY <1>12, <2>1, <2>3 DEF Root
  <2> QED BY <2>2, <2>3
<1>14. Kept(t, blocks', cause')
  BY <1>1, <1>13 DEF KeptInv, Kept
<1> QED BY <1>1, <1>4, <1>10, <1>14 DEF KeptInv, t

LEMMA NextKept ==
  ASSUME TypeOK, Matching, OwnedInv, KeptInv, LeaksNothing, [Next]_vars
  PROVE  KeptInv'
<1>1. /\ ctx \in Context /\ cause \in Heap /\ blocks \in Seq(Block) /\ ctx.exceptions \in Seq(Exc)
      /\ Depth = Len(blocks) /\ DOMAIN blocks = 1 .. Len(blocks)
  BY LenProperties DEF TypeOK, Heap, Context, Depth
<1>2. \A phase : In(phase) => ~Outside
  BY DEF In
<1>3. OneCause(cause) /\ NoExc \notin Exc
  BY ContextAssumption DEF OwnedInv, Owned, OneCause
<1>4. ~In("catch") => NoVars(blocks)
  BY DEF KeptInv, OnTop, NoVars
<1>5. ~Outside => /\ Depth \in 1 .. Len(blocks) /\ Last(blocks) = blocks[Depth]
                  /\ Last(blocks) \in Block
  BY <1>1, TopBlock
<1>6. In("catch") /\ Last(blocks).var = NoExc => NoVars(blocks)
  BY <1>1, <1>2, <1>5 DEF KeptInv, OnTop, NoVars
<1>7. ASSUME NoVars(blocks), NoVars(blocks'), ctx'.exceptions = ctx.exceptions, cause' = cause
      PROVE  KeptInv'
  <2>1. Kept(ctx.exceptions, blocks', cause)
    BY <1>7, NoVarsKept DEF KeptInv
  <2>2. OnTop'
    BY <1>7 DEF NoVars, OnTop
  <2> QED BY <1>7, <2>1, <2>2 DEF KeptInv
<1>8. ASSUME ~Outside, NEW b \in Block, b.var = NoExc, blocks' = WithTop(b) PROVE NoVars(blocks')
  <2>1. Dropped(blocks', blocks, Depth)
    BY <1>8, WithTopDropped
  <2> QED BY <1>1, <2>1 DEF Dropped, NoVars, KeptInv, OnTop
<1>9. CASE OpenTry
  <2>1. PICK jmp \in JmpBufs :
           /\ ctx' = Try(ctx, jmp, DONT)
           /\ blocks' = Append(blocks, [jmp |-> jmp, phase |-> PhaseAfter(ctx'),
                                        var |-> NoExc, handled |-> FALSE])
           /\ cause' = cause
    BY <1>9 DEF OpenTry
  <2> DEFINE b == [jmp |-> jmp, phase |-> PhaseAfter(ctx'), var |-> NoExc, handled |-> FALSE]
             d == Try(ctx, jmp, DONT)
  <2>2. b.var = NoExc /\ b \in Block
    BY PhaseAfterType DEF Block
  <2>3. DONT \in JumpReason
    BY DEF JumpReason
  <2>4. d.exceptions = ctx.exceptions
    BY <1>1, <2>3, TryFacts
  <2>5. ctx' = d /\ blocks' = Append(blocks, b)
    BY <2>1
  <2> HIDE DEF b, d
  <2>6. ~In("catch")
    BY <1>9 DEF OpenTry, MayOpen, LeaksNothing, In
  <2>7. NoVars(blocks')
    <3>1. /\ Len(blocks') = Len(blocks) + 1 /\ blocks'[Len(blocks) + 1] = b /\ Len(blocks) \in Nat
          /\ \A i \in 1 .. Len(blocks) : blocks'[i] = blocks[i]
      BY <1>1, <2>2, <2>5, AppendProperties, LenProperties
    <3>2. \A i \in 1 .. Len(blocks) + 1 : i = Len(blocks) + 1 \/ i \in 1 .. Len(blocks)
      BY <3>1
    <3> QED BY <1>4, <2>2, <2>6, <3>1, <3>2 DEF NoVars
  <2> QED BY <1>4, <1>7, <2>1, <2>4, <2>5, <2>6, <2>7
<1>10. CASE EndBody
  <2> DEFINE b == [Last(blocks) EXCEPT !.phase = PhaseAfter(ctx')]
  <2>1. ~Outside /\ NoVars(blocks) /\ ~In("catch")
    BY <1>2, <1>4, <1>10 DEF EndBody, In
  <2>2. b \in Block /\ b.var = NoExc
    BY <1>5, <2>1, PhaseAfterType DEF Block, NoVars
  <2>3. StopTrying(ctx).exceptions = ctx.exceptions
    BY <1>1, StopTryingFacts
  <2>4. ctx' = StopTrying(ctx) /\ blocks' = WithTop(b) /\ cause' = cause
    BY <1>10 DEF EndBody
  <2> HIDE DEF b
  <2> QED BY <1>7, <1>8, <2>1, <2>2, <2>3, <2>4
<1>11. CASE BreakBody
  <2> DEFINE b == [Last(blocks) EXCEPT !.phase = "finally"]
  <2>1. ~Outside /\ NoVars(blocks) /\ ~In("catch")
    BY <1>2, <1>4, <1>11 DEF BreakBody, In
  <2>2. b \in Block /\ b.var = NoExc
    BY <1>5, <2>1 DEF Block, Phase, NoVars
  <2>3. ctx' = ctx /\ blocks' = WithTop(b) /\ cause' = cause
    BY <1>11 DEF BreakBody
  <2> HIDE DEF b
  <2> QED BY <1>7, <1>8, <2>1, <2>2, <2>3
<1>12. CASE ThrowNew
  <2>1. PICK e \in Exc \ Live : Go(Throw(ctx, e), New(cause, e, NoExc), blocks)
    BY <1>12 DEF ThrowNew
  <2>2. New(cause, e, NoExc) \in Heap /\ cause[e] = Free /\ OneCause(New(cause, e, NoExc))
    BY <1>1, <1>3, NewType, NewOneCause DEF Live
  <2>3. NoVars(blocks)
    <3>1. MayThrow /\ "throwInCatch" \notin Usage
      BY <1>12 DEF ThrowNew, LeaksNothing
    <3>2. CASE ~In("catch")
      BY <1>4, <3>2
    <3>3. CASE In("catch")
      <4>1. ~Outside /\ ~In("body") /\ ~In("finally")
        BY <3>3 DEF In
      <4>2. Last(blocks).var = NoExc
        BY <3>1, <4>1, Zenon DEF MayThrow
      <4> QED BY <1>6, <3>3, <4>2
    <3> QED BY <3>2, <3>3
  <2>4. \A bs \in Seq(Block) : Kept(Append(ctx.exceptions, e), bs, New(cause, e, NoExc))
    <3>1. \A bs : \A i \in 1 .. Len(blocks) :
             blocks[i].var \in Exc \ {NoExc} => \E j \in 1 .. Len(bs) : bs[j].var = blocks[i].var
      BY <1>3, <2>3 DEF NoVars
    <3> QED BY <1>1, <2>2, <3>1, NewKept DEF KeptInv
  <2> QED BY <1>1, <2>1, <2>2, <2>4, ThrowKept DEF KeptInv
<1>13. CASE Rethrow
  <2> DEFINE c == Last(blocks).var
  <2>1. PICK e \in Exc \ Live : Go(Throw(ctx, e), New(cause, e, c), blocks)
    BY <1>13 DEF Rethrow
  <2>2. c \in Exc /\ ~Outside /\ cause[c] = NoExc /\ blocks[Depth].var = c
    BY <1>2, <1>5, <1>13 DEF Rethrow, InCatchHolding, Block, LeaksNothing
  <2> HIDE DEF c
  <2>3. New(cause, e, c) \in Heap /\ cause[e] = Free /\ OneCause(New(cause, e, c))
    BY <1>1, <1>3, <2>2, NewType, NewOneCause DEF Live
  <2>4. \A bs \in Seq(Block) : Kept(Append(ctx.exceptions, e), bs, New(cause, e, c))
    <3>1. \A bs : \A i \in 1 .. Len(blocks) :
             blocks[i].var \in Exc \ {c} => \E j \in 1 .. Len(bs) : bs[j].var = blocks[i].var
      BY <1>1, <1>3, <2>2 DEF KeptInv, OnTop
    <3> QED BY <1>1, <2>2, <2>3, <3>1, NewKept DEF KeptInv
  <2> QED BY <1>1, <2>1, <2>2, <2>3, <2>4, ThrowKept DEF KeptInv
<1>14. CASE RethrowSame
  <2> DEFINE e == Last(blocks).var
             t == Append(ctx.exceptions, e)
  <2>1. Go(Throw(ctx, e), cause, blocks)
    BY <1>14 DEF RethrowSame
  <2>2. e \in Exc /\ ~Outside /\ blocks[Depth].var = e
    BY <1>2, <1>5, <1>14 DEF RethrowSame, InCatchHolding, Block
  <2> HIDE DEF e
  <2>3. /\ Len(ctx.exceptions) \in Nat /\ Len(t) = Len(ctx.exceptions) + 1
        /\ t[Len(ctx.exceptions) + 1] = e
        /\ \A i \in 1 .. Len(ctx.exceptions) : t[i] = ctx.exceptions[i]
    BY <1>1, <2>2, AppendProperties, LenProperties
  <2> HIDE DEF t
  <2>4. \A x \in Exc, bs \in Seq(Block) : Root(x, ctx.exceptions, blocks) => Root(x, t, bs)
    <3> SUFFICES ASSUME NEW x \in Exc, NEW bs \in Seq(Block), Root(x, ctx.exceptions, blocks)
                 PROVE  \E i \in 1 .. Len(t) : t[i] = x
      BY DEF Root
    <3>1. CASE x = e
      <4>1. Len(ctx.exceptions) + 1 \in 1 .. Len(t)
        BY <2>3
      <4> QED BY <2>3, <3>1, <4>1
    <3>2. CASE x # e
      <4>1. PICK i \in 1 .. Len(ctx.exceptions) : ctx.exceptions[i] = x
        BY <1>1, <1>3, <2>2, <3>2 DEF KeptInv, OnTop, Root
      <4>2. i \in 1 .. Len(t)
        BY <2>3
      <4> QED BY <2>3, <4>1, <4>2
    <3> QED BY <3>1, <3>2
  <2>5. \A bs \in Seq(Block) : Kept(t, bs, cause)
    BY <2>4 DEF KeptInv, Kept
  <2> QED BY <1>1, <1>3, <2>1, <2>2, <2>5, ThrowKept DEF KeptInv, t
<1>15. ASSUME NEW type \in Types, CatchHit(type) PROVE KeptInv'
  <2>1. NoVars(blocks)
    BY <1>4, <1>15 DEF CatchHit, In
  <2> QED BY <1>15, <2>1, CatchKept
<1>16. ASSUME NEW i \in 1 .. Len(blocks), blocks[i].var \in Exc,
              Dropped(blocks', blocks, i), ctx' = ctx,
              cause' = Release(cause, {blocks[i].var})
       PROVE  KeptInv'
  <2>1. NoVars(blocks')
    BY <1>1, <1>3, <1>16 DEF Dropped, NoVars, KeptInv, OnTop
  <2>2. \A e \in Exc : Root(e, ctx.exceptions, blocks) => \/ Root(e, ctx.exceptions, blocks')
                                                         \/ e \in {blocks[i].var}
    BY <1>3, <1>16 DEF Root, KeptInv, OnTop
  <2>3. Kept(ctx.exceptions, blocks', Release(cause, {blocks[i].var}))
    BY <1>1, <1>3, <1>16, <2>2, FreedKept DEF KeptInv
  <2>4. OnTop'
    BY <2>1 DEF NoVars, OnTop
  <2> QED BY <1>16, <2>3, <2>4 DEF KeptInv
<1>17. CASE CatchDone
  <2> DEFINE b == [Last(blocks) EXCEPT !.phase = "finally", !.var = NoExc]
  <2>1. ~Outside /\ Last(blocks).var \in Exc
    BY <1>2, <1>5, <1>17 DEF CatchDone, InCatchHolding, Block
  <2>2. b \in Block /\ b.var = NoExc
    BY <1>5, <2>1 DEF Block, Phase
  <2>3. blocks' = WithTop(b)
    BY <1>17 DEF CatchDone
  <2> HIDE DEF b
  <2>4. Dropped(blocks', blocks, Depth)
    BY <2>1, <2>2, <2>3, WithTopDropped
  <2> QED BY <1>5, <1>16, <1>17, <2>1, <2>4 DEF CatchDone
<1>18. CASE ReleaseException
  <2>1. PICK i \in DOMAIN blocks :
          /\ blocks[i].var # NoExc
          /\ blocks' = [blocks EXCEPT ![i] = [blocks[i] EXCEPT !.var = NoExc]]
          /\ cause' = Release(cause, {blocks[i].var})
          /\ ctx' = ctx
    BY <1>18 DEF ReleaseException
  <2>2. blocks[i] \in Block /\ i \in 1 .. Len(blocks)
    BY <1>1, <2>1, ElementOfSeq
  <2>3. blocks[i].var \in Exc
    BY <2>1, <2>2 DEF Block
  <2>4. [blocks[i] EXCEPT !.var = NoExc] \in Block /\ [blocks[i] EXCEPT !.var = NoExc].var = NoExc
    BY <2>2 DEF Block
  <2>5. /\ Len(blocks') = Len(blocks)
        /\ \A j \in 1 .. Len(blocks) :
              blocks'[j] = IF j = i THEN [blocks[i] EXCEPT !.var = NoExc] ELSE blocks[j]
    BY <1>1, <2>1, <2>2, <2>4, ExceptSeq
  <2>6. Dropped(blocks', blocks, i)
    BY <2>4, <2>5 DEF Dropped
  <2> QED BY <1>16, <2>1, <2>2, <2>3, <2>6
<1>19. CASE BreakCatch
  <2> DEFINE b == [Last(blocks) EXCEPT !.phase = "finally"]
  <2>1. ~Outside /\ NoVars(blocks) /\ Last(blocks).var = NoExc
    BY <1>2, <1>6, <1>19 DEF BreakCatch
  <2>2. b \in Block /\ b.var = NoExc
    BY <1>5, <2>1 DEF Block, Phase
  <2>3. ctx' = ctx /\ blocks' = WithTop(b) /\ cause' = cause
    BY <1>19 DEF BreakCatch
  <2> HIDE DEF b
  <2> QED BY <1>7, <1>8, <2>1, <2>2, <2>3
<1>20. CASE ReturnFromCatch
  BY <1>20 DEF ReturnFromCatch, LeaksNothing
<1>21. CASE EndFinally
  <2>1. NoVars(blocks)
    BY <1>4, <1>21 DEF EndFinally, In
  <2> QED BY <1>3, <1>21, <2>1, FinallyKept
<1>22. CASE UNCHANGED vars
  BY <1>22 DEF vars, KeptInv, OnTop, In, Outside
<1> QED BY <1>9, <1>10, <1>11, <1>12, <1>13, <1>14, <1>15, <1>17, <1>18, <1>19, <1>20, <1>21, <1>22
        DEF Next

\* In a program that leaves no "catch", by a throw or by unwinding, while its variable
\* has an exception, and rethrows with a cause at most once: every allocated exception
\* is on the list, in a variable or a cause, so that something will free it.
THEOREM NothingLeaks == LeaksNothing => (Spec => []NoLeak)
<1> SUFFICES ASSUME LeaksNothing PROVE Spec => []NoLeak
  OBVIOUS
<1>1. FreesOnce /\ NoReturn
  BY DEF LeaksNothing, FreesOnce, NoReturn
<1>2. Init => KeptInv
  <2> SUFFICES ASSUME Init PROVE KeptInv
    OBVIOUS
  <2>1. Len(blocks) = 0 /\ \A e \in Exc : cause[e] = Free
    BY EmptySeq DEF Init
  <2> QED BY <2>1 DEF KeptInv, Kept, OnTop
<1>3. MatchingInv /\ OwnedInv /\ KeptInv /\ [Next]_vars => KeptInv'
  BY NextKept DEF MatchingInv
<1>4. MatchingInv /\ KeptInv => NoLeak
  <2> SUFFICES ASSUME TypeOK, KeptInv, NEW e \in Live PROVE Owners(e) # {}
    BY DEF NoLeak, MatchingInv
  <2>1. DOMAIN ctx.exceptions = 1 .. Len(ctx.exceptions) /\ DOMAIN blocks = 1 .. Len(blocks)
    BY LenProperties DEF TypeOK, Context
  <2>2. Root(e, ctx.exceptions, blocks) \/ \E x \in Exc : cause[x] = e
    BY DEF KeptInv, Kept, Live
  <2>3. CASE \E i \in 1 .. Len(ctx.exceptions) : ctx.exceptions[i] = e
    BY <2>1, <2>3 DEF Owners
  <2>4. CASE \E i \in 1 .. Len(blocks) : blocks[i].var = e
    BY <2>1, <2>4 DEF Owners
  <2>5. CASE \E x \in Exc : cause[x] = e
    BY <2>5, UsageAssumption DEF Owners, Live
  <2> QED BY <2>2, <2>3, <2>4, <2>5 DEF Root
<1> QED BY <1>1, <1>2, <1>3, <1>4, OwnedInvariant, PTL DEF Spec

-----------------------------------------------------------------------------
(* The macros implement try, catch and finally *)

\* A block and a stack of blocks as the abstract specification sees them
AsBlock(b) == [phase |-> b.phase, var |-> b.var, handled |-> b.handled]
AsOpen(s) == [i \in DOMAIN s |-> [phase |-> s[i].phase, var |-> s[i].var, handled |-> s[i].handled]]

\* What an exception does to the innermost of these blocks
Interrupted(b) == [b EXCEPT !.phase = "finally", !.var = NoExc]
Unwind(s) == IF s = << >> THEN s ELSE Append(Front(s), Interrupted(Last(s)))

LEMMA AsBlockType ==
  ASSUME NEW b \in Block
  PROVE  AsBlock(b) \in Structured!Block
BY DEF AsBlock, Block, Phase, Structured!Block

\* The abstract stack has the abstract blocks.
LEMMA AsOpenFacts ==
  ASSUME NEW s \in Seq(Block)
  PROVE  /\ AsOpen(s) \in Seq(Structured!Block)
         /\ Len(AsOpen(s)) = Len(s)
         /\ \A i \in 1 .. Len(s) : AsOpen(s)[i] = AsBlock(s[i])
         /\ AsOpen(s) = << >> <=> s = << >>
<1>1. PICK n \in Nat : n = Len(s) /\ DOMAIN s = 1 .. n
  BY LenProperties
<1>2. \A i \in 1 .. n : AsBlock(s[i]) \in Structured!Block
  BY <1>1, ElementOfSeq, AsBlockType
<1>3. AsOpen(s) = [i \in 1 .. n |-> AsBlock(s[i])]
  BY <1>1 DEF AsOpen, AsBlock
<1>4. AsOpen(s) \in [1 .. n -> Structured!Block]
  BY <1>2, <1>3
<1>5. AsOpen(s) \in Seq(Structured!Block)
  BY <1>4, SeqDef
<1>6. Len(AsOpen(s)) = n
  BY <1>1, <1>4, <1>5, LenProperties
<1>7. \A i \in 1 .. n : AsOpen(s)[i] = AsBlock(s[i])
  BY <1>3
<1>8. AsOpen(s) = << >> <=> s = << >>
  BY <1>1, <1>5, <1>6, EmptySeq
<1> QED BY <1>1, <1>5, <1>6, <1>7, <1>8

LEMMA AsOpenAppend ==
  ASSUME NEW s \in Seq(Block), NEW b \in Block
  PROVE  AsOpen(Append(s, b)) = Append(AsOpen(s), AsBlock(b))
<1> DEFINE t == Append(s, b)
           u == Append(AsOpen(s), AsBlock(b))
<1>1. PICK n \in Nat : n = Len(s)
  BY LenProperties
<1>2. t \in Seq(Block) /\ Len(t) = n + 1 /\ t[n + 1] = b /\ \A i \in 1 .. n : t[i] = s[i]
  BY <1>1, AppendProperties
<1>3. /\ AsOpen(s) \in Seq(Structured!Block) /\ Len(AsOpen(s)) = n
      /\ \A i \in 1 .. n : AsOpen(s)[i] = AsBlock(s[i])
      /\ AsBlock(b) \in Structured!Block
  BY <1>1, AsOpenFacts, AsBlockType
<1>4. /\ u \in Seq(Structured!Block) /\ Len(u) = n + 1 /\ u[n + 1] = AsBlock(b)
      /\ \A i \in 1 .. n : u[i] = AsOpen(s)[i]
  BY <1>3, AppendProperties
<1> HIDE DEF t, u
<1>5. /\ AsOpen(t) \in Seq(Structured!Block) /\ Len(AsOpen(t)) = n + 1
      /\ \A i \in 1 .. n + 1 : AsOpen(t)[i] = AsBlock(t[i])
  BY <1>2, AsOpenFacts
<1>6. \A i \in 1 .. n + 1 : i = n + 1 \/ i \in 1 .. n
  OBVIOUS
<1>7. \A i \in 1 .. n + 1 : AsOpen(t)[i] = u[i]
  BY <1>2, <1>3, <1>4, <1>5, <1>6
<1>8. AsOpen(t) = u
  BY <1>4, <1>5, <1>7, SeqEqual
<1> QED BY <1>8 DEF t, u

LEMMA AsOpenFront ==
  ASSUME NEW s \in Seq(Block), s # << >>
  PROVE  /\ Front(AsOpen(s)) = AsOpen(Front(s))
         /\ Last(AsOpen(s)) = AsBlock(Last(s))
<1>1. PICK n \in Nat : n = Len(s) - 1
  BY FrontFacts
<1>2. /\ Front(s) \in Seq(Block) /\ Len(Front(s)) = n /\ Len(s) = n + 1
      /\ \A i \in 1 .. n : Front(s)[i] = s[i]
      /\ Last(s) = s[n + 1]
  BY <1>1, FrontFacts
<1>3. /\ AsOpen(s) \in Seq(Structured!Block) /\ Len(AsOpen(s)) = n + 1 /\ AsOpen(s) # << >>
      /\ \A i \in 1 .. n + 1 : AsOpen(s)[i] = AsBlock(s[i])
  BY <1>2, AsOpenFacts
<1>4. /\ Front(AsOpen(s)) \in Seq(Structured!Block) /\ Len(Front(AsOpen(s))) = n
      /\ \A i \in 1 .. n : Front(AsOpen(s))[i] = AsOpen(s)[i]
      /\ Last(AsOpen(s)) = AsOpen(s)[n + 1]
  <2> DEFINE t == AsOpen(s)
  <2>1. /\ Front(t) \in Seq(Structured!Block) /\ Len(Front(t)) = Len(t) - 1
        /\ \A i \in 1 .. Len(t) - 1 : Front(t)[i] = t[i]
        /\ Last(t) = t[Len(t)]
    BY <1>3, FrontFacts
  <2> HIDE DEF t
  <2>2. Len(t) = n + 1 /\ Len(t) - 1 = n
    BY <1>3 DEF t
  <2> QED BY <2>1, <2>2 DEF t
<1>5. /\ AsOpen(Front(s)) \in Seq(Structured!Block) /\ Len(AsOpen(Front(s))) = n
      /\ \A i \in 1 .. n : AsOpen(Front(s))[i] = AsBlock(Front(s)[i])
  BY <1>2, AsOpenFacts
<1>6. \A i \in 1 .. n : i \in 1 .. n + 1
  OBVIOUS
<1>7. \A i \in 1 .. n : Front(AsOpen(s))[i] = AsOpen(Front(s))[i]
  BY <1>2, <1>3, <1>4, <1>5, <1>6
<1>8. Front(AsOpen(s)) = AsOpen(Front(s))
  BY <1>4, <1>5, <1>7, SeqEqual
<1> QED BY <1>2, <1>3, <1>4, <1>8

LEMMA InterruptedType ==
  ASSUME NEW b \in Block
  PROVE  /\ Interrupted(b) \in Block
         /\ Interrupted(b).handled = b.handled
         /\ AsBlock(Interrupted(b)) = [AsBlock(b) EXCEPT !.phase = "finally", !.var = NoExc]
<1> DEFINE x == [AsBlock(b) EXCEPT !.phase = "finally", !.var = NoExc]
<1>1. Interrupted(b) \in [jmp : {b.jmp}, phase : {"finally"}, var : {NoExc}, handled : {b.handled}]
  BY DEF Interrupted, Block
<1>2. x \in [phase : {"finally"}, var : {NoExc}, handled : {b.handled}]
  BY DEF AsBlock
<1> HIDE DEF x
<1>3. Interrupted(b) \in Block
  BY <1>1 DEF Block, Phase
<1>4. AsBlock(Interrupted(b)) = [phase |-> "finally", var |-> NoExc, handled |-> b.handled]
  BY <1>1 DEF AsBlock
<1>5. x = [phase |-> "finally", var |-> NoExc, handled |-> b.handled]
  BY <1>2
<1>6. Interrupted(b).handled = b.handled
  BY <1>1
<1> QED BY <1>3, <1>4, <1>5, <1>6 DEF x

LEMMA AsOpenUnwind ==
  ASSUME NEW s \in Seq(Block)
  PROVE  /\ Unwind(s) \in Seq(Block)
         /\ AsOpen(Unwind(s)) = Structured!Unwound(AsOpen(s))
<1>1. CASE s = << >>
  BY <1>1, AsOpenFacts DEF Unwind, Structured!Unwound
<1>2. CASE s # << >>
  <2>1. Front(s) \in Seq(Block) /\ Last(s) \in Block
    BY <1>2, FrontFacts
  <2>2. Interrupted(Last(s)) \in Block
    BY <2>1, InterruptedType
  <2>3. Unwind(s) = Append(Front(s), Interrupted(Last(s)))
    BY <1>2 DEF Unwind
  <2>4. AsOpen(Unwind(s)) = Append(AsOpen(Front(s)), AsBlock(Interrupted(Last(s))))
    BY <2>1, <2>2, <2>3, AsOpenAppend
  <2>5. AsOpen(s) # << >>
    BY <1>2, AsOpenFacts
  <2>6. /\ AsOpen(Front(s)) = Front(AsOpen(s)) /\ Last(AsOpen(s)) = AsBlock(Last(s))
        /\ AsBlock(Interrupted(Last(s))) = [AsBlock(Last(s)) EXCEPT !.phase = "finally", !.var = NoExc]
    BY <1>2, <2>1, AsOpenFront, InterruptedType
  <2>7. Structured!Unwound(AsOpen(s))
          = Append(Front(AsOpen(s)), [Last(AsOpen(s)) EXCEPT !.phase = "finally", !.var = NoExc])
    BY <2>5 DEF Structured!Unwound, Structured!Front, Structured!Last, Front, Last
  <2>8. Unwind(s) \in Seq(Block)
    BY <2>1, <2>2, <2>3, AppendProperties
  <2> QED BY <2>4, <2>6, <2>7, <2>8
<1> QED BY <1>1, <1>2

\* The exception in flight as the abstract specification sees it
Flying == IF HasExceptions(ctx) THEN ctx.exceptions[1] ELSE NoExc

\* Code that throws and opens blocks only in the body of a "try", throws in a
\* "catch", and does not `return` from one.
Disciplined == Usage \subseteq {"throwInCatch", "causeOfCause"}

\* The frame of a block remembers that one of its clauses was selected; only the
\* innermost block can be such a one, and not while its body runs.
HandledOnce ==
  /\ \A i \in 1 .. Depth : /\ ctx.frames[i].rethrowing = blocks[i].handled
                           /\ ctx.frames[i].reason # RETHROW
  /\ \A i \in 1 .. Depth - 1 : ~blocks[i].handled
  /\ In("body") => ~Last(blocks).handled

\* A step that leaves the frames and blocks below the new innermost one alone.
LEMMA HandledKept ==
  ASSUME HandledOnce, Depth \in Nat, Depth' \in Nat, Depth' <= Depth,
         \A i \in 1 .. Depth' - 1 : ctx'.frames[i] = ctx.frames[i] /\ blocks'[i] = blocks[i],
         Depth' # 0 => /\ ctx'.frames[Depth'].rethrowing = blocks'[Depth'].handled
                       /\ ctx'.frames[Depth'].reason # RETHROW,
         In("body")' => ~Last(blocks').handled
  PROVE  HandledOnce'
<1>1. \A m, n \in Nat : m <= n => /\ \A i \in 1 .. m - 1 : i \in 1 .. n /\ i \in 1 .. n - 1
                                  /\ \A i \in 1 .. m : (i = m /\ m # 0) \/ i \in 1 .. m - 1
  OBVIOUS
<1>2. /\ \A i \in 1 .. Depth' - 1 : i \in 1 .. Depth /\ i \in 1 .. Depth - 1
      /\ \A i \in 1 .. Depth' : (i = Depth' /\ Depth' # 0) \/ i \in 1 .. Depth' - 1
  BY <1>1, Zenon
<1>3. \A i \in 1 .. Depth' : ctx'.frames[i].rethrowing = blocks'[i].handled /\ ctx'.frames[i].reason # RETHROW
  BY <1>2 DEF HandledOnce
<1>4. \A i \in 1 .. Depth' - 1 : ~blocks'[i].handled
  BY <1>2 DEF HandledOnce
<1> QED BY <1>3, <1>4 DEF HandledOnce

\* Where an exception lands: it is in the block's "finally", alone in flight, and
\* the block still knows whether it has selected a clause.
LEMMA LandingHandles ==
  ASSUME TypeOK, Matching, HandledOnce, NEW r \in JumpResult, NEW h \in Heap, NEW rest,
         Go(r, h, rest), NEW k \in 1 .. Depth, LandsAt(ctx, r, k), HasExceptions(r.ctx),
         r.why = IF blocks[k].handled THEN RETHROW ELSE THROW,
         \A i \in 1 .. k - 1 : r.ctx.frames[i] = ctx.frames[i]
  PROVE  /\ HandledOnce'
         /\ ctx'.exceptions = <<r.ctx.exceptions[1]>>
         /\ blocks' = Append(SubSeq(blocks, 1, k - 1), Interrupted(blocks[k]))
<1> DEFINE d == Try(r.ctx, r.to, r.why)
           b == Interrupted(blocks[k])
           t == Append(SubSeq(blocks, 1, k - 1), b)
<1>1. /\ ctx' = d
      /\ blocks' = Append(SubSeq(blocks, 1, k - 1),
                          [blocks[k] EXCEPT !.phase = PhaseAfter(ctx'), !.var = NoExc])
  BY Landing
<1>2. blocks \in Seq(Block) /\ DOMAIN blocks = 1 .. Depth /\ Depth \in Nat
  BY LenProperties DEF TypeOK, Depth
<1>3. blocks[k] \in Block /\ k \in DOMAIN blocks
  BY <1>2, ElementOfSeq, LenProperties
<1>4. /\ r.ctx \in Context /\ r.why \in JumpReason /\ r.to \in JmpBufs
      /\ r.why # DONT /\ Len(r.ctx.frames) = k - 1
  <2>1. r.to = blocks[k].jmp
    BY <1>2 DEF LandsAt, Matching, SameJmps, Depth
  <2> QED BY <1>3, <2>1 DEF LandsAt, JumpResult, Block
<1>5. /\ d \in Context
      /\ HasFrame(d)
      /\ Len(d.frames) = Len(r.ctx.frames) + 1
      /\ \A i \in 1 .. Len(r.ctx.frames) : d.frames[i] = r.ctx.frames[i]
      /\ CurrentFrame(d) = TryFrame(r.to, r.why)
      /\ d.exceptions = <<r.ctx.exceptions[1]>>
  BY <1>4, TryFacts
<1>6. /\ TryFrame(r.to, r.why).reason = THROW
      /\ TryFrame(r.to, r.why).trying = FALSE
      /\ TryFrame(r.to, r.why).rethrowing = blocks[k].handled
  <2>1. blocks[k].handled \in BOOLEAN
    BY <1>3 DEF Block
  <2> QED BY <1>4, <2>1 DEF TryFrame, NewFrame, JumpReason, DONT, THROW, RETHROW
<1>7. Len(d.frames) = k
  BY <1>2, <1>4, <1>5
<1>8. CurrentFrame(d) = d.frames[k]
  BY <1>5, <1>7, CurrentFrameFacts
<1> HIDE DEF d
<1>9. PhaseAfter(ctx') = "finally"
  BY <1>1, <1>5, <1>6 DEF PhaseAfter, IsTrying
<1>10. blocks' = t
  BY <1>1, <1>9 DEF Interrupted
<1>11. b \in Block /\ b.handled = blocks[k].handled /\ b.phase = "finally"
  BY <1>3, InterruptedType DEF Interrupted, Block
<1> HIDE DEF b
<1>12. /\ t \in Seq(Block)
       /\ Len(t) = k
       /\ t # << >>
       /\ Last(t) = b /\ t[k] = b
       /\ \A j \in 1 .. k - 1 : t[j] = blocks[j]
  BY <1>2, <1>3, <1>11, LandedFacts
<1> HIDE DEF t
<1>13. Depth' = k /\ k \in Nat /\ k <= Depth
  BY <1>2, <1>10, <1>12 DEF Depth
<1>14. ~In("body")'
  BY <1>10, <1>11, <1>12 DEF In
<1>15. \A i \in 1 .. k - 1 : ctx'.frames[i] = ctx.frames[i] /\ blocks'[i] = blocks[i]
  BY <1>1, <1>4, <1>5, <1>10, <1>12
<1>16. /\ ctx'.frames[k].rethrowing = blocks'[k].handled
       /\ ctx'.frames[k].reason # RETHROW
  BY <1>1, <1>5, <1>6, <1>8, <1>10, <1>11, <1>12 DEF THROW, RETHROW
<1>17. HandledOnce'
  BY <1>2, <1>13, <1>14, <1>15, <1>16, HandledKept
<1> QED BY <1>1, <1>5, <1>10, <1>17 DEF t, b

\* A throw inside a block interrupts that block.
LEMMA ThrowHandles ==
  ASSUME TypeOK, Matching, Unwinding, HandledOnce, In("body") \/ In("catch"), NEW e \in Exc, NEW h \in Heap,
         Go(Throw(ctx, e), h, blocks)
  PROVE  HandledOnce' /\ ctx'.exceptions = <<e>> /\ blocks' = Unwind(blocks)
<1> DEFINE r == Throw(ctx, e)
<1>1. ~Outside /\ Len(ctx.exceptions) = 0 /\ ctx.exceptions \in Seq(Exc)
  <2>1. "finally" # "body" /\ "finally" # "catch"
    OBVIOUS
  <2> QED BY <2>1 DEF Unwinding, In, TypeOK, Context
<1>2. /\ HasFrame(ctx) /\ ctx \in Context /\ Len(ctx.frames) = Depth /\ Depth \in Nat \ {0}
      /\ CurrentFrame(ctx) = ctx.frames[Depth]
  BY <1>1, CurrentIsTop
<1>3. /\ r \in JumpResult /\ r.ctx.exceptions = Append(ctx.exceptions, e)
      /\ LandsAt(ctx, r, Len(ctx.frames))
      /\ \A i \in 1 .. Len(ctx.frames) - 1 : r.ctx.frames[i] = ctx.frames[i]
      /\ r.why = IF IsRethrowing(ctx) THEN RETHROW ELSE THROW
  BY <1>2, ThrowFacts
<1> HIDE DEF r
<1>4. r.ctx.exceptions = <<e>>
  <2>1. ctx.exceptions = << >>
    BY <1>1, EmptySeq
  <2>2. Append(<< >>, e) = <<e>>
    OBVIOUS
  <2> QED BY <1>3, <2>1, <2>2, Zenon
<1>5. HasExceptions(r.ctx) /\ r.ctx.exceptions[1] = e
  BY <1>4 DEF HasExceptions
<1>6. IsRethrowing(ctx) <=> blocks[Depth].handled
  <2>1. Depth \in 1 .. Depth
    BY <1>2
  <2>2. CurrentFrame(ctx).rethrowing = blocks[Depth].handled
    BY <1>2, <2>1 DEF HandledOnce
  <2> QED BY <1>2, <2>2, Zenon DEF IsRethrowing
<1>7. Depth \in 1 .. Depth /\ Go(r, h, blocks)
  BY <1>2 DEF r
<1>8. r.why = IF blocks[Depth].handled THEN RETHROW ELSE THROW
  BY <1>3, <1>6
<1>9. LandsAt(ctx, r, Depth) /\ \A i \in 1 .. Depth - 1 : r.ctx.frames[i] = ctx.frames[i]
  BY <1>2, <1>3
<1>10. /\ HandledOnce'
       /\ ctx'.exceptions = <<r.ctx.exceptions[1]>>
       /\ blocks' = Append(SubSeq(blocks, 1, Depth - 1), Interrupted(blocks[Depth]))
  BY <1>3, <1>5, <1>7, <1>8, <1>9, LandingHandles
<1>11. Unwind(blocks) = Append(SubSeq(blocks, 1, Depth - 1), Interrupted(blocks[Depth]))
  BY <1>1 DEF Unwind, Front, Last, Depth, Outside
<1> QED BY <1>5, <1>10, <1>11

\* Control is in the same phase of the same block in both specifications.
LEMMA AsOpenTop ==
  ASSUME TypeOK
  PROVE  /\ \A phase : Structured!In(phase) <=> In(phase)
         /\ ~Outside => Structured!Top = AsBlock(Last(blocks))
<1>1. blocks \in Seq(Block)
  BY DEF TypeOK
<1>2. AsOpen(blocks) = << >> <=> Outside
  BY <1>1, AsOpenFacts DEF Outside
<1>3. ~Outside => Structured!Top = AsBlock(Last(blocks))
  BY <1>1, AsOpenFront DEF Outside, Structured!Top, Structured!Last, Last, AsOpen
<1>4. AsBlock(Last(blocks)).phase = Last(blocks).phase
  BY DEF AsBlock
<1>5. \A phase : Structured!In(phase) <=> AsOpen(blocks) # << >> /\ Structured!Top.phase = phase
  BY DEF Structured!In, AsOpen
<1> QED BY <1>2, <1>3, <1>4, <1>5, Zenon DEF In

\* Changing the innermost block is the same in both.
LEMMA AsOpenWithTop ==
  ASSUME TypeOK, ~Outside, NEW b \in Block
  PROVE  AsOpen(WithTop(b)) = Structured!WithTop(AsBlock(b))
<1>1. blocks \in Seq(Block) /\ blocks # << >>
  BY DEF TypeOK, Outside
<1>2. Front(blocks) \in Seq(Block) /\ Len(Front(blocks)) = Depth - 1 /\ Depth \in Nat \ {0}
      /\ \A i \in 1 .. Depth - 1 : Front(blocks)[i] = blocks[i]
  BY TopBlock
<1> DEFINE t == Append(Front(blocks), b)
           u == WithTop(b)
<1>3. t \in Seq(Block) /\ Len(t) = Depth /\ t[Depth] = b /\ \A i \in 1 .. Depth - 1 : t[i] = blocks[i]
  BY <1>2, AppendProperties
<1>4. u \in Seq(Block) /\ Len(u) = Depth /\ Last(u) = b /\ \A i \in 1 .. Depth - 1 : u[i] = blocks[i]
  BY WithTopFacts
<1> HIDE DEF t, u
<1>5. u[Depth] = b
  BY <1>4 DEF Last
<1>6. \A i \in 1 .. Depth : i = Depth \/ i \in 1 .. Depth - 1
  BY <1>2
<1>7. u = t
  BY <1>3, <1>4, <1>5, <1>6, SeqEqual
<1>8. AsOpen(u) = Append(AsOpen(Front(blocks)), AsBlock(b))
  BY <1>2, <1>7, AsOpenAppend DEF t
<1>9. AsOpen(Front(blocks)) = Front(AsOpen(blocks))
  BY <1>1, AsOpenFront
<1>10. Structured!WithTop(AsBlock(b)) = Append(Front(AsOpen(blocks)), AsBlock(b))
  BY DEF Structured!WithTop, Structured!Front, Front, AsOpen
<1> QED BY <1>8, <1>9, <1>10 DEF u

\* A step inside the innermost block.
LEMMA TopHandles ==
  ASSUME TypeOK, Matching, HandledOnce, ~Outside, NEW b \in Block,
         blocks' = WithTop(b),
         \A i \in 1 .. Depth - 1 : ctx'.frames[i] = ctx.frames[i],
         ctx'.frames[Depth].rethrowing = b.handled, ctx'.frames[Depth].reason # RETHROW,
         b.phase = "body" => ~b.handled
  PROVE  HandledOnce'
<1>1. Depth \in Nat \ {0}
  BY TopBlock
<1>2. /\ WithTop(b) \in Seq(Block)
      /\ Len(WithTop(b)) = Depth
      /\ WithTop(b) # << >>
      /\ Last(WithTop(b)) = b
      /\ \A i \in 1 .. Depth - 1 : WithTop(b)[i] = blocks[i]
  BY WithTopFacts
<1>3. Depth' = Depth /\ blocks'[Depth] = b /\ Last(blocks') = b
  BY <1>2 DEF Depth, Last
<1>4. In("body")' => ~Last(blocks').handled
  BY <1>3 DEF In
<1>5. \A i \in 1 .. Depth' - 1 : ctx'.frames[i] = ctx.frames[i] /\ blocks'[i] = blocks[i]
  BY <1>2, <1>3
<1> QED BY <1>1, <1>3, <1>4, <1>5, HandledKept

LEMMA OpenEnters ==
  ASSUME TypeOK, Matching, Unwinding, HandledOnce, Disciplined, OpenTry
  PROVE  HandledOnce' /\ Structured!Enter
<1>1. MayOpen /\ Depth < MaxDepth
  BY DEF OpenTry
<1>2. PICK jmp \in JmpBufs :
         /\ ctx' = Try(ctx, jmp, DONT)
         /\ blocks' = Append(blocks, [jmp |-> jmp, phase |-> PhaseAfter(ctx'),
                                      var |-> NoExc, handled |-> FALSE])
  BY DEF OpenTry
<1> DEFINE d == Try(ctx, jmp, DONT)
           b == [jmp |-> jmp, phase |-> PhaseAfter(ctx'), var |-> NoExc, handled |-> FALSE]
<1>3. blocks \in Seq(Block) /\ ctx \in Context /\ Depth \in Nat /\ Len(blocks) = Depth /\ Len(ctx.frames) = Depth
  BY FrameIffInside DEF TypeOK, Depth
<1>4. DONT \in JumpReason
  BY DEF JumpReason
<1>5. /\ d \in Context
      /\ HasFrame(d)
      /\ Len(d.frames) = Len(ctx.frames) + 1
      /\ \A i \in 1 .. Len(ctx.frames) : d.frames[i] = ctx.frames[i]
      /\ CurrentFrame(d) = TryFrame(jmp, DONT)
      /\ d.exceptions = ctx.exceptions
  BY <1>3, <1>4, TryFacts
<1>6. CurrentFrame(d) = d.frames[Depth + 1]
  BY <1>3, <1>5, CurrentFrameFacts
<1>7. TryFrame(jmp, DONT) = NewFrame(jmp, DONT, TRUE, FALSE)
  BY DEF TryFrame, DONT, THROW, RETHROW
<1>8. ctx' = d /\ blocks' = Append(blocks, b)
  BY <1>2
<1>9. b.phase = "body" /\ b.var = NoExc /\ b.handled = FALSE
      /\ AsBlock(b) = [phase |-> "body", var |-> NoExc, handled |-> FALSE]
  BY <1>5, <1>7, <1>8 DEF PhaseAfter, IsTrying, NewFrame, AsBlock
<1>10. b \in Block
  BY PhaseAfterType DEF Block
<1> HIDE DEF d, b
<1>11. /\ blocks' \in Seq(Block) /\ Len(blocks') = Depth + 1 /\ blocks'[Depth + 1] = b
       /\ \A i \in 1 .. Depth : blocks'[i] = blocks[i]
  BY <1>3, <1>8, <1>10, AppendProperties
<1>12. Outside \/ In("body")
  BY <1>1 DEF MayOpen, Disciplined
<1>13. ~HasExceptions(ctx)
  <2>1. CASE Outside
    BY <1>1, <2>1 DEF MayOpen, Disciplined, In
  <2>2. CASE In("body")
    <3>1. ~Outside /\ ~In("finally")
      BY <2>2 DEF In
    <3>2. Len(ctx.exceptions) = 0 /\ ctx.exceptions \in Seq(Exc)
      BY <1>3, <3>1 DEF Unwinding, Context
    <3> QED BY <3>2, EmptySeq DEF HasExceptions
  <2> QED BY <1>12, <2>1, <2>2
<1>14. HandledOnce'
  <2>1. Depth' = Depth + 1 /\ Last(blocks') = b
    BY <1>11 DEF Depth, Last
  <2>2. \A i \in 1 .. Depth : blocks[i].handled = FALSE
    <3>1. \A i \in 1 .. Depth : blocks[i] \in Block
      BY <1>3, ElementOfSeq
    <3>2. \A i \in 1 .. Depth : i = Depth \/ i \in 1 .. Depth - 1
      BY <1>3
    <3>3. Depth \in 1 .. Depth => ~blocks[Depth].handled
      <4> SUFFICES ASSUME Depth \in 1 .. Depth PROVE ~blocks[Depth].handled
        OBVIOUS
      <4>1. ~Outside
        BY <1>3, EmptySeq DEF Outside
      <4>2. Last(blocks) = blocks[Depth] /\ In("body")
        BY <1>12, <4>1, TopBlock
      <4> QED BY <4>2 DEF HandledOnce
    <3> QED BY <3>1, <3>2, <3>3 DEF HandledOnce, Block
  <2>3. \A i \in 1 .. Depth + 1 : i = Depth + 1 \/ i \in 1 .. Depth
    BY <1>3
  <2>4. ctx'.frames[Depth + 1].rethrowing = FALSE /\ ctx'.frames[Depth + 1].reason # RETHROW
    BY <1>5, <1>6, <1>7, <1>8 DEF NewFrame, DONT, RETHROW
  <2>5. \A i \in 1 .. Depth : ctx'.frames[i] = ctx.frames[i]
    BY <1>3, <1>5, <1>8
  <2>6. \A i \in 1 .. Depth + 1 : /\ ctx'.frames[i].rethrowing = blocks'[i].handled
                                  /\ ctx'.frames[i].reason # RETHROW
    BY <1>9, <1>11, <2>3, <2>4, <2>5 DEF HandledOnce
  <2>7. \A i \in 1 .. (Depth + 1) - 1 : i \in 1 .. Depth
    BY <1>3
  <2> QED BY <1>9, <1>11, <2>1, <2>2, <2>6, <2>7 DEF HandledOnce
<1>15. Structured!Enter
  <2>1. AsOpen(blocks') = Append(AsOpen(blocks), [phase |-> "body", var |-> NoExc, handled |-> FALSE])
    BY <1>3, <1>8, <1>9, <1>10, AsOpenAppend
  <2>2. Len(AsOpen(blocks)) < MaxDepth
    BY <1>1, <1>3, AsOpenFacts
  <2>3. Flying = NoExc /\ Flying' = Flying
    BY <1>5, <1>8, <1>13 DEF Flying, HasExceptions
  <2> QED BY <2>1, <2>2, <2>3 DEF Structured!Enter, AsOpen, Flying
<1> QED BY <1>14, <1>15

\* The frame of the innermost block is the current one.
LEMMA CurrentHandles ==
  ASSUME TypeOK, Matching, HandledOnce, ~Outside
  PROVE  /\ Depth \in Nat \ {0} /\ Depth \in 1 .. Depth
         /\ CurrentFrame(ctx) = ctx.frames[Depth] /\ CurrentFrame(ctx) \in Frame
         /\ CurrentFrame(ctx).rethrowing = Last(blocks).handled
         /\ CurrentFrame(ctx).reason # RETHROW
         /\ Last(blocks) = blocks[Depth] /\ Last(blocks) \in Block
<1>1. /\ CurrentFrame(ctx) = ctx.frames[Depth]
      /\ Depth \in Nat \ {0} /\ HasFrame(ctx) /\ ctx \in Context
  BY CurrentIsTop
<1>2. Depth \in 1 .. Depth
  BY <1>1
<1>3. Last(blocks) = blocks[Depth] /\ Last(blocks) \in Block
  BY TopBlock
<1>4. CurrentFrame(ctx) \in Frame
  BY <1>1, CurrentFrameFacts
<1> QED BY <1>1, <1>2, <1>3, <1>4 DEF HandledOnce

LEMMA BodyLeaves ==
  ASSUME TypeOK, Matching, Unwinding, HandledOnce, EndBody \/ BreakBody
  PROVE  HandledOnce' /\ Structured!LeaveBody
<1> DEFINE b == [Last(blocks) EXCEPT !.phase = "finally"]
<1>1. In("body") /\ ~Outside
  BY DEF EndBody, BreakBody, In
<1>2. ctx \in Context /\ HasFrame(ctx) /\ Len(ctx.frames) = Depth
  BY <1>1, CurrentIsTop
<1>3. /\ ctx' \in Context /\ Len(ctx'.frames) = Depth /\ HasFrame(ctx')
      /\ ctx'.exceptions = ctx.exceptions
      /\ \A i \in 1 .. Depth - 1 : ctx'.frames[i] = ctx.frames[i]
      /\ CurrentFrame(ctx').reason = CurrentFrame(ctx).reason
      /\ CurrentFrame(ctx').rethrowing = CurrentFrame(ctx).rethrowing
      /\ blocks' = WithTop(b)
  <2>1. CASE EndBody
    <3> DEFINE d == StopTrying(ctx)
    <3>1. /\ d \in Context /\ d.exceptions = ctx.exceptions
          /\ Len(d.frames) = Len(ctx.frames)
          /\ ~IsTrying(d)
          /\ \A i \in 1 .. Len(ctx.frames) - 1 : d.frames[i] = ctx.frames[i]
          /\ HasFrame(d)
          /\ CurrentFrame(d).reason = CurrentFrame(ctx).reason
          /\ CurrentFrame(d).rethrowing = CurrentFrame(ctx).rethrowing
      BY <1>2, StopTryingFacts
    <3>2. ctx' = d /\ blocks' = WithTop([Last(blocks) EXCEPT !.phase = PhaseAfter(ctx')])
      BY <2>1 DEF EndBody
    <3> HIDE DEF d
    <3>3. PhaseAfter(ctx') = "finally"
      BY <3>1, <3>2 DEF PhaseAfter
    <3> QED BY <1>2, <3>1, <3>2, <3>3
  <2>2. CASE BreakBody
    BY <1>2, <2>2 DEF BreakBody
  <2> QED BY <2>1, <2>2
<1>4. /\ Depth \in Nat \ {0} /\ Last(blocks) \in Block
      /\ CurrentFrame(ctx).rethrowing = Last(blocks).handled /\ CurrentFrame(ctx).reason # RETHROW
  BY <1>1, CurrentHandles
<1>5. b \in Block /\ b.phase = "finally" /\ b.handled = Last(blocks).handled
  BY <1>4 DEF Block, Phase
<1>6. AsBlock(b) = [AsBlock(Last(blocks)) EXCEPT !.phase = "finally"]
  BY <1>4 DEF AsBlock, Block
<1> HIDE DEF b
<1>7. CurrentFrame(ctx') = ctx'.frames[Depth]
  BY <1>3, CurrentFrameFacts
<1>8. HandledOnce'
  BY <1>1, <1>3, <1>4, <1>5, <1>7, TopHandles
<1>9. AsOpen(blocks') = Structured!WithTop([Structured!Top EXCEPT !.phase = "finally"])
  BY <1>1, <1>3, <1>5, <1>6, AsOpenTop, AsOpenWithTop
<1>10. Structured!In("body") /\ Flying' = Flying
  BY <1>1, <1>3, AsOpenTop DEF Flying, HasExceptions
<1> QED BY <1>8, <1>9, <1>10 DEF Structured!LeaveBody, AsOpen, Flying

LEMMA ThrowRaises ==
  ASSUME TypeOK, Matching, Unwinding, HandledOnce, In("body") \/ In("catch"), NEW e \in Exc, NEW h \in Heap,
         Go(Throw(ctx, e), h, blocks)
  PROVE  HandledOnce' /\ Structured!Raise(e)
<1>1. HandledOnce' /\ ctx'.exceptions = <<e>> /\ blocks' = Unwind(blocks)
  BY ThrowHandles
<1>2. Flying' = e
  BY <1>1 DEF Flying, HasExceptions
<1>3. AsOpen(blocks') = Structured!Unwound(AsOpen(blocks))
  BY <1>1, AsOpenUnwind DEF TypeOK
<1>4. Structured!In("body") \/ Structured!In("catch")
  BY AsOpenTop
<1> QED BY <1>1, <1>2, <1>3, <1>4 DEF Structured!Raise, AsOpen, Flying

LEMMA CatchHandles ==
  ASSUME TypeOK, Matching, Unwinding, HandledOnce, NEW type \in Types, CatchHit(type)
  PROVE  HandledOnce' /\ Structured!Handle
<1> DEFINE r == Catch(ctx, type)
           b == [Last(blocks) EXCEPT !.phase = "catch", !.var = r.caught, !.handled = TRUE]
<1>1. /\ In("finally") /\ ~Outside /\ r.caught # NoExc
      /\ ctx' = r.ctx /\ blocks' = WithTop(b)
  BY DEF CatchHit, In
<1>2. /\ HasFrame(ctx) /\ ctx \in Context /\ Len(ctx.frames) = Depth
      /\ ctx.exceptions \in Seq(Exc)
  BY <1>1, CurrentIsTop DEF Context
<1>3. /\ r.ctx \in Context
      /\ r.caught \in Exc \cup {NoExc}
      /\ ~CurrentFrame(ctx).rethrowing
      /\ HasFrame(r.ctx)
      /\ CurrentFrame(r.ctx).reason = DONT /\ CurrentFrame(r.ctx).rethrowing
      /\ Len(r.ctx.frames) = Len(ctx.frames)
      /\ \A i \in 1 .. Len(ctx.frames) - 1 : r.ctx.frames[i] = ctx.frames[i]
      /\ \E i \in 1 .. Len(ctx.exceptions) : /\ r.caught = ctx.exceptions[i]
                                             /\ r.ctx.exceptions = RemoveAt(ctx.exceptions, i)
  BY <1>1, <1>2, CatchFacts
<1> HIDE DEF r
<1>4. PICK i \in 1 .. Len(ctx.exceptions) : /\ r.caught = ctx.exceptions[i]
                                            /\ r.ctx.exceptions = RemoveAt(ctx.exceptions, i)
  BY <1>3
<1>5. Len(ctx.exceptions) = 1 /\ i = 1
  BY <1>1, <1>2, <1>4 DEF Unwinding
<1>6. r.ctx.exceptions = << >>
  BY <1>2, <1>3, <1>4, <1>5, RemoveOnly, EmptySeq DEF Context
<1>7. /\ Depth \in Nat \ {0} /\ Last(blocks) \in Block
      /\ CurrentFrame(ctx).rethrowing = Last(blocks).handled
  BY <1>1, CurrentHandles
<1>8. /\ CurrentFrame(r.ctx) = r.ctx.frames[Depth]
      /\ CurrentFrame(r.ctx).rethrowing = TRUE /\ CurrentFrame(r.ctx).reason # RETHROW
  <2>1. CurrentFrame(r.ctx) \in Frame /\ CurrentFrame(r.ctx) = r.ctx.frames[Depth]
    BY <1>2, <1>3, CurrentFrameFacts
  <2> QED BY <1>3, <2>1 DEF Frame, DONT, RETHROW
<1>9. b \in [jmp : JmpBufs, phase : {"catch"}, var : {r.caught}, handled : {TRUE}]
  BY <1>7 DEF Block
<1> HIDE DEF b
<1>10. b \in Block /\ b.phase = "catch" /\ b.handled = TRUE
  BY <1>3, <1>9 DEF Block, Phase
<1>11. AsBlock(b) = [phase |-> "catch", var |-> r.caught, handled |-> TRUE]
  BY <1>9 DEF AsBlock
<1>12. HandledOnce'
  BY <1>1, <1>2, <1>3, <1>8, <1>10, TopHandles
<1>13. AsOpen(blocks') = Structured!WithTop([phase |-> "catch", var |-> r.caught, handled |-> TRUE])
  BY <1>1, <1>10, <1>11, AsOpenWithTop
<1>14. Flying = r.caught /\ Flying # NoExc /\ Flying' = NoExc
  <2>1. HasExceptions(ctx)
    BY <1>5, EmptySeq DEF HasExceptions
  <2> QED BY <1>1, <1>4, <1>5, <1>6, <2>1 DEF Flying, HasExceptions
<1>15. Structured!In("finally") /\ ~Structured!Top.handled
  BY <1>1, <1>3, <1>7, AsOpenTop DEF AsBlock
<1>16. AsOpen(blocks') = Structured!WithTop([phase |-> "catch", var |-> Flying, handled |-> TRUE])
  BY <1>13, <1>14
<1> QED BY <1>12, <1>14, <1>15, <1>16 DEF Structured!Handle, AsOpen, Flying

LEMMA CatchEnds ==
  ASSUME TypeOK, Matching, HandledOnce, CatchDone \/ BreakCatch
  PROVE  HandledOnce' /\ Structured!EndHandler
<1> DEFINE b == Interrupted(Last(blocks))
<1>1. In("catch") /\ ~Outside /\ ctx' = ctx
  BY DEF CatchDone, BreakCatch, InCatchHolding, In
<1>2. /\ Depth \in Nat \ {0} /\ Last(blocks) \in Block
      /\ CurrentFrame(ctx) = ctx.frames[Depth]
      /\ CurrentFrame(ctx).rethrowing = Last(blocks).handled /\ CurrentFrame(ctx).reason # RETHROW
  BY <1>1, CurrentHandles
<1>3. /\ b \in Block /\ b.handled = Last(blocks).handled
      /\ AsBlock(b) = [AsBlock(Last(blocks)) EXCEPT !.phase = "finally", !.var = NoExc]
  BY <1>2, InterruptedType
<1>4. blocks' = WithTop(b)
  <2>1. CASE CatchDone
    BY <2>1 DEF CatchDone, Interrupted
  <2>2. CASE BreakCatch
    <3> DEFINE x == [Last(blocks) EXCEPT !.phase = "finally"]
    <3>1. x \in [jmp : {Last(blocks).jmp}, phase : {"finally"}, var : {Last(blocks).var},
                 handled : {Last(blocks).handled}]
      BY <1>2 DEF Block
    <3>2. b \in [jmp : {Last(blocks).jmp}, phase : {"finally"}, var : {NoExc},
                 handled : {Last(blocks).handled}]
      BY <1>2 DEF Block, Interrupted
    <3>3. Last(blocks).var = NoExc /\ blocks' = WithTop(x)
      BY <2>2 DEF BreakCatch
    <3> HIDE DEF x, b
    <3>4. x = b
      BY <3>1, <3>2, <3>3
    <3> QED BY <3>3, <3>4
  <2> QED BY <2>1, <2>2
<1>5. b.phase = "finally"
  BY <1>2 DEF Block, Interrupted
<1> HIDE DEF b
<1>6. HandledOnce'
  BY <1>1, <1>2, <1>3, <1>4, <1>5, TopHandles
<1>7. AsOpen(blocks') = Structured!WithTop([Structured!Top EXCEPT !.phase = "finally", !.var = NoExc])
  BY <1>1, <1>3, <1>4, AsOpenTop, AsOpenWithTop
<1>8. Structured!In("catch") /\ Flying' = Flying
  BY <1>1, AsOpenTop DEF Flying
<1> QED BY <1>6, <1>7, <1>8 DEF Structured!EndHandler, AsOpen, Flying

LEMMA ReleaseLetsGo ==
  ASSUME TypeOK, Matching, HandledOnce, ReleaseException
  PROVE  HandledOnce' /\ Structured!LetGo
<1>1. PICK i \in DOMAIN blocks :
         /\ blocks[i].phase = "catch" /\ blocks[i].var # NoExc
         /\ blocks' = [blocks EXCEPT ![i] = [blocks[i] EXCEPT !.var = NoExc]]
         /\ ctx' = ctx
  BY DEF ReleaseException
<1> DEFINE b == [blocks[i] EXCEPT !.var = NoExc]
<1>2. blocks \in Seq(Block) /\ DOMAIN blocks = 1 .. Depth /\ Depth = Len(blocks) /\ Depth \in Nat
  BY LenProperties DEF TypeOK, Depth
<1>3. blocks[i] \in Block /\ i \in 1 .. Depth
  BY <1>1, <1>2, ElementOfSeq
<1>4. /\ b \in Block /\ b.handled = blocks[i].handled /\ b.phase = blocks[i].phase
      /\ AsBlock(b) = [AsBlock(blocks[i]) EXCEPT !.var = NoExc]
  BY <1>3 DEF Block, AsBlock
<1> HIDE DEF b
<1>5. blocks' = [blocks EXCEPT ![i] = b]
  BY <1>1 DEF b
<1>6. /\ blocks' \in Seq(Block) /\ Len(blocks') = Depth
      /\ \A j \in 1 .. Depth : blocks'[j] = IF j = i THEN b ELSE blocks[j]
  BY <1>2, <1>3, <1>4, <1>5, ExceptSeq
<1>7. Depth' = Depth
  BY <1>6 DEF Depth
<1>8. \A j \in 1 .. Depth : blocks'[j].handled = blocks[j].handled /\ blocks'[j].phase = blocks[j].phase
  BY <1>4, <1>6
<1>9. HandledOnce'
  <2>1. In("body")' => ~Last(blocks').handled
    <3>1. Depth \in 1 .. Depth /\ Depth # 0
      BY <1>2, <1>3
    <3>2. Last(blocks') = blocks'[Depth] /\ Last(blocks) = blocks[Depth] /\ ~Outside
      BY <1>2, <1>6, <3>1, EmptySeq DEF Last, Outside
    <3> QED BY <1>8, <3>1, <3>2 DEF In, HandledOnce
  <2>2. \A j \in 1 .. Depth - 1 : j \in 1 .. Depth
    BY <1>2
  <2> QED BY <1>1, <1>7, <1>8, <2>1, <2>2 DEF HandledOnce
<1> DEFINE u == AsOpen(blocks)
           v == [u EXCEPT ![i] = AsBlock(b)]
<1>10. /\ u \in Seq(Structured!Block) /\ Len(u) = Depth
       /\ \A j \in 1 .. Depth : u[j] = AsBlock(blocks[j])
       /\ DOMAIN u = 1 .. Depth
  BY <1>2, AsOpenFacts, LenProperties
<1>11. AsBlock(b) \in Structured!Block
  BY <1>4, AsBlockType
<1> HIDE DEF u
<1>12. /\ v \in Seq(Structured!Block) /\ Len(v) = Depth
       /\ \A j \in 1 .. Depth : v[j] = IF j = i THEN AsBlock(b) ELSE u[j]
  BY <1>3, <1>10, <1>11, ExceptSeq
<1> HIDE DEF v
<1>13. /\ AsOpen(blocks') \in Seq(Structured!Block) /\ Len(AsOpen(blocks')) = Depth
       /\ \A j \in 1 .. Depth : AsOpen(blocks')[j] = AsBlock(blocks'[j])
  BY <1>6, AsOpenFacts
<1>14. \A j \in 1 .. Depth : AsOpen(blocks')[j] = v[j]
  BY <1>6, <1>10, <1>12, <1>13
<1>15. AsOpen(blocks') = v
  BY <1>12, <1>13, <1>14, SeqEqual
<1>16. AsOpen(blocks') = [u EXCEPT ![i] = [u[i] EXCEPT !.var = NoExc]]
  BY <1>3, <1>4, <1>10, <1>15 DEF v
<1>17. i \in DOMAIN u /\ u[i].phase = "catch" /\ u[i].var # NoExc
  BY <1>1, <1>3, <1>10 DEF AsBlock
<1>18. Flying' = Flying
  BY <1>1 DEF Flying
<1>19. Structured!LetGo
  BY <1>16, <1>17, <1>18 DEF Structured!LetGo, u, AsOpen, Flying
<1> QED BY <1>9, <1>19

LEMMA FinallyFinishes ==
  ASSUME TypeOK, Matching, Unwinding, HandledOnce, EndFinally
  PROVE  HandledOnce' /\ Structured!Finish
<1> DEFINE r == FinallyDone(ctx)
           n == Depth
           f == Front(blocks)
<1>1. In("finally") /\ ~Outside /\ Go(r, cause, f)
  BY DEF EndFinally, In
<1>2. /\ HasFrame(ctx) /\ Len(ctx.frames) = n /\ n \in Nat \ {0} /\ ctx \in Context
      /\ CurrentFrame(ctx) = ctx.frames[n]
  BY <1>1, CurrentIsTop
<1>3. /\ r \in JumpResult
      /\ r.ctx.exceptions = ctx.exceptions
      /\ CurrentFrame(ctx).reason = DONT \/ n = 1 =>
            /\ r.to = NoJmp
            /\ Len(r.ctx.frames) = n - 1
            /\ \A i \in 1 .. n - 1 : r.ctx.frames[i] = ctx.frames[i]
      /\ CurrentFrame(ctx).reason # DONT /\ n > 1 =>
            /\ LandsAt(ctx, r, n - 1)
            /\ r.why = CurrentFrame(ctx).reason
            /\ \A i \in 1 .. n - 2 : r.ctx.frames[i] = ctx.frames[i]
  BY <1>2, FinallyDoneFacts
<1>4. cause \in Heap /\ blocks \in Seq(Block) /\ blocks # << >> /\ Len(blocks) = n
  BY <1>1 DEF TypeOK, Heap, Outside, Depth
<1>5. f \in Seq(Block) /\ Len(f) = n - 1 /\ \A i \in 1 .. n - 1 : f[i] = blocks[i]
  BY <1>1, TopBlock
<1>6. AsOpen(f) = Front(AsOpen(blocks))
  BY <1>4, AsOpenFront
<1>7. CurrentFrame(ctx).reason \in {DONT, THROW}
  BY <1>1, CurrentHandles DEF Frame, JumpReason
<1>8. Flying # NoExc <=> CurrentFrame(ctx).reason # DONT
  <2>1. ctx.exceptions \in Seq(Exc)
    BY <1>2 DEF Context
  <2>2. Len(ctx.exceptions) = 1 => ctx.exceptions[1] \in Exc /\ ctx.exceptions # << >>
    BY <2>1, ElementOfSeq, EmptySeq
  <2>3. Len(ctx.exceptions) = 0 => ctx.exceptions = << >>
    BY <2>1, EmptySeq
  <2>4. NoExc \notin Exc
    BY ContextAssumption
  <2> QED BY <1>1, <2>2, <2>3, <2>4 DEF Unwinding, Flying, HasExceptions
<1>9. Structured!In("finally")
  BY <1>1, AsOpenTop
<1> HIDE DEF r, n, f
<1>10. CASE CurrentFrame(ctx).reason = DONT \/ n = 1
  <2>1. \A i \in DOMAIN blocks : blocks[i].jmp # r.to
    <3>1. \A i \in DOMAIN blocks : blocks[i] \in Block
      BY <1>4, ElementOfSeq, LenProperties
    <3>2. \A i \in DOMAIN blocks : blocks[i].jmp \in JmpBufs
      BY <3>1 DEF Block
    <3> QED BY <1>3, <1>10, <3>2, ContextAssumption
  <2>2. ctx' = r.ctx /\ blocks' = f
    BY <1>1, <1>3, <1>10, <2>1 DEF Go
  <2>3. Depth' = n - 1 /\ n - 1 \in Nat /\ n - 1 <= n
    BY <1>2, <1>5, <2>2 DEF Depth
  <2>4. \A i \in 1 .. n - 1 : ctx'.frames[i] = ctx.frames[i] /\ blocks'[i] = blocks[i]
    BY <1>3, <1>5, <1>10, <2>2
  <2>5. n - 1 # 0 => /\ ctx'.frames[n - 1].rethrowing = blocks'[n - 1].handled
                     /\ ctx'.frames[n - 1].reason # RETHROW
                     /\ ~blocks'[n - 1].handled
    <3> SUFFICES ASSUME n - 1 # 0
                 PROVE  /\ ctx'.frames[n - 1].rethrowing = blocks'[n - 1].handled
                        /\ ctx'.frames[n - 1].reason # RETHROW
                        /\ ~blocks'[n - 1].handled
      OBVIOUS
    <3>1. n - 1 \in 1 .. n - 1 /\ n - 1 \in 1 .. n
      BY <1>2, <2>3
    <3>2. /\ ctx.frames[n - 1].rethrowing = blocks[n - 1].handled
          /\ ctx.frames[n - 1].reason # RETHROW
          /\ ~blocks[n - 1].handled
      BY <3>1 DEF HandledOnce, n
    <3>3. ctx'.frames[n - 1] = ctx.frames[n - 1] /\ blocks'[n - 1] = blocks[n - 1]
      BY <2>4, <3>1
    <3> QED BY <3>2, <3>3
  <2>6. In("body")' => ~Last(blocks').handled
    <3>1. blocks' # << >> => n - 1 # 0 /\ Last(blocks') = blocks'[n - 1]
      BY <1>5, <2>2, <2>3, EmptySeq DEF Last
    <3> QED BY <2>5, <3>1 DEF In, Outside
  <2>7. HandledOnce'
    <3>1. \A i \in 1 .. Depth' - 1 : i \in 1 .. n - 1
      BY <2>3
    <3>2. \A i \in 1 .. Depth' - 1 : ctx'.frames[i] = ctx.frames[i] /\ blocks'[i] = blocks[i]
      BY <2>4, <3>1
    <3>3. Depth' # 0 => /\ ctx'.frames[Depth'].rethrowing = blocks'[Depth'].handled
                        /\ ctx'.frames[Depth'].reason # RETHROW
      BY <2>3, <2>5
    <3>4. Depth \in Nat /\ Depth' \in Nat /\ Depth' <= Depth
      BY <1>2, <2>3 DEF n
    <3> QED BY <2>6, <3>2, <3>3, <3>4, HandledKept
  <2>8. Flying' = Flying
    BY <1>3, <2>2 DEF Flying, HasExceptions
  <2>9. AsOpen(blocks') = Front(AsOpen(blocks))
    BY <1>6, <2>2
  <2>10. Flying # NoExc => Structured!Unwound(AsOpen(blocks')) = AsOpen(blocks')
    <3> SUFFICES ASSUME Flying # NoExc
                 PROVE  Structured!Unwound(AsOpen(blocks')) = AsOpen(blocks')
      OBVIOUS
    <3>1. n = 1
      BY <1>8, <1>10
    <3>2. Len(f) = 0
      BY <1>5, <3>1
    <3>3. f = << >>
      BY <1>5, <3>2, EmptySeq
    <3>4. AsOpen(blocks') = << >>
      BY <1>5, <2>2, <3>3, AsOpenFacts
    <3> QED BY <3>4 DEF Structured!Unwound
  <2>11. AsOpen(blocks') = IF Flying = NoExc THEN Front(AsOpen(blocks))
                           ELSE Structured!Unwound(Front(AsOpen(blocks)))
    BY <2>9, <2>10
  <2> QED BY <1>9, <2>7, <2>8, <2>11 DEF Structured!Finish, Structured!Front, Front, AsOpen, Flying
<1>11. CASE CurrentFrame(ctx).reason # DONT /\ n # 1
  <2>1. PICK k \in Nat : k = n - 1 /\ k # 0 /\ n = k + 1
    BY <1>2, <1>11
  <2>2. /\ LandsAt(ctx, r, k) /\ r.why = THROW
        /\ \A i \in 1 .. k - 1 : r.ctx.frames[i] = ctx.frames[i]
    <3>1. n > 1 /\ n - 2 = k - 1
      BY <1>2, <1>11, <2>1
    <3> QED BY <1>3, <1>7, <1>11, <2>1, <3>1
  <2>3. k \in 1 .. n /\ k \in 1 .. n - 1 /\ k \in 1 .. k
    BY <2>1
  <2>4. HasExceptions(r.ctx)
    <3>1. Len(ctx.exceptions) = 1
      BY <1>1, <1>11 DEF Unwinding
    <3>2. Len(<< >>) = 0
      BY EmptySeq
    <3>3. ctx.exceptions # << >>
      BY <3>1, <3>2
    <3> QED BY <1>3, <3>3 DEF HasExceptions
  <2>5. ~blocks[k].handled
    BY <2>3 DEF HandledOnce, n
  <2>6. /\ HandledOnce'
        /\ ctx'.exceptions = <<r.ctx.exceptions[1]>>
        /\ blocks' = Append(SubSeq(blocks, 1, k - 1), Interrupted(blocks[k]))
    <3>1. k \in 1 .. Depth /\ r.why = IF blocks[k].handled THEN RETHROW ELSE THROW
      BY <2>2, <2>3, <2>5 DEF n
    <3> QED BY <1>1, <1>3, <1>4, <2>2, <2>4, <3>1, LandingHandles
  <2>7. blocks' = Unwind(f)
    <3>1. f # << >> /\ Len(f) = k
      BY <1>5, <2>1, EmptySeq
    <3>2. Last(f) = blocks[k]
      BY <1>5, <2>3, <3>1 DEF Last
    <3>3. Front(f) = SubSeq(blocks, 1, k - 1)
      <4>1. PICK m \in Nat : m = k - 1
        BY <2>1
      <4>2. m <= Len(blocks) /\ m + 1 = k
        BY <1>4, <2>1, <4>1
      <4>3. /\ SubSeq(blocks, 1, m) \in Seq(Block)
            /\ Len(SubSeq(blocks, 1, m)) = m
            /\ \A i \in 1 .. m : SubSeq(blocks, 1, m)[i] = blocks[i]
        BY <1>4, <4>2, PrefixFacts
      <4>4. Front(f) \in Seq(Block) /\ Len(Front(f)) = m /\ \A i \in 1 .. m : Front(f)[i] = f[i]
        BY <1>5, <3>1, <4>1, FrontFacts
      <4>5. \A i \in 1 .. m : i \in 1 .. n - 1
        BY <2>1, <4>1
      <4>6. \A i \in 1 .. m : Front(f)[i] = SubSeq(blocks, 1, m)[i]
        BY <1>5, <4>3, <4>4, <4>5
      <4> QED BY <4>1, <4>3, <4>4, <4>6, SeqEqual
    <3> QED BY <2>6, <3>1, <3>2, <3>3 DEF Unwind
  <2>8. AsOpen(blocks') = Structured!Unwound(Front(AsOpen(blocks)))
    BY <1>5, <1>6, <2>7, AsOpenUnwind
  <2>9. Flying' = Flying /\ Flying # NoExc
    BY <1>3, <1>8, <1>11, <2>4, <2>6 DEF Flying, HasExceptions
  <2> QED BY <1>9, <2>6, <2>8, <2>9 DEF Structured!Finish, Structured!Front, Front, AsOpen, Flying
<1> QED BY <1>10, <1>11

\* Every step is a step of the abstract specification, or leaves its state alone.
LEMMA NextImplements ==
  ASSUME TypeOK, Matching, Unwinding, HandledOnce, Disciplined, [Next]_vars
  PROVE  HandledOnce' /\ [Structured!Next]_(Structured!vars)
<1>1. cause \in Heap
  BY DEF TypeOK, Heap
<1>2. \A e \in Exc : Structured!Raise(e) => Structured!Next
  BY DEF Structured!Next
<1>3. \A phase : In(phase) => ~Outside
  BY DEF In
<1>4. CASE OpenTry
  BY <1>4, OpenEnters DEF Structured!Next
<1>5. CASE EndBody
  BY <1>5, BodyLeaves DEF Structured!Next
<1>6. CASE BreakBody
  BY <1>6, BodyLeaves DEF Structured!Next
<1>7. CASE ThrowNew
  <2>1. PICK e \in Exc : Go(Throw(ctx, e), New(cause, e, NoExc), blocks)
    BY <1>7 DEF ThrowNew
  <2>2. New(cause, e, NoExc) \in Heap
    BY <1>1, NewType
  <2>3. In("body") \/ In("catch")
    BY <1>7 DEF ThrowNew, MayThrow, Disciplined
  <2> QED BY <1>2, <2>1, <2>2, <2>3, ThrowRaises
<1>8. CASE Rethrow
  <2>1. PICK e \in Exc : Go(Throw(ctx, e), New(cause, e, Last(blocks).var), blocks)
    BY <1>8 DEF Rethrow
  <2>2. Last(blocks).var \in Exc \cup {NoExc} /\ In("catch")
    BY <1>3, <1>8, TopBlock DEF Rethrow, InCatchHolding, Block
  <2>3. New(cause, e, Last(blocks).var) \in Heap
    BY <1>1, <2>2, NewType
  <2> QED BY <1>2, <2>1, <2>2, <2>3, ThrowRaises
<1>9. CASE RethrowSame
  <2>1. Last(blocks).var \in Exc /\ In("catch")
    BY <1>3, <1>9, TopBlock DEF RethrowSame, InCatchHolding, Block
  <2>2. Go(Throw(ctx, Last(blocks).var), cause, blocks)
    BY <1>9 DEF RethrowSame
  <2> QED BY <1>1, <1>2, <2>1, <2>2, ThrowRaises
<1>10. ASSUME NEW type \in Types, CatchHit(type)
       PROVE  HandledOnce' /\ [Structured!Next]_(Structured!vars)
  BY <1>10, CatchHandles DEF Structured!Next
<1>11. CASE CatchDone
  BY <1>11, CatchEnds DEF Structured!Next
<1>12. CASE ReleaseException
  BY <1>12, ReleaseLetsGo DEF Structured!Next
<1>13. CASE BreakCatch
  BY <1>13, CatchEnds DEF Structured!Next
<1>14. CASE ReturnFromCatch
  BY <1>14 DEF ReturnFromCatch, Disciplined
<1>15. CASE EndFinally
  BY <1>15, FinallyFinishes DEF Structured!Next
<1>16. CASE UNCHANGED vars
  <2>1. blocks' = blocks /\ ctx' = ctx
    BY <1>16 DEF vars
  <2>2. HandledOnce'
    BY <2>1 DEF HandledOnce, Depth, In, Outside
  <2>3. AsOpen(blocks') = AsOpen(blocks) /\ Flying' = Flying
    BY <2>1 DEF Flying
  <2> QED BY <2>2, <2>3 DEF Structured!vars, AsOpen, Flying
<1> QED BY <1>4, <1>5, <1>6, <1>7, <1>8, <1>9, <1>10, <1>11, <1>12, <1>13, <1>14, <1>15, <1>16
        DEF Next

\* A program that opens blocks only in the body of a "try", throws only in bodies
\* and "catch" blocks, and does not return out of a "catch", gets from the macros
\* the try, catch and finally of C++ and Java: whatever is thrown, the same blocks
\* run as in the abstract specification, with the same exception in flight.
THEOREM MacrosImplementStructured == Disciplined => (Spec => ImplementsStructured)
<1> SUFFICES ASSUME Disciplined PROVE Spec => ImplementsStructured
  OBVIOUS
<1> DEFINE Inv == UnwindingInv /\ HandledOnce
<1>1. WellNested /\ NoReturn
  BY DEF Disciplined, WellNested, NoReturn
<1>2. Init => Inv /\ Structured!Init
  <2> SUFFICES ASSUME Init PROVE Inv /\ Structured!Init
    OBVIOUS
  <2>1. Outside /\ Depth = 0 /\ blocks \in Seq(Block)
    BY EmptySeq DEF Init, Outside, Depth
  <2>2. UnwindingInv
    BY <2>1, InitType, InitMatches DEF UnwindingInv, Unwinding
  <2>3. HandledOnce
    BY <2>1 DEF HandledOnce, In
  <2>4. AsOpen(blocks) = << >>
    BY <2>1, AsOpenFacts DEF Outside
  <2>5. Flying = NoExc
    BY DEF Flying, HasExceptions, Init, EmptyContext
  <2> QED BY <2>2, <2>3, <2>4, <2>5 DEF Structured!Init, AsOpen, Flying
<1>3. Inv /\ [Next]_vars => Inv' /\ [Structured!Next]_(Structured!vars)
  BY <1>1, NextType, NextMatches, NextUnwinds, NextImplements DEF UnwindingInv
<1> QED BY <1>2, <1>3, PTL DEF Spec, ImplementsStructured, Structured!Spec
=============================================================================
