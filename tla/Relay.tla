-------------------------------- MODULE Relay --------------------------------
(***************************************************************************)
(* One thread with several exception contexts: with_exceptions,            *)
(* with_exceptions_relay and with_exceptions_relay_to, and in them try,    *)
(* capture_exceptions and throw_captured.  A relay moves what its block    *)
(* left uncaught from its own context to another one and jumps to a frame  *)
(* of that context; ExceptionContext has the operations on each.           *)
(*                                                                         *)
(* The steps inside a try that concern one context only (break, rethrow,   *)
(* release_exception, throws in catch and finally) are those of TryCatch   *)
(* and not repeated.  Usage names what the program does beyond the use     *)
(* that README.md:385-427 shows:                                           *)
(*   "capture"            capture_exceptions and throw_captured            *)
(*   "uncaught"           throw where no try or capture is to receive it,  *)
(*                        or nest a block whose exceptions go nowhere      *)
(*   "captureThenThrow"   throw out of a scope that has captured           *)
(*   "useContaining"      use a scope again after a relay in it            *)
(*   "sameContext"        relay from a context to itself                   *)
(*   "outerContext"       use the context of a block that is not the       *)
(*                        innermost one                                    *)
(*   "relayInCatch", "relayInFinally"   relay inside these blocks          *)
(*                                                                         *)
(* A longjmp is a step of its own here: it may land in a relay, which      *)
(* jumps on, and so through any number of contexts.                        *)
(***************************************************************************)
EXTENDS ExceptionContext

CONSTANTS Ctxs,       \* the contexts
          NoScope,    \* the relay scope that with_exceptions_relay_to makes
          MaxDepth,   \* bound: how deep blocks are nested
          Usage       \* the liberties of the program, see above

ASSUME RelayAssumption == NoScope \notin JmpBufs /\ MaxDepth \in Nat

VARIABLES blocks,  \* the blocks on the C stack, innermost last
          ctx,     \* the contexts
          scope,   \* the scope of each with_exceptions* block, named as the block
          jump,    \* a longjmp that has not landed yet, or NoJump
          live,    \* the heap: exceptions that are allocated
          ub       \* the program has run into undefined behaviour

vars == <<blocks, ctx, scope, jump, live, ub>>

\* captured_exceptions; valid until the list is zeroed, and its sentinels with it
Scope == [captured : Seq(Exc), valid : BOOLEAN]
NewScope == [captured |-> << >>, valid |-> TRUE]
ZeroScope == [captured |-> << >>, valid |-> FALSE]

NoJump == [to |-> NoJmp, why |-> DONT]

\* id names the jmp_buf and the scope of the block; scope and ctx are the current
\* ones inside it; to and toScope are what a relay relays to.  handled is history:
\* a catch of this try has been entered.
Block == [kind : {"with", "relay", "try", "capture"}, id : JmpBufs,
          phase : {"body", "finally", "catch"}, var : Exc \cup {NoExc}, handled : BOOLEAN,
          scope : JmpBufs, ctx : Ctxs, to : Ctxs, toScope : JmpBufs \cup {NoScope}]

Init == /\ blocks = << >>
        /\ ctx = [c \in Ctxs |-> EmptyContext]
        /\ scope = [s \in JmpBufs |-> ZeroScope]
        /\ jump = NoJump
        /\ live = {}
        /\ ub = FALSE

Depth == Len(blocks)
Top == Last(blocks)
Running == ~ub /\ jump = NoJump
In(kind, phase) == Running /\ Depth > 0 /\ Top.kind = kind /\ Top.phase = phase
WithTop(block) == [blocks EXCEPT ![Depth] = block]
Used == UNION {{blocks[i].ctx, blocks[i].to} : i \in DOMAIN blocks}

\* Program text: nothing is begun while an exception is in flight or was left uncaught.
Clean == \A c \in Ctxs : ~HasExceptions(ctx[c])
InBody == Running /\ Depth > 0 /\ Top.phase = "body" /\ Clean

\* A throw from here would leave a block whose scope has captured exceptions.
PassesCaptured ==
  \E i \in DOMAIN blocks :
    /\ blocks[i].kind = "relay" \/ (blocks[i].kind = "with" /\ i > 1)
    /\ scope[blocks[i].id].captured # << >>
    /\ \A j \in i + 1 .. Depth : blocks[j].kind # "capture"

MayPass == ~PassesCaptured \/ "captureThenThrow" \in Usage

\* A throw from here reaches a try or a capture.
Received == \E i \in DOMAIN blocks : blocks[i].kind \in {"try", "capture"}

MayThrow == /\ InBody
            /\ MayPass
            /\ Received \/ "uncaught" \in Usage

-----------------------------------------------------------------------------
(* Lists and scopes *)

\* ExceptionScope_destroy: the captured exceptions are freed and the list zeroed.
Destroyed(scopes, S) == [s \in JmpBufs |-> IF s \in S THEN ZeroScope ELSE scopes[s]]
CapturedIn(scopes, S) == UNION {ToSet(scopes[s].captured) : s \in S}

\* A move that does not clear its source.
MovedKeepsSource(cs, from, to) ==
  IF from = to THEN cs ELSE [cs EXCEPT ![to].exceptions = @ \o cs[from].exceptions]

\* A for_each that advances before its body, and so moves a null at the end.
MovedPastEnd(cs, from, to) ==
  IF from = to \/ ~HasExceptions(cs[from]) THEN cs
  ELSE [cs EXCEPT ![to].exceptions = @ \o Append(Tail(cs[from].exceptions), NoExc),
                  ![from].exceptions = << >>]

\* exceptional_list_move between contexts.  From a list to itself: list_append
\* refuses a list that is being iterated, and list_clear empties it.
Moved(cs, from, to) ==
  IF from = to THEN [cs EXCEPT ![from].exceptions = << >>]
  ELSE [cs EXCEPT ![to].exceptions = @ \o cs[from].exceptions, ![from].exceptions = << >>]

\* After r the program goes on with the blocks of rest, or a longjmp is under way.
Jumping(r) == IF r.to = NoJmp THEN NoJump ELSE [to |-> r.to, why |-> r.why]

-----------------------------------------------------------------------------
(* Blocks begin *)

NewBlock(kind, id, s, c, to, toScope) ==
  [kind |-> kind, id |-> id, phase |-> "body", var |-> NoExc, handled |-> FALSE,
   scope |-> s, ctx |-> c, to |-> to, toScope |-> toScope]

Unused(id) == /\ Depth < MaxDepth
              /\ \A i \in DOMAIN blocks : blocks[i].id # id
              /\ \A c \in Ctxs : \A i \in DOMAIN ctx[c].frames : ctx[c].frames[i].jmp # id

MayUse(c) == \/ c \notin Used /\ (Depth = 0 \/ "uncaught" \in Usage)
             \/ Depth > 0 /\ c = Top.ctx
             \/ "outerContext" \in Usage

\* with_exceptions; a function that is called may name the current context again
OpenWith(id, c) ==
  /\ Running /\ Clean /\ Unused(id)
  /\ Depth > 0 => Top.phase = "body"
  /\ MayUse(c)
  /\ blocks' = Append(blocks, NewBlock("with", id, id, c, c, NoScope))
  /\ scope' = [scope EXCEPT ![id] = NewScope]
  /\ UNCHANGED <<ctx, jump, live, ub>>

\* The containing scope is one that a relay inside it may destroy.
Expendable(s) ==
  \/ /\ scope[s].captured = << >>
     /\ \A i \in DOMAIN blocks : blocks[i].scope = s => blocks[i].kind \in {"with", "try"}
  \/ "useContaining" \in Usage

MayRelay == \/ InBody
            \/ In("try", "catch") /\ "relayInCatch" \in Usage
            \/ In("try", "finally") /\ "relayInFinally" \in Usage

\* Both relays: setjmp returned 0, the jump point is pushed.
BeginRelay(id, c, to, toScope) ==
  /\ Unused(id) /\ MayPass
  /\ c \notin Used \cup {to} \/ (c = to /\ "sameContext" \in Usage)
  /\ blocks' = Append(blocks, NewBlock("relay", id, id, c, to, toScope))
  /\ scope' = [scope EXCEPT ![id] = NewScope]
  /\ ctx' = [ctx EXCEPT ![c] = PushFrame(@, id, DONT, FALSE, FALSE)]
  /\ UNCHANGED <<jump, live, ub>>

\* with_exceptions_relay
OpenRelay(id, c) ==
  /\ MayRelay /\ Expendable(Top.scope)
  /\ BeginRelay(id, c, Top.ctx, Top.scope)

\* with_exceptions_relay_to: to the containing context, or to one not in use
OpenRelayTo(id, c, to) ==
  /\ Running /\ Clean
  /\ Depth > 0 => MayRelay
  /\ MayUse(to)
  /\ BeginRelay(id, c, to, NoScope)

\* A frame is pushed on the current context.
OpenIn(kind, id, c) ==
  /\ Unused(id)
  /\ blocks' = Append(blocks, NewBlock(kind, id, Top.scope, Top.ctx, Top.ctx, NoScope))
  /\ ctx' = [ctx EXCEPT ![Top.ctx] = c]
  /\ UNCHANGED <<scope, jump, live, ub>>

OpenTry(id) == /\ InBody /\ MayPass
               /\ OpenIn("try", id, Try(ctx[Top.ctx], id, DONT))

\* A capture that makes the waiting area anew.
OpenCaptureResets(id) ==
  /\ InBody /\ "capture" \in Usage
  /\ Unused(id)
  /\ blocks' = Append(blocks, NewBlock("capture", id, Top.scope, Top.ctx, Top.ctx, NoScope))
  /\ ctx' = [ctx EXCEPT ![Top.ctx] = PushFrame(@, id, DONT, FALSE, FALSE)]
  /\ scope' = [scope EXCEPT ![Top.scope] = NewScope]
  /\ UNCHANGED <<jump, live, ub>>

OpenCapture(id) ==
  /\ InBody /\ "capture" \in Usage
  /\ scope[Top.scope].valid \/ "useContaining" \in Usage
  /\ OpenIn("capture", id, PushFrame(ctx[Top.ctx], id, DONT, FALSE, FALSE))

-----------------------------------------------------------------------------
(* Throws and landings *)

ThrowNew ==
  /\ MayThrow
  /\ \E e \in Exc \ live :
       LET r == Throw(ctx[Top.ctx], e)
       IN  /\ ctx' = [ctx EXCEPT ![Top.ctx] = r.ctx]
           /\ jump' = Jumping(r)
           /\ live' = live \cup {e}
  /\ UNCHANGED <<blocks, scope, ub>>

\* What a call does that finds a zeroed list: it follows a null sentinel.
Crash == ub' = TRUE /\ UNCHANGED <<blocks, ctx, scope, jump, live>>

ThrowCaptured ==
  LET c == Top.ctx
      full == [ctx[c] EXCEPT !.exceptions = @ \o scope[Top.scope].captured]
      r == IF HasExceptions(full) THEN JumpThrowing(full)
                                  ELSE [ctx |-> full, to |-> NoJmp, why |-> DONT]
  IN  /\ MayThrow /\ "capture" \in Usage
      /\ \/ /\ scope[Top.scope].valid
            /\ ctx' = [ctx EXCEPT ![c] = r.ctx]
            /\ scope' = [scope EXCEPT ![Top.scope] = NewScope]
            /\ jump' = Jumping(r)
            /\ UNCHANGED <<blocks, live, ub>>
         \/ /\ ~scope[Top.scope].valid /\ "useContaining" \in Usage
            /\ Crash

\* longjmp lands in block i: the C stack above it is gone.
Lands(kind, i) == /\ ~ub /\ jump # NoJump
                  /\ blocks[i].kind = kind /\ blocks[i].id = jump.to

LandInTry(i) ==
  LET b == blocks[i]
      c == Try(ctx[b.ctx], b.id, jump.why)
  IN  /\ Lands("try", i)
      /\ ctx' = [ctx EXCEPT ![b.ctx] = c]
      /\ live' = live \ (ToSet(ctx[b.ctx].exceptions) \ ToSet(c.exceptions))
      /\ blocks' = Append(SubSeq(blocks, 1, i - 1), [b EXCEPT !.phase = "finally", !.var = NoExc])
      /\ jump' = NoJump
      /\ UNCHANGED <<scope, ub>>

LandInCapture(i) ==
  LET b == blocks[i]
  IN  /\ Lands("capture", i)
      /\ \/ /\ scope[b.scope].valid
            /\ scope' = [scope EXCEPT ![b.scope].captured = @ \o ctx[b.ctx].exceptions]
            /\ ctx' = [ctx EXCEPT ![b.ctx] = ClearAll(@)]
            /\ blocks' = SubSeq(blocks, 1, i - 1)
            /\ jump' = NoJump
            /\ UNCHANGED <<live, ub>>
         \/ ~scope[b.scope].valid /\ Crash

\* Both scopes are destroyed, and what their lists held is freed.
DestroyScopes(b, scopes) ==
  LET S == {b.scope, b.toScope} \ {NoScope}
  IN  /\ scope' = Destroyed(scopes, S)
      /\ live' = live \ CapturedIn(scopes, S)

\* A relay that jumps to its own stack of frames instead of the relay's.
LandInRelayJumpsBack(i) ==
  LET b == blocks[i]
      moved == Moved(ctx, b.ctx, b.to)
      r == JumpBecause(moved[b.ctx], jump.why)
  IN  /\ Lands("relay", i)
      /\ ctx' = [moved EXCEPT ![b.ctx] = r.ctx]
      /\ DestroyScopes(b, scope)
      /\ jump' = Jumping(r)
      /\ blocks' = SubSeq(blocks, 1, i - 1)
      /\ UNCHANGED ub

\* A relay that re-inserts its jump point, as a try does, and jumps to it.
LandInRelayReinserts(i) ==
  LET b == blocks[i]
      r == JumpBecause(PushFrame(ctx[b.ctx], b.id, THROW, FALSE, FALSE), jump.why)
  IN  /\ Lands("relay", i)
      /\ ctx' = [ctx EXCEPT ![b.ctx] = r.ctx]
      /\ jump' = Jumping(r)
      /\ UNCHANGED <<blocks, scope, live, ub>>

\* The block ends by a jump: "jumping to the *relay* stack" with the same reason.
LandInRelay(i) ==
  LET b == blocks[i]
      moved == Moved(ctx, b.ctx, b.to)
      r == JumpBecause(moved[b.to], jump.why)
  IN  /\ Lands("relay", i)
      /\ ctx' = [moved EXCEPT ![b.to] = r.ctx]
      /\ DestroyScopes(b, scope)
      /\ jump' = Jumping(r)
      /\ blocks' = SubSeq(blocks, 1, i - 1)
      /\ UNCHANGED ub

\* A jump to a jmp_buf that no block on the stack owns has no defined next step.
Land == \E i \in DOMAIN blocks : LandInTry(i) \/ LandInCapture(i) \/ LandInRelay(i)

-----------------------------------------------------------------------------
(* Blocks end *)

EndWith ==
  /\ In("with", "body")
  /\ blocks' = Front(blocks)
  /\ scope' = Destroyed(scope, {Top.scope})
  /\ live' = live \ CapturedIn(scope, {Top.scope})
  /\ UNCHANGED <<ctx, jump, ub>>

\* An end that does not uncapture before it relays.
EndRelayForgetsCaptured ==
  LET popped == [Moved(ctx, Top.ctx, Top.to) EXCEPT ![Top.ctx] = PopFrame(@)]
      r == IF HasExceptions(popped[Top.to]) THEN JumpBecause(popped[Top.to], THROW)
           ELSE [ctx |-> popped[Top.to], to |-> NoJmp, why |-> DONT]
  IN  /\ In("relay", "body")
      /\ ctx' = [popped EXCEPT ![Top.to] = r.ctx]
      /\ DestroyScopes(Top, scope)
      /\ jump' = Jumping(r)
      /\ blocks' = Front(blocks)
      /\ UNCHANGED ub

\* An end that leaves its frame on the stack.
EndRelayKeepsFrame ==
  LET s == Top.scope
      uncaptured == [ctx EXCEPT ![Top.ctx].exceptions = @ \o scope[s].captured]
      moved == Moved(uncaptured, Top.ctx, Top.to)
      r == IF HasExceptions(moved[Top.to]) THEN JumpBecause(moved[Top.to], THROW)
           ELSE [ctx |-> moved[Top.to], to |-> NoJmp, why |-> DONT]
  IN  /\ In("relay", "body")
      /\ ctx' = [moved EXCEPT ![Top.to] = r.ctx]
      /\ DestroyScopes(Top, [scope EXCEPT ![s] = NewScope])
      /\ jump' = Jumping(r)
      /\ blocks' = Front(blocks)
      /\ UNCHANGED ub

\* with_exceptions_relay_done: uncapture, relay, pop, destroy, throw
EndRelay ==
  LET s == Top.scope
      uncaptured == [ctx EXCEPT ![Top.ctx].exceptions = @ \o scope[s].captured]
      popped == [Moved(uncaptured, Top.ctx, Top.to) EXCEPT ![Top.ctx] = PopFrame(@)]
      r == IF HasExceptions(popped[Top.to]) THEN JumpBecause(popped[Top.to], THROW)
           ELSE [ctx |-> popped[Top.to], to |-> NoJmp, why |-> DONT]
  IN  /\ In("relay", "body")
      /\ \/ /\ scope[s].valid
            /\ ctx' = [popped EXCEPT ![Top.to] = r.ctx]
            /\ DestroyScopes(Top, [scope EXCEPT ![s] = NewScope])
            /\ jump' = Jumping(r)
            /\ blocks' = Front(blocks)
            /\ UNCHANGED ub
         \/ ~scope[s].valid /\ Crash

EndCapture ==
  /\ In("capture", "body") /\ Clean
  /\ ctx' = [ctx EXCEPT ![Top.ctx] = PopFrame(@)]
  /\ blocks' = Front(blocks)
  /\ UNCHANGED <<scope, jump, live, ub>>

EndBody ==
  /\ In("try", "body") /\ Clean
  /\ ctx' = [ctx EXCEPT ![Top.ctx] = StopTrying(@)]
  /\ blocks' = WithTop([Top EXCEPT !.phase = "finally"])
  /\ UNCHANGED <<scope, jump, live, ub>>

CatchHit(type) ==
  /\ In("try", "finally")
  /\ LET r == Catch(ctx[Top.ctx], type)
     IN  /\ r.caught # NoExc
         /\ ctx' = [ctx EXCEPT ![Top.ctx] = r.ctx]
         /\ blocks' = WithTop([Top EXCEPT !.phase = "catch", !.var = r.caught, !.handled = TRUE])
  /\ UNCHANGED <<scope, jump, live, ub>>

CatchDone ==
  /\ In("try", "catch")
  /\ blocks' = WithTop([Top EXCEPT !.phase = "finally", !.var = NoExc])
  /\ live' = live \ {Top.var}
  /\ UNCHANGED <<ctx, scope, jump, ub>>

EndFinally ==
  /\ In("try", "finally")
  /\ LET r == FinallyDone(ctx[Top.ctx])
     IN  /\ ctx' = [ctx EXCEPT ![Top.ctx] = r.ctx]
         /\ jump' = Jumping(r)
  /\ blocks' = Front(blocks)
  /\ UNCHANGED <<scope, live, ub>>

-----------------------------------------------------------------------------

Next == \/ \E id \in JmpBufs :
             \/ OpenTry(id) \/ OpenCapture(id)
             \/ \E c \in Ctxs : OpenWith(id, c) \/ OpenRelay(id, c)
             \/ \E c, to \in Ctxs : OpenRelayTo(id, c, to)
        \/ ThrowNew \/ ThrowCaptured \/ Land
        \/ EndWith \/ EndRelay \/ EndCapture \/ EndBody
        \/ \E type \in Types : CatchHit(type)
        \/ CatchDone \/ EndFinally

Spec == Init /\ [][Next]_vars

\* longjmp is not interrupted.
FairSpec == Spec /\ WF_vars(Land)

-----------------------------------------------------------------------------
(* Properties *)

\* Every variable has the type its C declaration and the heap give it.
TypeOK == /\ blocks \in Seq(Block)
          /\ ctx \in [Ctxs -> Context]
          /\ scope \in [JmpBufs -> Scope]
          /\ jump \in [to : JmpBufs \cup {NoJmp}, why : JumpReason]
          /\ live \subseteq Exc
          /\ ub \in BOOLEAN

\* The jump points of context c, by their positions among the open blocks
JumpPoints(c) == {i \in DOMAIN blocks : blocks[i].kind # "with" /\ blocks[i].ctx = c}

\* No zeroed list is followed and no jump goes to a block that has ended.
NoUndefinedBehaviour == ~ub /\ (jump # NoJump => \E i \in DOMAIN blocks : blocks[i].id = jump.to)

\* In every context the frames are the jump points of the open blocks that use it,
\* in order: a relay takes away the frame of its own context on both ways out of its
\* block, and none of the context that it relays to; so every jump has a target.
FramesMatchContexts ==
  /\ NoUndefinedBehaviour
  /\ Running => \A c \in Ctxs :
       LET frames == ctx[c].frames
       IN  \E at \in [DOMAIN frames -> JumpPoints(c)] :
             /\ \A k, l \in DOMAIN frames : k < l => at[k] < at[l]
             /\ \A i \in JumpPoints(c) : \E k \in DOMAIN frames : at[k] = i
             /\ \A k \in DOMAIN frames : frames[k].jmp = blocks[at[k]].id

\* The places where exception e is
Places(e) ==
  (UNION {{<<"context", c, i>> : i \in {j \in DOMAIN ctx[c].exceptions : ctx[c].exceptions[j] = e}}
            : c \in Ctxs})
  \cup (UNION {{<<"scope", s, i>> : i \in {j \in DOMAIN scope[s].captured : scope[s].captured[j] = e}}
                  : s \in JmpBufs})
  \cup {<<"var", i>> : i \in {j \in DOMAIN blocks : blocks[j].var = e}}

\* On its way from context to context and through the lists of scopes an exception
\* is in one place as long as it is allocated, and in none after: no relay loses it,
\* hands it over twice, or frees what it has handed over.  The variables keep their
\* types.
OnePlace == TypeOK /\ (~ub => \A e \in Exc : Cardinality(Places(e)) = IF e \in live THEN 1 ELSE 0)

\* "After execution relays all uncaught exceptions" (exceptional.h:44): what is in the
\* context of a relay, or was captured in it, when its block ends is then in the
\* context that it relays to.
AllRelayed ==
  [][\A i \in DOMAIN blocks :
       blocks[i].kind = "relay" /\ ((i = Depth /\ jump = NoJump) \/ blocks[i].id = jump.to)
         /\ i \notin DOMAIN blocks'
       => ToSet(ctx[blocks[i].ctx].exceptions) \cup ToSet(scope[blocks[i].id].captured)
            \subseteq ToSet(ctx'[blocks[i].to].exceptions)]_vars

\* A captured exception waits in its scope until throw_captured, or until the block of
\* the scope ends ("can later be thrown", exceptional.h:134).
CapturedKept ==
  [][\A s \in JmpBufs :
       (\E i \in DOMAIN blocks' : blocks'[i].id = s)
         => IsPrefix(scope[s].captured, scope'[s].captured) \/ ThrowCaptured]_vars

\* "We have relay exceptions, so throw them" (exception_scope.c:112): the end of a relay
\* throws only if there was something to relay.
ThrowsOnlyRelayed ==
  [][EndRelay /\ jump' # NoJump
       => HasExceptions(ctx[Top.ctx]) \/ scope[Top.scope].captured # << >>]_vars

\* "A matching finally code block ... will *always* be executed" (exceptional.h:90), also
\* for a jump that crosses contexts: it lands in the innermost try.
FinallyNeverSkipped ==
  [][\A i \in DOMAIN blocks :
       blocks[i].kind = "try" /\ i \notin DOMAIN blocks'
         => i = Depth /\ blocks[i].phase = "finally"]_vars

\* A jump lands, through however many relays, and control is in a block again.
Arrives == jump # NoJump ~> jump = NoJump \/ ub

\* The try blocks among s, innermost last
Tries(s) ==
  LET among[n \in 0 .. Len(s)] ==   \* the first n
        IF n = 0 THEN << >>
        ELSE IF s[n].kind = "try" THEN Append(among[n - 1], s[n]) ELSE among[n - 1]
  IN  among[Len(s)]

\* While a jump is under way, the innermost try, where it will land, is as good as entered.
Open ==
  LET tries == Tries(blocks)
  IN  [i \in DOMAIN tries |->
         LET landing == jump # NoJump /\ i = Len(tries)
         IN  [phase   |-> IF landing THEN "finally" ELSE tries[i].phase,
              var     |-> IF landing THEN NoExc ELSE tries[i].var,
              handled |-> tries[i].handled]]

InFlight == LET full == {c \in Ctxs : HasExceptions(ctx[c])}
            IN  IF full = {} THEN NoExc ELSE ctx[CHOOSE c \in full : TRUE].exceptions[1]

\* Contexts and relays do not show: whatever contexts the blocks use, an exception goes
\* through the try blocks as if there were one.
Structured == INSTANCE StructuredExceptions WITH open <- Open, inFlight <- InFlight

ImplementsStructured == Structured!Spec
=============================================================================
