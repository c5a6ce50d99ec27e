---------------------------- MODULE ContextStore ----------------------------
(***************************************************************************)
(* Where the context of a with_exceptions comes from: the five kinds of    *)
(* scope (exception_scope_local.c, _global.c, _posix.c, _sdl.c, _openmp.c) *)
(* and when each creates, destroys and uses again the lists of a context   *)
(* (exception_context.c:11-28).                                            *)
(*                                                                         *)
(* Threads run with_exceptions and try blocks.  A throw is one step: it    *)
(* unwinds to the try that catches it, or past all of them; TryCatch and   *)
(* Relay have its parts.  Usage names what a program does beyond the       *)
(* README:                                                                 *)
(*   "useAgain"   a second with_exceptions (posix) or (sdl) on a thread    *)
(*   "uncaught"   leave a with_exceptions with exceptions in its context   *)
(*   "abandon"    the same where nothing destroys the context afterwards:  *)
(*                a local one, Main's of a thread-local store, and those   *)
(*                of any thread at shutdown of posix                       *)
(*   "largerTeam" use an openmp context that initialize did not reach      *)
(* The global context is for one thread (README.md:203), here Main.        *)
(***************************************************************************)
EXTENDS SequencesExt, FiniteSetsExt

CONSTANTS Threads, Main,    \* the threads; the one that starts the program
          Stores,           \* the kinds of context that the program uses
          Exc, Ids,         \* exceptions; the blocks that are open at a time
          Program,          \* the owner of the global context
          MaxDepth, Usage   \* bound: nested blocks per thread; see above

ASSUME StoreAssumption ==
  /\ Main \in Threads
  /\ Stores \subseteq {"local", "global", "posix", "sdl", "openmp"}

\* Contexts are named <<kind, owner>>.
Owner(s) == CASE s = "local" -> Ids [] s = "global" -> {Program} [] OTHER -> Threads
Contexts == UNION {{s} \X Owner(s) : s \in Stores}
ThreadLocal == Stores \cap {"posix", "sdl"}

VARIABLES keys,    \* the key of each thread-local store
          ctx,     \* each context
          tls,     \* pthread_getspecific, SDL_TLSGet: the threads with a context
          blocks,  \* the open blocks of each thread, innermost last
          live     \* the heap: exceptions that are allocated

vars == <<keys, ctx, tls, blocks, live>>

\* lists: frames and exceptions have their sentinels.  A context that was never
\* created and one that was destroyed look the same.
Context == [lists : BOOLEAN, frames : Seq(Ids), exceptions : Seq(Exc)]
Created == [lists |-> TRUE, frames |-> << >>, exceptions |-> << >>]
Zeroed == [lists |-> FALSE, frames |-> << >>, exceptions |-> << >>]

Block == [kind : {"with", "try"}, id : Ids, ctx : Contexts]

Init == /\ keys = [s \in ThreadLocal |-> "none"]
        /\ ctx = [c \in Contexts |-> Zeroed]
        /\ tls = [s \in ThreadLocal |-> {}]
        /\ blocks = [t \in Threads |-> << >>]
        /\ live = {}

Depth(t) == Len(blocks[t])
Top(t) == Last(blocks[t])
Here(t) == ctx[Top(t).ctx]
InBlock(t) == Depth(t) > 0
Open == UNION {{b.id : b \in ToSet(blocks[t])} : t \in Threads}
UsedBy(t) == {b.ctx : b \in ToSet(blocks[t])}
Push(t, kind, id, c) ==
  blocks' = [blocks EXCEPT ![t] = Append(@, [kind |-> kind, id |-> id, ctx |-> c])]

\* ExceptionContext_destroy: exceptions are freed, a list that exists is zeroed
Held(C) == UNION {ToSet(ctx[c].exceptions) : c \in C}
Destroy(C) == /\ ctx' = [c \in Contexts |-> IF c \in C THEN Zeroed ELSE ctx[c]]
              /\ live' = live \ Held(C)

Create(C) == /\ ctx' = [c \in Contexts |-> IF c \in C THEN Created ELSE ctx[c]]
             /\ UNCHANGED live

-----------------------------------------------------------------------------
(* with_exceptions *)

MayOpen(t, id) == Depth(t) < MaxDepth /\ id \notin Open

\* The context is the current one, or new to the thread; Relay has the other cases.
MayUse(t, c) == c \in UsedBy(t) => Top(t).ctx = c

WithLocal(t, id) ==
  LET c == <<"local", id>>
  IN  /\ "local" \in Stores /\ MayOpen(t, id)
      /\ Create({c})
      /\ Push(t, "with", id, c)
      /\ UNCHANGED <<keys, tls>>

\* valid is set by create and cleared by destroy, as the lists are
WithGlobal(t, id) ==
  LET c == <<"global", Program>>
  IN  /\ "global" \in Stores /\ MayOpen(t, id)
      /\ t = Main /\ MayUse(t, c)
      /\ IF ctx[c].lists THEN UNCHANGED <<ctx, live>> ELSE Create({c})
      /\ Push(t, "with", id, c)
      /\ UNCHANGED <<keys, tls>>

\* posix and sdl: "The context may have been previously used"
WithThreadLocal(t, id, s) ==
  LET c == <<s, t>>
  IN  /\ MayOpen(t, id) /\ MayUse(t, c)
      /\ keys[s] = "created"
      /\ t \in tls[s] => "useAgain" \in Usage
      /\ IF t \in tls[s] THEN Destroy({c}) ELSE Create({c})
      /\ tls' = [tls EXCEPT ![s] = @ \cup {t}]
      /\ Push(t, "with", id, c)
      /\ UNCHANGED keys

WithOpenMP(t, id) ==
  LET c == <<"openmp", t>>
  IN  /\ "openmp" \in Stores /\ MayOpen(t, id) /\ MayUse(t, c)
      /\ ctx[c].lists \/ "largerTeam" \in Usage
      /\ Push(t, "with", id, c)
      /\ UNCHANGED <<keys, ctx, tls, live>>

\* Nothing destroys a local context; and the destructors of keys do not run for Main, which
\* ends the program.
Abandons(c) == c[1] = "local" \/ (c[1] \in ThreadLocal /\ c[2] = Main)
MayLeave(c) == IF Abandons(c) THEN "abandon" \in Usage ELSE "uncaught" \in Usage

\* An end that also destroys the context.
EndWithDestroys(t) ==
  /\ InBlock(t) /\ Top(t).kind = "with"
  /\ Here(t).exceptions = << >> \/ MayLeave(Top(t).ctx)
  /\ blocks' = [blocks EXCEPT ![t] = Front(@)]
  /\ Destroy({Top(t).ctx})
  /\ UNCHANGED <<keys, tls>>

\* Only the scope is destroyed; the frames of a local context leave with the C stack.
EndWith(t) ==
  LET c == Top(t).ctx
  IN  /\ InBlock(t) /\ Top(t).kind = "with"
      /\ Here(t).exceptions = << >> \/ MayLeave(c)
      /\ blocks' = [blocks EXCEPT ![t] = Front(@)]
      /\ ctx' = IF c[1] = "local" THEN [ctx EXCEPT ![c] = Zeroed] ELSE ctx
      /\ UNCHANGED <<keys, tls, live>>

-----------------------------------------------------------------------------
(* What blocks do with the lists *)

\* list_prepend and list_append follow the sentinels of the list: without them the
\* program has no defined next step.
Usable(t) == InBlock(t) /\ Here(t).lists /\ Here(t).exceptions = << >>

BeginTry(t, id) ==
  /\ Usable(t) /\ MayOpen(t, id)
  /\ ctx' = [ctx EXCEPT ![Top(t).ctx].frames = Append(@, id)]
  /\ Push(t, "try", id, Top(t).ctx)
  /\ UNCHANGED <<keys, tls, live>>

\* list_fetch on a list without sentinels finds nothing.
EndTry(t) ==
  /\ InBlock(t) /\ Top(t).kind = "try"
  /\ ctx' = [ctx EXCEPT ![Top(t).ctx].frames = IF @ = << >> THEN @ ELSE Front(@)]
  /\ blocks' = [blocks EXCEPT ![t] = Front(@)]
  /\ UNCHANGED <<keys, tls, live>>

\* What is left of the blocks of t when the one with this id has ended
Before(t, id) == LET i == CHOOSE j \in DOMAIN blocks[t] : blocks[t][j].id = id
                 IN  SubSeq(blocks[t], 1, i - 1)

\* A throw that leaves the frame that it jumps to on the stack.
ThrowKeepsFrame(t) ==
  /\ Usable(t)
  /\ \E k \in DOMAIN Here(t).frames :
       LET frames == Here(t).frames
       IN  /\ ctx' = [ctx EXCEPT ![Top(t).ctx].frames = SubSeq(frames, 1, k)]
           /\ blocks' = [blocks EXCEPT ![t] = Before(t, frames[k])]
  /\ UNCHANGED <<keys, tls, live>>

\* A throw whose exception could not be allocated.
ThrowNull(t) ==
  /\ Usable(t) /\ Here(t).frames = << >>
  /\ ctx' = [ctx EXCEPT ![Top(t).ctx].exceptions = <<Program>>]
  /\ UNCHANGED <<keys, tls, blocks, live>>

\* The exception unwinds to frame k, whose try catches it and ends; or, past all
\* frames, the outermost try of this context ends and the exception stays.  Only
\* from the innermost with_exceptions: what jumps past another is Relay's.
Throw(t) ==
  /\ Usable(t)
  /\ \E e \in Exc \ live, k \in 0 .. Len(Here(t).frames) :
       LET frames == Here(t).frames
       IN  /\ ctx' = [ctx EXCEPT ![Top(t).ctx] =
                        [lists |-> TRUE, frames |-> SubSeq(frames, 1, k - 1),
                         exceptions |-> IF k = 0 THEN <<e>> ELSE << >>]]
           /\ live' = IF k = 0 THEN live \cup {e} ELSE live
           /\ blocks' = IF frames = << >> THEN blocks
                        ELSE [blocks EXCEPT ![t] = Before(t, frames[IF k = 0 THEN 1 ELSE k])]
  /\ UNCHANGED <<keys, tls>>

-----------------------------------------------------------------------------
(* Threads, initialization and shutdown *)

Idle(t) == blocks[t] = << >>

\* pthread_key_create, SDL_TLSCreate
InitializeKey(s) ==
  /\ keys[s] = "none"
  /\ keys' = [keys EXCEPT ![s] = "created"]
  /\ UNCHANGED <<ctx, tls, blocks, live>>

\* pthread_key_delete runs no destructors: the contexts are never freed.
ShutdownPosix ==
  /\ "posix" \in ThreadLocal /\ keys["posix"] = "created"
  /\ \A t \in tls["posix"] : /\ <<"posix", t>> \notin UsedBy(t)
                            /\ \/ ctx[<<"posix", t>>].exceptions = << >>
                               \/ "abandon" \in Usage
  /\ keys' = [keys EXCEPT !["posix"] = "deleted"]
  /\ tls' = [tls EXCEPT !["posix"] = {}]
  /\ ctx' = [c \in Contexts |-> IF c[1] = "posix" THEN Zeroed ELSE ctx[c]]
  /\ UNCHANGED <<blocks, live>>

\* An exit that frees the context without destroying it.
ThreadExitOnlyFrees(t) ==
  LET C == {<<s, t>> : s \in {k \in ThreadLocal : t \in tls[k]}}
  IN  /\ Idle(t) /\ t # Main /\ C # {}
      /\ ctx' = [c \in Contexts |-> IF c \in C THEN Zeroed ELSE ctx[c]]
      /\ tls' = [s \in ThreadLocal |-> tls[s] \ {t}]
      /\ UNCHANGED <<keys, blocks, live>>

\* The destructors of the keys run, and another thread may take this one's place.
ThreadExit(t) ==
  LET C == {<<s, t>> : s \in {k \in ThreadLocal : t \in tls[k]}}
  IN  /\ Idle(t) /\ t # Main /\ C # {}
      /\ Destroy(C)
      /\ tls' = [s \in ThreadLocal |-> tls[s] \ {t}]
      /\ UNCHANGED <<keys, blocks>>

\* The threads of a team that runs now have no blocks of their own.
Team(T) == T # {} /\ \A t \in T : Idle(t)
OpenMPContexts(T) == {<<"openmp", t>> : t \in T}

InitializeOpenMP(T) ==
  /\ "openmp" \in Stores /\ Team(T)
  /\ \A t \in T : ~ctx[<<"openmp", t>>].lists
  /\ Create(OpenMPContexts(T))
  /\ UNCHANGED <<keys, tls, blocks>>

ShutdownOpenMP(T) ==
  /\ "openmp" \in Stores /\ Team(T)
  /\ \E t \in T : ctx[<<"openmp", t>>].lists
  /\ Destroy(OpenMPContexts(T))
  /\ UNCHANGED <<keys, tls, blocks>>

ShutdownGlobal ==
  LET c == <<"global", Program>>
  IN  /\ "global" \in Stores
      /\ ctx[c].lists /\ \A t \in Threads : c \notin UsedBy(t)
      /\ Destroy({c})
      /\ UNCHANGED <<keys, tls, blocks>>

Next == \/ \E t \in Threads :
             \/ \E id \in Ids : \/ WithLocal(t, id) \/ WithGlobal(t, id) \/ WithOpenMP(t, id)
                                \/ \E s \in ThreadLocal : WithThreadLocal(t, id, s)
                                \/ BeginTry(t, id)
             \/ EndWith(t) \/ EndTry(t) \/ Throw(t) \/ ThreadExit(t)
        \/ \E T \in SUBSET Threads : InitializeOpenMP(T) \/ ShutdownOpenMP(T)
        \/ ShutdownGlobal \/ ShutdownPosix
        \/ \E s \in ThreadLocal : InitializeKey(s)

Spec == Init /\ [][Next]_vars

-----------------------------------------------------------------------------
(* Properties *)

\* Every variable has the type its C declaration gives it.
TypeOK == /\ keys \in [ThreadLocal -> {"none", "created", "deleted"}]
          /\ ctx \in [Contexts -> Context]
          /\ tls \in [ThreadLocal -> SUBSET Threads]
          /\ blocks \in [Threads -> Seq(Block)]
          /\ live \subseteq Exc

\* Whatever contexts are created, destroyed, left by threads that exit and shut down
\* in between, the context of every open block has its lists: the next try or throw
\* of the block follows their sentinels.  The variables keep their types.
ListsExist == TypeOK /\ \A t \in Threads : \A c \in UsedBy(t) : ctx[c].lists

\* The open try blocks of thread t on context c, by position
Tries(t, c) == {i \in DOMAIN blocks[t] : blocks[t][i].kind = "try" /\ blocks[t][i].ctx = c}

\* The frames of a context are the try blocks that are open on it, in order: no
\* with_exceptions, no thread and no shutdown takes away the frames of an open try.
FramesKept ==
  \A t \in Threads : \A c \in UsedBy(t) :
    LET frames == ctx[c].frames
    IN  \E at \in [DOMAIN frames -> Tries(t, c)] :
          /\ \A k, l \in DOMAIN frames : k < l => at[k] < at[l]
          /\ \A i \in Tries(t, c) : \E k \in DOMAIN frames : at[k] = i
          /\ \A k \in DOMAIN frames : frames[k] = blocks[t][at[k]].id

\* Some destroy comes that frees what c holds: at shutdown, or as the destructor of a key.
WillDestroy(c) ==
  IF Abandons(c) THEN FALSE
  ELSE IF c[1] \in ThreadLocal THEN keys[c[1]] = "created" /\ c[2] \in tls[c[1]]
  ELSE ctx[c].lists

\* The program ends in order: its blocks have ended, the threads but Main have exited, and
\* the global and openmp contexts were shut down.
Ended == /\ \A t \in Threads : Idle(t)
         /\ \A s \in ThreadLocal : tls[s] \subseteq {Main}
         /\ \A c \in Contexts : ctx[c].lists => c[1] \in ThreadLocal

\* An exception that nothing caught is in the context of an open block or in one that some
\* destroy will still reach, whatever blocks and threads have ended since; none is left when
\* the program ends.
NothingLost ==
  /\ live = Held(Contexts)
  /\ \A c \in Contexts : ctx[c].exceptions # << >> =>
       WillDestroy(c) \/ \E t \in Threads : c \in UsedBy(t)
  /\ Ended => live = {}
=============================================================================
