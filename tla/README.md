# Exceptional C Exceptions: a TLA+ verification project

This directory holds a formal model of *Exceptional C Exceptions* (`src/`), a C99 library that adds
`try`, `catch`, `finally` and `throw` to C with macros, `setjmp` and `longjmp`, and of the two
libraries it is built on and ships with: SimCList, in which it keeps frames and exceptions, and the
Better String Library, with which it makes messages. The model is written in TLA+, checked on small
instances with TLC, and the facts that matter most are proved for all instances with TLAPS.

Source references are relative to the repository: `exception_context.c` is
`src/src/exception_context.c`, `exceptional.h` is `src/include/exceptional.h`, `simclist.c` is in
`src/dependencies/simclist-1.6`, and `bstrlib.c`, `bstraux.c`, `bstrwrap.cpp` and `bstrlib.txt` are in
`src/dependencies/bstrlib-05122010`.

## 1. Inventory: the system

| component | state | operations | talks to |
|---|---|---|---|
| exception types (`exception_type.c`) | constant records, `super` pointers | `ExceptionType_is_a` | asked by `ExceptionContext_fetch_exception` |
| exception objects (`exception.c`) | heap: type, message, cause, backtrace | new (four forms), destroy, destroy_and_free, dump | owned by a list, by a `catch` variable or as the cause of another |
| `ExceptionContext` (`exception_context.c`) | a stack of frames (jump points), a list of exceptions, `valid` | push, pop, jump, try, throw, catch, catch_done, finally_done, clear | called by the macros; ends in `longjmp` into the macros |
| the macros (`exceptional.h:94-223`) | C locals: a `jmp_buf` and a jump reason per block, the variable of a `catch` | `try`, `finally`, `catch`, `throw*`, `rethrow*`, `release_exception` | one context, through the current scope |
| capturing (`exception_scope.c:12-60`) | list of captured exceptions, a lock (OpenMP only) | `capture_exceptions`, `uncapture_exceptions`, `throw_captured` | moves exceptions between the scope and the contexts of a team of threads |
| relays (`exception_scope.c:62-175`) | a scope and a frame per relay | `with_exceptions`, `with_exceptions_relay`, `_relay_to` | two contexts and two scopes at once; jump from one context to the other |
| context stores (`exception_scope_*.c`) | one context per scope, process, thread or thread of a team; thread-local keys | initialize, new, get, shutdown; thread exit | hand a context to a scope |
| messages (`utilities.c:10-55`) | none | copy, format, escape | bstrings; owned by exceptions |
| SimCList (`simclist.c`) | entries linked both ways, two sentinels, a middle pointer, spare entries, one iterator | insert, extract, delete, concatenate, sort, search, iterate, dump, restore | everything above keeps its lists in it |
| bstrings (`bstrlib.c`, `bstraux.c`) | a buffer, its length, the length of the text | concatenate, assign, insert, replace, trim, search, compare, split, join, format, justify, encode | `malloc`, which may fail |
| bstring streams (`bstrlib.c:1738-2474`, `bstraux.c:860-1133`) | a buffer before a core stream, an EOF flag | read lines and blocks, unread, peek, split; write, flush | callbacks that read and write |
| C++ wrapper (`bstrwrap.cpp`) | a string that is its own buffer, write protection | operators, methods, list class, `CBStream` | the C functions, on its own buffer |
| dumps, backtraces, example, tests, build | none of their own | printing | the C library |

What is hard in it:

* **Control by longjmp.** A frame is consumed by the jump to it and pushed again by the code it
  lands in, with another reason and other flags. The pairing of frames with the blocks of the C
  program is nowhere written down; it results from every path through the macros.
* **Unwinding is spread over two places.** The reason is in the frame and is copied downwards when a
  frame is popped; the exception is in a list of the context. Each `catch` changes both.
* **Ownership of exceptions.** List, `catch` variable, captured list and cause hand an exception to
  each other, and whoever is last frees it.
* **Nesting in odd places.** A `try` in a `catch` or a `finally`, a `throw` in a `finally`, a C
  `break`, `continue` or `return` out of a block: all compile and all run.
* **Sharing.** Under OpenMP the threads of a team capture exceptions into one list of a shared scope.
* **Several contexts on one C stack.** A relay ends its own context's frame and jumps to a frame of
  another context, which may be a relay too.
* **Lifetimes.** Contexts and scopes are created, destroyed and found again by thread-local storage;
  threads exit, `initialize` and `shutdown` come in between.
* **Redundant pointers.** SimCList moves a middle pointer with every change instead of computing it,
  and keeps removed entries as spares.
* **Aliasing and failing memory.** A bstring argument may be a view of the buffer that the call is
  about to move; every allocation may fail, and a buffer may be granted without the usual slack.
* **Buffers between two streams.** A line is read past its end and the rest is put back; a write is
  divided between a buffer and a core stream that may fail in between.

What makes each component correct:

* types: `is_a` is the reflexive, transitive closure of `super`;
* context and macros: frames match open blocks; a frame unwinds exactly when an exception is in
  flight; the exception thrown is the one caught; a `catch` catches at most once per `try` and never
  what was thrown in a sibling `catch`; a `finally` is never skipped; exceptions are freed exactly
  once; altogether the `try`/`catch`/`finally` of other languages, as `README.md:83` says;
* capturing: no captured exception is lost or duplicated, whatever the interleaving;
* relays: everything uncaught is delivered, once; a jump arrives in a block that is open;
* stores: a block gets a created context, that of its own thread, and keeps it; what is left in it,
  a destroy frees;
* messages: whole, or replaced by their format; never a part;
* lists: a sequence, with an iteration that sees what was there when it began;
* bstrings and wrapper: each call gives the string that was meant, for arguments in the string's own
  buffer too, or reports an error and changes nothing; nothing is written outside the buffer;
* codecs: decoding inverts encoding;
* streams: what is unread is delivered once and in order; what was accepted is buffered or written.

## 2. Plan

Done, in this order:

1. `ExceptionType`, `ExceptionContext`: the operations as operators on one context.
2. `TryCatch`, with the abstract specification `StructuredExceptions`: one thread, arbitrary code.
3. `ExceptionContextProofs`, `TryCatchProofs`: facts about every operation, and the theorems.
4. `ParallelCapture`, with the abstract specification `CollectExceptions`, and
   `ParallelCaptureProofs` with its invariants and its refinement.
5. `Relay`: any nesting of scopes, relays, `try` and capture blocks over several contexts, checked
   against the same `StructuredExceptions`.
6. `ContextStore`: the five kinds of context through initialization, thread exit and shutdown.
7. `SimCList`, with the abstract specification `ListADT`.
8. `BstrText`, `BstrCodecs`, `BstrAlgorithms`: the pure functions on strings, against definitions.
9. `Bstring`, `BstringCalls`, `Messages`: memory, aliasing and formatting.
10. `BstrStream`, `CBString`, `CBStream`.
11. `StackLemmas`, and on them `ContextStoreProofs`, `RelayProofs` and `SimCListProofs`.
12. That no throw is dropped, in `TryCatchProofs`; that `Relay` implements `StructuredExceptions`, in
    `RelayProofs`.
13. `BstrProofs`: that no text written to a stream is lost or doubled.
14. That `SimCList` implements `ListADT`, sorting included, in `SimCListProofs`.
15. That messages are whole, in `BstrProofs`.

Left:

1. In `ParallelCapture`, a C `break` out of a capture block, as a liberty.
2. The hashes and attribute setters of SimCList; the numeric conversions of `CBString`.

## 3. The modules

| module | what it is |
|---|---|
| `ExceptionType` | the type hierarchy (`Super`) and `IsA`. The loop of `ExceptionType_is_a` is a recursive function, `Up[n]` |
| `ExceptionContext` | `ExceptionContext` as a record `[frames, exceptions]`, and one operator for each function of `exception_context.c` |
| `TryCatch` | a state machine: one thread that runs arbitrary code made of the macros |
| `StructuredExceptions` | abstract: what the macros promise; the same blocks and the exception in flight, without frames, reasons, lists or memory |
| `ParallelCapture` | a state machine: a team of OpenMP threads and the scope they share |
| `CollectExceptions` | abstract: what capturing promises; a waiting area, without threads, lists, locks or frames |
| `Relay` | a state machine: one thread with several contexts, in nested scopes, relays, `try` and capture blocks |
| `ContextStore` | a state machine: threads that get contexts from the five stores |
| `SimCList` | a state machine: one list, entry by entry and pointer by pointer |
| `ListADT` | abstract: what a list promises; a sequence and what an iteration has left |
| `BstrText`, `BstrCodecs` | operators: searches, comparisons, splits, joins; netstring, Base64, UU and yEnc |
| `BstrAlgorithms` | a state machine that meets those operators with every short string, and their reference definitions |
| `Bstring` | operators: each writing function of a bstring, on its memory, to the set of its outcomes |
| `BstringCalls` | a state machine: any sequence of calls on one bstring, and what each call is meant to give |
| `Messages` | operators: the message functions of `utilities.c`, on bstrings |
| `BstrStream` | operators and a state machine: reading and writing streams with a buffer |
| `CBString`, `CBStream` | the methods of the C++ classes, on the above |
| `MC*` | values of constants for TLC; `MCBstring` combines the programs of `BstringCalls` and `CBString` |
| `StackLemmas` | lemmas, independent of the program: induction over a set of numbers, the ends of a sequence, names kept in the order of a stack, lists that hold every element once |
| `ExceptionContextProofs` | lemmas: what each operation does to frames and exceptions, for every context |
| `TryCatchProofs`, `ParallelCaptureProofs`, `ContextStoreProofs` | theorems about `TryCatch`, `ParallelCapture` and `ContextStore` |
| `RelayProofs` | theorems about `Relay`: its invariant and the frames; and on that invariant the lists of exceptions, and the refinement |
| `SimCListProofs` | theorems about `SimCList`, for lists of any length: its entries; its two sorts; and the refinement |
| `BstrProofs` | lemmas about buffers and the operators of `Bstring` that a write or a message uses; the theorem about the `bwriteStream` of `BstrStream`, and the one about `Messages` |

How they use one another: `TryCatch`, `ParallelCapture` and `Relay` are three compositions of
`ExceptionContext`; the first and the third implement one abstract specification. Lists are sequences
in them, which is what `SimCList` is shown to implement. `Messages` uses `Bstring` as the library
uses bstrlib; `BstrStream` and `CBString` call the operators of `Bstring` on their own buffers.

Here and there a definition stands before the one it is a variant of, with a comment that begins with
"A" or says what it omits (`EndRelayKeepsFrame`, `BconcatUnguarded`, ...). These are plausible mistakes
of the code. No next-state relation uses them; replacing the definition by its variant shows that a
property notices.

### ExceptionContext

The current frame, position 0 of the C list, is the last element of `frames`. `frame.jmp` names the
`jmp_buf`, that is, the block that `longjmp` would go back to. C functions that can end in `longjmp`
return `[ctx, to, why]`: the context they leave, the `jmp_buf` they jump to (`NoJmp` if they return)
and the jump reason. Dumps for debugging, file names, lines and keywords are left out. Allocation
does not fail in this part of the model, as the code does not handle failure.

### TryCatch

| state | in the code |
|---|---|
| `blocks` | the C stack: for each open `try` its `jmp_buf`, the macro that control is in (`body`, `finally`, `catch`) and the variable of its `catch`; `handled` is history, for the properties |
| `ctx` | the current `ExceptionContext` |
| `cause` | the heap: the `cause` of each allocated exception, `Free` for an unallocated one |
| `ub` | the program has run into undefined behaviour; it takes no step after it |

| action | in the code |
|---|---|
| `OpenTry` | `try`: `setjmp` returns 0, `ExceptionContext_try`, the loop condition |
| `EndBody`, `BreakBody` | the end of the body, or `continue`; `break`, which skips `stop_trying` |
| `ThrowNew`, `Rethrow`, `RethrowSame` | `throw` and its variants, `rethrow` and its variants, `rethrowe` |
| `CatchHit`, `CatchDone`, `BreakCatch` | `catch` that matches; its end; `break` out of it after a release. A `catch` that does not match changes nothing and is no step |
| `ReleaseException` | `release_exception`, also for the variable of an enclosing `catch` |
| `ReturnFromCatch` | C `return` from a `catch`, which leaves the blocks of the function: any number of innermost ones |
| `EndFinally` | `ExceptionContext_finally_done` |

`Go` is what follows a call that may jump: control goes on, or it lands in the block that owns the
`jmp_buf`, where `ExceptionContext_try` runs with the reason and destroys superfluous exceptions; or
no open block owns it, which is undefined behaviour of `longjmp`. A landing is one step with the call
that jumps, since a single thread observes nothing in between.

Double frees and uses of freed exceptions set `ub` too (`Corrupts`): `Exception_destroy` reads
`self->cause` of a cause it has just freed (`exception.c:47-53`). With one cause this reads a null
pointer out of freed memory, which the allocator leaves in place; with two it frees the second
twice. The model flags the latter, and takes the former as reading null.

The program is arbitrary: every step the macros and C allow in a state may be taken. `Usage` says
which steps outside the discipline of `README.md` it takes:

| liberty | step |
|---|---|
| `throwInFinally`, `nestInFinally` | `throw`, `try` in a `finally` outside its `catch` blocks |
| `nestInCatch` | `try` in a `catch`, as `README.md:181-191` shows |
| `throwInCatch` | `throw` in a `catch` while it still holds its exception, which leaks, as `README.md:163-165` warns |
| `causeOfCause` | `rethrow` with a cause that has a cause |
| `goOnUncaught` | `throw` outside every `try`, or another `try` after an exception was left uncaught |
| `returnFromCatch` | C `return` out of a `catch` after `release_exception` |

### ParallelCapture

| state | in the code |
|---|---|
| `ctx` | the `threadprivate` context of each thread (`exception_scope_openmp.c:6-7`) |
| `captured`, `lock` | the scope's list and its OpenMP lock |
| `live` | the heap: which exceptions are allocated |
| `main`, `forked`, `todo` | the master's place in `try` and `finally`, a region is running, its loop's remaining iterations |
| `pc`, `moving`, `tail` | each thread's place in `capture_exceptions`, what its `for_each` has not appended yet, the list that its `list_append` has read |

| action | in the code |
|---|---|
| `Begin`, `EndBlock`, `ThrowInBlock` | `capture_exceptions`: the frame is pushed; popped by the end of the block; or consumed by a throw, which lands in `ExceptionScope_capture_exceptions` |
| `Lock`, `ReadTail`, `Link`, `Unlock`, `Clear` | `ExceptionScope_move_exceptions_from_context`. `list_append` is two steps, a read of the list and a write, so that two threads that are in it at once lose an element |
| `Start`, `Finish` | `with_exceptions (openmp)` and its `try`; the end of both, with `ExceptionScope_destroy` |
| `Fork`, `Join` | the parallel loop and its implicit barrier (OpenMP, outside the repository) |
| `Uncapture`, `ThrowCaptured`, `ThrowInTry`, `EndBody`, `CatchAny` | the master in the `try` and its `finally`; regions, uncapturing and throwing come in any order and number |

The program is that of `README.md:329-383`. What was uncaptured is thrown before the body of the
`try` ends, and every `finally` catches the root type, so that no exception is left in the context of
the master (that case is `goOnUncaught` above). `CaptureInFinally` lets it also capture in the
`finally`. Each iteration throws at most once, because the throw ends the block; `try` blocks inside
it are the subject of `TryCatch`.

### Relay

| state | in the code |
|---|---|
| `blocks` | the C stack: each open `with_exceptions`, relay, `try` and capture block, with the scope and the context that are current in it and, for a relay, those it relays to |
| `ctx`, `scope` | the contexts; the captured list of each scope and whether it has been zeroed |
| `jump` | a `longjmp` that has not landed yet. It is a step of its own here, since it may land in a relay, which jumps on |
| `live`, `ub` | the heap; undefined behaviour |

| action | in the code |
|---|---|
| `OpenWith`, `EndWith` | `with_exceptions`; its end destroys the scope |
| `OpenRelay`, `OpenRelayTo` | the two relays; `setjmp` returned 0 and the frame is pushed |
| `LandInRelay`, `EndRelay` | `ExceptionScope_relay` after a jump; `with_exceptions_relay_done`: uncapture, move, pop, destroy both scopes, throw |
| `OpenTry`, `LandInTry`, `EndBody`, `CatchHit`, `CatchDone`, `EndFinally` | the macros, as in `TryCatch` |
| `OpenCapture`, `EndCapture`, `LandInCapture`, `ThrowCaptured` | capturing by one thread |
| `ThrowNew` | `throw` in the current context |

Its `Usage` is explained at the head of the module: capturing, exceptions that nothing will catch,
and six ways to go beyond what `README.md:385-427` shows.

### ContextStore

`keys` and `tls` are the thread-local keys and their values, `ctx` the lists of each context,
`blocks` the open blocks of each thread, `live` the heap. `WithLocal`, `WithGlobal`,
`WithThreadLocal` (posix, and sdl with the same code) and `WithOpenMP` are `with_exceptions` for each
kind; `InitializeKey`, `InitializeOpenMP`, `ShutdownPosix`, `ShutdownOpenMP` and `ShutdownGlobal` are
`initialize_exceptions` and `shutdown_exceptions`; `ThreadExit` is the destructor of a key.
`BeginTry`, `EndTry` and `Throw` are what blocks do to a context's lists, a throw in one step.

### SimCList

`entry` is `struct list_entry_s` at each address, `mid`, `numels`, `spareels` and `iter_*` are the
fields of `list_t`, `allocated` is what `malloc` has given out. Addresses are only compared, so `malloc`
returns one fixed entry of those that are free. An action is a function of
`simclist.h`: `ListInsertAt` (with append and prepend), `DeleteAt` (with extract and fetch), `Delete`,
`DeleteRange`, `Clear`, `Concat`, `Sort` (with any pivots), the three steps of an iteration,
`Destroy`. A call that is refused returns -1, changes nothing and is no step. Dumps are operators on the
contents: a header and words of four bytes.

Sorting moves data between entries that stay where they are, so the sorts are operators on the contents.
A loop of the C code is a function of its local variables, `data`, `left` and `right` for instance, that
`Passes` applies as often as the loop can go round at most; once its condition fails the function
changes nothing any more. `QuickSorted` is the set of what quicksort may give, one for each choice of
pivots, as `get_random` picks them. The two inner loops of a pass of `Scan` are the first place where
each of them stops.

### Bstring and what is built on it

A bstring is a record: `data`, the bytes of its buffer; `slen`; and four flags about the last call:
`tight` (the buffer is exactly as long as was asked for), `over` (bytes written past it), `moved`
(the call freed the buffer it found) and `broken` (a failed call left no terminator). A byte nobody
wrote is `Junk`. An argument is a string of its own or a `View` of the very buffer, as `bmid2tbstr`
makes; after the buffer has moved a view shows `Junk`. A function is an operator to the **set of its
outcomes** `[ret, b]`, because any allocation may fail.

`BstringCalls` has one action per family of functions (`Concatenate`, `Assign`, `Insert`, `Replace`,
`FindReplace`, `Justify`, `Format`, ...); `CBString` likewise for the methods, with `prot` for write
protection and `behind` for a terminator that lies behind a buffer whose length `writeallow` cut.
`MCBstring` runs either program.

`BstrStream`: `in` is a `bStream`, with its buffer, what the core stream still has (`source`),
whether the core stream may return less than asked for (`short`), and `isEOF`; `out` is a
`bwriteStream`. The actions are the readers, `Bsunread`, splits whose callback does something to the
stream, and the writers; `CBStream` adds the methods of the class.

## 4. The runs

| run | module, instance | shows |
|---|---|---|
| `structured` | `TryCatch`; liberty `throwInCatch` | `TypeOK`; frame reasons and exceptions agree (`UnwindingMatches`); the macros implement `StructuredExceptions` (`ImplementsStructured`); no throw is dropped (`ThrownIsInFlight`); an exception in flight is caught or leaves the outermost `try` (`Resolved`, liveness) |
| `liberal` | `TryCatch`; throws and nesting in `finally` and `catch`, going on after uncaught exceptions | what still holds for such programs: frames match blocks (`FramesMatchBlocks`), each exception has one owner (`OneOwner`), no undefined behaviour, no `finally` skipped (`FinallyNeverSkipped`), the oldest exception survives (`OldestKept`) |
| `return` | `TryCatch`; `returnFromCatch` | until the stale frame is used nothing leaks (`NoLeak`) |
| `cause_of_cause` | `TryCatch`; `causeOfCause` | expects a violation: three exceptions in a chain of causes are freed with a double free |
| `capture` | `ParallelCapture`; three threads | no append works on a stale list (`AppendNotStale`); no exception is lost, duplicated or leaked (`ExactlyOnce`); frames stay paired (`FramesMatchTeam`); every region ends (`RegionEnds`, and no deadlock); implements `CollectExceptions` |
| `relay_capture` | `Relay`; capturing, uncaught exceptions | frames match the open blocks of every context and every jump has a target (`FramesMatchContexts`); an exception is in one place (`OnePlace`); everything uncaught or captured is relayed (`AllRelayed`); the captured wait (`CapturedKept`) |
| `relay_structured` | `Relay`; as the README shows it | whatever contexts and relays lie between, the `try` blocks are those of `StructuredExceptions`; a jump arrives (`Arrives`, liveness) |
| `stores` | `ContextStore`; two threads | the context of every open block has its lists (`ListsExist`) and the frames of its open `try` blocks (`FramesKept`); an uncaught exception is in the context of an open block or in one that a destroy will still reach, and none is left when the program ends (`NothingLost`) |
| `simclist` | `SimCList` | `list_repOk` always (`RepOk`); types, and positions and searches agree with a walk (`QueriesAgree`); entries are neither lost nor freed twice (`NothingLeaks`); dumps of equal sizes come back (`DumpRestores`); implements `ListADT` |
| `bstr_text` | `BstrAlgorithms` | searches, comparisons, splits and joins agree with their definitions (`StringsAgree`); four codecs invert (`CodecsInvert`) |
| `bstr` | `BstringCalls`, `Messages`, `CBString` | the string lies in its buffer and ends there (`StringsWellFormed`); every call, and every method, gives what was meant (`CallsMeet`, `MethodsMeet`); messages are whole (`MessagesWhole`); what is ever written past a buffer is one terminator (`OverrunsByOne`); a protected string only gets shorter (`ProtectedOnlyShrinks`) |
| `bstr_stream` | `BstrStream`, `CBStream` | what is unread is delivered once and in order, by each reader (`ReadsMeet`); what was accepted is buffered or written (`WritesConserve`) |

### Bounds

* `TryCatch`: types `Exception` and its sub-type `IO`; three exceptions, one of type `Exception` and
  two of type `IO` (a freed one may be thrown again, so their number bounds those alive at once: one
  caught, one being thrown, one more as a cause or left behind); depth 3, while a step concerns no
  more than the current frame and the one below it.
* `ParallelCapture`: a master and two workers, so that two threads can compete while a third holds
  the lock; three exceptions, one for each; loops of up to three iterations, so that a thread may take
  several in turn. The number of regions is not bounded.
* `Relay`: three contexts and depth 4, which is a `try`, a relay, a relay in it and one block more,
  each with its own `jmp_buf`; one exception in `relay_structured`, two in `relay_capture`, one
  captured and one in flight.
* `ContextStore`: the program's main thread and another; local, global, posix and openmp contexts
  (sdl has the code of posix); two exceptions, three blocks at a time.
* `SimCList`: up to four elements, so that even and odd lengths occur on both sides of the middle;
  `MaxSpare` is 1 (5 in the code), so that one removal fills the spares and the next frees;
  quicksort from 2 elements up (24 in the code); keys with a tie; data of two sizes.
* `BstrAlgorithms`: strings of up to 5 and 3 characters out of an upper and a lower case letter and
  Nul; blocks of up to 5 octets out of five that the codecs treat specially; lines of 3 octets (57
  and 45 in the code), so that there are several.
* `Bstring`: strings of up to 3 characters, arguments of up to 2. The smallest buffer is 2 (8 in the
  code) and the first try of a formatting 1 (16), so that buffers grow and retries happen.
  `CBString` strings have up to 2.
* `BstrStream`: sources of up to 4 characters; buffers of 1, 2 (1024 in the code) and 3 characters;
  `ReadStart` 1 (16), `SplitLen` 2 (256), `SecureStart` 1 (256): every one of these is passed by a
  source of 4.

Constants that stand for a `#define` are scaled down this way, never changed in their role, and no
property depends on their values.

Deadlock is checked where the program can go round for ever (`capture`, `bstr`, `bstr_stream`). In
the other runs a program may stop: no block fits under the depth, or it has run into undefined
behaviour, or the strings have reached their bound.

### Fairness

* `TryCatch`: only `Resolved` needs it, and only of `EndFinally`: the code of a `finally` block ends.
  The library itself never waits. No fairness is assumed of bodies and handlers.
* `ParallelCapture`: weak, of each thread's next step and of the barrier. The operating system
  schedules the threads of a team, and the blocks are assumed to end. A thread that waits for the
  lock need not get it before the others have run out of iterations, so weak fairness is enough.
* `Relay`: weak, of landing. `longjmp` is not interrupted.

The other modules state no liveness: their calls return, each in one step.

### Further configurations

These are not among the runs above. Each checks one sentence of the documentation, or one liberty, and
TLC finds it violated; section 6 says what it shows.

| configuration | module | violates |
|---|---|---|
| `MCThrowInFinally`, `MCNestInCatch`, `MCNestInFinally`, `MCGoOnUncaught`, `MCReturnFromCatch` | `MCTryCatch` | `ImplementsStructured`, `CatchOnlyOnce`, `CatchOnlyIfThrown`, `ThrownIsInFlight`, `NoUndefinedBehaviour` |
| `MCCaptureInFinally` | `MCParallelCapture` | `UnwindingKept` |
| `MCRelayNested` | `MCRelay` | `NoUndefinedBehaviour` |
| `MCRelayInCatch` | `MCRelay` | `ImplementsStructured` |
| `MCRelayInFinally` | `MCRelay` | `ThrowsOnlyRelayed` |
| `MCRelayOuterContext` | `MCRelay` | `FinallyNeverSkipped` |
| `MCRelayPastCaptured` | `MCRelay` | `AllRelayed` |
| `MCContextStore` with `"useAgain"` or `"largerTeam"` added to `Usage` | `MCContextStore` | `ListsExist` |
| `MCContextStore` with `"abandon"` added to `Usage` | `MCContextStore` | `NothingLost` |
| `MCBstringAliases`, `MCMessageLimit` | `MCBstring` | `AliasSafe`, `MessageLimited` |

Some modules end with statements that no configuration lists, each a sentence of a document or a
comment that the code does not keep: `SplitDivides`, `UuDecodingEnds`, `AnyDumpRestores`,
`ProtectedUnchanged`, `JoinsItself`, `TrimsSet`, `SplitsStrings`, `EofIsEnd`. To see one violated, put
it in place of the properties of the module's configuration.

## 5. What is proved

`TryCatchProofs`, for any set of exceptions, types and `jmp_buf`s, any nesting depth and any `Usage`
that the theorem does not exclude:

* `TypeCorrect`: `Spec => []TypeOK`.
* `FramesAlwaysMatch`: if `Usage` has no `returnFromCatch`, the frames are the jump points of the
  open blocks. `FramesMatchBlocks` is not inductive by itself: that a jump to frame *k* lands in
  block *k* needs that the jump points of open blocks are distinct. `Matching` adds that.
* `NoFinallySkipped`: under the same assumption a block is left only from its own `finally`
  (`KeepsBlocks`, shown of every step that starts in `Matching`).
* `UnwindingAlwaysMatches`: if `Usage` has none of `nestInFinally`, `goOnUncaught` and
  `returnFromCatch`, the reason of the current frame and the list of exceptions agree. The inductive
  invariant `Unwinding` also says that no enclosing frame unwinds, since the end of a `finally` makes
  the frame below it the current one. A `throw` in a `finally` keeps the invariant.
* `OldestAlwaysKept`: if `Usage` has no `returnFromCatch`, the first exception of the list stays
  first, or goes to a variable. It is an action property that follows from `Matching`, by what each
  operation does to the list.
* `AlwaysOneOwner` and `NeverUndefined`: if `Usage` has neither `causeOfCause` nor
  `returnFromCatch`, every exception has at most one owner, and nothing is freed twice and no jump
  goes into a block that has ended. Neither is inductive alone: a step frees memory twice only if two
  owners share an exception or a cause has a cause. `Owned` says, of the list, the variables and the
  causes together, that no two of them share an exception, that whatever they have is allocated, and
  that a cause has no cause; it is kept with `Matching`, which tells where a jump lands and so which
  variables are left behind by it.
* `NothingLeaks`: if, besides, no `catch` is left with an exception in its variable (neither
  `throwInCatch` nor `nestInCatch`), every allocated exception is on the list, in a variable or a
  cause. Its invariant `KeptInv` adds that only the innermost block, in its `catch`, has an exception
  (`OnTop`): then no jump abandons one. It needs `Owned`, as what a step frees could otherwise be the
  cause that keeps another exception reachable.
* `AlwaysInFlight`: if, besides, no `finally` throws (`ThrowsAlone`), what is thrown is in the list
  afterwards. The `try` that a throw lands in destroys all exceptions but the first; `Unwinding` says
  that there is none before it wherever such a program can throw.
* `MacrosImplementStructured`: if `Usage` has at most `throwInCatch` and `causeOfCause`, the macros
  implement `StructuredExceptions`. The mapping forgets frames, heap and jump points, and takes the
  list's only exception as the one in flight. Each action of `TryCatch` is shown to be one action of
  the abstract specification, with `Unwinding` and with `HandledOnce`: the flag `rethrowing` of a
  frame is what the abstract block knows as handled, and no enclosing block has it.

`ParallelCaptureProofs`, for any team and any number of iterations:

* `NoStaleAppend`: an element is linked to the list that `list_append` has read. The inductive
  invariant `Exclusive` adds that whoever is in the loop holds the lock (`Holder`), and that outside
  a region all threads are idle (`Joined`): the master moves the list, and sets up the lock, without
  holding it.
* `FramesStayMatched`: `FramesMatchTeam`. The invariant `Team` joins types, `Exclusive` and the
  pairing of frames (`Paired`) with what a loop has left to move (`Loops`) and what holds before the
  first `try` and after the last (`Started`).
* `EveryExceptionOnce`: `ExactlyOnce`. The invariant `Once` speaks of each exception's places while a
  move is half done: it is in the thread's list, and in the scope's as soon as it has been linked,
  until the thread clears its own.
* `CaptureImplementsCollect`: unless the program captures in a `finally`, `ParallelCapture`
  implements `CollectExceptions`. The mapping takes what was linked as waiting; `Settled` adds that
  while nothing is thrown whatever is allocated waits (`WaitingFacts`), which is what makes a step of
  a thread map to one step of the abstract specification or to none.

`ContextStoreProofs`, for any number of threads and contexts, with every kind of store:

* `TypeCorrect`, for every `Usage`. It is not a matter of types alone: a thread lands in the `try`
  that the last frame names, and that this is an open block takes the whole invariant.
* `ListsAlwaysExist`: unless a thread begins `with_exceptions` again on a store where it is active, or
  a team is larger than the one that was initialized, the context of an open block has its lists.
* `FramesAlwaysKept`: under the first of these assumptions its frames are the `try` blocks that are
  open on it. The inductive invariant `IInv` joins that with who may use which context (`Owned`: no
  two threads share one, and the local ones are variables of an open block), with which contexts have
  lists (`Listed`), and with `Nested`: the blocks on one context lie next to each other, so that a
  throw passes none of another context.
* `NothingEverLost`: unless the program leaves exceptions where nothing destroys the context afterwards
  (`Usage` has no `abandon`), every exception is in the context of an open block or in one that a
  destroy will still reach, and none is left when the program ends. Nothing destroys local contexts, nor
  the thread-local ones of the thread that ends the program, nor posix ones after shutdown. Its
  invariant adds `Disjoint`, that no two contexts share one: else what the exit of a thread frees could
  be in another's list. `PlaceInv` says where they are: a thread-local store that has contexts has
  its key, whose destructor will run (`Keyed`); and `Main` is inside the `with_exceptions` of any
  context of its own that has exceptions (`MainUses`), which the end of a `try` does not leave, as
  every block has a `with_exceptions` of its context below it (`Based`).

`RelayProofs`, for any number of contexts, scopes and exceptions and any depth.
All theorems assume `Proper`: `Usage` has at most `capture`, `uncaught` and `relayInFinally`. Each of
the other liberties breaks one of them, as section 6 shows.

* `FramesInEveryContext`: the frames of every context are the jump points of the open blocks on it,
  and a jump under way has one that is open. With several contexts a jump may pass blocks that have
  frames elsewhere, and it leaves them there; that this does not happen is the hard part. `IInv` says
  why: blocks on one context lie next to each other, and the context that a relay relays to is that of
  the block around it or unused (`Nested`); a block without a scope of its own is in that of the block
  around it (`Scopes`); and the scope that a relay will destroy is used by no other capture or relay
  (`Expended`). While a jump is under way the block it goes to is the innermost one with a frame
  (`Flies`). That nothing undefined happens, such as following the list of a destroyed scope, is a part
  of `IInv` and of the property.
* `OnePlaceAtATime`: `OnePlace`. The invariant `Once` takes the contexts, the scopes and the variable
  of the `catch` being executed as lists that together hold an exception once, and only allocated ones
  (`OneHolder` of `StackLemmas`); each step moves, drops or adds elements of such lists.
* `EverythingRelayed`: `AllRelayed`. The end of a relay lets nothing of its context or its scope go:
  that is the code's order, uncapture, move, destroy; but a jump that passes a relay would skip it. The
  parts `Unwinding` and `Waiting` of `IInv` exclude that: a jump passes nothing captured, because only
  a frame of a `finally` unwinds, and none of those lies outside a scope with captured exceptions.
* `CapturedWaits`: `CapturedKept`. What a scope has captured stays there until it is thrown, relayed,
  or the scope ends.
* `FinallyAlwaysRuns`: `FinallyNeverSkipped`, which `MCRelayOuterContext` violates where a block uses the
  context of an outer one.
* `RelaysImplementStructured`: a program that stays within what `README.md` shows (`Documented`, no
  liberty at all) implements `StructuredExceptions`: its relays might as well not be there. The mapping
  keeps the `try` blocks of the C stack (`Tries`, a recursive function; `TriesSteps` proves that it
  exists, and other lemmas what it makes of a stack that grows, shrinks or is unwound) and takes as in
  flight what any context holds. While a jump is under way it maps to a state in which the jump has
  already arrived in the next `try`, so that the jumps from relay to relay stutter. The invariant
  `Flight`, on top of `IInv`, says why this is possible: between two open blocks on different contexts
  a relay begins the inner one's (`Begun`), and it relays to the context of the block around it
  (`RelaysOut`), so that the next frame out is in the context that the end of the relay throws in;
  nothing is captured, and an enclosing block is in its body (`Plain`); and either no context has an
  exception and nothing unwinds (`Calm`), or one context has one exception, and is being jumped in,
  unwinds in a `finally`, or has no `try` or relay open any more (`Flying`). Of the liberties, TLC finds
  that `useContaining` keeps the refinement too, and that `relayInFinally`, `relayInCatch` and `uncaught`
  do not.

`SimCListProofs`, for lists of any length, any number of spares, any data and comparator:

* `ListAlwaysOk`: `RepOk`, that is, `list_repOk`. The property speaks of walks, and after a change of two
  pointers every walk is another one; so the invariant `IInv` says instead that there is a *way* `p`
  from sentinel to sentinel that takes each entry once, with `next` and `prev` of neighbours matching
  (`Way`), and that `mid` is `p` at its middle (`Central`). Each operation is shown to change `p` as a
  sequence is changed (`Inserted`, `Cut`), and `mid` with it, one case for each parity and side. The
  spares are the allocated entries that `p` does not take, each once (`Stock`); else an insertion could
  take an entry that is linked. `SimCListAssumption` has addresses enough for `MaxLen` elements and
  `MaxSpare` spares, so that `malloc` does not fail.
* `NoEntryLeaks`: `NothingLeaks`, which follows from `Way` and `Stock` by counting.
* `EveryPositionFound`: whichever of head, middle and tail `list_findpos` starts from, it finds what a
  walk from the head finds (`PositionsFound`, the first part of `QueriesAgree`).
* `QuickSorts`: whatever pivots quicksort takes, what it makes of a sequence is a permutation of it, in
  order, for both directions, any comparator that compares by some key, and any length up to which it
  leaves the work to the selection sort (`Sorts`). Each loop has its invariant. The selection sort keeps
  everything before `firstunsorted` in order and before everything after it. In a partition what is left of `left` does not
  belong after the pivot and what is right of `right` does not belong before it, until `left` or
  `right` is at the pivot, and then also what the second loop
  moves past the pivot while the pivot moves towards it. Every loop changes its data only by swaps,
  which permute (`Permuted`: a bijection between places). That the recursion of `QuickSorted` has a
  solution is proved too (`QuickByLevel`), by the length of the segments.
* `QueriesAlwaysAgree`: `QueriesAgree`. `IInv` says nothing of data; `DataInv` adds that every entry in the list has a
  datum, that the sentinels, which `list_get_at` may read, have none, and that during an
  iteration the current entry is the one at `iter_pos` (`iter_pos` and `iter_curentry` are advanced
  independently).
* `ListImplementsADT`: a list implements `ListADT`. The mapping reads the data along the way `p`, and
  what an iteration has left from its current entry on. Each operation is one of the abstract
  specification: an insertion or a removal by what it does to `p`, `Concat` by the entries it builds,
  `Sort` by `QuickSorts`, and a bijection between places keeps how often each datum occurs
  (`Quantify`), which is how `ListADT` says that a sort permutes.

`BstrProofs`, for any letters, texts, core streams and sizes of a buffer:

* `WritesAlwaysConserve`: `WritesConserve`. Its invariant `WriterInv` says that between two calls the
  buffer is a string with room for its terminator, past which nothing was written (`Sound`), and that
  the text in it is not longer than some size the buffer was ever given, unless the stream has failed
  (`Writer`). That last part is not needed to order what is sent: it is why a call can always round up
  the buffer that it needs, as the program may at any time lower the size that a full buffer has.
  `Conserving` is what a write does, whatever its way through the buffer: what was sent and what is
  buffered are what was given; or the call failed for want of memory, and they begin with what was
  buffered; or the core stream failed, and what was sent is where the text begins. Each of
  the steps of `bwsWriteBstr` is shown to be conserving, and so is a write that comes after one which
  was sent whole (`SentBefore`). The lemmas about `balloc`, `bconcat`, `bcatblk` and
  `bassign` say that each either makes the text that was meant, in a sound buffer, or fails and leaves
  the buffer as it was (`Made`).
* `MessagesAreWhole`: `MessagesWhole`, of any string of at most `MaxLen` characters. This is about
  operators, not about the states of `BstringCalls`: that each of its calls leaves such a string is
  left to TLC. What `exceptional_escape_spaces` makes is the hard part, as `bfindreplace` lists the
  spaces first, grows the buffer once, and moves the pieces from the last to the first within it,
  while `Escaped` is written from left to right. `PlacesListed` says what the list is, `PlacesDivide`
  how it divides the text, and `SpreadTo` what the buffer holds before each move: in front, the text
  as it was; behind, the pieces that were moved, each with its backslash, and none of them overwritten
  by the next. A C string has no Nul in it (`CStrFacts`), so that what is made of it
  does not end early. `SprintfFacts` says of `bvcformata` what throwf relies on, that a text which was
  cut is reported as a failure.

A buffer's size is a power of two, and since the provers know no exponentiation `PowerOf2` is a
recursive function on `0 .. 30`; `PowersOf2` proves that it exists. `BstrStreamAssumption` has no
buffer and text longer than what it covers, as the code has none longer than an `int`;
`MessagesAssumption` says the same of an escaped string, at most twice as long as the string.

`Follow` is a recursive function on all integers. `WalkSteps` proves that there is such a function, and
`WalkAlong` that it follows a way, both by induction over a set of numbers (`NatSetInduction`) instead
of the library's theorems about operators. `Passes`, `MinMax` and `QuickSorted` are treated alike.
`ListImplementsADT` and the other theorems assume of `Key` that it gives each datum an integer, and of
`Sources` that they are sequences of data: a comparator that is not an order is outside what
`list_sort` can promise.

The theorems about `TryCatch` and `Relay` rest on `ExceptionContextProofs`, a lemma for each operation
on a context, and those, with the theorems about `ContextStore`, on `StackLemmas`; `LandsAt` is the
fact about a jump that the invariants of `TryCatch` use. The only assumptions are the named ones of
`ExceptionType`, `ExceptionContext`, `TryCatch`, `ParallelCapture`, `ContextStore`, `Relay`,
`SimCList`, `Bstring`, `BstringCalls`, `BstrStream` and `Messages`, which TLC evaluates in every run of
these modules.

Only model-checked: of `SimCList`, `DumpRestores`; of the bstring modules, all but `WritesConserve`
and `MessagesWhole`: their readers and searches are recursive functions on unbounded domains, and so
is `bfindreplace` where it does not lengthen what it replaces. Liveness (`Resolved`, `RegionEnds`,
`Arrives`) is out of the prover's reach, and so is what most recursive functions of `SimCList` (the
dumps), `BstrText`, `BstrCodecs` and `Bstring` compute for every input, which takes induction over data.

## 6. Disagreements between documentation and code

The macros:

1. `MCThrowInFinally`: `README.md:83-85` promises the semantics of C++ and Java. A `throw` in a
   `finally` runs the same `finally` again, and the new exception is destroyed in favour of the old.
2. `MCNestInCatch`: when an exception leaves a `try` nested in a `catch`, the outer `try` lands with
   the reason THROW instead of RETHROW and its clauses catch an exception thrown in one of them.
3. `MCNestInFinally`: a `catch` nested in a `finally` takes the exception of the outer block.
4. `MCGoOnUncaught`: a stale uncaught exception makes the next `try` destroy a fresh one.
5. `MCReturnFromCatch`: the documented `release_exception` and `return` leaves a dangling frame.
6. `MCCauseOfCause`, the run `cause_of_cause`: three exceptions in a chain of causes are freed with a
   double free (`exception.c:47-53`, against `README.md:155-156`).

Scopes, relays and stores:

7. `MCCaptureInFinally`: a `capture_exceptions` in a `finally` that ends normally copies its reason
   DONT to the frame of the `try`: the exception in flight stays in the list and is never unwound.
8. `MCRelayNested`: a relay destroys its own scope and the containing one. The next capture or relay in
   that scope follows a zeroed list. What was captured in it is freed, while `exceptional.h:134` says
   it can later be thrown: add `"capture"` to `Usage`, and check `CapturedKept`.
9. `MCRelayInCatch`: the reason of a relay's frame does not carry RETHROW, so that an exception relayed
   out of a `catch` can be caught by its sibling clauses.
10. `MCRelayInFinally`: the end of a relay in a `finally` throws, though it relayed nothing, because
    the context it relays to has an exception in flight (`exception_scope.c:111`).
11. `MCRelayPastCaptured`: a throw that leaves a scope with captured exceptions destroys them
    (`exceptional.h:44` says everything uncaught is relayed).
12. A relay from a context to itself loses its exceptions, as `exceptional_list_move` appends to the
    list that it iterates and then clears it: add `"sameContext"` to `Usage` in
    `MCRelayPastCaptured` in place of `"captureThenThrow"`.
13. `MCRelayOuterContext`: a block that uses the context of an outer block, not the current one, jumps
    past the `try` of the blocks between and skips their `finally`.
14. A second `with_exceptions` on a thread destroys the thread's context, and does not create it
    (`exception_scope_posix.c:37`, and sdl alike): add `"useAgain"` to `Usage` in `MCContextStore`, and
    `ListsExist` fails.
15. Nothing destroys a local context: exceptions left uncaught in it leak. Global, OpenMP and
    thread-local ones keep theirs for the next `with_exceptions`, or until shutdown or thread exit. But
    the destructors of keys do not run for the thread that ends the program by returning from `main`,
    and `shutdown` of posix deletes the key and so leaks the contexts of all threads: add `"abandon"` to
    `Usage` in `MCContextStore`, and `NothingLost` fails.

Messages:

16. `MCMessageLimit`: `exceptional.h:179` limits a message to `EXCEPTIONAL_MAX_MESSAGE_SIZE`. A longer
    one is replaced by the format string, and that is not limited. `README.md:146` calls the macro
    `EXCEPTION_MAX_MESSAGE_SIZE`.

SimCList:

17. A dump without a serializer writes its elements a second time behind the first when it meets
    one of another size, instead of from the start (`simclist.c:1185-1193`); it writes
    `sizeof(size_t)` bytes of a `uint32_t` as each size (`simclist.c:1195-1198`); `AnyDumpRestores`
    fails for both. `list_dump_getinfo` hops over `elemlen * numels` bytes when `elemlen` is 0
    (`simclist.c:1054`), and the check of a restore accepts what its `&&` was meant to reject.
    `list_dump_file` and `list_restore_file` return 0 also when they failed (`simclist.c:1369-1384`).
18. `list_destroy` during an iteration frees nothing, as `list_clear` refuses (`simclist.c:631`).

bstrings:

19. `bassign`, `bassignmidstr`, `breplace` and `bInsertChrs` ask for room without the terminator; when
    `balloc` grants exactly that they write one byte past it (`OverrunsByOne` shows that this is all).
20. `bcatcstr`, `bassigncstr` and `bFill` do not undo what they began when memory fails.
21. `MCBstringAliases`: `bfindreplace` with a replacement that is a part of the string before `pos`
    takes it from the string it is changing (`bstrlib.txt:255` says the library is alias safe).
22. `bJustifyRight` and `bJustifyCenter` return an error for a line that is exactly as wide as asked
    for, since `bInsertChrs` refuses to insert nothing; `bJustifyMargin` ignores that an insertion
    failed.
23. `bsplitstrcb` does not look for a separator directly behind another, so that a piece begins with it
    (`SplitDivides`, `bstrlib.c:2590`).
24. `bstrnicmp` and `bstricmp` may order two strings differently: one returns the difference of the
    characters as they are, the other that of their lower-case forms, which are signed.
25. `bjoin` of an empty list with a separator allocates one byte less for each of its characters, and
    writes the terminator.
26. `bUuDecodeEx` does not return for a block whose last line is not ended (`UuDecodingEnds`).

Streams:

27. `bssplitstrcb` hands over undivided what is left at the end, divides by fixed chunks for an empty
    `splitStr`, loses what it has buffered when the callback stops it, and tries for ever when
    memory fails (`SplitsStrings`, `bstrlib.c:2357-2418`).
28. `bsreadlna` returns success though a `bconcat` failed, and may leave in the buffer what it has
    delivered; after the end it reads the core stream again. `bsreada` takes a failed allocation for
    the end (`EofIsEnd`, `bstrlib.txt:1713`).
29. `bwsClose` closes a stream though the flush failed, and `bSecureInput` uses its first buffer
    without a check.

The C++ wrapper:

30. `trunc`, `rtrim`, `fill` and `repeat(0)` change the length of a protected string
    (`ProtectedUnchanged`, `bstrlib.txt:407`); `ProtectedOnlyShrinks` is what remains.
31. `ltrim` and `rtrim` with an empty set remove everything (`TrimsSet`, `bstrlib.txt:399`).
32. `join` with the string itself as the separator uses what it has joined so far (`JoinsItself`,
    `bstrlib.txt:260`); `join` and the constructor from an empty list leave no terminator, and neither
    do `gets`, `read`, `getline` and `>>` that read nothing.
33. `replace` of a `char *` takes it for an alias only from the beginning of the buffer;
    `caselessreversefind` of a `char *` finds nothing from the very end; `<` of a `char *` compares
    unsigned characters up to a Nul, `<` of a `CBString` signed ones.
34. `CBStream` throws a read error only if moreover `eof () < 0`, which never holds, while
    `read (CBString&)` and `readAppend` may throw at the regular end of a stream; `peekAppend` replaces.
    `format` and `gets` leak their buffer when they throw.

Where such a defect concerns a property of a passing run, the property says so and states what does
hold (`WellFormed`, `OverrunsByOne`, `EditsMeet`, `ReadsConserve`, `CBWellFormed`, `OverloadsAgree`).

## 7. Not modelled

* `uncapture_exceptions` and `throw_captured` inside a parallel region, which would jump out of it; C
  `break` or `return` out of a capture block.
* Dumps of contexts and exceptions, backtraces, the example program and the build: no state the
  properties speak of. Source position and keyword of exceptions: the same.
* SimCList: hashes, attribute setters (attributes are constants here), copies made by a meter, sorting
  with threads (not compiled in), `list_dump_file` and `list_restore_file`.
* Better String Library: `bStrfTime`, `bsUuDecode` on a stream, `bsFromBstr`, `bstrListAlloc` and
  `bstrListAllocMin`, checks for NULL and for headers that no function makes, overflow of `int`; of
  `CBString`, the conversions to and from numbers and the STL variant of the list. Its tests
  (`bstest.c`, `cpptest.cpp`, `test.cpp`, `testaux.c`) and `bsafe` make calls that are among those the
  modules quantify over, or replace unsafe functions by an exit.
* Failing allocation in the exception library itself, which does not handle it.
