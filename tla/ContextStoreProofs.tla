-------------------------- MODULE ContextStoreProofs --------------------------
(***************************************************************************)
(* Theorems about ContextStore, for any threads, stores, exceptions and    *)
(* depth: type correctness, and for the programs whose Usage a theorem     *)
(* names, that the context of an open block has its lists, that its frames *)
(* are the try blocks that are open on it, and that no exception is lost.  *)
(***************************************************************************)
EXTENDS ContextStore, StackLemmas, TLAPS

-----------------------------------------------------------------------------
(* The inductive invariant *)

\* A block is named by its id: Before finds the right one.
Distinct ==
  \A t, u \in Threads : \A i \in DOMAIN blocks[t], j \in DOMAIN blocks[u] :
    blocks[t][i].id = blocks[u][j].id => t = u /\ i = j

\* The block at position i of thread t is the with_exceptions of the local context c.
Opens(t, i, c) == /\ blocks[t][i].kind = "with" /\ blocks[t][i].ctx = c
                  /\ blocks[t][i].id = c[2]

\* Who may use which context: a thread its own, Main the global one, and a local one
\* whoever is inside the block that it is a variable of.
Owned ==
  \A t \in Threads : \A i \in DOMAIN blocks[t] :
    LET c == blocks[t][i].ctx
    IN  /\ c[1] \in {"posix", "sdl"} => c[2] = t /\ t \in tls[c[1]]
        /\ c[1] = "openmp" => c[2] = t
        /\ c[1] = "global" => t = Main
        /\ c[1] = "local" =>
             /\ \E j \in DOMAIN blocks[t] : j <= i /\ Opens(t, j, c)
             /\ blocks[t][i].kind = "with" => Opens(t, i, c)

\* The blocks on one context lie next to each other: a throw that unwinds to a try of
\* the current context passes no block of another one.
Nested ==
  \A t \in Threads : \A i, j, k \in DOMAIN blocks[t] :
    i < j /\ j < k /\ blocks[t][i].ctx = blocks[t][k].ctx
      => blocks[t][j].ctx = blocks[t][i].ctx

\* Which contexts have lists, and what those without hold.
Listed ==
  \A c \in Contexts :
    IF ctx[c].lists
    THEN /\ c[1] = "local" => \E t \in Threads : c \in UsedBy(t)
         /\ c[1] \in {"posix", "sdl"} => c[2] \in tls[c[1]]
    ELSE ctx[c] = Zeroed

\* The context of an open block has its lists, but for the two uses that make a
\* program go on without them.
UsedListed ==
  \A t \in Threads : \A c \in UsedBy(t) :
    \/ ctx[c].lists
    \/ c[1] \in {"posix", "sdl"} /\ "useAgain" \in Usage
    \/ c[1] = "openmp" /\ "largerTeam" \in Usage

\* The frames of c are the tries of t that are open on it, in order.
Framed(t, c) ==
  InOrder(ctx[c].frames, Tries(t, c), [i \in DOMAIN blocks[t] |-> blocks[t][i].id])

\* Where lists were not destroyed under open blocks, the frames are the open tries;
\* and a context that no block uses has none.
FramesMatch ==
  /\ \A t \in Threads : \A c \in UsedBy(t) :
       ctx[c].lists \/ "useAgain" \notin Usage => Framed(t, c)
  /\ \A c \in Contexts : (\A t \in Threads : c \notin UsedBy(t)) => ctx[c].frames = << >>

IInv == TypeOK /\ Distinct /\ Owned /\ Nested /\ Listed /\ UsedListed /\ FramesMatch

-----------------------------------------------------------------------------
(* Blocks *)

\* A context is used by a thread if one of its open blocks has it.
LEMMA UsedByIff ==
  ASSUME NEW t \in Threads
  PROVE  /\ \A c : c \in UsedBy(t) <=> \E i \in DOMAIN blocks[t] : blocks[t][i].ctx = c
         /\ \A c : c \in UsedBy(t)' <=> \E i \in DOMAIN blocks'[t] : blocks'[t][i].ctx = c
         /\ \A i \in DOMAIN blocks[t] : blocks[t][i].id \in Open
BY DEF UsedBy, Open, ToSet

\* The contexts of open blocks are contexts, and positions are numbers.
LEMMA BlockFacts ==
  ASSUME TypeOK, NEW t \in Threads
  PROVE  /\ blocks[t] \in Seq(Block) /\ Depth(t) \in Nat /\ DOMAIN blocks[t] = 1 .. Depth(t)
         /\ \A i \in DOMAIN blocks[t] :
              /\ i \in Nat /\ i <= Depth(t) /\ blocks[t][i] \in Block
              /\ blocks[t][i].id \in Ids /\ blocks[t][i].ctx \in Contexts
         /\ UsedBy(t) \subseteq Contexts
<1>1. blocks[t] \in Seq(Block)
  BY DEF TypeOK
<1>2. Depth(t) \in Nat /\ DOMAIN blocks[t] = 1 .. Depth(t)
  BY <1>1 DEF Depth
<1>3. \A i \in DOMAIN blocks[t] : i \in Nat /\ i <= Depth(t) /\ blocks[t][i] \in Block
  BY <1>1, <1>2
<1>4. \A b \in Block : b.id \in Ids /\ b.ctx \in Contexts
  BY DEF Block
<1> QED BY <1>1, <1>2, <1>3, <1>4, UsedByIff

\* A block is pushed: the others keep their positions.
LEMMA PushFacts ==
  ASSUME TypeOK, NEW t \in Threads, NEW kind \in {"with", "try"}, NEW id \in Ids,
         NEW c \in Contexts, Push(t, kind, id, c)
  PROVE  LET b == [kind |-> kind, id |-> id, ctx |-> c]
             n == Depth(t) + 1
         IN  /\ blocks' \in [Threads -> Seq(Block)]
             /\ n \in Nat /\ n \notin DOMAIN blocks[t]
             /\ DOMAIN blocks'[t] = DOMAIN blocks[t] \cup {n}
             /\ blocks'[t][n] = b
             /\ \A i \in DOMAIN blocks[t] : i < n /\ blocks'[t][i] = blocks[t][i]
             /\ \A u \in Threads : u # t => blocks'[u] = blocks[u]
<1> DEFINE b == [kind |-> kind, id |-> id, ctx |-> c]
           n == Depth(t) + 1
<1>1. b \in Block
  BY DEF Block
<1>2. blocks[t] \in Seq(Block) /\ Depth(t) = Len(blocks[t])
  BY DEF TypeOK, Depth
<1>3. blocks'[t] = Append(blocks[t], b) /\ \A u \in Threads : u # t => blocks'[u] = blocks[u]
  BY DEF Push, TypeOK
<1> HIDE DEF b
<1>4. Append(blocks[t], b) \in Seq(Block)
  BY <1>1, <1>2
<1>5. blocks' \in [Threads -> Seq(Block)]
  BY <1>3, <1>4 DEF Push, TypeOK
<1>6. /\ Len(blocks[t]) \in Nat /\ DOMAIN blocks[t] = 1 .. Len(blocks[t])
      /\ DOMAIN Append(blocks[t], b) = 1 .. Len(blocks[t]) + 1
      /\ Append(blocks[t], b)[Len(blocks[t]) + 1] = b
      /\ \A i \in 1 .. Len(blocks[t]) : Append(blocks[t], b)[i] = blocks[t][i]
  BY <1>1, <1>2
<1>7. \A m \in Nat : m + 1 \in Nat /\ m + 1 \notin 1 .. m /\ 1 .. m + 1 = (1 .. m) \cup {m + 1}
                     /\ \A i \in 1 .. m : i < m + 1
  OBVIOUS
<1> QED BY <1>2, <1>3, <1>5, <1>6, <1>7 DEF b

\* The blocks of t above position n have ended.
Cut(t, n) == blocks' = [blocks EXCEPT ![t] = SubSeq(@, 1, n)]

\* Those that are left keep their positions.
LEMMA CutFacts ==
  ASSUME TypeOK, NEW t \in Threads, NEW n \in 0 .. Depth(t), Cut(t, n)
  PROVE  /\ blocks' \in [Threads -> Seq(Block)]
         /\ n \in Nat /\ DOMAIN blocks'[t] = 1 .. n /\ 1 .. n \subseteq DOMAIN blocks[t]
         /\ \A i \in DOMAIN blocks'[t] : blocks'[t][i] = blocks[t][i]
         /\ \A u \in Threads : u # t => blocks'[u] = blocks[u]
<1>1. blocks[t] \in Seq(Block) /\ Depth(t) = Len(blocks[t]) /\ Len(blocks[t]) \in Nat
  BY DEF TypeOK, Depth
<1>2. n \in Nat /\ n <= Len(blocks[t])
  BY <1>1
<1>3. /\ SubSeq(blocks[t], 1, n) \in Seq(Block) /\ Len(SubSeq(blocks[t], 1, n)) = n
      /\ \A i \in 1 .. n : SubSeq(blocks[t], 1, n)[i] = blocks[t][i]
  BY <1>1, <1>2, PrefixFacts
<1>4. blocks'[t] = SubSeq(blocks[t], 1, n) /\ \A u \in Threads : u # t => blocks'[u] = blocks[u]
  BY DEF Cut, TypeOK
<1>5. blocks' \in [Threads -> Seq(Block)]
  BY <1>3 DEF Cut, TypeOK
<1>6. DOMAIN SubSeq(blocks[t], 1, n) = 1 .. n
  BY <1>3
<1>7. 1 .. n \subseteq DOMAIN blocks[t]
  BY <1>1, <1>2
<1> QED BY <1>2, <1>3, <1>4, <1>5, <1>6, <1>7

\* The end of a block that has no others in it.
LEMMA FrontIsCut ==
  ASSUME TypeOK, NEW t \in Threads, InBlock(t), blocks' = [blocks EXCEPT ![t] = Front(@)]
  PROVE  /\ Depth(t) \in DOMAIN blocks[t] /\ Depth(t) - 1 \in 0 .. Depth(t)
         /\ Top(t) = blocks[t][Depth(t)] /\ Top(t) \in Block
         /\ Cut(t, Depth(t) - 1)
<1>1. blocks[t] \in Seq(Block) /\ Depth(t) = Len(blocks[t]) /\ Len(blocks[t]) \in Nat \ {0}
  BY DEF TypeOK, InBlock, Depth
<1>2. Depth(t) \in DOMAIN blocks[t] /\ Depth(t) - 1 \in 0 .. Depth(t)
  BY <1>1
<1>3. Top(t) = blocks[t][Depth(t)] /\ Top(t) \in Block
  BY <1>1, <1>2 DEF Top, Last
<1>4. Cut(t, Depth(t) - 1)
  BY <1>1 DEF Cut, Front
<1> QED BY <1>2, <1>3, <1>4
-----------------------------------------------------------------------------
(* What every block that begins or ends preserves *)

\* A block that begins has a name of its own and the current context or a new one.
LEMMA PushKeepsShape ==
  ASSUME TypeOK, Distinct, Nested, NEW t \in Threads, NEW kind \in {"with", "try"},
         NEW id \in Ids, NEW c \in Contexts, Push(t, kind, id, c),
         id \notin Open, MayUse(t, c)
  PROVE  Distinct' /\ Nested'
<1> DEFINE n == Depth(t) + 1
<1>1. /\ n \in Nat /\ n \notin DOMAIN blocks[t]
      /\ DOMAIN blocks'[t] = DOMAIN blocks[t] \cup {n}
      /\ blocks'[t][n].id = id /\ blocks'[t][n].ctx = c
      /\ \A i \in DOMAIN blocks[t] : i < n /\ blocks'[t][i] = blocks[t][i]
      /\ \A u \in Threads : u # t => blocks'[u] = blocks[u]
  <2> DEFINE b == [kind |-> kind, id |-> id, ctx |-> c]
  <2>1. b.id = id /\ b.ctx = c
    OBVIOUS
  <2> HIDE DEF b
  <2> QED BY <2>1, PushFacts, Zenon DEF b
<1>2. \A u \in Threads : \A i \in DOMAIN blocks[u] : blocks[u][i].id # id
  BY UsedByIff
<1>3. ASSUME NEW u \in Threads, NEW i \in DOMAIN blocks'[u]
      PROVE  /\ (u = t /\ i = n) \/ i \in DOMAIN blocks[u]
             /\ i \in DOMAIN blocks[u] => blocks'[u][i] = blocks[u][i] /\ ~ (u = t /\ i = n)
  BY <1>1
<1>4. Distinct'
  <2> SUFFICES ASSUME NEW u \in Threads, NEW v \in Threads, NEW i \in DOMAIN blocks'[u],
                      NEW j \in DOMAIN blocks'[v], blocks'[u][i].id = blocks'[v][j].id
               PROVE  u = v /\ i = j
    BY DEF Distinct
  <2> HIDE DEF n
  <2>1. CASE i \in DOMAIN blocks[u] /\ j \in DOMAIN blocks[v]
    BY <1>3, <2>1 DEF Distinct
  <2> QED BY <1>1, <1>2, <1>3, <2>1
<1>5. Nested'
  <2> SUFFICES ASSUME NEW u \in Threads, NEW i \in DOMAIN blocks'[u],
                      NEW j \in DOMAIN blocks'[u], NEW k \in DOMAIN blocks'[u],
                      i < j, j < k, blocks'[u][i].ctx = blocks'[u][k].ctx
               PROVE  blocks'[u][j].ctx = blocks'[u][i].ctx
    BY DEF Nested
  <2>1. i \in Nat /\ j \in Nat /\ k \in Nat
    <3>1. \A m \in DOMAIN blocks[u] : m \in Nat
      BY BlockFacts
    <3> QED BY <1>1, <1>3, <3>1
  <2>2. i \in DOMAIN blocks[u] /\ j \in DOMAIN blocks[u]
    <3>1. k \in DOMAIN blocks[u] => k <= Depth(u)
      BY BlockFacts
    <3>2. ~ (u = t /\ i = n) /\ ~ (u = t /\ j = n)
      <4>1. u = t => k <= n
        BY <1>1, <1>3, <2>1
      <4> QED BY <1>1, <2>1, <4>1
    <3> QED BY <1>3, <3>2
  <2>3. CASE k \in DOMAIN blocks[u]
    BY <1>3, <2>2, <2>3 DEF Nested
  <2>4. CASE k \notin DOMAIN blocks[u]
    <3>1. u = t /\ k = n /\ blocks'[u][k].ctx = c
      BY <1>1, <1>3, <2>4
    <3>2. blocks[t][i].ctx = c
      BY <1>3, <2>2, <3>1
    <3>3. Top(t).ctx = c
      BY <2>2, <3>1, <3>2, UsedByIff DEF MayUse
    <3>4. /\ Depth(t) \in DOMAIN blocks[t] /\ Top(t) = blocks[t][Depth(t)]
          /\ Depth(t) \in Nat /\ j <= Depth(t)
      <4>1. blocks[t] \in Seq(Block) /\ Depth(t) = Len(blocks[t])
        BY DEF TypeOK, Depth
      <4>2. Len(blocks[t]) \in Nat /\ DOMAIN blocks[t] = 1 .. Len(blocks[t])
        BY <4>1
      <4>3. Depth(t) \in DOMAIN blocks[t] /\ j <= Depth(t)
        BY <2>1, <2>2, <3>1, <4>1, <4>2
      <4> QED BY <4>1, <4>2, <4>3 DEF Top, Last
    <3>5. CASE j = Depth(t)
      BY <1>3, <2>2, <3>1, <3>2, <3>3, <3>4, <3>5
    <3>6. CASE j # Depth(t)
      <4>1. j < Depth(t)
        BY <2>1, <3>4, <3>6
      <4>2. blocks[t][j].ctx = blocks[t][i].ctx
        BY <2>2, <3>1, <3>2, <3>3, <3>4, <4>1 DEF Nested
      <4> QED BY <1>3, <2>2, <3>1, <4>2
    <3> QED BY <3>5, <3>6
  <2> QED BY <2>3, <2>4
<1> QED BY <1>4, <1>5

\* Blocks that end take nothing from the others.
LEMMA CutKeepsShape ==
  ASSUME TypeOK, Distinct, Owned, Nested, NEW t \in Threads, NEW n \in 0 .. Depth(t),
         Cut(t, n), tls' = tls
  PROVE  Distinct' /\ Owned' /\ Nested'
<1>1. /\ n \in Nat /\ DOMAIN blocks'[t] = 1 .. n /\ 1 .. n \subseteq DOMAIN blocks[t]
      /\ \A i \in DOMAIN blocks'[t] : blocks'[t][i] = blocks[t][i]
      /\ \A u \in Threads : u # t => blocks'[u] = blocks[u]
  BY CutFacts
<1>2. \A u \in Threads : \A i \in DOMAIN blocks'[u] :
        i \in DOMAIN blocks[u] /\ blocks'[u][i] = blocks[u][i]
  BY <1>1
<1>3. Distinct'
  <2> SUFFICES ASSUME NEW u \in Threads, NEW v \in Threads, NEW i \in DOMAIN blocks'[u],
                      NEW j \in DOMAIN blocks'[v], blocks'[u][i].id = blocks'[v][j].id
               PROVE  u = v /\ i = j
    BY DEF Distinct
  <2> QED BY <1>2 DEF Distinct
<1>4. Nested'
  <2> SUFFICES ASSUME NEW u \in Threads, NEW i \in DOMAIN blocks'[u],
                      NEW j \in DOMAIN blocks'[u], NEW k \in DOMAIN blocks'[u],
                      i < j, j < k, blocks'[u][i].ctx = blocks'[u][k].ctx
               PROVE  blocks'[u][j].ctx = blocks'[u][i].ctx
    BY DEF Nested
  <2> QED BY <1>2 DEF Nested
<1>5. Owned'
  <2> SUFFICES ASSUME NEW u \in Threads, NEW i \in DOMAIN blocks'[u],
                      NEW c, c = blocks'[u][i].ctx
               PROVE  /\ c[1] \in {"posix", "sdl"} => c[2] = u /\ u \in tls'[c[1]]
                      /\ c[1] = "openmp" => c[2] = u
                      /\ c[1] = "global" => u = Main
                      /\ c[1] = "local" =>
                           /\ \E j \in DOMAIN blocks'[u] : j <= i /\ Opens(u, j, c)'
                           /\ blocks'[u][i].kind = "with" => Opens(u, i, c)'
    BY Zenon DEF Owned
  <2>1. i \in DOMAIN blocks[u] /\ blocks'[u][i] = blocks[u][i] /\ c = blocks[u][i].ctx
    BY <1>2
  <2>2. ASSUME c[1] = "local", NEW j \in DOMAIN blocks[u], j <= i, Opens(u, j, c)
        PROVE  j \in DOMAIN blocks'[u] /\ Opens(u, j, c)'
    <3>1. i \in Nat /\ j \in Nat
      BY <2>1, BlockFacts
    <3>2. j \in DOMAIN blocks'[u]
      BY <1>1, <2>2, <3>1, BlockFacts
    <3> QED BY <1>2, <2>2, <3>2 DEF Opens
  <2>3. Opens(u, i, c) => Opens(u, i, c)'
    BY <2>1 DEF Opens
  <2> QED BY <2>1, <2>2, <2>3 DEF Owned
<1> QED BY <1>3, <1>4, <1>5

\* A local context is used by one thread, in the block that it is a variable of.
LEMMA LocalUser ==
  ASSUME TypeOK, Distinct, Owned, NEW t \in Threads, NEW i \in DOMAIN blocks[t],
         NEW u \in Threads, NEW j \in DOMAIN blocks[u], blocks[t][i].ctx[1] = "local",
         blocks[u][j].ctx = blocks[t][i].ctx
  PROVE  t = u
<1> DEFINE c == blocks[t][i].ctx
<1>1. PICK k \in DOMAIN blocks[t] : blocks[t][k].id = c[2]
  BY DEF Owned, Opens
<1>2. PICK l \in DOMAIN blocks[u] : blocks[u][l].id = c[2]
  BY DEF Owned, Opens
<1> QED BY <1>1, <1>2 DEF Distinct

\* Every context has one user.
LEMMA OneUser ==
  ASSUME TypeOK, Distinct, Owned, StoreAssumption, NEW t \in Threads, NEW u \in Threads, NEW c,
         c \in UsedBy(t), c \in UsedBy(u)
  PROVE  t = u
<1>1. PICK i \in DOMAIN blocks[t] : blocks[t][i].ctx = c
  BY UsedByIff
<1>2. PICK j \in DOMAIN blocks[u] : blocks[u][j].ctx = c
  BY UsedByIff
<1>3. PICK s \in Stores : c \in {s} \X Owner(s)
  BY <1>1, BlockFacts DEF Contexts
<1>4. c[1] \in {"local", "global", "posix", "sdl", "openmp"}
  BY <1>3 DEF StoreAssumption
<1>5. CASE c[1] = "local"
  BY <1>1, <1>2, <1>5, LocalUser
<1>6. CASE c[1] # "local"
  BY <1>1, <1>2, <1>4, <1>6 DEF Owned
<1> QED BY <1>5, <1>6

\* The end of the with_exceptions that a local context is a variable of leaves no user.
LEMMA LocalUnused ==
  ASSUME TypeOK, Distinct, Owned, NEW t \in Threads, InBlock(t),
         Top(t).kind = "with", Top(t).ctx[1] = "local", Cut(t, Depth(t) - 1),
         NEW u \in Threads
  PROVE  Top(t).ctx \notin UsedBy(u)'
<1> DEFINE n == Depth(t)
           c == Top(t).ctx
<1>1. /\ n \in DOMAIN blocks[t] /\ n - 1 \in 0 .. n /\ n \in Nat
      /\ Top(t) = blocks[t][n]
  <2>1. blocks[t] \in Seq(Block) /\ n = Len(blocks[t]) /\ Len(blocks[t]) \in Nat \ {0}
    BY DEF TypeOK, InBlock, Depth
  <2> QED BY <2>1 DEF Top, Last
<1>2. blocks[t][n].id = c[2]
  BY <1>1 DEF Owned, Opens
<1>3. ASSUME NEW i \in DOMAIN blocks'[u], blocks'[u][i].ctx = c
      PROVE  FALSE
  <2>1. /\ i \in DOMAIN blocks[u] /\ blocks[u][i].ctx = c
        /\ u = t => i \in 1 .. n - 1
    BY <1>1, <1>3, CutFacts
  <2>2. PICK j \in DOMAIN blocks[u] : j <= i /\ blocks[u][j].id = c[2]
    BY <2>1 DEF Owned, Opens
  <2>3. u = t /\ j = n
    BY <1>1, <1>2, <2>2 DEF Distinct
  <2>4. n <= i /\ i \in 1 .. n - 1
    BY <2>1, <2>2, <2>3
  <2> QED BY <1>1, <2>4
<1> QED BY <1>3, UsedByIff
-----------------------------------------------------------------------------
(* Frames and tries *)

Names(t) == [i \in DOMAIN blocks[t] |-> blocks[t][i].id]

\* Tries are positions, and where a context is not used there are none.
LEMMA TriesFacts ==
  ASSUME TypeOK, NEW t \in Threads, NEW c
  PROVE  /\ Tries(t, c) \in SUBSET Nat
         /\ Tries(t, c) \subseteq DOMAIN blocks[t]
         /\ c \notin UsedBy(t) => Tries(t, c) = {}
         /\ c \notin UsedBy(t)' => Tries(t, c)' = {}
<1>1. \A i \in DOMAIN blocks[t] : i \in Nat
  BY BlockFacts
<1> QED BY <1>1, UsedByIff DEF Tries

\* The frames follow the tries: neither changed.
LEMMA FramedSame ==
  ASSUME NEW t \in Threads, NEW c, Framed(t, c), Tries(t, c)' = Tries(t, c),
         \A i \in Tries(t, c) : blocks'[t][i] = blocks[t][i],
         ctx'[c].frames = ctx[c].frames
  PROVE  Framed(t, c)'
<1>1. InOrder(ctx[c].frames, Tries(t, c), Names(t))
  BY DEF Framed, Names
<1>2. \A i \in Tries(t, c) : Names(t)[i] = Names(t)'[i]
  <2> SUFFICES ASSUME NEW i \in Tries(t, c) PROVE Names(t)[i] = Names(t)'[i]
    OBVIOUS
  <2>1. i \in DOMAIN blocks[t] /\ i \in DOMAIN blocks'[t]
    BY DEF Tries
  <2> QED BY <2>1 DEF Names
<1>3. InOrder(ctx[c].frames, Tries(t, c), Names(t)')
  BY <1>1, <1>2, InOrderSame
<1>4. InOrder(ctx'[c].frames, Tries(t, c)', Names(t)')
  BY <1>3
<1> QED BY <1>4 DEF Framed, Names

\* No frames, no tries.
LEMMA FramedEmpty ==
  ASSUME NEW t \in Threads, NEW c, Tries(t, c)' = {}, ctx'[c].frames = << >>
  PROVE  Framed(t, c)'
<1>1. InOrder(<< >>, {}, Names(t)')
  BY EmptyInOrder
<1> QED BY <1>1, Zenon DEF Framed, Names

\* Contexts change that no block uses, or only in what they hold.
LEMMA IdleKeepsFrames ==
  ASSUME TypeOK, FramesMatch, blocks' = blocks,
         \A c \in Contexts :
           \/ ctx'[c].frames = ctx[c].frames /\ ctx'[c].lists = ctx[c].lists
           \/ ctx'[c].frames = << >> /\ \A u \in Threads : c \notin UsedBy(u)
  PROVE  FramesMatch'
<1>1. \A u \in Threads : UsedBy(u)' = UsedBy(u) /\ \A c : Tries(u, c)' = Tries(u, c)
  BY Zenon DEF UsedBy, Tries
<1>2. ASSUME NEW u \in Threads, NEW c \in UsedBy(u)', ctx'[c].lists \/ "useAgain" \notin Usage
      PROVE  Framed(u, c)'
  <2>1. c \in UsedBy(u) /\ c \in Contexts
    BY <1>1, <1>2, BlockFacts
  <2>2. ctx'[c].frames = ctx[c].frames /\ ctx'[c].lists = ctx[c].lists
    BY <2>1
  <2>3. Framed(u, c)
    BY <1>2, <2>1, <2>2 DEF FramesMatch
  <2> QED BY <1>1, <2>2, <2>3, FramedSame
<1>3. ASSUME NEW c \in Contexts, \A u \in Threads : c \notin UsedBy(u)'
      PROVE  ctx'[c].frames = << >>
  BY <1>1, <1>3 DEF FramesMatch
<1> QED BY <1>2, <1>3 DEF FramesMatch

\* Who uses what after a block has begun.
LEMMA PushUsers ==
  ASSUME TypeOK, NEW t \in Threads, NEW kind \in {"with", "try"}, NEW id \in Ids,
         NEW c \in Contexts, Push(t, kind, id, c)
  PROVE  /\ UsedBy(t)' = UsedBy(t) \cup {c}
         /\ \A u \in Threads : u # t => UsedBy(u)' = UsedBy(u)
         /\ \A u \in Threads : \A d : \A i \in Tries(u, d) : blocks'[u][i] = blocks[u][i]
         /\ \A u \in Threads : \A d : ~ (u = t /\ d = c /\ kind = "try") => Tries(u, d)' = Tries(u, d)
         /\ kind = "try" => Tries(t, c)' = Tries(t, c) \cup {Depth(t) + 1}
<1> DEFINE n == Depth(t) + 1
           b == [kind |-> kind, id |-> id, ctx |-> c]
<1>1. /\ n \notin DOMAIN blocks[t]
      /\ DOMAIN blocks'[t] = DOMAIN blocks[t] \cup {n}
      /\ blocks'[t][n] = b
      /\ \A i \in DOMAIN blocks[t] : blocks'[t][i] = blocks[t][i]
      /\ \A u \in Threads : u # t => blocks'[u] = blocks[u]
  <2> HIDE DEF b
  <2> QED BY PushFacts, Zenon DEF b
<1>2. b.kind = kind /\ b.ctx = c
  OBVIOUS
<1> HIDE DEF b, n
<1>3. UsedBy(t)' = UsedBy(t) \cup {c}
  <2>1. \A d : d \in UsedBy(t)' <=> d \in UsedBy(t) \/ d = c
    BY <1>1, <1>2, UsedByIff
  <2> QED BY <2>1
<1>4. \A u \in Threads : u # t => UsedBy(u)' = UsedBy(u)
  BY <1>1 DEF UsedBy
<1>5. \A u \in Threads : \A d : \A i \in Tries(u, d) : blocks'[u][i] = blocks[u][i]
  BY <1>1 DEF Tries
<1>6. \A u \in Threads : \A d : ~ (u = t /\ d = c /\ kind = "try") => Tries(u, d)' = Tries(u, d)
  <2> SUFFICES ASSUME NEW u \in Threads, NEW d, ~ (u = t /\ d = c /\ kind = "try")
               PROVE  Tries(u, d)' = Tries(u, d)
    BY Zenon
  <2>1. CASE u # t
    BY <1>1, <2>1 DEF Tries
  <2>2. CASE u = t
    BY <1>1, <1>2, <2>2 DEF Tries
  <2> QED BY <2>1, <2>2
<1>7. kind = "try" => Tries(t, c)' = Tries(t, c) \cup {n}
  BY <1>1, <1>2 DEF Tries
<1> QED BY <1>3, <1>4, <1>5, <1>6, <1>7 DEF n

\* A with_exceptions begins on a context that only this thread may use.  The context is
\* left as it is, made anew where no block uses it, or destroyed.
LEMMA WithKeepsFrames ==
  ASSUME TypeOK, FramesMatch, NEW t \in Threads, NEW id \in Ids, NEW c \in Contexts,
         Push(t, "with", id, c),
         \A u \in Threads : c \in UsedBy(u) => u = t,
         \A d \in Contexts : d # c => ctx'[d] = ctx[d],
         \/ ctx'[c] = ctx[c]
         \/ ctx'[c].frames = << >> /\ \A u \in Threads : c \notin UsedBy(u)
         \/ ~ctx'[c].lists /\ "useAgain" \in Usage
  PROVE  FramesMatch'
<1>1. /\ UsedBy(t)' = UsedBy(t) \cup {c}
      /\ \A u \in Threads : u # t => UsedBy(u)' = UsedBy(u)
      /\ \A u \in Threads : \A d : \A i \in Tries(u, d) : blocks'[u][i] = blocks[u][i]
      /\ \A u \in Threads : \A d : Tries(u, d)' = Tries(u, d)
  <2>1. "with" \in {"with", "try"} /\ "with" # "try"
    OBVIOUS
  <2> QED BY <2>1, PushUsers
<1>2. ASSUME NEW u \in Threads, NEW d \in UsedBy(u)', ctx'[d].lists \/ "useAgain" \notin Usage
      PROVE  Framed(u, d)'
  <2>1. d \in Contexts
    BY <1>1, <1>2, BlockFacts
  <2>2. CASE ctx'[d] = ctx[d] /\ d \in UsedBy(u)
    <3>1. Framed(u, d)
      BY <1>2, <2>2 DEF FramesMatch
    <3> QED BY <1>1, <2>2, <3>1, FramedSame
  <2>3. CASE d \notin UsedBy(u)
    <3>1. u = t /\ d = c /\ \A v \in Threads : c \notin UsedBy(v)
      BY <1>1, <1>2, <2>3
    <3>2. ctx'[c].frames = << >>
      BY <1>2, <3>1 DEF FramesMatch
    <3>3. Tries(u, d)' = {}
      BY <1>1, <2>3, TriesFacts
    <3> QED BY <3>1, <3>2, <3>3, FramedEmpty
  <2> QED BY <1>1, <1>2, <2>1, <2>2, <2>3
<1>3. ASSUME NEW d \in Contexts, \A u \in Threads : d \notin UsedBy(u)'
      PROVE  ctx'[d].frames = << >>
  <2>1. d # c /\ \A u \in Threads : d \notin UsedBy(u)
    BY <1>1, <1>3
  <2> QED BY <2>1 DEF FramesMatch
<1> QED BY <1>2, <1>3 DEF FramesMatch

\* Who uses what after blocks of t have ended.
LEMMA CutUsers ==
  ASSUME TypeOK, NEW t \in Threads, NEW n \in 0 .. Depth(t), Cut(t, n)
  PROVE  /\ \A u \in Threads : UsedBy(u)' \subseteq UsedBy(u)
         /\ \A u \in Threads : u # t => UsedBy(u)' = UsedBy(u) /\ \A d : Tries(u, d)' = Tries(u, d)
         /\ \A u \in Threads : \A d : \A i \in Tries(u, d)' : blocks'[u][i] = blocks[u][i]
         /\ \A d : Tries(t, d)' = {i \in Tries(t, d) : i <= n}
<1>1. /\ n \in Nat /\ DOMAIN blocks'[t] = 1 .. n /\ 1 .. n \subseteq DOMAIN blocks[t]
      /\ \A i \in DOMAIN blocks'[t] : blocks'[t][i] = blocks[t][i]
      /\ \A u \in Threads : u # t => blocks'[u] = blocks[u]
  BY CutFacts
<1>2. \A u \in Threads : \A i \in DOMAIN blocks'[u] :
        i \in DOMAIN blocks[u] /\ blocks'[u][i] = blocks[u][i]
  BY <1>1
<1>3. \A u \in Threads : UsedBy(u)' \subseteq UsedBy(u)
  BY <1>2, UsedByIff
<1>4. \A u \in Threads : u # t => UsedBy(u)' = UsedBy(u) /\ \A d : Tries(u, d)' = Tries(u, d)
  BY <1>1 DEF UsedBy, Tries
<1>5. \A u \in Threads : \A d : \A i \in Tries(u, d)' : blocks'[u][i] = blocks[u][i]
  BY <1>2 DEF Tries
<1>6. \A i \in DOMAIN blocks[t] : i <= n <=> i \in DOMAIN blocks'[t]
  <2>1. \A i \in DOMAIN blocks[t] : i \in Nat /\ 1 <= i
    BY BlockFacts
  <2> QED BY <1>1, <2>1
<1>7. \A d : Tries(t, d)' = {i \in Tries(t, d) : i <= n}
  BY <1>2, <1>6 DEF Tries
<1> QED BY <1>3, <1>4, <1>5, <1>7

\* Blocks of t end, and with them the frames of the tries among them.
LEMMA CutKeepsFrames ==
  ASSUME TypeOK, FramesMatch, NEW t \in Threads, NEW n \in 0 .. Depth(t), Cut(t, n),
         ctx' \in [Contexts -> Context],
         \A u \in Threads : \A d \in UsedBy(u) : d \in UsedBy(t) => u = t,
         \A d \in Contexts : d \notin UsedBy(t) => ctx'[d] = ctx[d],
         \A d \in UsedBy(t) :
           /\ ctx'[d].lists \/ "useAgain" \notin Usage
                => InOrder(ctx'[d].frames, {i \in Tries(t, d) : i <= n}, Names(t))
           /\ ~ctx'[d].lists => ctx'[d].frames = << >>
  PROVE  FramesMatch'
<1>1. /\ \A u \in Threads : UsedBy(u)' \subseteq UsedBy(u)
      /\ \A u \in Threads : u # t => UsedBy(u)' = UsedBy(u) /\ \A d : Tries(u, d)' = Tries(u, d)
      /\ \A u \in Threads : \A d : \A i \in Tries(u, d)' : blocks'[u][i] = blocks[u][i]
      /\ \A d : Tries(t, d)' = {i \in Tries(t, d) : i <= n}
  BY CutUsers
<1>2. ASSUME NEW u \in Threads, NEW d \in UsedBy(u)', ctx'[d].lists \/ "useAgain" \notin Usage
      PROVE  Framed(u, d)'
  <2>1. d \in UsedBy(u) /\ d \in Contexts
    BY <1>1, <1>2, BlockFacts
  <2>2. CASE u # t
    <3>1. ctx'[d] = ctx[d]
      BY <2>1, <2>2
    <3>2. Framed(u, d)
      BY <1>2, <2>1, <3>1 DEF FramesMatch
    <3> QED BY <1>1, <2>2, <3>1, <3>2, FramedSame
  <2>3. CASE u = t
    <3>1. InOrder(ctx'[d].frames, Tries(t, d)', Names(t))
      BY <1>1, <1>2, <2>1, <2>3
    <3>2. \A i \in Tries(t, d)' : Names(t)[i] = Names(t)'[i]
      <4> SUFFICES ASSUME NEW i \in Tries(t, d)' PROVE Names(t)[i] = Names(t)'[i]
        OBVIOUS
      <4>1. i \in DOMAIN blocks'[t] /\ i \in DOMAIN blocks[t] /\ blocks'[t][i] = blocks[t][i]
        BY <1>1 DEF Tries
      <4> QED BY <4>1 DEF Names
    <3>3. InOrder(ctx'[d].frames, Tries(t, d)', Names(t)')
      BY <3>1, <3>2, InOrderSame
    <3> QED BY <2>3, <3>3 DEF Framed, Names
  <2> QED BY <2>2, <2>3
<1>3. ASSUME NEW d \in Contexts, \A u \in Threads : d \notin UsedBy(u)'
      PROVE  ctx'[d].frames = << >>
  <2>1. CASE d \in UsedBy(t) /\ ctx'[d].lists
    <3>1. {i \in Tries(t, d) : i <= n} = {}
      BY <1>1, <1>3, TriesFacts
    <3>2. ctx'[d].frames \in Seq(Ids)
      BY <1>3 DEF Context
    <3>3. InOrder(ctx'[d].frames, {}, Names(t))
      BY <2>1, <3>1
    <3> QED BY <3>2, <3>3, InOrderEmpty
  <2>2. CASE d \in UsedBy(t) /\ ~ctx'[d].lists
    BY <2>2
  <2>3. CASE d \notin UsedBy(t)
    <3>1. \A u \in Threads : d \notin UsedBy(u)
      BY <1>1, <1>3, <2>3
    <3> QED BY <2>3, <3>1 DEF FramesMatch
  <2> QED BY <2>1, <2>2, <2>3
<1> QED BY <1>2, <1>3 DEF FramesMatch
-----------------------------------------------------------------------------
(* The invariant holds initially, and is kept by what steps have in common *)

Kinds == {"local", "global", "posix", "sdl", "openmp"}

\* A context is a pair of a kind and an owner.
LEMMA ContextFacts ==
  ASSUME StoreAssumption, NEW c \in Contexts
  PROVE  c[1] \in Kinds /\ c[1] \in Stores /\ c = <<c[1], c[2]>>
<1>1. PICK s \in Stores : c \in {s} \X Owner(s)
  BY DEF Contexts
<1> QED BY <1>1 DEF StoreAssumption, Kinds

\* Both ways a context can look that holds nothing.
LEMMA EmptyContexts ==
  /\ Created \in Context /\ Created.lists /\ Created.frames = << >> /\ Created.exceptions = << >>
  /\ Zeroed \in Context /\ ~Zeroed.lists /\ Zeroed.frames = << >> /\ Zeroed.exceptions = << >>
BY DEF Created, Zeroed, Context

LEMMA InitIInv ==
  ASSUME StoreAssumption, Init
  PROVE  IInv
<1>1. \A t \in Threads : blocks[t] = << >>
  BY DEF Init
<1>2. DOMAIN << >> = {} /\ << >> \in Seq(Block) /\ ToSet(<< >>) = {}
  BY DEF ToSet
<1>3. TypeOK
  <2>1. blocks \in [Threads -> Seq(Block)]
    BY <1>2 DEF Init
  <2>2. ctx \in [Contexts -> Context]
    BY EmptyContexts DEF Init
  <2>3. keys \in [ThreadLocal -> {"none", "created", "deleted"}] /\ tls \in [ThreadLocal -> SUBSET Threads]
    BY DEF Init
  <2>4. live \subseteq Exc
    BY DEF Init
  <2> QED BY <2>1, <2>2, <2>3, <2>4 DEF TypeOK
<1>4. Distinct /\ Owned /\ Nested
  BY <1>1, <1>2 DEF Distinct, Owned, Nested
<1>5. \A t \in Threads : UsedBy(t) = {}
  BY <1>1, <1>2, UsedByIff
<1>6. \A c \in Contexts : ctx[c] = Zeroed
  BY DEF Init
<1>7. Listed
  BY <1>6, EmptyContexts DEF Listed
<1>8. UsedListed
  BY <1>5 DEF UsedListed
<1>9. FramesMatch
  BY <1>5, <1>6, EmptyContexts DEF FramesMatch
<1> QED BY <1>3, <1>4, <1>7, <1>8, <1>9 DEF IInv

\* Every with_exceptions, whatever its store.
LEMMA WithStep ==
  ASSUME StoreAssumption, IInv, NEW t \in Threads, NEW id \in Ids, NEW c \in Contexts,
         Push(t, "with", id, c), MayOpen(t, id), MayUse(t, c),
         keys' = keys, tls' \in [ThreadLocal -> SUBSET Threads],
         \A s \in ThreadLocal : tls[s] \subseteq tls'[s],
         ctx' \in [Contexts -> Context], live' \subseteq Exc,
         c[1] \in {"posix", "sdl"} => c[2] = t /\ t \in tls'[c[1]],
         c[1] = "openmp" => c[2] = t,
         c[1] = "global" => t = Main,
         c[1] = "local" => c[2] = id /\ \A u \in Threads : c \notin UsedBy(u),
         \A d \in Contexts : d # c => ctx'[d] = ctx[d],
         \/ ctx'[c] = ctx[c] /\ (ctx[c].lists \/ (c[1] = "openmp" /\ "largerTeam" \in Usage))
         \/ ctx'[c] = Created /\ \A u \in Threads : c \notin UsedBy(u)
         \/ ctx'[c] = Zeroed /\ "useAgain" \in Usage /\ c[1] \in {"posix", "sdl"}
  PROVE  IInv'
<1> TypeOK /\ Distinct /\ Owned /\ Nested /\ Listed /\ UsedListed /\ FramesMatch
  BY DEF IInv
<1> DEFINE n == Depth(t) + 1
<1>0. "with" \in {"with", "try"} /\ "with" # "try"
  OBVIOUS
<1>1. /\ blocks' \in [Threads -> Seq(Block)]
      /\ n \in Nat /\ n \notin DOMAIN blocks[t]
      /\ DOMAIN blocks'[t] = DOMAIN blocks[t] \cup {n}
      /\ blocks'[t][n].id = id /\ blocks'[t][n].ctx = c /\ blocks'[t][n].kind = "with"
      /\ \A i \in DOMAIN blocks[t] : i < n /\ blocks'[t][i] = blocks[t][i]
      /\ \A u \in Threads : u # t => blocks'[u] = blocks[u]
  <2> DEFINE b == [kind |-> "with", id |-> id, ctx |-> c]
  <2>1. b.id = id /\ b.ctx = c /\ b.kind = "with"
    OBVIOUS
  <2>2. /\ blocks' \in [Threads -> Seq(Block)]
        /\ n \in Nat /\ n \notin DOMAIN blocks[t]
        /\ DOMAIN blocks'[t] = DOMAIN blocks[t] \cup {n}
        /\ blocks'[t][n] = b
        /\ \A i \in DOMAIN blocks[t] : i < n /\ blocks'[t][i] = blocks[t][i]
        /\ \A u \in Threads : u # t => blocks'[u] = blocks[u]
    BY <1>0, PushFacts
  <2> HIDE DEF b, n
  <2> QED BY <2>1, <2>2
<1>2. /\ UsedBy(t)' = UsedBy(t) \cup {c}
      /\ \A u \in Threads : u # t => UsedBy(u)' = UsedBy(u)
  BY <1>0, PushUsers
<1>3. TypeOK'
  BY <1>1 DEF TypeOK
<1>4. Distinct' /\ Nested'
  BY <1>0, PushKeepsShape DEF MayOpen
<1>5. c[1] \in Kinds
  BY ContextFacts
<1>6. ASSUME NEW u \in Threads, c \in UsedBy(u) PROVE u = t
  <2>1. PICK i \in DOMAIN blocks[u] : blocks[u][i].ctx = c
    BY <1>6, UsedByIff
  <2> QED BY <1>5, <1>6, <2>1 DEF Owned, Kinds
<1>7. Owned'
  <2> SUFFICES ASSUME NEW u \in Threads, NEW i \in DOMAIN blocks'[u],
                      NEW d, d = blocks'[u][i].ctx
               PROVE  /\ d[1] \in {"posix", "sdl"} => d[2] = u /\ u \in tls'[d[1]]
                      /\ d[1] = "openmp" => d[2] = u
                      /\ d[1] = "global" => u = Main
                      /\ d[1] = "local" =>
                           /\ \E j \in DOMAIN blocks'[u] : j <= i /\ Opens(u, j, d)'
                           /\ blocks'[u][i].kind = "with" => Opens(u, i, d)'
    BY Zenon DEF Owned
  <2>1. CASE i \in DOMAIN blocks[u]
    <3>1. blocks'[u][i] = blocks[u][i] /\ d = blocks[u][i].ctx /\ d \in Contexts
      <4> HIDE DEF n
      <4>1. blocks'[u][i] = blocks[u][i]
        BY <1>1, <2>1
      <4> QED BY <2>1, <4>1, BlockFacts
    <3>2. \A j \in DOMAIN blocks[u] : j \in DOMAIN blocks'[u] /\ (Opens(u, j, d) => Opens(u, j, d)')
      BY <1>1 DEF Opens
    <3>3. /\ d[1] \in {"posix", "sdl"} => d[2] = u /\ u \in tls[d[1]]
          /\ d[1] = "openmp" => d[2] = u
          /\ d[1] = "global" => u = Main
          /\ d[1] = "local" =>
               /\ \E j \in DOMAIN blocks[u] : j <= i /\ Opens(u, j, d)
               /\ blocks[u][i].kind = "with" => Opens(u, i, d)
      BY <2>1, <3>1 DEF Owned
    <3>4. d[1] \in {"posix", "sdl"} => d[1] \in ThreadLocal
      BY <3>1, ContextFacts DEF ThreadLocal
    <3> QED BY <2>1, <3>1, <3>2, <3>3, <3>4
  <2>2. CASE i \notin DOMAIN blocks[u]
    <3>1. u = t /\ i = n /\ d = c
      BY <1>1, <2>2
    <3>2. c[1] = "local" => Opens(u, i, d)'
      BY <1>1, <3>1 DEF Opens
    <3>3. i <= i
      BY <1>1, <3>1
    <3> QED BY <3>1, <3>2, <3>3
  <2> QED BY <2>1, <2>2
<1>8. Listed'
  <2> SUFFICES ASSUME NEW d \in Contexts
               PROVE  IF ctx'[d].lists
                      THEN /\ d[1] = "local" => \E u \in Threads : d \in UsedBy(u)'
                           /\ d[1] \in {"posix", "sdl"} => d[2] \in tls'[d[1]]
                      ELSE ctx'[d] = Zeroed
    BY Zenon DEF Listed
  <2>1. CASE d # c
    <3>1. d[1] \in {"posix", "sdl"} => d[1] \in ThreadLocal
      BY ContextFacts DEF ThreadLocal
    <3> QED BY <1>2, <2>1, <3>1 DEF Listed
  <2>2. CASE d = c
    BY <1>2, <2>2, EmptyContexts DEF Listed
  <2> QED BY <2>1, <2>2
<1>9. UsedListed'
  BY <1>2, EmptyContexts, BlockFacts DEF UsedListed
<1>10. FramesMatch'
  BY <1>6, EmptyContexts, WithKeepsFrames
<1> QED BY <1>3, <1>4, <1>7, <1>8, <1>9, <1>10 DEF IInv

\* Every step that ends blocks.
LEMMA CutStep ==
  ASSUME StoreAssumption, IInv, NEW t \in Threads, NEW n \in 0 .. Depth(t), Cut(t, n),
         keys' = keys, tls' = tls, ctx' \in [Contexts -> Context], live' \subseteq Exc,
         \A d \in Contexts : d \notin UsedBy(t) => ctx'[d] = ctx[d],
         \A d \in UsedBy(t) :
           /\ ctx'[d].lists \/ "useAgain" \notin Usage
                => InOrder(ctx'[d].frames, {i \in Tries(t, d) : i <= n}, Names(t))
           /\ ctx'[d].lists => ctx[d].lists /\ (d[1] = "local" => d \in UsedBy(t)')
           /\ ~ctx'[d].lists => ctx'[d] = Zeroed /\ (ctx[d].lists => d \notin UsedBy(t)')
  PROVE  IInv'
<1> TypeOK /\ Distinct /\ Owned /\ Nested /\ Listed /\ UsedListed /\ FramesMatch
  BY DEF IInv
<1>1. blocks' \in [Threads -> Seq(Block)]
  BY CutFacts
<1>2. TypeOK'
  BY <1>1 DEF TypeOK
<1>3. Distinct' /\ Owned' /\ Nested'
  BY CutKeepsShape
<1>4. /\ \A u \in Threads : UsedBy(u)' \subseteq UsedBy(u)
      /\ \A u \in Threads : u # t => UsedBy(u)' = UsedBy(u)
  BY CutUsers
<1>5. \A u \in Threads : \A d \in UsedBy(u) : d \in UsedBy(t) => u = t
  BY OneUser
<1>6. Listed'
  <2> SUFFICES ASSUME NEW d \in Contexts
               PROVE  IF ctx'[d].lists
                      THEN /\ d[1] = "local" => \E u \in Threads : d \in UsedBy(u)'
                           /\ d[1] \in {"posix", "sdl"} => d[2] \in tls'[d[1]]
                      ELSE ctx'[d] = Zeroed
    BY Zenon DEF Listed
  <2>1. CASE d \in UsedBy(t)
    BY <2>1 DEF Listed
  <2>2. CASE d \notin UsedBy(t)
    <3>1. \A u \in Threads : d \in UsedBy(u) => d \in UsedBy(u)'
      BY <1>4, <2>2
    <3> QED BY <2>2, <3>1 DEF Listed
  <2> QED BY <2>1, <2>2
<1>7. UsedListed'
  <2> SUFFICES ASSUME NEW u \in Threads, NEW d \in UsedBy(u)'
               PROVE  \/ ctx'[d].lists
                      \/ d[1] \in {"posix", "sdl"} /\ "useAgain" \in Usage
                      \/ d[1] = "openmp" /\ "largerTeam" \in Usage
    BY Zenon DEF UsedListed
  <2>1. d \in UsedBy(u) /\ d \in Contexts
    BY <1>4, BlockFacts
  <2>2. CASE d \in UsedBy(t)
    BY <1>5, <2>1, <2>2 DEF UsedListed
  <2>3. CASE d \notin UsedBy(t)
    BY <2>1, <2>3 DEF UsedListed
  <2> QED BY <2>2, <2>3
<1>8. FramesMatch'
  BY <1>5, EmptyContexts, CutKeepsFrames
<1> QED BY <1>2, <1>3, <1>6, <1>7, <1>8 DEF IInv

\* Every step that leaves the blocks alone.
LEMMA IdleStep ==
  ASSUME StoreAssumption, IInv, blocks' = blocks, TypeOK',
         \A c \in Contexts :
           \/ ctx'[c] = ctx[c]
           \/ ctx[c].lists /\ ctx'[c].lists /\ ctx'[c].frames = ctx[c].frames
           \/ ctx'[c] \in {Created, Zeroed} /\ \A u \in Threads : c \notin UsedBy(u),
         \A c \in Contexts : ctx'[c].lists /\ c[1] \in {"posix", "sdl"} => c[2] \in tls'[c[1]],
         \A c \in Contexts : ctx'[c].lists /\ c[1] = "local" => ctx[c].lists,
         \A t \in Threads, s \in {"posix", "sdl"} :
           <<s, t>> \in UsedBy(t) /\ t \in tls[s] => t \in tls'[s]
  PROVE  IInv'
<1> TypeOK /\ Distinct /\ Owned /\ Nested /\ Listed /\ UsedListed /\ FramesMatch
  BY DEF IInv
<1>1. \A u \in Threads : UsedBy(u)' = UsedBy(u)
  BY DEF UsedBy
<1>2. Distinct' /\ Nested'
  BY DEF Distinct, Nested
<1>3. Owned'
  <2> SUFFICES ASSUME NEW u \in Threads, NEW i \in DOMAIN blocks[u],
                      NEW d, d = blocks'[u][i].ctx, d = blocks[u][i].ctx
               PROVE  /\ d[1] \in {"posix", "sdl"} => d[2] = u /\ u \in tls'[d[1]]
                      /\ d[1] = "openmp" => d[2] = u
                      /\ d[1] = "global" => u = Main
                      /\ d[1] = "local" =>
                           /\ \E j \in DOMAIN blocks'[u] : j <= i /\ Opens(u, j, d)'
                           /\ blocks'[u][i].kind = "with" => Opens(u, i, d)'
    BY Zenon DEF Owned
  <2>1. /\ d[1] \in {"posix", "sdl"} => d[2] = u /\ u \in tls[d[1]]
        /\ d[1] = "openmp" => d[2] = u
        /\ d[1] = "global" => u = Main
        /\ d[1] = "local" =>
             /\ \E j \in DOMAIN blocks[u] : j <= i /\ Opens(u, j, d)
             /\ blocks[u][i].kind = "with" => Opens(u, i, d)
    BY DEF Owned
  <2>2. d \in UsedBy(u) /\ d = <<d[1], d[2]>>
    BY UsedByIff, BlockFacts, ContextFacts
  <2>3. d[1] \in {"posix", "sdl"} => u \in tls'[d[1]]
    <3> SUFFICES ASSUME d[1] \in {"posix", "sdl"} PROVE u \in tls'[d[1]]
      OBVIOUS
    <3>1. d = <<d[1], u>> /\ u \in tls[d[1]]
      BY <2>1, <2>2
    <3> QED BY <2>2, <3>1
  <2>4. \A j : Opens(u, j, d)' <=> Opens(u, j, d)
    BY DEF Opens
  <2> QED BY <2>1, <2>3, <2>4
<1>4. Listed'
  <2> SUFFICES ASSUME NEW d \in Contexts
               PROVE  IF ctx'[d].lists
                      THEN /\ d[1] = "local" => \E u \in Threads : d \in UsedBy(u)
                           /\ d[1] \in {"posix", "sdl"} => d[2] \in tls'[d[1]]
                      ELSE ctx'[d] = Zeroed
    BY <1>1, Zenon DEF Listed
  <2> QED BY EmptyContexts DEF Listed
<1>5. UsedListed'
  BY <1>1, BlockFacts DEF UsedListed
<1>6. FramesMatch'
  <2> SUFFICES ASSUME NEW c \in Contexts
               PROVE  \/ ctx'[c].frames = ctx[c].frames /\ ctx'[c].lists = ctx[c].lists
                      \/ ctx'[c].frames = << >> /\ \A u \in Threads : c \notin UsedBy(u)
    BY IdleKeepsFrames
  <2>1. ctx[c].lists \in BOOLEAN /\ ctx'[c].lists \in BOOLEAN
    BY DEF TypeOK, Context
  <2> QED BY <2>1, EmptyContexts
<1> QED BY <1>2, <1>3, <1>4, <1>5, <1>6 DEF IInv
-----------------------------------------------------------------------------
(* with_exceptions *)

LEMMA CreateFacts ==
  ASSUME TypeOK, NEW C, Create(C)
  PROVE  /\ ctx' \in [Contexts -> Context] /\ live' = live
         /\ \A c \in Contexts : ctx'[c] = IF c \in C THEN Created ELSE ctx[c]
BY EmptyContexts DEF Create, TypeOK

LEMMA DestroyFacts ==
  ASSUME TypeOK, NEW C, Destroy(C)
  PROVE  /\ ctx' \in [Contexts -> Context] /\ live' = live \ Held(C) /\ live' \subseteq Exc
         /\ \A c \in Contexts : ctx'[c] = IF c \in C THEN Zeroed ELSE ctx[c]
BY EmptyContexts DEF Destroy, TypeOK

\* The parts of TypeOK, as functions.
LEMMA Types ==
  ASSUME TypeOK
  PROVE  /\ keys \in [ThreadLocal -> {"none", "created", "deleted"}]
         /\ ctx \in [Contexts -> Context] /\ tls \in [ThreadLocal -> SUBSET Threads]
         /\ live \subseteq Exc /\ \A s \in ThreadLocal : s \in Stores /\ s \in {"posix", "sdl"}
BY DEF TypeOK, ThreadLocal

LEMMA WithLocalKeepsIInv ==
  ASSUME StoreAssumption, IInv, NEW t \in Threads, NEW id \in Ids, WithLocal(t, id)
  PROVE  IInv'
<1> TypeOK /\ Owned
  BY DEF IInv
<1> DEFINE c == <<"local", id>>
<1>1. c \in Contexts
  BY DEF WithLocal, Contexts, Owner
<1>2. ASSUME NEW u \in Threads, c \in UsedBy(u) PROVE FALSE
  <2>1. PICK i \in DOMAIN blocks[u] : blocks[u][i].ctx = c
    BY <1>2, UsedByIff
  <2>2. PICK j \in DOMAIN blocks[u] : blocks[u][j].id = id
    BY <2>1 DEF Owned, Opens
  <2>3. id \in Open
    BY <2>2, UsedByIff
  <2> QED BY <2>3 DEF WithLocal, MayOpen
<1>3. /\ Push(t, "with", id, c) /\ MayOpen(t, id) /\ Create({c})
      /\ keys' = keys /\ tls' = tls
  BY DEF WithLocal
<1>4. /\ ctx' \in [Contexts -> Context] /\ live' \subseteq Exc
      /\ ctx'[c] = Created /\ \A d \in Contexts : d # c => ctx'[d] = ctx[d]
  BY <1>1, <1>3, CreateFacts, Types
<1>5. MayUse(t, c)
  BY <1>2 DEF MayUse
<1>6. c[1] = "local" /\ c[2] = id
  OBVIOUS
<1> HIDE DEF c
<1> QED BY <1>1, <1>2, <1>3, <1>4, <1>5, <1>6, Types, WithStep

LEMMA WithGlobalKeepsIInv ==
  ASSUME StoreAssumption, IInv, NEW t \in Threads, NEW id \in Ids, WithGlobal(t, id)
  PROVE  IInv'
<1> TypeOK /\ UsedListed
  BY DEF IInv
<1> DEFINE c == <<"global", Program>>
<1>1. c \in Contexts
  BY DEF WithGlobal, Contexts, Owner
<1>2. /\ Push(t, "with", id, c) /\ MayOpen(t, id) /\ MayUse(t, c) /\ t = Main
      /\ IF ctx[c].lists THEN ctx' = ctx /\ live' = live ELSE Create({c})
      /\ keys' = keys /\ tls' = tls
  BY DEF WithGlobal
<1>3. c[1] = "global" /\ c[1] \notin {"local", "openmp", "posix", "sdl"}
  OBVIOUS
<1> HIDE DEF c
<1>4. ~ctx[c].lists => \A u \in Threads : c \notin UsedBy(u)
  BY <1>3 DEF UsedListed
<1>5. /\ ctx' \in [Contexts -> Context] /\ live' \subseteq Exc
      /\ \A d \in Contexts : d # c => ctx'[d] = ctx[d]
      /\ ctx'[c] = IF ctx[c].lists THEN ctx[c] ELSE Created
  <2>1. CASE ctx[c].lists
    BY <1>2, <2>1, Types
  <2>2. CASE ~ctx[c].lists
    BY <1>1, <1>2, <2>2, CreateFacts, Types
  <2> QED BY <2>1, <2>2
<1>6. \/ ctx'[c] = ctx[c] /\ ctx[c].lists
      \/ ctx'[c] = Created /\ \A u \in Threads : c \notin UsedBy(u)
  BY <1>4, <1>5
<1> QED BY <1>1, <1>2, <1>3, <1>5, <1>6, Types, WithStep

LEMMA WithThreadLocalKeepsIInv ==
  ASSUME StoreAssumption, IInv, NEW t \in Threads, NEW id \in Ids, NEW s \in ThreadLocal,
         WithThreadLocal(t, id, s)
  PROVE  IInv'
<1> TypeOK /\ Owned
  BY DEF IInv
<1> DEFINE c == <<s, t>>
<1>1. c \in Contexts
  BY Types DEF Contexts, Owner
<1>2. /\ Push(t, "with", id, c) /\ MayOpen(t, id) /\ MayUse(t, c)
      /\ t \in tls[s] => "useAgain" \in Usage
      /\ IF t \in tls[s] THEN Destroy({c}) ELSE Create({c})
      /\ tls' = [tls EXCEPT ![s] = @ \cup {t}]
      /\ keys' = keys
  BY DEF WithThreadLocal
<1>3. c[1] = s /\ c[2] = t /\ s \in {"posix", "sdl"}
  BY Types
<1> HIDE DEF c
<1>4. /\ tls' \in [ThreadLocal -> SUBSET Threads] /\ t \in tls'[s]
      /\ \A r \in ThreadLocal : tls[r] \subseteq tls'[r]
  BY <1>2, Types
<1>5. ASSUME t \notin tls[s], NEW u \in Threads, c \in UsedBy(u) PROVE FALSE
  <2>1. PICK i \in DOMAIN blocks[u] : blocks[u][i].ctx = c
    BY <1>5, UsedByIff
  <2> QED BY <1>3, <1>5, <2>1 DEF Owned
<1>6. /\ ctx' \in [Contexts -> Context] /\ live' \subseteq Exc
      /\ \A d \in Contexts : d # c => ctx'[d] = ctx[d]
      /\ ctx'[c] = IF t \in tls[s] THEN Zeroed ELSE Created
  <2>1. CASE t \in tls[s]
    BY <1>1, <1>2, <2>1, DestroyFacts, Types
  <2>2. CASE t \notin tls[s]
    BY <1>1, <1>2, <2>2, CreateFacts, Types
  <2> QED BY <2>1, <2>2
<1>7. \/ ctx'[c] = Created /\ \A u \in Threads : c \notin UsedBy(u)
      \/ ctx'[c] = Zeroed /\ "useAgain" \in Usage /\ c[1] \in {"posix", "sdl"}
  BY <1>2, <1>3, <1>5, <1>6
<1> QED BY <1>1, <1>2, <1>3, <1>4, <1>6, <1>7, WithStep

LEMMA WithOpenMPKeepsIInv ==
  ASSUME StoreAssumption, IInv, NEW t \in Threads, NEW id \in Ids, WithOpenMP(t, id)
  PROVE  IInv'
<1> TypeOK
  BY DEF IInv
<1> DEFINE c == <<"openmp", t>>
<1>1. c \in Contexts
  BY DEF WithOpenMP, Contexts, Owner
<1>2. /\ Push(t, "with", id, c) /\ MayOpen(t, id) /\ MayUse(t, c)
      /\ ctx[c].lists \/ "largerTeam" \in Usage
      /\ keys' = keys /\ tls' = tls /\ ctx' = ctx /\ live' = live
  BY DEF WithOpenMP
<1>3. c[1] = "openmp" /\ c[2] = t /\ c[1] \notin {"local", "global", "posix", "sdl"}
  OBVIOUS
<1> HIDE DEF c
<1> QED BY <1>1, <1>2, <1>3, Types, WithStep

LEMMA EndWithKeepsIInv ==
  ASSUME StoreAssumption, IInv, NEW t \in Threads, EndWith(t)
  PROVE  IInv'
<1> TypeOK /\ Distinct /\ Owned /\ Listed /\ FramesMatch
  BY DEF IInv
<1> DEFINE n == Depth(t)
           m == n - 1
           c == Top(t).ctx
<1>1. /\ InBlock(t) /\ Top(t).kind = "with"
      /\ blocks' = [blocks EXCEPT ![t] = Front(@)]
      /\ ctx' = IF c[1] = "local" THEN [ctx EXCEPT ![c] = Zeroed] ELSE ctx
      /\ keys' = keys /\ tls' = tls /\ live' = live
  BY DEF EndWith
<1>2. /\ n \in DOMAIN blocks[t] /\ m \in 0 .. n /\ n \in Nat
      /\ Top(t) = blocks[t][n] /\ Cut(t, m) /\ c \in Contexts /\ c \in UsedBy(t)
  <2>1. /\ n \in DOMAIN blocks[t] /\ m \in 0 .. n /\ Top(t) = blocks[t][n] /\ Cut(t, m)
    BY <1>1, FrontIsCut
  <2> HIDE DEF n, m
  <2> QED BY <2>1, BlockFacts, UsedByIff DEF n
<1>3. \A d \in Contexts : ctx'[d] = IF d = c /\ c[1] = "local" THEN Zeroed ELSE ctx[d]
  BY <1>1, <1>2, Types
<1>4. ctx' \in [Contexts -> Context] /\ live' \subseteq Exc
  BY <1>1, <1>2, EmptyContexts, Types
<1>5. c[1] = "local" => \A u \in Threads : c \notin UsedBy(u)'
  BY <1>1, <1>2, LocalUnused
<1>6. \A d : {i \in Tries(t, d) : i <= m} = Tries(t, d) /\ {i \in Tries(t, d) : i <= m} = Tries(t, d)'
  <2>1. \A i \in DOMAIN blocks[t] : i # n => i <= m
    BY <1>2, BlockFacts
  <2>2. \A d : n \notin Tries(t, d)
    BY <1>1, <1>2 DEF Tries
  <2>3. \A d : \A i \in Tries(t, d) : i <= m
    BY <2>1, <2>2, TriesFacts
  <2> QED BY <1>2, <2>3, CutUsers
<1>7. \A d \in UsedBy(t) : d # c => d \in UsedBy(t)'
  <2> SUFFICES ASSUME NEW d \in UsedBy(t), d # c PROVE d \in UsedBy(t)'
    OBVIOUS
  <2>1. PICK i \in DOMAIN blocks[t] : blocks[t][i].ctx = d
    BY UsedByIff
  <2>2. i \in 1 .. m
    BY <1>2, <2>1, BlockFacts
  <2> QED BY <1>2, <2>1, <2>2, CutFacts, UsedByIff
<1> HIDE DEF m
<1>8. ASSUME NEW d \in UsedBy(t)
      PROVE  /\ ctx'[d].lists \/ "useAgain" \notin Usage
                  => InOrder(ctx'[d].frames, {i \in Tries(t, d) : i <= m}, Names(t))
             /\ ctx'[d].lists => ctx[d].lists /\ (d[1] = "local" => d \in UsedBy(t)')
             /\ ~ctx'[d].lists => ctx'[d] = Zeroed /\ (ctx[d].lists => d \notin UsedBy(t)')
  <2>0. d \in Contexts
    BY BlockFacts
  <2>1. CASE d = c /\ c[1] = "local"
    <3>1. ctx'[d] = Zeroed /\ ~ctx'[d].lists /\ ctx'[d].frames = << >>
      BY <1>3, <2>0, <2>1, EmptyContexts
    <3>2. d \notin UsedBy(t)'
      BY <1>5, <2>1
    <3>3. {i \in Tries(t, d) : i <= m} = {}
      BY <1>6, <3>2, TriesFacts
    <3> QED BY <3>1, <3>2, <3>3, EmptyInOrder
  <2>2. CASE ~ (d = c /\ c[1] = "local")
    <3>1. ctx'[d] = ctx[d]
      BY <1>3, <2>0, <2>2
    <3>2. ctx[d].lists \/ "useAgain" \notin Usage => InOrder(ctx[d].frames, Tries(t, d), Names(t))
      BY DEF FramesMatch, Framed, Names
    <3>3. ~ctx[d].lists => ctx[d] = Zeroed
      BY <2>0 DEF Listed
    <3>4. d[1] = "local" => d \in UsedBy(t)'
      BY <1>7, <2>2
    <3> QED BY <1>6, <3>1, <3>2, <3>3, <3>4
  <2> QED BY <2>1, <2>2
<1>9. \A d \in Contexts : d \notin UsedBy(t) => ctx'[d] = ctx[d]
  BY <1>2, <1>3
<1> QED BY <1>1, <1>2, <1>4, <1>8, <1>9, CutStep
-----------------------------------------------------------------------------
(* Tries and throws *)

\* The innermost block, and the context it uses.
LEMMA TopFacts ==
  ASSUME TypeOK, NEW t \in Threads, InBlock(t)
  PROVE  /\ Depth(t) \in DOMAIN blocks[t] /\ Depth(t) \in Nat \ {0}
         /\ Top(t) = blocks[t][Depth(t)] /\ Top(t) \in Block
         /\ Top(t).ctx \in Contexts /\ Top(t).ctx \in UsedBy(t)
         /\ Here(t) = ctx[Top(t).ctx] /\ Here(t) \in Context
<1>1. blocks[t] \in Seq(Block) /\ Depth(t) = Len(blocks[t]) /\ Len(blocks[t]) \in Nat \ {0}
  BY DEF TypeOK, InBlock, Depth
<1>2. Depth(t) \in DOMAIN blocks[t]
  BY <1>1
<1>3. Top(t) = blocks[t][Depth(t)]
  BY <1>1 DEF Top, Last
<1>4. Top(t) \in Block /\ Top(t).ctx \in Contexts /\ Top(t).ctx \in UsedBy(t)
  BY <1>2, <1>3, BlockFacts, UsedByIff
<1>5. Here(t) = ctx[Top(t).ctx] /\ Here(t) \in Context
  BY <1>4, Types DEF Here
<1> QED BY <1>1, <1>2, <1>3, <1>4, <1>5

LEMMA BeginTryKeepsIInv ==
  ASSUME StoreAssumption, IInv, NEW t \in Threads, NEW id \in Ids, BeginTry(t, id)
  PROVE  IInv'
<1> TypeOK /\ Distinct /\ Owned /\ Nested /\ Listed /\ UsedListed /\ FramesMatch
  BY DEF IInv
<1> DEFINE n == Depth(t) + 1
           m == Depth(t)
<1> PICK c : c = Top(t).ctx
  OBVIOUS
<1>0. "try" \in {"with", "try"}
  OBVIOUS
<1>1. /\ InBlock(t) /\ ctx[c].lists /\ MayOpen(t, id)
      /\ ctx' = [ctx EXCEPT ![c].frames = Append(@, id)]
      /\ Push(t, "try", id, c)
      /\ keys' = keys /\ tls' = tls /\ live' = live
  BY DEF BeginTry, Usable, Here
<1>2. /\ m \in DOMAIN blocks[t] /\ m \in Nat /\ Top(t) = blocks[t][m]
      /\ c \in Contexts /\ c \in UsedBy(t) /\ ctx[c] \in Context
  BY <1>1, TopFacts DEF Here
<1>3. /\ blocks' \in [Threads -> Seq(Block)]
      /\ n \in Nat /\ n \notin DOMAIN blocks[t]
      /\ DOMAIN blocks'[t] = DOMAIN blocks[t] \cup {n}
      /\ blocks'[t][n].id = id /\ blocks'[t][n].ctx = c /\ blocks'[t][n].kind = "try"
      /\ \A i \in DOMAIN blocks[t] : i < n /\ blocks'[t][i] = blocks[t][i]
      /\ \A u \in Threads : u # t => blocks'[u] = blocks[u]
  <2> DEFINE b == [kind |-> "try", id |-> id, ctx |-> c]
  <2>1. b.id = id /\ b.ctx = c /\ b.kind = "try"
    OBVIOUS
  <2>2. /\ blocks' \in [Threads -> Seq(Block)]
        /\ n \in Nat /\ n \notin DOMAIN blocks[t]
        /\ DOMAIN blocks'[t] = DOMAIN blocks[t] \cup {n}
        /\ blocks'[t][n] = b
        /\ \A i \in DOMAIN blocks[t] : i < n /\ blocks'[t][i] = blocks[t][i]
        /\ \A u \in Threads : u # t => blocks'[u] = blocks[u]
    BY <1>0, <1>1, <1>2, PushFacts
  <2> HIDE DEF b, n
  <2> QED BY <2>1, <2>2
<1>4. /\ UsedBy(t)' = UsedBy(t) \cup {c}
      /\ \A u \in Threads : u # t => UsedBy(u)' = UsedBy(u)
      /\ \A u \in Threads : \A d : \A i \in Tries(u, d) : blocks'[u][i] = blocks[u][i]
      /\ \A u \in Threads : \A d : ~ (u = t /\ d = c) => Tries(u, d)' = Tries(u, d)
      /\ Tries(t, c)' = Tries(t, c) \cup {n}
  <2> HIDE DEF n, m
  <2>1. Push(t, "try", id, c) /\ c \in Contexts
    BY <1>1, <1>2
  <2> QED BY <1>0, <2>1, PushUsers DEF n
<1>5. \A u \in Threads : UsedBy(u)' = UsedBy(u)
  BY <1>2, <1>4
<1>6. MayUse(t, c)
  BY DEF MayUse
<1> HIDE DEF n, m
<1>7. Distinct' /\ Nested'
  BY <1>0, <1>1, <1>2, <1>6, PushKeepsShape DEF MayOpen
<1>8. /\ ctx[c].frames \in Seq(Ids) /\ Append(ctx[c].frames, id) \in Seq(Ids)
      /\ ctx'[c] = [ctx[c] EXCEPT !.frames = Append(ctx[c].frames, id)]
      /\ \A d \in Contexts : d # c => ctx'[d] = ctx[d]
      /\ DOMAIN ctx' = Contexts
  <2>1. ctx[c].frames \in Seq(Ids)
    BY <1>2 DEF Context
  <2>2. Append(ctx[c].frames, id) \in Seq(Ids)
    BY <2>1
  <2>3. /\ ctx'[c] = [ctx[c] EXCEPT !.frames = Append(ctx[c].frames, id)]
        /\ \A d \in Contexts : d # c => ctx'[d] = ctx[d]
        /\ DOMAIN ctx' = Contexts
    BY <1>1, <1>2, Types
  <2> QED BY <2>1, <2>2, <2>3
<1>9. /\ ctx'[c].frames = Append(ctx[c].frames, id) /\ ctx'[c].lists = ctx[c].lists
      /\ ctx'[c].exceptions = ctx[c].exceptions
      /\ ctx'[c] \in Context
  BY <1>2, <1>8 DEF Context
<1>10. ctx' \in [Contexts -> Context]
  <2>1. ctx' = [d \in Contexts |-> ctx'[d]] /\ \A d \in Contexts : ctx'[d] \in Context
    BY <1>1, <1>8, <1>9, Types
  <2> QED BY <2>1, Zenon
<1>11. TypeOK'
  BY <1>1, <1>3, <1>10 DEF TypeOK
<1>12. Owned'
  <2> SUFFICES ASSUME NEW u \in Threads, NEW i \in DOMAIN blocks'[u],
                      NEW d, d = blocks'[u][i].ctx
               PROVE  /\ d[1] \in {"posix", "sdl"} => d[2] = u /\ u \in tls'[d[1]]
                      /\ d[1] = "openmp" => d[2] = u
                      /\ d[1] = "global" => u = Main
                      /\ d[1] = "local" =>
                           /\ \E j \in DOMAIN blocks'[u] : j <= i /\ Opens(u, j, d)'
                           /\ blocks'[u][i].kind = "with" => Opens(u, i, d)'
    BY Zenon DEF Owned
  <2>1. PICK k \in DOMAIN blocks[u] :
             /\ d = blocks[u][k].ctx /\ k <= i
             /\ blocks'[u][i].kind = "with" => k = i
    <3>1. CASE i \in DOMAIN blocks[u]
      <4>1. i \in Nat
        BY <3>1, BlockFacts
      <4>2. i <= i /\ blocks'[u][i] = blocks[u][i]
        BY <1>3, <3>1, <4>1
      <4> QED BY <3>1, <4>2
    <3>2. CASE i \notin DOMAIN blocks[u]
      <4>1. u = t /\ i = n /\ d = c
        BY <1>3, <3>2
      <4>2. m <= n
        BY <1>2, <1>3
      <4> QED BY <1>2, <1>3, <4>1, <4>2
    <3> QED BY <3>1, <3>2
  <2>2. \A j \in DOMAIN blocks[u] : j \in DOMAIN blocks'[u] /\ (Opens(u, j, d) => Opens(u, j, d)')
    BY <1>3 DEF Opens
  <2>3. /\ d[1] \in {"posix", "sdl"} => d[2] = u /\ u \in tls[d[1]]
        /\ d[1] = "openmp" => d[2] = u
        /\ d[1] = "global" => u = Main
        /\ d[1] = "local" => \E j \in DOMAIN blocks[u] : j <= k /\ Opens(u, j, d)
    BY <2>1 DEF Owned
  <2>4. d[1] = "local" /\ blocks'[u][i].kind = "with" => Opens(u, i, d)
    <3>1. i \in DOMAIN blocks[u] => blocks'[u][i] = blocks[u][i]
      BY <1>3
    <3> QED BY <2>1, <3>1 DEF Owned
  <2>5. \A j \in DOMAIN blocks[u] : j <= k => j <= i
    <3>1. k \in Nat /\ i \in Nat
      BY <1>3, <2>1, BlockFacts
    <3>2. \A j \in DOMAIN blocks[u] : j \in Nat
      BY BlockFacts
    <3> QED BY <2>1, <3>1, <3>2
  <2>6. i \in DOMAIN blocks[u] \/ blocks'[u][i].kind # "with"
    BY <2>1
  <2> QED BY <1>1, <2>2, <2>3, <2>4, <2>5, <2>6
<1>13. Listed'
  <2> SUFFICES ASSUME NEW d \in Contexts
               PROVE  IF ctx'[d].lists
                      THEN /\ d[1] = "local" => \E u \in Threads : d \in UsedBy(u)'
                           /\ d[1] \in {"posix", "sdl"} => d[2] \in tls'[d[1]]
                      ELSE ctx'[d] = Zeroed
    BY Zenon DEF Listed
  <2> QED BY <1>1, <1>5, <1>8, <1>9 DEF Listed
<1>14. UsedListed'
  BY <1>1, <1>5, <1>8, <1>9, BlockFacts DEF UsedListed
<1>15. FramesMatch'
  <2>1. ASSUME NEW u \in Threads, NEW d \in UsedBy(u)', ctx'[d].lists \/ "useAgain" \notin Usage
        PROVE  Framed(u, d)'
    <3>1. d \in UsedBy(u) /\ d \in Contexts
      BY <1>5, <2>1, BlockFacts
    <3>2. Framed(u, d)
      BY <1>8, <1>9, <2>1, <3>1 DEF FramesMatch
    <3>3. CASE d # c
      <4>1. /\ Tries(u, d)' = Tries(u, d) /\ ctx'[d].frames = ctx[d].frames
            /\ \A i \in Tries(u, d) : blocks'[u][i] = blocks[u][i]
        BY <1>4, <1>8, <3>1, <3>3
      <4> QED BY <3>2, <4>1, FramedSame, Zenon
    <3>4. CASE d = c
      <4>1. u = t
        BY <1>2, <3>1, <3>4, OneUser
      <4>2. InOrder(ctx[c].frames, Tries(t, c), Names(t))
        BY <3>2, <3>4, <4>1 DEF Framed, Names
      <4>3. \A i \in Tries(t, c) : Names(t)[i] = Names(t)'[i] /\ i < n
        <5> SUFFICES ASSUME NEW i \in Tries(t, c) PROVE Names(t)[i] = Names(t)'[i] /\ i < n
          OBVIOUS
        <5>1. i \in DOMAIN blocks[t] /\ i \in DOMAIN blocks'[t] /\ blocks'[t][i] = blocks[t][i] /\ i < n
          BY <1>3 DEF Tries
        <5> QED BY <5>1 DEF Names
      <4>4. Names(t)'[n] = id
        <5>1. n \in DOMAIN blocks'[t]
          BY <1>3
        <5> QED BY <1>3, <5>1 DEF Names
      <4>5. InOrder(ctx[c].frames, Tries(t, c), Names(t)')
        BY <4>2, <4>3, InOrderSame
      <4>6. Tries(t, c) \in SUBSET Nat
        BY TriesFacts
      <4>7. InOrder(Append(ctx[c].frames, id), Tries(t, c) \cup {n}, Names(t)')
        BY <1>3, <1>8, <4>3, <4>4, <4>5, <4>6, InOrderAppend
      <4>8. InOrder(ctx'[c].frames, Tries(t, c)', Names(t)')
        BY <1>4, <1>9, <4>7
      <4>9. Framed(t, c)'
        BY <4>8 DEF Framed, Names
      <4> QED BY <3>4, <4>1, <4>9
    <3> QED BY <3>3, <3>4
  <2>2. ASSUME NEW d \in Contexts, \A u \in Threads : d \notin UsedBy(u)'
        PROVE  ctx'[d].frames = << >>
    <3>1. d # c /\ \A u \in Threads : d \notin UsedBy(u)
      BY <1>2, <1>5, <2>2
    <3> QED BY <1>8, <3>1 DEF FramesMatch
  <2> QED BY <2>1, <2>2 DEF FramesMatch
<1> QED BY <1>7, <1>11, <1>12, <1>13, <1>14, <1>15 DEF IInv
\* To unwind to a try of the current context ends no block of another one, nor the
\* with_exceptions that a local context is a variable of.
LEMMA UnwindFacts ==
  ASSUME TypeOK, Owned, Nested, NEW t \in Threads, InBlock(t), NEW c, c = Top(t).ctx,
         NEW i \in Tries(t, c), NEW m, m = i - 1, Cut(t, m)
  PROVE  /\ m \in 0 .. Depth(t) /\ i \in Nat
         /\ \A d \in UsedBy(t) : d # c => {j \in Tries(t, d) : j <= m} = Tries(t, d)
         /\ \A d \in UsedBy(t) : d # c => d \in UsedBy(t)'
         /\ c[1] = "local" => c \in UsedBy(t)'
         /\ {j \in Tries(t, c) : j <= m} = Below(Tries(t, c), i)
<1> DEFINE n == Depth(t)
<1>1. n \in DOMAIN blocks[t] /\ n \in Nat /\ Top(t) = blocks[t][n]
  BY TopFacts
<1>2. /\ i \in DOMAIN blocks[t] /\ blocks[t][i].ctx = c /\ blocks[t][i].kind = "try"
      /\ i \in 1 .. n
  BY BlockFacts DEF Tries
<1>3. m \in 0 .. n /\ m \in Nat /\ \A j \in Nat : (j <= m <=> j < i) /\ (j > 0 /\ j <= m => j \in 1 .. m)
  BY <1>1, <1>2
<1>4. DOMAIN blocks'[t] = 1 .. m /\ \A j \in DOMAIN blocks'[t] : blocks'[t][j] = blocks[t][j]
  BY <1>3, CutFacts
<1> HIDE DEF n
<1>5. ASSUME NEW j \in DOMAIN blocks[t], blocks[t][j].ctx # c
      PROVE  j <= m /\ j \in DOMAIN blocks'[t]
  <2>1. j \in Nat /\ j > 0 /\ j <= n
    BY BlockFacts DEF n
  <2>2. j # i /\ j # n
    BY <1>1, <1>2, <1>5
  <2>3. ~ (i < j)
    <3>1. i < j => j < n
      BY <1>1, <2>1, <2>2
    <3> QED BY <1>1, <1>2, <1>5, <3>1 DEF Nested
  <2>4. j < i
    BY <1>2, <2>1, <2>2, <2>3
  <2> QED BY <1>3, <1>4, <2>1, <2>4
<1>6. \A d \in UsedBy(t) : d # c => {j \in Tries(t, d) : j <= m} = Tries(t, d)
  BY <1>5 DEF Tries
<1>7. \A d \in UsedBy(t) : d # c => d \in UsedBy(t)'
  <2> SUFFICES ASSUME NEW d \in UsedBy(t), d # c PROVE d \in UsedBy(t)'
    OBVIOUS
  <2>1. PICK j \in DOMAIN blocks[t] : blocks[t][j].ctx = d
    BY UsedByIff
  <2> QED BY <1>4, <1>5, <2>1, UsedByIff
<1>8. c[1] = "local" => c \in UsedBy(t)'
  <2> SUFFICES ASSUME c[1] = "local" PROVE c \in UsedBy(t)'
    OBVIOUS
  <2>1. PICK j \in DOMAIN blocks[t] : j <= i /\ blocks[t][j].kind = "with" /\ blocks[t][j].ctx = c
    BY <1>2 DEF Owned, Opens
  <2>2. j \in Nat /\ j > 0 /\ j # i
    BY <1>2, <2>1, BlockFacts
  <2>3. j \in DOMAIN blocks'[t]
    BY <1>2, <1>3, <1>4, <2>1, <2>2
  <2> QED BY <1>4, <2>1, <2>3, UsedByIff
<1>9. {j \in Tries(t, c) : j <= m} = Below(Tries(t, c), i)
  BY <1>3, TriesFacts DEF Below
<1> QED BY <1>2, <1>3, <1>6, <1>7, <1>8, <1>9 DEF n

\* What EndTry and Throw have in common: the current context loses frames.
LEMMA UnwindStep ==
  ASSUME StoreAssumption, IInv, NEW t \in Threads, InBlock(t), NEW c, c = Top(t).ctx,
         NEW i \in Tries(t, c), NEW m, m = i - 1, Cut(t, m),
         keys' = keys, tls' = tls, ctx' \in [Contexts -> Context], live' \subseteq Exc,
         \A d \in Contexts : d # c => ctx'[d] = ctx[d],
         ctx'[c].lists = ctx[c].lists, ~ctx[c].lists => ctx'[c] = Zeroed,
         ctx'[c].lists \/ "useAgain" \notin Usage
           => InOrder(ctx'[c].frames, Below(Tries(t, c), i), Names(t))
  PROVE  IInv'
<1> TypeOK /\ Distinct /\ Owned /\ Nested /\ Listed /\ UsedListed /\ FramesMatch
  BY DEF IInv
<1>1. /\ m \in 0 .. Depth(t)
      /\ \A d \in UsedBy(t) : d # c => {j \in Tries(t, d) : j <= m} = Tries(t, d)
      /\ \A d \in UsedBy(t) : d # c => d \in UsedBy(t)'
      /\ c[1] = "local" => c \in UsedBy(t)'
      /\ {j \in Tries(t, c) : j <= m} = Below(Tries(t, c), i)
  BY UnwindFacts
<1>2. c \in UsedBy(t) /\ c \in Contexts
  BY TopFacts
<1>3. ASSUME NEW d \in UsedBy(t)
      PROVE  /\ ctx'[d].lists \/ "useAgain" \notin Usage
                  => InOrder(ctx'[d].frames, {j \in Tries(t, d) : j <= m}, Names(t))
             /\ ctx'[d].lists => ctx[d].lists /\ (d[1] = "local" => d \in UsedBy(t)')
             /\ ~ctx'[d].lists => ctx'[d] = Zeroed /\ (ctx[d].lists => d \notin UsedBy(t)')
  <2>1. CASE d = c
    BY <1>1, <2>1
  <2>2. CASE d # c
    <3>1. d \in Contexts /\ ctx'[d] = ctx[d]
      BY <2>2, BlockFacts
    <3>2. ctx[d].lists \/ "useAgain" \notin Usage => InOrder(ctx[d].frames, Tries(t, d), Names(t))
      BY DEF FramesMatch, Framed, Names
    <3>3. ~ctx[d].lists => ctx[d] = Zeroed
      BY <3>1 DEF Listed
    <3> QED BY <1>1, <2>2, <3>1, <3>2, <3>3
  <2> QED BY <2>1, <2>2
<1>4. \A d \in Contexts : d \notin UsedBy(t) => ctx'[d] = ctx[d]
  BY <1>2
<1> QED BY <1>1, <1>3, <1>4, CutStep

LEMMA EndTryKeepsIInv ==
  ASSUME StoreAssumption, IInv, NEW t \in Threads, EndTry(t)
  PROVE  IInv'
<1> TypeOK /\ Listed /\ FramesMatch
  BY DEF IInv
<1> PICK c : c = Top(t).ctx
  OBVIOUS
<1> DEFINE n == Depth(t)
           f == ctx[c].frames
           g == IF f = << >> THEN f ELSE Front(f)
<1>1. /\ InBlock(t) /\ Top(t).kind = "try"
      /\ ctx' = [ctx EXCEPT ![c].frames = IF @ = << >> THEN @ ELSE Front(@)]
      /\ blocks' = [blocks EXCEPT ![t] = Front(@)]
      /\ keys' = keys /\ tls' = tls /\ live' = live
  BY DEF EndTry
<1>2. /\ n \in DOMAIN blocks[t] /\ Top(t) = blocks[t][n] /\ n \in Nat
      /\ c \in Contexts /\ c \in UsedBy(t) /\ ctx[c] \in Context
  BY <1>1, TopFacts DEF Here
<1>3. n \in Tries(t, c)
  BY <1>1, <1>2 DEF Tries
<1>4. PICK m : m = n - 1 /\ Cut(t, m)
  BY <1>1, FrontIsCut
<1>5. f \in Seq(Ids) /\ g \in Seq(Ids)
  <2>1. f \in Seq(Ids)
    BY <1>2 DEF Context
  <2>2. f # << >> => Front(f) \in Seq(Ids)
    BY <2>1, FrontFacts
  <2> QED BY <2>1, <2>2
<1>6. /\ ctx'[c] = [ctx[c] EXCEPT !.frames = g]
      /\ \A d \in Contexts : d # c => ctx'[d] = ctx[d]
      /\ DOMAIN ctx' = Contexts
  BY <1>1, <1>2, Types
<1> HIDE DEF g
<1>7. /\ ctx'[c].frames = g /\ ctx'[c].lists = ctx[c].lists
      /\ ctx'[c] \in Context
  BY <1>2, <1>5, <1>6 DEF Context
<1>8. ctx' \in [Contexts -> Context]
  <2>1. ctx' = [d \in Contexts |-> ctx'[d]] /\ \A d \in Contexts : ctx'[d] \in Context
    BY <1>1, <1>6, <1>7, Types
  <2> QED BY <2>1, Zenon
<1>9. ~ctx[c].lists => ctx'[c] = Zeroed
  <2>1. ~ctx[c].lists => ctx[c] = Zeroed /\ g = << >>
    BY <1>2, EmptyContexts DEF Listed, g
  <2> QED BY <1>6, <2>1 DEF Zeroed
<1>10. ASSUME ctx[c].lists \/ "useAgain" \notin Usage
       PROVE  InOrder(g, Below(Tries(t, c), n), Names(t))
  <2> DEFINE k == Len(f)
  <2>1. InOrder(f, Tries(t, c), Names(t))
    BY <1>2, <1>10 DEF FramesMatch, Framed, Names
  <2>2. f # << >>
    BY <1>3, <1>5, <2>1, InOrderEmpty
  <2>3. k \in DOMAIN f /\ k \in Nat
    BY <1>5, <2>2, FrontFacts
  <2>4. Tries(t, c) \in SUBSET Nat
    BY TriesFacts
  <2>5. g = SubSeq(f, 1, k - 1)
    BY <2>2 DEF g, Front
  <2> HIDE DEF f, k
  <2>6. PICK i \in Tries(t, c) : NamedAt(f, Tries(t, c), Names(t), k, i)
    BY <1>5, <2>1, <2>3, <2>4, InOrderBelow
  <2>7. n <= i /\ InOrder(SubSeq(f, 1, k - 1), Below(Tries(t, c), i), Names(t))
    BY <1>3, <2>6 DEF k, NamedAt
  <2>8. i <= n /\ i \in Nat
    BY BlockFacts DEF Tries
  <2>9. i = n
    BY <1>2, <2>7, <2>8
  <2> QED BY <2>5, <2>6, <2>7, <2>9
<1> PICK i : i = n
  OBVIOUS
<1> HIDE DEF f, n
<1>11. live' \subseteq Exc
  BY <1>1, Types
<1>12. /\ i \in Tries(t, c) /\ m = i - 1 /\ Cut(t, m)
       /\ ctx'[c].lists \/ "useAgain" \notin Usage
            => InOrder(ctx'[c].frames, Below(Tries(t, c), i), Names(t))
  BY <1>3, <1>4, <1>7, <1>10
<1>13. InBlock(t) /\ keys' = keys /\ tls' = tls /\ \A d \in Contexts : d # c => ctx'[d] = ctx[d]
  BY <1>1, <1>6
<1> QED BY <1>7, <1>8, <1>9, <1>11, <1>12, <1>13, UnwindStep

LEMMA ThrowKeepsIInv ==
  ASSUME StoreAssumption, IInv, NEW t \in Threads, Throw(t)
  PROVE  IInv'
<1> TypeOK /\ Distinct /\ Owned /\ Listed /\ FramesMatch
  BY DEF IInv
<1> PICK c : c = Top(t).ctx
  OBVIOUS
<1> DEFINE f == ctx[c].frames
<1>1. InBlock(t) /\ ctx[c].lists /\ keys' = keys /\ tls' = tls
  BY DEF Throw, Usable, Here
<1>2. PICK e \in Exc \ live, k \in 0 .. Len(f) :
           /\ ctx' = [ctx EXCEPT ![c] = [lists |-> TRUE, frames |-> SubSeq(f, 1, k - 1),
                                         exceptions |-> IF k = 0 THEN <<e>> ELSE << >>]]
           /\ live' = IF k = 0 THEN live \cup {e} ELSE live
           /\ blocks' = IF f = << >> THEN blocks
                        ELSE [blocks EXCEPT ![t] = Before(t, f[IF k = 0 THEN 1 ELSE k])]
  BY DEF Throw, Here
<1>3. c \in Contexts /\ c \in UsedBy(t) /\ ctx[c] \in Context
  BY <1>1, TopFacts DEF Here
<1>4. f \in Seq(Ids)
  BY <1>3 DEF Context
<1> HIDE DEF f
<1>5. Len(f) \in Nat /\ k \in Nat /\ k <= Len(f)
  BY <1>4
<1> DEFINE l == IF k = 0 THEN 1 ELSE k
           g == SubSeq(f, 1, k - 1)
           x == IF k = 0 THEN <<e>> ELSE << >>
<1>6. g \in Seq(Ids) /\ x \in Seq(Exc) /\ (k = 0 => g = << >>)
  <2>1. CASE k = 0
    BY <1>4, <2>1
  <2>2. CASE k # 0
    <3>1. k - 1 \in Nat /\ k - 1 <= Len(f)
      BY <1>5, <2>2
    <3>2. SubSeq(f, 1, k - 1) \in Seq(Ids)
      BY <1>4, <3>1, PrefixFacts
    <3> QED BY <2>2, <3>2
  <2> QED BY <2>1, <2>2
<1> HIDE DEF g, x
<1>7. /\ ctx'[c] = [lists |-> TRUE, frames |-> g, exceptions |-> x]
      /\ \A d \in Contexts : d # c => ctx'[d] = ctx[d]
      /\ DOMAIN ctx' = Contexts
  BY <1>2, <1>3, Types DEF g, x
<1>8. /\ ctx'[c].frames = g /\ ctx'[c].lists = ctx[c].lists /\ ctx'[c].lists
      /\ ctx'[c] \in Context
  BY <1>1, <1>3, <1>6, <1>7 DEF Context
<1>9. ctx' \in [Contexts -> Context]
  <2>1. ctx' = [d \in Contexts |-> ctx'[d]] /\ \A d \in Contexts : ctx'[d] \in Context
    BY <1>2, <1>7, <1>8, Types
  <2> QED BY <2>1, Zenon
<1>10. live' \subseteq Exc
  BY <1>2, Types
<1>11. CASE f = << >>
  <2>1. blocks' = blocks
    BY <1>2, <1>11
  <2>2. k = 0 /\ g = << >>
    BY <1>5, <1>6, <1>11
  <2>3. TypeOK'
    BY <1>1, <1>9, <1>10, <2>1 DEF TypeOK
  <2>4. ASSUME NEW d \in Contexts
        PROVE  \/ ctx'[d] = ctx[d]
               \/ ctx[d].lists /\ ctx'[d].lists /\ ctx'[d].frames = ctx[d].frames
    BY <1>1, <1>7, <1>8, <1>11, <2>2 DEF f
  <2>5. \A d \in Contexts : ctx'[d].lists => ctx[d].lists
    BY <1>1, <1>7
  <2>6. \A d \in Contexts : ctx'[d].lists /\ d[1] \in {"posix", "sdl"} => d[2] \in tls'[d[1]]
    BY <1>1, <2>5 DEF Listed
  <2> QED BY <1>1, <2>1, <2>3, <2>4, <2>5, <2>6, IdleStep
<1>12. CASE f # << >>
  <2>1. l \in DOMAIN f /\ l \in Nat
    <3>1. Len(f) \in Nat \ {0} /\ DOMAIN f = 1 .. Len(f)
      BY <1>4, <1>12, EmptySeq
    <3> QED BY <1>5, <3>1
  <2>2. InOrder(f, Tries(t, c), Names(t))
    BY <1>1, <1>3 DEF FramesMatch, Framed, Names, f
  <2>3. Tries(t, c) \in SUBSET Nat /\ Tries(t, c) \subseteq DOMAIN blocks[t]
    BY TriesFacts
  <2>4. SubSeq(f, 1, l - 1) = g
    <3>1. CASE k = 0
      <4>1. SubSeq(f, 1, 0) = << >>
        BY <1>4
      <4> QED BY <1>6, <3>1, <4>1
    <3>2. CASE k # 0
      BY <3>2 DEF g
    <3> QED BY <3>1, <3>2
  <2> HIDE DEF l
  <2>5. PICK i \in Tries(t, c) : NamedAt(f, Tries(t, c), Names(t), l, i)
    BY <1>4, <2>1, <2>2, <2>3, InOrderBelow
  <2>6. i \in DOMAIN blocks[t] /\ blocks[t][i].id = f[l]
    BY <2>3, <2>5 DEF Names, NamedAt
  <2>7. (CHOOSE j \in DOMAIN blocks[t] : blocks[t][j].id = f[l]) = i
    BY <2>6 DEF Distinct
  <2>8. PICK m : m = i - 1
    OBVIOUS
  <2>9. Cut(t, m)
    BY <1>2, <1>12, <2>7, <2>8, Zenon DEF Cut, Before, l
  <2>10. InOrder(ctx'[c].frames, Below(Tries(t, c), i), Names(t))
    BY <1>8, <2>4, <2>5 DEF NamedAt
  <2> QED BY <1>1, <1>7, <1>8, <1>9, <1>10, <2>8, <2>9, <2>10, UnwindStep
<1> QED BY <1>11, <1>12
-----------------------------------------------------------------------------
(* Threads, initialization and shutdown *)

\* Who uses a context, told from its name.
LEMMA UserFacts ==
  ASSUME StoreAssumption, TypeOK, Owned, NEW u \in Threads, NEW c \in UsedBy(u)
  PROVE  /\ c \in Contexts /\ c[1] \in Kinds /\ c = <<c[1], c[2]>> /\ ~Idle(u)
         /\ c[1] \in {"posix", "sdl"} => c[2] = u /\ u \in tls[c[1]] /\ c[1] \in ThreadLocal
         /\ c[1] = "openmp" => c[2] = u
<1>1. PICK i \in DOMAIN blocks[u] : blocks[u][i].ctx = c
  BY UsedByIff
<1>2. c \in Contexts
  BY <1>1, BlockFacts
<1>3. c[1] \in Kinds /\ c[1] \in Stores /\ c = <<c[1], c[2]>>
  BY <1>2, ContextFacts
<1>4. ~Idle(u)
  BY <1>1 DEF Idle
<1> QED BY <1>1, <1>2, <1>3, <1>4 DEF Owned, ThreadLocal

LEMMA InitializeKeyKeepsIInv ==
  ASSUME StoreAssumption, IInv, NEW s \in ThreadLocal, InitializeKey(s)
  PROVE  IInv'
<1> TypeOK /\ Listed
  BY DEF IInv
<1>1. /\ keys' = [keys EXCEPT ![s] = "created"]
      /\ ctx' = ctx /\ tls' = tls /\ blocks' = blocks /\ live' = live
  BY DEF InitializeKey
<1>2. TypeOK'
  BY <1>1 DEF TypeOK
<1>3. \A c \in Contexts : ctx'[c].lists /\ c[1] \in {"posix", "sdl"} => c[2] \in tls'[c[1]]
  BY <1>1 DEF Listed
<1> QED BY <1>1, <1>2, <1>3, IdleStep

LEMMA ShutdownPosixKeepsIInv ==
  ASSUME StoreAssumption, IInv, ShutdownPosix
  PROVE  IInv'
<1> TypeOK /\ Owned /\ Listed
  BY DEF IInv
<1> DEFINE P == {c \in Contexts : c[1] = "posix"}
<1>1. /\ "posix" \in ThreadLocal
      /\ \A t \in tls["posix"] : <<"posix", t>> \notin UsedBy(t)
      /\ keys' = [keys EXCEPT !["posix"] = "deleted"]
      /\ tls' = [tls EXCEPT !["posix"] = {}]
      /\ ctx' = [c \in Contexts |-> IF c[1] = "posix" THEN Zeroed ELSE ctx[c]]
      /\ blocks' = blocks /\ live' = live
  BY DEF ShutdownPosix
<1>2. ASSUME NEW u \in Threads, NEW c \in UsedBy(u), c[1] = "posix" PROVE FALSE
  BY <1>1, <1>2, UserFacts
<1>3. ctx' \in [Contexts -> Context]
  BY <1>1, EmptyContexts, Types
<1>4. TypeOK'
  BY <1>1, <1>3 DEF TypeOK
<1>5. \A c \in Contexts : ctx'[c] = IF c[1] = "posix" THEN Zeroed ELSE ctx[c]
  BY <1>1
<1>6. \A c \in Contexts : ctx'[c] = ctx[c] \/ (ctx'[c] \in {Created, Zeroed} /\ \A u \in Threads : c \notin UsedBy(u))
  BY <1>2, <1>5
<1>7. ASSUME NEW c \in Contexts, ctx'[c].lists
      PROVE  ctx[c].lists /\ c[1] # "posix"
  BY <1>5, <1>7, EmptyContexts
<1>8. ASSUME NEW c \in Contexts, ctx'[c].lists, c[1] \in {"posix", "sdl"}
      PROVE  c[2] \in tls'[c[1]]
  <2>1. c[1] = "sdl" /\ c[2] \in tls["sdl"]
    BY <1>7, <1>8 DEF Listed
  <2>2. "sdl" \in ThreadLocal
    BY <2>1, <1>8, ContextFacts DEF ThreadLocal
  <2>3. tls'["sdl"] = tls["sdl"]
    BY <1>1, <2>2, Types
  <2> QED BY <2>1, <2>3
<1>9. ASSUME NEW t \in Threads, NEW s \in {"posix", "sdl"}, <<s, t>> \in UsedBy(t), t \in tls[s]
      PROVE  t \in tls'[s]
  <2>1. s = "sdl" /\ s \in ThreadLocal
    <3>1. <<s, t>>[1] = s
      OBVIOUS
    <3> QED BY <1>2, <1>9, <3>1, UserFacts
  <2> QED BY <1>1, <1>9, <2>1, Types
<1> QED BY <1>1, <1>4, <1>6, <1>7, <1>8, <1>9, IdleStep

LEMMA ThreadExitKeepsIInv ==
  ASSUME StoreAssumption, IInv, NEW t \in Threads, ThreadExit(t)
  PROVE  IInv'
<1> TypeOK /\ Owned
  BY DEF IInv
<1> DEFINE C == {<<s, t>> : s \in {k \in ThreadLocal : t \in tls[k]}}
<1>1. /\ Idle(t) /\ Destroy(C)
      /\ tls' = [s \in ThreadLocal |-> tls[s] \ {t}]
      /\ keys' = keys /\ blocks' = blocks
  BY DEF ThreadExit
<1>2. ASSUME NEW u \in Threads, NEW c \in C, c \in UsedBy(u) PROVE FALSE
  <2>1. c[1] \in {"posix", "sdl"} /\ c[2] = t
    BY Types
  <2> QED BY <1>1, <1>2, <2>1, UserFacts
<1>3. \A s \in ThreadLocal, u \in Threads : u \in tls[s] /\ <<s, u>> \notin C => u # t
  OBVIOUS
<1>4. ASSUME NEW s \in {"posix", "sdl"}, NEW u \in Threads, u \in tls[s], <<s, u>> \notin C,
             s \in ThreadLocal
      PROVE  u \in tls'[s]
  BY <1>1, <1>3, <1>4
<1> HIDE DEF C
<1>5. PICK D : D = C
  OBVIOUS
<1>6. /\ ctx' \in [Contexts -> Context] /\ live' \subseteq Exc
      /\ \A c \in Contexts : ctx'[c] = IF c \in D THEN Zeroed ELSE ctx[c]
  BY <1>1, <1>5, DestroyFacts
<1>7. tls' \in [ThreadLocal -> SUBSET Threads]
  BY <1>1, Types
<1>8. TypeOK'
  BY <1>1, <1>6, <1>7, Types DEF TypeOK
<1>9. \A c \in Contexts : ctx'[c].lists => ctx[c].lists /\ c \notin D
  BY <1>6, EmptyContexts
<1>10. ASSUME NEW c \in Contexts, ctx'[c].lists, c[1] \in {"posix", "sdl"}
       PROVE  c[2] \in tls'[c[1]]
  <2>1. c = <<c[1], c[2]>> /\ c[1] \in ThreadLocal /\ c[2] \in tls[c[1]]
    BY <1>9, <1>10, ContextFacts DEF Listed, IInv, ThreadLocal
  <2>2. c[2] \in Threads
    BY <2>1, Types
  <2> QED BY <1>4, <1>5, <1>9, <1>10, <2>1, <2>2
<1>11. ASSUME NEW u \in Threads, NEW s \in {"posix", "sdl"}, <<s, u>> \in UsedBy(u), u \in tls[s]
       PROVE  u \in tls'[s]
  <2>1. <<s, u>>[1] = s /\ s \in ThreadLocal
    BY <1>11, UserFacts
  <2>2. <<s, u>> \notin C
    BY <1>2, <1>11
  <2> QED BY <1>4, <1>11, <2>1, <2>2
<1>12. \A c \in Contexts : ctx'[c] = ctx[c] \/ (ctx'[c] \in {Created, Zeroed} /\ \A u \in Threads : c \notin UsedBy(u))
  BY <1>2, <1>5, <1>6
<1> QED BY <1>1, <1>8, <1>9, <1>10, <1>11, <1>12, IdleStep

\* initialize and shutdown of the stores whose contexts are created ahead of their use.
LEMMA AheadStep ==
  ASSUME StoreAssumption, IInv, NEW C, NEW s \in {"global", "openmp"},
         Create(C) \/ Destroy(C), keys' = keys, tls' = tls, blocks' = blocks,
         \A c \in C : c[1] = s /\ \A u \in Threads : c \notin UsedBy(u)
  PROVE  IInv'
<1> TypeOK /\ Listed
  BY DEF IInv
<1>1. /\ ctx' \in [Contexts -> Context] /\ live' \subseteq Exc
      /\ \A c \in Contexts : IF c \in C THEN ctx'[c] \in {Created, Zeroed} ELSE ctx'[c] = ctx[c]
  BY CreateFacts, DestroyFacts, Types
<1>2. TypeOK'
  BY <1>1, Types DEF TypeOK
<1>3. \A c \in Contexts : ctx'[c] = ctx[c] \/ (ctx'[c] \in {Created, Zeroed} /\ \A u \in Threads : c \notin UsedBy(u))
  BY <1>1
<1>4. \A c \in Contexts : c[1] \in {"local", "posix", "sdl"} => ctx'[c] = ctx[c]
  BY <1>1
<1>5. \A c \in Contexts : ctx'[c].lists /\ c[1] \in {"posix", "sdl"} => c[2] \in tls'[c[1]]
  BY <1>4 DEF Listed
<1> QED BY <1>2, <1>3, <1>4, <1>5, IdleStep

\* The openmp contexts of threads that run no block are not used.
LEMMA TeamUnused ==
  ASSUME StoreAssumption, IInv, NEW T \in SUBSET Threads, Team(T)
  PROVE  \A c \in OpenMPContexts(T) : c[1] = "openmp" /\ \A u \in Threads : c \notin UsedBy(u)
<1> TypeOK /\ Owned
  BY DEF IInv
<1> SUFFICES ASSUME NEW c \in OpenMPContexts(T)
             PROVE  c[1] = "openmp" /\ \A u \in Threads : c \notin UsedBy(u)
  OBVIOUS
<1>1. PICK t \in T : c = <<"openmp", t>>
  BY DEF OpenMPContexts
<1>2. c[1] = "openmp" /\ c[2] = t /\ Idle(t)
  BY <1>1 DEF Team
<1> QED BY <1>2, UserFacts
-----------------------------------------------------------------------------
(* Type correctness, lists and frames *)

LEMMA NextKeepsIInv ==
  ASSUME StoreAssumption
  PROVE  IInv /\ [Next]_vars => IInv'
<1> SUFFICES ASSUME IInv, [Next]_vars PROVE IInv'
  OBVIOUS
<1>1. CASE UNCHANGED vars
  <2>1. keys' = keys /\ ctx' = ctx /\ tls' = tls /\ blocks' = blocks /\ live' = live
    BY <1>1 DEF vars
  <2>2. TypeOK'
    BY <2>1 DEF IInv, TypeOK
  <2>3. \A c \in Contexts : ctx'[c].lists /\ c[1] \in {"posix", "sdl"} => c[2] \in tls'[c[1]]
    BY <2>1 DEF IInv, Listed
  <2> QED BY <2>1, <2>2, <2>3, IdleStep
<1>2. ASSUME NEW t \in Threads, NEW id \in Ids,
             WithLocal(t, id) \/ WithGlobal(t, id) \/ WithOpenMP(t, id) \/ BeginTry(t, id)
      PROVE  IInv'
  BY <1>2, WithLocalKeepsIInv, WithGlobalKeepsIInv, WithOpenMPKeepsIInv, BeginTryKeepsIInv
<1>3. ASSUME NEW t \in Threads, NEW id \in Ids, NEW s \in ThreadLocal, WithThreadLocal(t, id, s)
      PROVE  IInv'
  BY <1>3, WithThreadLocalKeepsIInv
<1>4. ASSUME NEW t \in Threads, EndWith(t) \/ EndTry(t) \/ Throw(t) \/ ThreadExit(t)
      PROVE  IInv'
  BY <1>4, EndWithKeepsIInv, EndTryKeepsIInv, ThrowKeepsIInv, ThreadExitKeepsIInv
<1>5. ASSUME NEW T \in SUBSET Threads, InitializeOpenMP(T) \/ ShutdownOpenMP(T)
      PROVE  IInv'
  <2>1. /\ Team(T) /\ (Create(OpenMPContexts(T)) \/ Destroy(OpenMPContexts(T)))
        /\ keys' = keys /\ tls' = tls /\ blocks' = blocks
    BY <1>5 DEF InitializeOpenMP, ShutdownOpenMP
  <2>2. \A c \in OpenMPContexts(T) : c[1] = "openmp" /\ \A u \in Threads : c \notin UsedBy(u)
    BY <2>1, TeamUnused
  <2>3. PICK C : C = OpenMPContexts(T)
    OBVIOUS
  <2> QED BY <2>1, <2>2, <2>3, AheadStep
<1>6. ASSUME ShutdownGlobal PROVE IInv'
  <2>1. PICK C : C = {<<"global", Program>>}
    OBVIOUS
  <2>2. /\ Destroy(C) /\ keys' = keys /\ tls' = tls /\ blocks' = blocks
        /\ \A c \in C : c[1] = "global" /\ \A u \in Threads : c \notin UsedBy(u)
    BY <1>6, <2>1 DEF ShutdownGlobal
  <2> QED BY <2>2, AheadStep
<1>7. CASE ShutdownPosix
  BY <1>7, ShutdownPosixKeepsIInv
<1>8. ASSUME NEW s \in ThreadLocal, InitializeKey(s) PROVE IInv'
  BY <1>8, InitializeKeyKeepsIInv
<1> QED BY <1>1, <1>2, <1>3, <1>4, <1>5, <1>6, <1>7, <1>8 DEF Next

LEMMA Invariant == Spec => []IInv
<1>1. Init => IInv
  BY StoreAssumption, InitIInv
<1>2. IInv /\ [Next]_vars => IInv'
  BY StoreAssumption, NextKeepsIInv
<1> QED BY <1>1, <1>2, PTL DEF Spec

\* Types are correct whatever the program does: also where it uses a context whose
\* lists are gone, the frames stay ids of open blocks, and a throw finds its try.
THEOREM TypeCorrect == Spec => []TypeOK
<1>1. IInv => TypeOK
  BY DEF IInv
<1> QED BY <1>1, Invariant, PTL

\* The context of every open block has its lists, whatever the threads do in between: the
\* programs that README.md:175-285 describes, which do not begin a second posix or sdl
\* with_exceptions on a thread, and initialize openmp in the largest team.
THEOREM ListsAlwaysExist ==
  "useAgain" \notin Usage /\ "largerTeam" \notin Usage => (Spec => []ListsExist)
<1> SUFFICES ASSUME "useAgain" \notin Usage, "largerTeam" \notin Usage
             PROVE  Spec => []ListsExist
  OBVIOUS
<1>1. IInv => ListsExist
  BY DEF IInv, UsedListed, ListsExist
<1> QED BY <1>1, Invariant, PTL

\* The frames of the context of an open block are the tries that are open on it, in
\* order, unless a second with_exceptions of the thread destroyed it: also in a team that
\* is larger than the one that was initialized.
THEOREM FramesAlwaysKept == "useAgain" \notin Usage => (Spec => []FramesKept)
<1> SUFFICES ASSUME "useAgain" \notin Usage PROVE Spec => []FramesKept
  OBVIOUS
<1>1. ASSUME IInv PROVE FramesKept
  <2> TypeOK /\ FramesMatch
    BY <1>1 DEF IInv
  <2> SUFFICES ASSUME NEW t \in Threads, NEW c \in UsedBy(t)
               PROVE  \E at \in [DOMAIN ctx[c].frames -> Tries(t, c)] :
                        /\ \A k, l \in DOMAIN ctx[c].frames : k < l => at[k] < at[l]
                        /\ \A i \in Tries(t, c) : \E k \in DOMAIN ctx[c].frames : at[k] = i
                        /\ \A k \in DOMAIN ctx[c].frames : ctx[c].frames[k] = blocks[t][at[k]].id
    BY Zenon DEF FramesKept
  <2>1. InOrder(ctx[c].frames, Tries(t, c), Names(t))
    BY DEF FramesMatch, Framed, Names
  <2>2. PICK at \in [DOMAIN ctx[c].frames -> Tries(t, c)] :
             /\ \A k, l \in DOMAIN ctx[c].frames : k < l => at[k] < at[l]
             /\ \A i \in Tries(t, c) : \E k \in DOMAIN ctx[c].frames : at[k] = i
             /\ \A k \in DOMAIN ctx[c].frames : ctx[c].frames[k] = Names(t)[at[k]]
    BY <2>1, Zenon DEF InOrder
  <2>3. \A i \in Tries(t, c) : Names(t)[i] = blocks[t][i].id
    BY DEF Names, Tries
  <2>4. \A k \in DOMAIN ctx[c].frames : ctx[c].frames[k] = blocks[t][at[k]].id
    BY <2>2, <2>3
  <2> QED BY <2>2, <2>4, Zenon
<1> QED BY <1>1, Invariant, PTL

-----------------------------------------------------------------------------
(* Exceptions *)

\* The exceptions of context c
Ex(c) == ToSet(ctx[c].exceptions)

\* No two contexts hold the same exception: to destroy one frees nothing of another.
Disjoint == \A c, d \in Contexts : c # d => Ex(c) \cap Ex(d) = {}

\* Every exception that is allocated is in some context.
AllHeld == live = Held(Contexts)

LostInv == Disjoint /\ AllHeld

LEMMA HeldFacts ==
  ASSUME NEW C
  PROVE  /\ \A e : e \in Held(C) <=> \E c \in C : e \in Ex(c)
         /\ \A e : e \in Held(C)' <=> \E c \in C : e \in Ex(c)'
BY DEF Held, Ex

\* What a list of exceptions holds that is empty, or has one.
LEMMA ExOf ==
  /\ ToSet(<< >>) = {}
  /\ \A e : ToSet(<<e>>) = {e}
BY DEF ToSet

\* A step that moves no exception.
LEMMA HoldStep ==
  ASSUME LostInv, live' = live, \A c \in Contexts : ctx'[c].exceptions = ctx[c].exceptions
  PROVE  LostInv'
<1>1. \A c \in Contexts : Ex(c)' = Ex(c)
  BY DEF Ex
<1>2. Disjoint'
  BY <1>1 DEF LostInv, Disjoint
<1>3. \A e : e \in Held(Contexts)' <=> e \in Held(Contexts)
  BY <1>1, HeldFacts
<1> QED BY <1>2, <1>3 DEF LostInv, AllHeld

\* A step that destroys contexts frees what they held, and nothing else.
LEMMA DestroyStep ==
  ASSUME LostInv, NEW C \in SUBSET Contexts, live' = live \ Held(C),
         \A c \in Contexts : ctx'[c].exceptions = IF c \in C THEN << >> ELSE ctx[c].exceptions
  PROVE  LostInv'
<1>1. \A c \in Contexts : Ex(c)' = IF c \in C THEN {} ELSE Ex(c)
  BY ExOf DEF Ex
<1>2. Disjoint'
  BY <1>1 DEF LostInv, Disjoint
<1>3. \A e : e \in Held(Contexts)' <=> e \in Held(Contexts) /\ e \notin Held(C)
  BY <1>1, HeldFacts DEF LostInv, Disjoint
<1> QED BY <1>2, <1>3 DEF LostInv, AllHeld

\* Nothing is held by a context without lists.
LEMMA UnlistedEmpty ==
  ASSUME Listed, NEW c \in Contexts, ~ctx[c].lists
  PROVE  ctx[c].exceptions = << >>
BY EmptyContexts DEF Listed

\* To create contexts that have no lists moves no exception.
LEMMA CreateHolds ==
  ASSUME TypeOK, Listed, LostInv, NEW C, Create(C), \A c \in C : c \in Contexts => ~ctx[c].lists
  PROVE  LostInv'
<1>1. live' = live /\ \A c \in Contexts : ctx'[c] = IF c \in C THEN Created ELSE ctx[c]
  BY CreateFacts
<1>2. \A c \in Contexts : ctx'[c].exceptions = ctx[c].exceptions
  BY <1>1, EmptyContexts, UnlistedEmpty
<1> QED BY <1>1, <1>2, HoldStep

LEMMA DestroyHolds ==
  ASSUME TypeOK, LostInv, NEW C \in SUBSET Contexts, Destroy(C)
  PROVE  LostInv'
<1>1. /\ live' = live \ Held(C)
      /\ \A c \in Contexts : ctx'[c] = IF c \in C THEN Zeroed ELSE ctx[c]
  BY DestroyFacts
<1>2. \A c \in Contexts : ctx'[c].exceptions = IF c \in C THEN << >> ELSE ctx[c].exceptions
  BY <1>1, EmptyContexts
<1> QED BY <1>1, <1>2, DestroyStep

LEMMA EndWithHolds ==
  ASSUME StoreAssumption, IInv, LostInv, "abandon" \notin Usage, NEW t \in Threads, EndWith(t)
  PROVE  LostInv'
<1> TypeOK
  BY DEF IInv
<1> PICK c : c = Top(t).ctx
  OBVIOUS
<1>1. /\ InBlock(t) /\ (ctx[c].exceptions = << >> \/ MayLeave(c))
      /\ ctx' = IF c[1] = "local" THEN [ctx EXCEPT ![c] = Zeroed] ELSE ctx
      /\ live' = live
  BY DEF EndWith, Here
<1>2. c \in Contexts
  BY <1>1, TopFacts
<1>3. c[1] = "local" => ctx[c].exceptions = << >>
  BY <1>1 DEF MayLeave, Abandons
<1>4. \A d \in Contexts : ctx'[d] = IF d = c /\ c[1] = "local" THEN Zeroed ELSE ctx[d]
  BY <1>1, <1>2, Types
<1>5. \A d \in Contexts : ctx'[d].exceptions = ctx[d].exceptions
  BY <1>3, <1>4, EmptyContexts
<1> QED BY <1>1, <1>5, HoldStep

\* A begun and an ended try change the frames of a context only.
LEMMA FramesOnly ==
  ASSUME TypeOK, NEW c \in Contexts, NEW f, ctx' = [ctx EXCEPT ![c].frames = f]
  PROVE  \A d \in Contexts : ctx'[d].exceptions = ctx[d].exceptions
<1>1. \A d \in Contexts : ctx'[d] = IF d = c THEN [ctx[d] EXCEPT !.frames = f] ELSE ctx[d]
  BY Types
<1>2. \A x \in Context : [x EXCEPT !.frames = f].exceptions = x.exceptions
  BY DEF Context
<1>3. \A d \in Contexts : ctx[d] \in Context
  BY Types
<1> QED BY <1>1, <1>2, <1>3

LEMMA TryHolds ==
  ASSUME TypeOK, LostInv, live' = live, NEW c \in Contexts, NEW f,
         ctx' = [ctx EXCEPT ![c].frames = f]
  PROVE  LostInv'
BY FramesOnly, HoldStep

LEMMA ThrowHolds ==
  ASSUME StoreAssumption, IInv, LostInv, NEW t \in Threads, Throw(t)
  PROVE  LostInv'
<1> TypeOK
  BY DEF IInv
<1> PICK c : c = Top(t).ctx
  OBVIOUS
<1>1. InBlock(t) /\ ctx[c].exceptions = << >>
  BY DEF Throw, Usable, Here
<1>2. c \in Contexts
  BY <1>1, TopFacts
<1>3. PICK e \in Exc \ live, k \in 0 .. Len(ctx[c].frames) :
           /\ ctx' = [ctx EXCEPT ![c] = [lists |-> TRUE, frames |-> SubSeq(ctx[c].frames, 1, k - 1),
                                         exceptions |-> IF k = 0 THEN <<e>> ELSE << >>]]
           /\ live' = IF k = 0 THEN live \cup {e} ELSE live
  BY Zenon DEF Throw, Here
<1>4. /\ ctx'[c].exceptions = IF k = 0 THEN <<e>> ELSE << >>
      /\ \A d \in Contexts : d # c => ctx'[d] = ctx[d]
  BY <1>2, <1>3, Types
<1>5. CASE k # 0
  <2>1. \A d \in Contexts : ctx'[d].exceptions = ctx[d].exceptions
    BY <1>1, <1>4, <1>5
  <2> QED BY <1>3, <1>5, <2>1, HoldStep
<1>6. CASE k = 0
  <2>1. Ex(c) = {} /\ Ex(c)' = {e} /\ \A d \in Contexts : d # c => Ex(d)' = Ex(d)
    BY <1>1, <1>4, <1>6, ExOf DEF Ex
  <2>2. \A d \in Contexts : e \notin Ex(d)
    BY <1>3, HeldFacts DEF LostInv, AllHeld
  <2>3. Disjoint'
    BY <2>1, <2>2 DEF LostInv, Disjoint
  <2>4. \A x : x \in Held(Contexts)' <=> x \in Held(Contexts) \/ x = e
    BY <1>2, <2>1, HeldFacts
  <2>5. Held(Contexts)' = Held(Contexts) \cup {e}
    BY <2>4
  <2> QED BY <1>3, <1>6, <2>3, <2>5 DEF LostInv, AllHeld
<1> QED BY <1>5, <1>6

LEMMA WithThreadLocalHolds ==
  ASSUME StoreAssumption, IInv, LostInv, NEW t \in Threads, NEW id \in Ids, NEW s \in ThreadLocal,
         WithThreadLocal(t, id, s)
  PROVE  LostInv'
<1> TypeOK /\ Listed
  BY DEF IInv
<1> PICK c : c = <<s, t>>
  OBVIOUS
<1>1. c \in Contexts
  BY Types DEF Contexts, Owner
<1>2. IF t \in tls[s] THEN Destroy({c}) ELSE Create({c})
  BY DEF WithThreadLocal
<1>3. ctx[c].lists => t \in tls[s]
  BY <1>1, Types DEF Listed
<1>4. CASE t \in tls[s]
  BY <1>1, <1>2, <1>4, DestroyHolds
<1>5. CASE t \notin tls[s]
  BY <1>2, <1>3, <1>5, CreateHolds
<1> QED BY <1>4, <1>5

LEMMA WithLocalHolds ==
  ASSUME StoreAssumption, IInv, LostInv, NEW t \in Threads, NEW id \in Ids, WithLocal(t, id)
  PROVE  LostInv'
<1> TypeOK /\ Owned /\ Listed
  BY DEF IInv
<1> PICK c : c = <<"local", id>>
  OBVIOUS
<1>1. c \in Contexts /\ c[1] = "local" /\ c[2] = id
  BY DEF WithLocal, Contexts, Owner
<1>2. Create({c}) /\ id \notin Open
  BY DEF WithLocal, MayOpen
<1>3. ASSUME NEW u \in Threads, c \in UsedBy(u) PROVE FALSE
  <2>1. PICK i \in DOMAIN blocks[u] : blocks[u][i].ctx = c
    BY <1>3, UsedByIff
  <2>2. PICK j \in DOMAIN blocks[u] : blocks[u][j].id = id
    BY <1>1, <2>1 DEF Owned, Opens
  <2> QED BY <1>2, <2>2, UsedByIff
<1>4. ~ctx[c].lists
  BY <1>1, <1>3 DEF Listed
<1> QED BY <1>2, <1>4, CreateHolds

LEMMA ShutdownPosixHolds ==
  ASSUME StoreAssumption, IInv, LostInv, "abandon" \notin Usage, ShutdownPosix
  PROVE  LostInv'
<1> TypeOK /\ Listed
  BY DEF IInv
<1>1. /\ \A t \in tls["posix"] : ctx[<<"posix", t>>].exceptions = << >>
      /\ ctx' = [c \in Contexts |-> IF c[1] = "posix" THEN Zeroed ELSE ctx[c]]
      /\ live' = live
  BY DEF ShutdownPosix
<1>2. ASSUME NEW c \in Contexts, c[1] = "posix" PROVE ctx[c].exceptions = << >>
  <2>1. c = <<"posix", c[2]>>
    BY <1>2, ContextFacts
  <2>2. CASE ctx[c].lists
    BY <1>1, <1>2, <2>1, <2>2 DEF Listed
  <2>3. CASE ~ctx[c].lists
    BY <2>3, UnlistedEmpty
  <2> QED BY <2>2, <2>3
<1>3. \A c \in Contexts : ctx'[c].exceptions = ctx[c].exceptions
  BY <1>1, <1>2, EmptyContexts
<1> QED BY <1>1, <1>3, HoldStep

LEMMA NextKeepsLostInv ==
  ASSUME StoreAssumption, "abandon" \notin Usage
  PROVE  IInv /\ LostInv /\ [Next]_vars => LostInv'
<1> SUFFICES ASSUME IInv, LostInv, [Next]_vars PROVE LostInv'
  OBVIOUS
<1> TypeOK /\ Listed
  BY DEF IInv
<1>1. CASE UNCHANGED vars
  <2>1. ctx' = ctx /\ live' = live
    BY <1>1 DEF vars
  <2> QED BY <2>1, HoldStep
<1>2. ASSUME NEW t \in Threads, NEW id \in Ids, WithLocal(t, id) PROVE LostInv'
  BY <1>2, WithLocalHolds
<1>3. ASSUME NEW t \in Threads, NEW id \in Ids, WithGlobal(t, id) PROVE LostInv'
  <2> PICK c : c = <<"global", Program>>
    OBVIOUS
  <2>1. IF ctx[c].lists THEN ctx' = ctx /\ live' = live ELSE Create({c})
    BY <1>3 DEF WithGlobal
  <2>2. CASE ctx[c].lists
    BY <2>1, <2>2, HoldStep
  <2>3. CASE ~ctx[c].lists
    BY <2>1, <2>3, CreateHolds
  <2> QED BY <2>2, <2>3
<1>4. ASSUME NEW t \in Threads, NEW id \in Ids, WithOpenMP(t, id) PROVE LostInv'
  <2>1. ctx' = ctx /\ live' = live
    BY <1>4 DEF WithOpenMP
  <2> QED BY <2>1, HoldStep
<1>5. ASSUME NEW t \in Threads, NEW id \in Ids, BeginTry(t, id) PROVE LostInv'
  <2> PICK c, f : c = Top(t).ctx /\ f = Append(ctx[c].frames, id)
    OBVIOUS
  <2>1. InBlock(t) /\ ctx' = [ctx EXCEPT ![c].frames = f] /\ live' = live
    BY <1>5 DEF BeginTry, Usable
  <2>2. c \in Contexts
    BY <2>1, TopFacts
  <2> QED BY <2>1, <2>2, TryHolds
<1>6. ASSUME NEW t \in Threads, NEW id \in Ids, NEW s \in ThreadLocal, WithThreadLocal(t, id, s)
      PROVE  LostInv'
  BY <1>6, WithThreadLocalHolds
<1>7. ASSUME NEW t \in Threads, EndWith(t) PROVE LostInv'
  BY <1>7, EndWithHolds
<1>8. ASSUME NEW t \in Threads, EndTry(t) PROVE LostInv'
  <2> PICK c, f : /\ c = Top(t).ctx
                  /\ f = IF ctx[c].frames = << >> THEN ctx[c].frames ELSE Front(ctx[c].frames)
    OBVIOUS
  <2>1. InBlock(t) /\ ctx' = [ctx EXCEPT ![c].frames = f] /\ live' = live
    BY <1>8 DEF EndTry
  <2>2. c \in Contexts
    BY <2>1, TopFacts
  <2> QED BY <2>1, <2>2, TryHolds
<1>9. ASSUME NEW t \in Threads, Throw(t) PROVE LostInv'
  BY <1>9, ThrowHolds
<1>10. ASSUME NEW t \in Threads, ThreadExit(t) PROVE LostInv'
  <2> PICK C : C = {<<s, t>> : s \in {k \in ThreadLocal : t \in tls[k]}}
    OBVIOUS
  <2>1. C \in SUBSET Contexts
    BY Types DEF Contexts, Owner
  <2> QED BY <1>10, <2>1, DestroyHolds DEF ThreadExit
<1>11. ASSUME NEW T \in SUBSET Threads, InitializeOpenMP(T) PROVE LostInv'
  <2> PICK C : C = OpenMPContexts(T)
    OBVIOUS
  <2>1. Create(C) /\ \A c \in C : ~ctx[c].lists
    BY <1>11 DEF InitializeOpenMP, OpenMPContexts
  <2> QED BY <2>1, CreateHolds
<1>12. ASSUME NEW T \in SUBSET Threads, ShutdownOpenMP(T) PROVE LostInv'
  <2> PICK C : C = OpenMPContexts(T)
    OBVIOUS
  <2>1. Destroy(C) /\ "openmp" \in Stores
    BY <1>12 DEF ShutdownOpenMP
  <2>2. C \in SUBSET Contexts
    BY <2>1 DEF OpenMPContexts, Contexts, Owner
  <2> QED BY <2>1, <2>2, DestroyHolds
<1>13. CASE ShutdownGlobal
  <2> PICK C : C = {<<"global", Program>>}
    OBVIOUS
  <2>1. Destroy(C) /\ "global" \in Stores
    BY <1>13 DEF ShutdownGlobal
  <2>2. C \in SUBSET Contexts
    BY <2>1 DEF Contexts, Owner
  <2> QED BY <2>1, <2>2, DestroyHolds
<1>14. CASE ShutdownPosix
  BY <1>14, ShutdownPosixHolds
<1>15. ASSUME NEW s \in ThreadLocal, InitializeKey(s) PROVE LostInv'
  <2>1. ctx' = ctx /\ live' = live
    BY <1>15 DEF InitializeKey
  <2> QED BY <2>1, HoldStep
<1> QED BY <1>1, <1>2, <1>3, <1>4, <1>5, <1>6, <1>7, <1>8, <1>9, <1>10, <1>11, <1>12, <1>13,
           <1>14, <1>15 DEF Next

-----------------------------------------------------------------------------
(* Where the exceptions are that nothing caught *)

\* Only a thread-local store with a key has contexts of threads.
Keyed == \A s \in ThreadLocal : tls[s] # {} => keys[s] = "created"

\* Every block is in, or is, a with_exceptions of its context: the end of a try does not
\* leave the context.
Based ==
  \A t \in Threads : \A i \in DOMAIN blocks[t] :
    \E j \in DOMAIN blocks[t] :
      j <= i /\ blocks[t][j].kind = "with" /\ blocks[t][j].ctx = blocks[t][i].ctx

\* Main's thread-local contexts: Main ends with the program, without the destructors.
OfMain(c) == c[1] \in ThreadLocal /\ c[2] = Main

\* Main is inside the with_exceptions of a context of its own that has exceptions.
MainUses == \A c \in Contexts : OfMain(c) /\ ctx[c].exceptions # << >> => c \in UsedBy(Main)

PlaceInv == Keyed /\ Based /\ MainUses

\* Exceptions are put where they are thrown, and Main does not leave them.
Stay ==
  /\ \A c \in Contexts : \/ ctx'[c].exceptions \in {<< >>, ctx[c].exceptions}
                         \/ \E t \in Threads : c \in UsedBy(t)
  /\ \A c \in UsedBy(Main) : OfMain(c) => c \in UsedBy(Main)' \/ ctx'[c].exceptions = << >>

LEMMA StayStep ==
  ASSUME StoreAssumption, IInv, MainUses, Stay
  PROVE  MainUses'
<1> TypeOK /\ Owned
  BY DEF IInv
<1> SUFFICES ASSUME NEW c \in Contexts, OfMain(c), ctx'[c].exceptions # << >>
             PROVE  c \in UsedBy(Main)'
  BY DEF MainUses, OfMain
<1>1. c \in UsedBy(Main)
  <2>1. CASE ctx[c].exceptions # << >>
    BY <2>1 DEF MainUses
  <2>2. CASE ctx[c].exceptions = << >>
    <3>1. PICK t \in Threads : c \in UsedBy(t)
      BY <2>2 DEF Stay
    <3>2. c[1] \in {"posix", "sdl"}
      BY Types DEF OfMain
    <3> QED BY <3>1, <3>2, UserFacts DEF OfMain
  <2> QED BY <2>1, <2>2
<1> QED BY <1>1 DEF Stay

\* A with_exceptions begins.
LEMMA WithStays ==
  ASSUME StoreAssumption, TypeOK, Based, NEW t \in Threads, NEW id \in Ids, NEW c \in Contexts,
         Push(t, "with", id, c),
         \A d \in Contexts : ctx'[d].exceptions \in {<< >>, ctx[d].exceptions}
  PROVE  Stay /\ Based'
<1>1. Stay
  <2>1. \A d \in UsedBy(Main) : d \in UsedBy(Main)'
    BY PushUsers
  <2> QED BY <2>1 DEF Stay
<1>2. ASSUME NEW u \in Threads, NEW i \in DOMAIN blocks'[u]
      PROVE  \E j \in DOMAIN blocks'[u] :
               j <= i /\ blocks'[u][j].kind = "with" /\ blocks'[u][j].ctx = blocks'[u][i].ctx
  <2> DEFINE n == Depth(t) + 1
             b == [kind |-> "with", id |-> id, ctx |-> c]
  <2>1. /\ n \in Nat /\ DOMAIN blocks'[t] = DOMAIN blocks[t] \cup {n}
        /\ blocks'[t][n] = b
        /\ \A k \in DOMAIN blocks[t] : blocks'[t][k] = blocks[t][k]
        /\ \A v \in Threads : v # t => blocks'[v] = blocks[v]
    BY PushFacts
  <2> HIDE DEF n
  <2>2. CASE u = t /\ i = n
    <3>1. i \in DOMAIN blocks'[t] /\ blocks'[t][i].kind = "with" /\ i <= i
      BY <2>1, <2>2
    <3> QED BY <2>2, <3>1
  <2>3. CASE u # t \/ i # n
    <3>1. i \in DOMAIN blocks[u]
      BY <2>1, <2>3
    <3>2. PICK j \in DOMAIN blocks[u] :
             j <= i /\ blocks[u][j].kind = "with" /\ blocks[u][j].ctx = blocks[u][i].ctx
      BY <3>1 DEF Based
    <3>3. j \in DOMAIN blocks'[u] /\ blocks'[u][j] = blocks[u][j] /\ blocks'[u][i] = blocks[u][i]
      BY <2>1, <3>1
    <3> QED BY <3>2, <3>3
  <2> QED BY <2>2, <2>3
<1> QED BY <1>1, <1>2 DEF Based

\* No block begins or ends.
LEMMA IdleStays ==
  ASSUME StoreAssumption, Based, blocks' = blocks,
         \A d \in Contexts : ctx'[d].exceptions \in {<< >>, ctx[d].exceptions}
  PROVE  Stay /\ Based'
<1>1. \A t \in Threads : UsedBy(t)' = UsedBy(t)
  BY DEF UsedBy
<1>2. Based'
  BY DEF Based
<1>3. Main \in Threads
  BY DEF StoreAssumption
<1> QED BY <1>1, <1>2, <1>3 DEF Stay

\* Blocks that end leave the others based: a base lies below what it is one of.
LEMMA CutBased ==
  ASSUME TypeOK, Based, NEW t \in Threads, NEW n \in 0 .. Depth(t), Cut(t, n)
  PROVE  Based'
<1> SUFFICES ASSUME NEW u \in Threads, NEW i \in DOMAIN blocks'[u]
             PROVE  \E j \in DOMAIN blocks'[u] :
                      j <= i /\ blocks'[u][j].kind = "with" /\ blocks'[u][j].ctx = blocks'[u][i].ctx
  BY DEF Based
<1>1. /\ n \in Nat /\ DOMAIN blocks'[t] = 1 .. n /\ 1 .. n \subseteq DOMAIN blocks[t]
      /\ \A k \in DOMAIN blocks'[t] : blocks'[t][k] = blocks[t][k]
      /\ \A v \in Threads : v # t => blocks'[v] = blocks[v]
  BY CutFacts
<1>2. i \in DOMAIN blocks[u] /\ blocks'[u][i] = blocks[u][i]
  BY <1>1
<1>3. PICK j \in DOMAIN blocks[u] :
         j <= i /\ blocks[u][j].kind = "with" /\ blocks[u][j].ctx = blocks[u][i].ctx
  BY <1>2 DEF Based
<1>4. j \in DOMAIN blocks'[u] /\ blocks'[u][j] = blocks[u][j]
  <2>1. CASE u # t
    BY <1>1, <2>1
  <2>2. CASE u = t
    <3>1. i \in Nat /\ i <= n /\ j \in Nat /\ 1 <= j
      BY <1>1, <2>2, BlockFacts
    <3>2. j \in 1 .. n
      BY <1>1, <1>3, <3>1
    <3> QED BY <1>1, <2>2, <3>2
  <2> QED BY <2>1, <2>2
<1> QED BY <1>2, <1>3, <1>4

\* A try ends: the with_exceptions of its context is still open.
LEMMA UnwindStays ==
  ASSUME TypeOK, Owned, Nested, Based, NEW t \in Threads, InBlock(t), NEW c, c = Top(t).ctx,
         NEW i \in Tries(t, c), NEW m, m = i - 1, Cut(t, m)
  PROVE  Based' /\ \A u \in Threads : UsedBy(u)' = UsedBy(u)
<1>1. m \in 0 .. Depth(t) /\ i \in Nat /\ \A d \in UsedBy(t) : d # c => d \in UsedBy(t)'
  BY UnwindFacts
<1>2. Based'
  BY <1>1, CutBased
<1>3. c \in UsedBy(t)'
  <2>1. i \in DOMAIN blocks[t] /\ blocks[t][i].kind = "try" /\ blocks[t][i].ctx = c
    BY DEF Tries
  <2>2. PICK j \in DOMAIN blocks[t] : j <= i /\ blocks[t][j].kind = "with" /\ blocks[t][j].ctx = c
    BY <2>1 DEF Based
  <2>3. j \in Nat /\ 1 <= j /\ j # i
    BY <2>1, <2>2, BlockFacts
  <2>4. j \in 1 .. m
    BY <1>1, <2>2, <2>3
  <2>5. j \in DOMAIN blocks'[t] /\ blocks'[t][j] = blocks[t][j]
    BY <1>1, <2>4, CutFacts
  <2> QED BY <2>2, <2>5, UsedByIff
<1>4. UsedBy(t)' = UsedBy(t) /\ \A u \in Threads : u # t => UsedBy(u)' = UsedBy(u)
  BY <1>1, <1>3, CutUsers
<1> QED BY <1>2, <1>4

LEMMA BeginTryStays ==
  ASSUME StoreAssumption, IInv, Based, NEW t \in Threads, NEW id \in Ids, BeginTry(t, id)
  PROVE  Stay /\ Based'
<1> TypeOK
  BY DEF IInv
<1> PICK c, f : c = Top(t).ctx /\ f = Append(ctx[c].frames, id)
  OBVIOUS
<1>1. InBlock(t) /\ ctx' = [ctx EXCEPT ![c].frames = f] /\ Push(t, "try", id, c)
  BY DEF BeginTry, Usable
<1>2. c \in Contexts /\ c \in UsedBy(t)
  BY <1>1, TopFacts
<1>3. \A d \in Contexts : ctx'[d].exceptions = ctx[d].exceptions
  BY <1>1, <1>2, FramesOnly
<1>4. \A d \in UsedBy(Main) : d \in UsedBy(Main)'
  BY <1>1, <1>2, PushUsers
<1>5. ASSUME NEW u \in Threads, NEW i \in DOMAIN blocks'[u]
      PROVE  \E j \in DOMAIN blocks'[u] :
               j <= i /\ blocks'[u][j].kind = "with" /\ blocks'[u][j].ctx = blocks'[u][i].ctx
  <2> DEFINE n == Depth(t) + 1
             b == [kind |-> "try", id |-> id, ctx |-> c]
  <2>1. /\ n \in Nat /\ DOMAIN blocks'[t] = DOMAIN blocks[t] \cup {n}
        /\ blocks'[t][n] = b
        /\ \A k \in DOMAIN blocks[t] : k < n /\ blocks'[t][k] = blocks[t][k]
        /\ \A v \in Threads : v # t => blocks'[v] = blocks[v]
    BY <1>1, <1>2, PushFacts
  <2>2. \A v \in Threads : \A k \in DOMAIN blocks[v] : k \in Nat
    BY BlockFacts
  <2> HIDE DEF n
  <2>3. PICK k \in DOMAIN blocks[u] : k <= i /\ blocks[u][k].ctx = blocks'[u][i].ctx
    <3>1. CASE u = t /\ i = n
      <4>1. PICK k \in DOMAIN blocks[t] : blocks[t][k].ctx = c
        BY <1>2, UsedByIff
      <4>2. k <= n
        BY <2>1, <2>2, <4>1
      <4> QED BY <2>1, <3>1, <4>1, <4>2
    <3>2. CASE u # t \/ i # n
      <4>1. i \in DOMAIN blocks[u] /\ blocks'[u][i] = blocks[u][i] /\ i <= i
        BY <2>1, <2>2, <3>2
      <4> QED BY <4>1
    <3> QED BY <3>1, <3>2
  <2>4. PICK j \in DOMAIN blocks[u] :
           j <= k /\ blocks[u][j].kind = "with" /\ blocks[u][j].ctx = blocks[u][k].ctx
    BY <2>3 DEF Based
  <2>5. j \in DOMAIN blocks'[u] /\ blocks'[u][j] = blocks[u][j]
    BY <2>1
  <2>6. i \in Nat
    BY <2>1, <2>2
  <2>7. j <= i
    BY <2>2, <2>3, <2>4, <2>6
  <2> QED BY <2>3, <2>4, <2>5, <2>7
<1> QED BY <1>3, <1>4, <1>5 DEF Stay, Based

LEMMA EndWithStays ==
  ASSUME StoreAssumption, IInv, Based, "abandon" \notin Usage, NEW t \in Threads, EndWith(t)
  PROVE  Stay /\ Based'
<1> TypeOK /\ Owned
  BY DEF IInv
<1> PICK c, m : c = Top(t).ctx /\ m = Depth(t) - 1
  OBVIOUS
<1>1. /\ InBlock(t) /\ (ctx[c].exceptions = << >> \/ MayLeave(c))
      /\ blocks' = [blocks EXCEPT ![t] = Front(@)]
      /\ ctx' = IF c[1] = "local" THEN [ctx EXCEPT ![c] = Zeroed] ELSE ctx
  BY DEF EndWith, Here
<1>2. c \in Contexts /\ c = blocks[t][Depth(t)].ctx /\ Depth(t) \in Nat \ {0}
  BY <1>1, TopFacts
<1>3. m \in 0 .. Depth(t) /\ Cut(t, m)
  BY <1>1, FrontIsCut
<1>4. Based'
  BY <1>3, CutBased
<1>5. \A d \in Contexts : ctx'[d].exceptions \in {<< >>, ctx[d].exceptions}
  <2>1. \A d \in Contexts : ctx'[d] = IF d = c /\ c[1] = "local" THEN Zeroed ELSE ctx[d]
    BY <1>1, <1>2, Types
  <2> QED BY <2>1, EmptyContexts
<1>6. OfMain(c) => ctx[c].exceptions = << >>
  BY <1>1 DEF MayLeave, Abandons, OfMain
<1>7. ASSUME NEW d \in UsedBy(Main), d # c PROVE d \in UsedBy(Main)'
  <2>1. CASE t # Main
    BY <1>3, <2>1, StoreAssumption, CutUsers DEF StoreAssumption
  <2>2. CASE t = Main
    <3>1. PICK i \in DOMAIN blocks[t] : blocks[t][i].ctx = d
      BY <2>2, UsedByIff
    <3>2. i \in 1 .. m
      <4>1. i \in 1 .. Depth(t) /\ i # Depth(t)
        BY <1>2, <1>7, <3>1, BlockFacts
      <4> QED BY <1>2, <4>1
    <3>3. i \in DOMAIN blocks'[t] /\ blocks'[t][i] = blocks[t][i]
      BY <1>3, <3>2, CutFacts
    <3> QED BY <2>2, <3>1, <3>3, UsedByIff
  <2> QED BY <2>1, <2>2
<1>8. ASSUME NEW d \in UsedBy(Main), OfMain(d)
      PROVE  d \in UsedBy(Main)' \/ ctx'[d].exceptions = << >>
  <2>1. d \in Contexts
    BY BlockFacts DEF StoreAssumption
  <2> QED BY <1>5, <1>6, <1>7, <1>8, <2>1
<1> QED BY <1>4, <1>5, <1>8 DEF Stay

LEMMA EndTryStays ==
  ASSUME StoreAssumption, IInv, Based, NEW t \in Threads, EndTry(t)
  PROVE  Stay /\ Based'
<1> TypeOK /\ Owned /\ Nested
  BY DEF IInv
<1> PICK c, i, m, f : /\ c = Top(t).ctx /\ i = Depth(t) /\ m = i - 1
                      /\ f = IF ctx[c].frames = << >> THEN ctx[c].frames ELSE Front(ctx[c].frames)
  OBVIOUS
<1>1. /\ InBlock(t) /\ Top(t).kind = "try" /\ ctx' = [ctx EXCEPT ![c].frames = f]
      /\ blocks' = [blocks EXCEPT ![t] = Front(@)]
  BY DEF EndTry
<1>2. c \in Contexts /\ i \in Tries(t, c)
  BY <1>1, TopFacts DEF Tries
<1>3. Cut(t, m)
  BY <1>1, FrontIsCut
<1>4. \A d \in Contexts : ctx'[d].exceptions = ctx[d].exceptions
  BY <1>1, <1>2, FramesOnly
<1>5. Based' /\ \A u \in Threads : UsedBy(u)' = UsedBy(u)
  BY <1>1, <1>2, <1>3, UnwindStays
<1> QED BY <1>4, <1>5 DEF Stay, StoreAssumption

LEMMA ThrowStays ==
  ASSUME StoreAssumption, IInv, Based, NEW t \in Threads, Throw(t)
  PROVE  Stay /\ Based'
<1> TypeOK /\ Distinct /\ Owned /\ Nested /\ FramesMatch
  BY DEF IInv
<1> PICK c : c = Top(t).ctx
  OBVIOUS
<1> PICK f : f = ctx[c].frames
  OBVIOUS
<1>1. InBlock(t) /\ ctx[c].lists
  BY DEF Throw, Usable, Here
<1>2. PICK k \in 0 .. Len(f) :
           /\ \E x : ctx' = [ctx EXCEPT ![c] = x]
           /\ blocks' = IF f = << >> THEN blocks
                        ELSE [blocks EXCEPT ![t] = Before(t, f[IF k = 0 THEN 1 ELSE k])]
  BY DEF Throw, Here
<1>3. c \in Contexts /\ c \in UsedBy(t) /\ f \in Seq(Ids)
  BY <1>1, TopFacts DEF Here, Context
<1>4. \A d \in Contexts : d # c => ctx'[d] = ctx[d]
  BY <1>2, <1>3, Types
<1>5. Based' /\ \A u \in Threads : UsedBy(u)' = UsedBy(u)
  <2>1. CASE f = << >>
    <3>1. blocks' = blocks
      BY <1>2, <2>1
    <3> QED BY <3>1 DEF UsedBy, Based
  <2>2. CASE f # << >>
    <3> PICK l : l = IF k = 0 THEN 1 ELSE k
      OBVIOUS
    <3>1. l \in DOMAIN f /\ l \in Nat
      <4>1. Len(f) \in Nat \ {0} /\ DOMAIN f = 1 .. Len(f)
        BY <1>3, <2>2, EmptySeq
      <4> QED BY <4>1
    <3>2. InOrder(f, Tries(t, c), Names(t))
      BY <1>1, <1>3 DEF FramesMatch, Framed, Names
    <3>3. Tries(t, c) \in SUBSET Nat /\ Tries(t, c) \subseteq DOMAIN blocks[t]
      BY TriesFacts
    <3>4. PICK i \in Tries(t, c) : NamedAt(f, Tries(t, c), Names(t), l, i)
      BY <1>3, <3>1, <3>2, <3>3, InOrderBelow
    <3>5. i \in DOMAIN blocks[t] /\ blocks[t][i].id = f[l]
      BY <3>3, <3>4 DEF Names, NamedAt
    <3>6. (CHOOSE j \in DOMAIN blocks[t] : blocks[t][j].id = f[l]) = i
      BY <3>5 DEF Distinct
    <3>7. PICK m : m = i - 1
      OBVIOUS
    <3>8. Cut(t, m)
      BY <1>2, <2>2, <3>6, <3>7, Zenon DEF Cut, Before
    <3> QED BY <1>1, <3>7, <3>8, UnwindStays
  <2> QED BY <2>1, <2>2
<1> QED BY <1>3, <1>4, <1>5 DEF Stay, StoreAssumption

\* Create and Destroy leave a context without exceptions, or as it is.
LEMMA Emptied ==
  ASSUME TypeOK, NEW C, Create(C) \/ Destroy(C)
  PROVE  \A d \in Contexts : ctx'[d].exceptions \in {<< >>, ctx[d].exceptions}
<1>1. \A d \in Contexts : ctx'[d] \in {Created, Zeroed, ctx[d]}
  BY CreateFacts, DestroyFacts
<1> QED BY <1>1, EmptyContexts

LEMMA NextStays ==
  ASSUME StoreAssumption, "abandon" \notin Usage, IInv, Based, [Next]_vars
  PROVE  Stay /\ Based'
<1> TypeOK
  BY DEF IInv
<1>1. CASE UNCHANGED vars
  <2>1. ctx' = ctx /\ blocks' = blocks
    BY <1>1 DEF vars
  <2> QED BY <2>1, IdleStays
<1>2. ASSUME NEW t \in Threads, NEW id \in Ids, WithLocal(t, id) PROVE Stay /\ Based'
  <2> PICK c, C : c = <<"local", id>> /\ C = {c}
    OBVIOUS
  <2>1. Create(C) /\ Push(t, "with", id, c) /\ c \in Contexts
    BY <1>2 DEF WithLocal, Contexts, Owner
  <2> QED BY <2>1, Emptied, WithStays
<1>3. ASSUME NEW t \in Threads, NEW id \in Ids, WithGlobal(t, id) PROVE Stay /\ Based'
  <2> PICK c, C : c = <<"global", Program>> /\ C = {c}
    OBVIOUS
  <2>1. (ctx' = ctx \/ Create(C)) /\ Push(t, "with", id, c) /\ c \in Contexts
    BY <1>3 DEF WithGlobal, Contexts, Owner
  <2>2. \A d \in Contexts : ctx'[d].exceptions \in {<< >>, ctx[d].exceptions}
    BY <2>1, Emptied
  <2> QED BY <2>1, <2>2, WithStays
<1>4. ASSUME NEW t \in Threads, NEW id \in Ids, NEW s \in ThreadLocal, WithThreadLocal(t, id, s)
      PROVE  Stay /\ Based'
  <2> PICK c, C : c = <<s, t>> /\ C = {c}
    OBVIOUS
  <2>1. Create(C) \/ Destroy(C)
    BY <1>4 DEF WithThreadLocal
  <2>2. Push(t, "with", id, c)
    BY <1>4 DEF WithThreadLocal
  <2>3. c \in Contexts
    BY Types DEF Contexts, Owner
  <2> QED BY <2>1, <2>2, <2>3, Emptied, WithStays
<1>5. ASSUME NEW t \in Threads, NEW id \in Ids, WithOpenMP(t, id) PROVE Stay /\ Based'
  <2> PICK c : c = <<"openmp", t>>
    OBVIOUS
  <2>1. ctx' = ctx /\ Push(t, "with", id, c) /\ c \in Contexts
    BY <1>5 DEF WithOpenMP, Contexts, Owner
  <2> QED BY <2>1, WithStays
<1>6. ASSUME NEW t \in Threads, NEW id \in Ids, BeginTry(t, id) PROVE Stay /\ Based'
  BY <1>6, BeginTryStays
<1>7. ASSUME NEW t \in Threads, EndWith(t) \/ EndTry(t) \/ Throw(t) PROVE Stay /\ Based'
  BY <1>7, EndWithStays, EndTryStays, ThrowStays
<1>8. ASSUME NEW t \in Threads, ThreadExit(t) PROVE Stay /\ Based'
  <2> PICK C : C = {<<s, t>> : s \in {k \in ThreadLocal : t \in tls[k]}}
    OBVIOUS
  <2>1. Destroy(C) /\ blocks' = blocks
    BY <1>8 DEF ThreadExit
  <2> QED BY <2>1, Emptied, IdleStays
<1>9. ASSUME NEW T \in SUBSET Threads, InitializeOpenMP(T) \/ ShutdownOpenMP(T)
      PROVE  Stay /\ Based'
  <2> PICK C : C = OpenMPContexts(T)
    OBVIOUS
  <2>1. (Create(C) \/ Destroy(C)) /\ blocks' = blocks
    BY <1>9 DEF InitializeOpenMP, ShutdownOpenMP
  <2> QED BY <2>1, Emptied, IdleStays
<1>10. CASE ShutdownGlobal
  <2> PICK C : C = {<<"global", Program>>}
    OBVIOUS
  <2>1. Destroy(C) /\ blocks' = blocks
    BY <1>10 DEF ShutdownGlobal
  <2> QED BY <2>1, Emptied, IdleStays
<1>11. CASE ShutdownPosix
  <2>1. /\ ctx' = [c \in Contexts |-> IF c[1] = "posix" THEN Zeroed ELSE ctx[c]]
        /\ blocks' = blocks
    BY <1>11 DEF ShutdownPosix
  <2>2. \A d \in Contexts : ctx'[d].exceptions \in {<< >>, ctx[d].exceptions}
    BY <2>1, EmptyContexts
  <2> QED BY <2>1, <2>2, IdleStays
<1>12. ASSUME NEW s \in ThreadLocal, InitializeKey(s) PROVE Stay /\ Based'
  <2>1. ctx' = ctx /\ blocks' = blocks
    BY <1>12 DEF InitializeKey
  <2> QED BY <2>1, IdleStays
<1> QED BY <1>1, <1>2, <1>3, <1>4, <1>5, <1>6, <1>7, <1>8, <1>9, <1>10, <1>11, <1>12 DEF Next

LEMMA NextKeepsKeyed ==
  ASSUME TypeOK, Keyed, [Next]_vars
  PROVE  Keyed'
<1> SUFFICES ASSUME NEW s \in ThreadLocal, tls'[s] # {} PROVE keys'[s] = "created"
  BY DEF Keyed
<1>1. CASE keys' = keys /\ tls' = tls
  BY <1>1 DEF Keyed
<1>2. ASSUME NEW t \in Threads, NEW id \in Ids, NEW k \in ThreadLocal, WithThreadLocal(t, id, k)
      PROVE  keys'[s] = "created"
  <2>1. /\ keys[k] = "created" /\ keys' = keys
        /\ tls' = [tls EXCEPT ![k] = @ \cup {t}]
    BY <1>2 DEF WithThreadLocal
  <2>2. s # k => tls'[s] = tls[s]
    BY <2>1, Types
  <2> QED BY <2>1, <2>2 DEF Keyed
<1>3. ASSUME NEW t \in Threads, ThreadExit(t) PROVE keys'[s] = "created"
  <2>1. keys' = keys /\ tls' = [k \in ThreadLocal |-> tls[k] \ {t}]
    BY <1>3 DEF ThreadExit
  <2> QED BY <2>1 DEF Keyed
<1>4. CASE ShutdownPosix
  <2>1. /\ "posix" \in ThreadLocal
        /\ keys' = [keys EXCEPT !["posix"] = "deleted"]
        /\ tls' = [tls EXCEPT !["posix"] = {}]
    BY <1>4 DEF ShutdownPosix
  <2>2. s # "posix" /\ keys'[s] = keys[s] /\ tls'[s] = tls[s]
    BY <2>1, Types
  <2> QED BY <2>2 DEF Keyed
<1>5. ASSUME NEW k \in ThreadLocal, InitializeKey(k) PROVE keys'[s] = "created"
  <2>1. keys' = [keys EXCEPT ![k] = "created"] /\ tls' = tls
    BY <1>5 DEF InitializeKey
  <2> QED BY <2>1, Types DEF Keyed
<1>6. ASSUME NEW t \in Threads, NEW id \in Ids,
             WithLocal(t, id) \/ WithGlobal(t, id) \/ WithOpenMP(t, id) \/ BeginTry(t, id)
      PROVE  keys' = keys /\ tls' = tls
  BY <1>6 DEF WithLocal, WithGlobal, WithOpenMP, BeginTry
<1>7. ASSUME NEW t \in Threads, EndWith(t) \/ EndTry(t) \/ Throw(t)
      PROVE  keys' = keys /\ tls' = tls
  BY <1>7 DEF EndWith, EndTry, Throw
<1>8. ASSUME NEW T \in SUBSET Threads, InitializeOpenMP(T) \/ ShutdownOpenMP(T)
      PROVE  keys' = keys /\ tls' = tls
  BY <1>8 DEF InitializeOpenMP, ShutdownOpenMP
<1>9. ShutdownGlobal \/ UNCHANGED vars => keys' = keys /\ tls' = tls
  BY DEF ShutdownGlobal, vars
<1> QED BY <1>1, <1>2, <1>3, <1>4, <1>5, <1>6, <1>7, <1>8, <1>9 DEF Next

LEMMA NextKeepsPlaceInv ==
  ASSUME StoreAssumption, "abandon" \notin Usage
  PROVE  IInv /\ PlaceInv /\ [Next]_vars => PlaceInv'
<1> SUFFICES ASSUME IInv, PlaceInv, [Next]_vars PROVE PlaceInv'
  OBVIOUS
<1>1. TypeOK /\ Keyed /\ Based /\ MainUses
  BY DEF IInv, PlaceInv
<1>2. Keyed'
  BY <1>1, NextKeepsKeyed
<1>3. Stay /\ Based'
  BY <1>1, NextStays
<1>4. MainUses'
  BY <1>1, <1>3, StayStep
<1> QED BY <1>2, <1>3, <1>4 DEF PlaceInv

\* What has exceptions has lists, and so an owner or a place in a store.
LEMMA ExceptionsListed ==
  ASSUME Listed, NEW c \in Contexts, ctx[c].exceptions # << >>
  PROVE  /\ ctx[c].lists
         /\ c[1] = "local" => \E t \in Threads : c \in UsedBy(t)
         /\ c[1] \in {"posix", "sdl"} => c[2] \in tls[c[1]]
BY EmptyContexts DEF Listed

LEMMA PlacesLoseNothing ==
  ASSUME StoreAssumption, IInv, LostInv, PlaceInv
  PROVE  NothingLost
<1> TypeOK /\ Owned /\ Listed
  BY DEF IInv
<1>1. ASSUME NEW c \in Contexts, ctx[c].exceptions # << >>
      PROVE  WillDestroy(c) \/ \E t \in Threads : c \in UsedBy(t)
  <2>1. CASE c[1] = "local"
    BY <1>1, <2>1, ExceptionsListed
  <2>2. CASE OfMain(c)
    BY <1>1, <2>2 DEF PlaceInv, MainUses, StoreAssumption
  <2>3. CASE c[1] # "local" /\ ~OfMain(c) /\ c[1] \in ThreadLocal
    <3>1. ~Abandons(c)
      BY <2>3 DEF Abandons, OfMain
    <3>2. c[2] \in tls[c[1]]
      BY <1>1, <2>3, ExceptionsListed, Types
    <3>3. keys[c[1]] = "created"
      BY <2>3, <3>2 DEF PlaceInv, Keyed
    <3> QED BY <2>3, <3>1, <3>2, <3>3 DEF WillDestroy
  <2>4. CASE c[1] # "local" /\ c[1] \notin ThreadLocal
    <3>1. ~Abandons(c) /\ ctx[c].lists
      BY <1>1, <2>4, ExceptionsListed DEF Abandons
    <3> QED BY <2>4, <3>1 DEF WillDestroy
  <2> QED BY <2>1, <2>2, <2>3, <2>4
<1>2. ASSUME Ended PROVE live = {}
  <2>1. ASSUME NEW c \in Contexts, ctx[c].exceptions # << >> PROVE FALSE
    <3>1. c[1] \in ThreadLocal
      BY <1>2, <2>1, ExceptionsListed DEF Ended
    <3>2. c[2] = Main
      BY <1>2, <2>1, <3>1, ExceptionsListed, Types DEF Ended
    <3>3. c \in UsedBy(Main) /\ Main \in Threads
      BY <2>1, <3>1, <3>2 DEF PlaceInv, MainUses, OfMain, StoreAssumption
    <3> QED BY <1>2, <3>3, UserFacts DEF Ended
  <2>2. \A c \in Contexts : Ex(c) = {}
    BY <2>1, ExOf DEF Ex
  <2>3. Held(Contexts) = {}
    BY <2>2, HeldFacts
  <2> QED BY <2>3 DEF LostInv, AllHeld
<1> QED BY <1>1, <1>2 DEF NothingLost, LostInv, AllHeld

\* An exception that nothing caught is in the context of an open block or in one that some
\* destroy will still reach, and none is left when the program ends in order. It is lost
\* only by a program that leaves one where nothing destroys it: in a local context, in one
\* of Main's thread-local contexts, or in a posix context at shutdown. No thread that exits
\* and no context that is used again loses or frees a foreign one.
THEOREM NothingEverLost == "abandon" \notin Usage => (Spec => []NothingLost)
<1> SUFFICES ASSUME "abandon" \notin Usage PROVE Spec => []NothingLost
  OBVIOUS
<1>1. ASSUME Init PROVE LostInv /\ PlaceInv
  <2>1. /\ live = {} /\ \A c \in Contexts : ctx[c].exceptions = << >>
        /\ \A s \in ThreadLocal : tls[s] = {}
        /\ \A t \in Threads : DOMAIN blocks[t] = {}
    BY <1>1, EmptyContexts DEF Init
  <2>2. \A c \in Contexts : Ex(c) = {}
    BY <2>1, ExOf DEF Ex
  <2>3. Held(Contexts) = {}
    BY <2>2, HeldFacts
  <2> QED BY <2>1, <2>2, <2>3 DEF LostInv, Disjoint, AllHeld, PlaceInv, Keyed, Based, MainUses
<1>2. IInv /\ LostInv /\ [Next]_vars => LostInv'
  BY StoreAssumption, NextKeepsLostInv
<1>3. IInv /\ PlaceInv /\ [Next]_vars => PlaceInv'
  BY StoreAssumption, NextKeepsPlaceInv
<1>4. IInv /\ LostInv /\ PlaceInv => NothingLost
  BY StoreAssumption, PlacesLoseNothing
<1> QED BY <1>1, <1>2, <1>3, <1>4, Invariant, PTL DEF Spec
=============================================================================
