----------------------------- MODULE RelayProofs -----------------------------
(***************************************************************************)
(* Theorems about Relay, for any number of contexts, exceptions, types and *)
(* blocks: what relays and captures leave in frames and lists, for the     *)
(* programs that README.md:385-427 shows, and those that capture, throw    *)
(* where nothing receives the exception, or relay inside a finally; that   *)
(* there an exception is in one list or is the one that a catch handles;   *)
(* what a step never does to lists and blocks; and, for the programs       *)
(* without any liberty, that Relay implements StructuredExceptions.        *)
(***************************************************************************)
EXTENDS Relay, ExceptionContextProofs, FiniteSetTheorems

\* The liberties under which the theorems hold; each of the others breaks one of them.
Proper == Usage \subseteq {"capture", "uncaught", "relayInFinally"}

-----------------------------------------------------------------------------
(* The inductive invariant *)

\* A block is named by its id.
Distinct == \A i, j \in DOMAIN blocks : blocks[i].id = blocks[j].id => i = j

\* Only the innermost block handles an exception; a finally is innermost too, or a
\* relay has begun in it.
Phases ==
  \A i \in DOMAIN blocks :
    /\ blocks[i].phase # "body" => blocks[i].kind = "try"
    /\ blocks[i].phase # "catch" => blocks[i].var = NoExc
    /\ blocks[i].phase = "catch" => i = Depth /\ jump = NoJump /\ blocks[i].var # NoExc
    /\ blocks[i].phase = "finally" /\ i < Depth => blocks[i + 1].kind = "relay"

\* Block b has a scope of its own.
Scoped(b) == b.kind \in {"with", "relay"}

\* A block that has no scope is in that of the block around it, and once a scope begins
\* no block is in an outer one.
Scopes ==
  /\ \A i \in DOMAIN blocks :
       IF Scoped(blocks[i]) THEN blocks[i].scope = blocks[i].id
       ELSE i > 1 /\ blocks[i].scope = blocks[i - 1].scope
  /\ \A i \in DOMAIN blocks : \E j \in DOMAIN blocks :
       j <= i /\ Scoped(blocks[j]) /\ blocks[j].id = blocks[i].scope
  /\ \A i, j, k \in DOMAIN blocks :
       i < j /\ j <= k /\ Scoped(blocks[j]) => blocks[i].scope # blocks[k].scope

\* The containing scope of a relay, which it will destroy, is the one around it, and
\* neither a capture nor another relay uses that.
Expended ==
  \A j \in DOMAIN blocks :
    blocks[j].kind = "relay" /\ blocks[j].toScope # NoScope =>
      /\ j > 1 /\ blocks[j].toScope = blocks[j - 1].scope
      /\ \A i \in DOMAIN blocks : i < j /\ blocks[i].scope = blocks[j].toScope
                                    => blocks[i].kind \in {"with", "try"}

\* The blocks on one context lie next to each other.  A relay begins a context, and the
\* one that it relays to is that of the block around it or of none.
Nested ==
  /\ \A i, j, k \in DOMAIN blocks :
       i < j /\ j < k /\ blocks[i].ctx = blocks[k].ctx => blocks[j].ctx = blocks[i].ctx
  /\ \A j \in DOMAIN blocks :
       blocks[j].kind = "relay" =>
         /\ blocks[j].to # blocks[j].ctx
         /\ \A i \in DOMAIN blocks : i < j => blocks[i].ctx # blocks[j].ctx
         /\ \/ j > 1 /\ blocks[j].to = blocks[j - 1].ctx
            \/ \A i \in DOMAIN blocks : blocks[i].ctx # blocks[j].to

Shape == Distinct /\ Scopes /\ Expended /\ Nested

Names == [i \in DOMAIN blocks |-> blocks[i].id]

\* The jump points that the frames of context value c go to
Jmps(c) == [k \in DOMAIN c.frames |-> c.frames[k].jmp]

\* In the contexts x the frames are the jump points of the blocks below n, in order.
FramedIn(x, n) == \A c \in Ctxs : InOrder(Jmps(x[c]), Below(JumpPoints(c), n), Names)

\* The jump under way goes to block t, which has lost its frame; there is no frame above.
Flies(t) == /\ jump.to = blocks[t].id /\ jump.why # DONT /\ blocks[t].kind # "with"
            /\ \A i \in DOMAIN blocks : t < i => blocks[i].kind = "with"
            /\ FramedIn(ctx, t)

Framed == IF jump = NoJump THEN FramedIn(ctx, Depth + 1) ELSE \E t \in DOMAIN blocks : Flies(t)

\* A jump out of the first n blocks would pass one whose scope has captured exceptions.
Passes(n) ==
  \E i \in DOMAIN blocks :
    /\ i <= n
    /\ blocks[i].kind = "relay" \/ (blocks[i].kind = "with" /\ i > 1)
    /\ scope[blocks[i].id].captured # << >>
    /\ \A j \in DOMAIN blocks : i < j /\ j <= n => blocks[j].kind # "capture"

\* A frame unwinds only if its block is a finally, and nothing captured is in the way.
Unwinding ==
  \A c \in Ctxs : \A k \in DOMAIN ctx[c].frames : \A i \in DOMAIN blocks :
    ctx[c].frames[k].jmp = blocks[i].id /\ ctx[c].frames[k].reason # DONT
      => blocks[i].phase = "finally" /\ ~Passes(i - 1)

\* What is captured waits in the scope of an open block; that of a relay or a capture has
\* not been destroyed; one that a relay will destroy holds nothing; and a jump passes
\* nothing captured.
Waiting ==
  /\ \A s \in JmpBufs : scope[s].captured # << >> =>
       \E i \in DOMAIN blocks : Scoped(blocks[i]) /\ blocks[i].id = s
  /\ \A i \in DOMAIN blocks : blocks[i].kind \in {"relay", "capture"} => scope[blocks[i].scope].valid
  /\ \A i \in DOMAIN blocks : blocks[i].kind = "relay" =>
       /\ blocks[i].toScope # NoScope => scope[blocks[i].toScope].captured = << >>
       /\ ~Passes(i - 1)
  /\ jump # NoJump => ~Passes(Depth)

IInv == TypeOK /\ ~ub /\ Shape /\ Phases /\ Framed /\ Unwinding /\ Waiting

-----------------------------------------------------------------------------
(* Blocks *)

LEMMA BlockFacts ==
  ASSUME TypeOK
  PROVE  /\ blocks \in Seq(Block) /\ Depth = Len(blocks) /\ Depth \in Nat /\ DOMAIN blocks = 1 .. Depth
         /\ \A i \in DOMAIN blocks :
              /\ i \in Nat /\ 1 <= i /\ i <= Depth
              /\ blocks[i] \in Block
<1>1. blocks \in Seq(Block) /\ Depth = Len(blocks)
  BY DEF TypeOK, Depth
<1>2. Depth \in Nat /\ DOMAIN blocks = 1 .. Depth
  BY <1>1
<1>3. \A i \in DOMAIN blocks : i \in Nat /\ 1 <= i /\ i <= Depth /\ blocks[i] \in Block
  BY <1>1, <1>2
<1> QED BY <1>1, <1>2, <1>3

LEMMA FieldFacts ==
  ASSUME NEW b \in Block
  PROVE  /\ b.kind \in {"with", "relay", "try", "capture"}
         /\ b.phase \in {"body", "finally", "catch"}
         /\ b.id \in JmpBufs /\ b.scope \in JmpBufs /\ b.toScope \in JmpBufs \cup {NoScope}
         /\ b.ctx \in Ctxs /\ b.to \in Ctxs /\ b.var \in Exc \cup {NoExc}
BY DEF Block

LEMMA TopFacts ==
  ASSUME TypeOK, Depth > 0
  PROVE  /\ Depth \in DOMAIN blocks /\ Depth - 1 \in 0 .. Depth
         /\ Top = blocks[Depth] /\ Top \in Block /\ blocks # << >>
<1>1. blocks \in Seq(Block) /\ Depth = Len(blocks) /\ Depth \in Nat
  BY BlockFacts
<1>2. Depth \in DOMAIN blocks /\ Depth - 1 \in 0 .. Depth
  BY <1>1
<1>3. Top = blocks[Depth] /\ blocks[Depth] \in Block
  BY <1>1, <1>2 DEF Top, Last
<1>4. blocks # << >>
  BY <1>1, EmptySeq
<1> QED BY <1>2, <1>3, <1>4

\* The block is the same but for its phase and what it has caught.
Same(b, d) == /\ b.kind = d.kind /\ b.id = d.id /\ b.scope = d.scope
              /\ b.ctx = d.ctx /\ b.to = d.to /\ b.toScope = d.toScope

\* The blocks above position n have ended; the others are as they were, but for the
\* phase of the last one.
CutTo(n) == /\ blocks' \in Seq(Block) /\ Len(blocks') = n
            /\ \A i \in 1 .. n : Same(blocks'[i], blocks[i])
            /\ \A i \in 1 .. n - 1 : blocks'[i] = blocks[i]

LEMMA CutFacts ==
  ASSUME TypeOK, NEW n \in 0 .. Depth, CutTo(n)
  PROVE  /\ n \in Nat /\ Depth' = n /\ DOMAIN blocks' = 1 .. n /\ 1 .. n \subseteq DOMAIN blocks
         /\ \A i \in DOMAIN blocks' : Same(blocks'[i], blocks[i]) /\ i \in Nat /\ 1 <= i /\ i <= n
         /\ \A i \in DOMAIN blocks' : i < n => blocks'[i] = blocks[i]
<1>1. Depth \in Nat /\ DOMAIN blocks = 1 .. Depth
  BY BlockFacts
<1>2. n \in Nat /\ 1 .. n \subseteq DOMAIN blocks
  BY <1>1
<1>3. Depth' = n /\ DOMAIN blocks' = 1 .. n
  BY <1>2 DEF CutTo, Depth
<1>4. \A i \in 1 .. n : i \in Nat /\ 1 <= i /\ i <= n /\ (i < n => i \in 1 .. n - 1)
  BY <1>2
<1> QED BY <1>2, <1>3, <1>4 DEF CutTo

LEMMA PrefixIsCut ==
  ASSUME TypeOK, NEW n \in 0 .. Depth, blocks' = SubSeq(blocks, 1, n)
  PROVE  CutTo(n) /\ \A i \in 1 .. n : blocks'[i] = blocks[i]
<1>1. blocks \in Seq(Block) /\ Depth = Len(blocks) /\ Depth \in Nat
  BY BlockFacts
<1>2. n \in Nat /\ n <= Len(blocks)
  BY <1>1
<1>3. blocks' \in Seq(Block) /\ Len(blocks') = n /\ \A i \in 1 .. n : blocks'[i] = blocks[i]
  BY <1>1, <1>2, PrefixFacts
<1>4. \A i \in 1 .. n - 1 : i \in 1 .. n
  BY <1>2
<1> QED BY <1>3, <1>4 DEF CutTo, Same

LEMMA FrontIsCut ==
  ASSUME TypeOK, Depth > 0, blocks' = Front(blocks)
  PROVE  CutTo(Depth - 1) /\ \A i \in 1 .. Depth - 1 : blocks'[i] = blocks[i]
<1>1. Depth = Len(blocks) /\ Depth - 1 \in 0 .. Depth
  BY BlockFacts, TopFacts
<1>2. blocks' = SubSeq(blocks, 1, Depth - 1)
  BY <1>1 DEF Front
<1> QED BY <1>1, <1>2, PrefixIsCut

LEMMA SameIsCut ==
  ASSUME TypeOK, blocks' = blocks
  PROVE  Depth \in 0 .. Depth /\ CutTo(Depth) /\ \A i \in 1 .. Depth : blocks'[i] = blocks[i]
BY BlockFacts DEF CutTo, Same

\* The innermost block changes its phase.
LEMMA WithTopIsCut ==
  ASSUME TypeOK, Depth > 0, NEW b \in Block, Same(b, Top), blocks' = WithTop(b)
  PROVE  Depth \in 0 .. Depth /\ CutTo(Depth) /\ blocks'[Depth] = b
<1>1. /\ blocks \in Seq(Block) /\ Depth = Len(blocks) /\ blocks # << >>
      /\ Top = blocks[Depth] /\ Depth \in Nat
  BY BlockFacts, TopFacts
<1>2. blocks' = [blocks EXCEPT ![Len(blocks)] = b]
  BY <1>1 DEF WithTop
<1>3. /\ blocks' \in Seq(Block) /\ Len(blocks') = Len(blocks)
      /\ \A i \in 1 .. Len(blocks) - 1 : blocks'[i] = blocks[i]
      /\ blocks' # << >> /\ Last(blocks') = b
  <2> DEFINE r == [blocks EXCEPT ![Len(blocks)] = b]
  <2>1. /\ r \in Seq(Block) /\ Len(r) = Len(blocks)
        /\ \A i \in 1 .. Len(blocks) - 1 : r[i] = blocks[i]
        /\ r # << >> /\ Last(r) = b
    BY <1>1, ReplaceLastFacts, Zenon
  <2> HIDE DEF r
  <2>2. blocks' = r
    BY <1>2 DEF r
  <2> QED BY <2>1, <2>2, Zenon
<1>4. blocks'[Depth] = b
  BY <1>1, <1>3 DEF Last
<1>5. \A i \in 1 .. Depth : i = Depth \/ i \in 1 .. Depth - 1
  BY <1>1
<1>6. \A i \in 1 .. Depth : Same(blocks'[i], blocks[i])
  BY <1>1, <1>3, <1>4, <1>5 DEF Same
<1> QED BY <1>1, <1>3, <1>4, <1>6 DEF CutTo

\* The block at n is entered again, those above it are gone.
LEMMA ReenterIsCut ==
  ASSUME TypeOK, NEW n \in DOMAIN blocks, NEW b \in Block, Same(b, blocks[n]),
         blocks' = Append(SubSeq(blocks, 1, n - 1), b)
  PROVE  n \in 0 .. Depth /\ CutTo(n) /\ blocks'[n] = b
<1>1. blocks \in Seq(Block) /\ Depth = Len(blocks) /\ Depth \in Nat /\ n \in 1 .. Depth
  BY BlockFacts
<1> DEFINE m == n - 1
           front == SubSeq(blocks, 1, m)
<1>2. m \in Nat /\ m <= Len(blocks) /\ m + 1 = n
  BY <1>1
<1>3. front \in Seq(Block) /\ Len(front) = m /\ \A i \in 1 .. m : front[i] = blocks[i]
  BY <1>1, <1>2, PrefixFacts
<1> HIDE DEF front
<1>4. blocks' = Append(front, b)
  BY DEF front
<1>5. /\ blocks' \in Seq(Block) /\ Len(blocks') = n /\ blocks'[n] = b
      /\ \A i \in 1 .. m : blocks'[i] = front[i]
  BY <1>2, <1>3, <1>4
<1>6. \A i \in 1 .. n : i = n \/ i \in 1 .. m
  BY <1>1
<1>7. \A i \in 1 .. n : Same(blocks'[i], blocks[i])
  BY <1>3, <1>5, <1>6 DEF Same
<1> QED BY <1>1, <1>3, <1>5, <1>7 DEF CutTo

-----------------------------------------------------------------------------
(* What every block that begins or ends preserves *)

LEMMA CutKeepsShape ==
  ASSUME TypeOK, Shape, NEW n \in 0 .. Depth, CutTo(n)
  PROVE  Shape'
<1> Distinct /\ Scopes /\ Expended /\ Nested
  BY DEF Shape
<1>1. /\ n \in Nat /\ DOMAIN blocks' = 1 .. n /\ 1 .. n \subseteq DOMAIN blocks
      /\ \A i \in DOMAIN blocks' : Same(blocks'[i], blocks[i]) /\ i \in Nat /\ 1 <= i /\ i <= n
  BY CutFacts
<1>2. \A i \in DOMAIN blocks' :
        /\ i \in DOMAIN blocks
        /\ blocks'[i].kind = blocks[i].kind /\ blocks'[i].id = blocks[i].id
        /\ blocks'[i].scope = blocks[i].scope /\ blocks'[i].ctx = blocks[i].ctx
        /\ blocks'[i].to = blocks[i].to /\ blocks'[i].toScope = blocks[i].toScope
        /\ (Scoped(blocks'[i]) <=> Scoped(blocks[i]))
  BY <1>1 DEF Same, Scoped
<1>3. \A i \in DOMAIN blocks' : i > 1 => i - 1 \in DOMAIN blocks'
  BY <1>1
<1>4. \A i \in DOMAIN blocks', j \in DOMAIN blocks : j <= i => j \in DOMAIN blocks'
  <2>1. Depth \in Nat /\ DOMAIN blocks = 1 .. Depth
    BY BlockFacts
  <2> QED BY <1>1, <2>1
<1>5. Distinct'
  BY <1>2 DEF Distinct
<1>6. Scopes'
  <2>1. ASSUME NEW i \in DOMAIN blocks'
        PROVE  IF Scoped(blocks'[i]) THEN blocks'[i].scope = blocks'[i].id
               ELSE i > 1 /\ blocks'[i].scope = blocks'[i - 1].scope
    BY <1>2, <1>3 DEF Scopes
  <2>2. ASSUME NEW i \in DOMAIN blocks'
        PROVE  \E j \in DOMAIN blocks' :
                 j <= i /\ Scoped(blocks'[j]) /\ blocks'[j].id = blocks'[i].scope
    <3>1. PICK j \in DOMAIN blocks : j <= i /\ Scoped(blocks[j]) /\ blocks[j].id = blocks[i].scope
      BY <1>2 DEF Scopes
    <3> QED BY <1>2, <1>4, <3>1
  <2>3. ASSUME NEW i \in DOMAIN blocks', NEW j \in DOMAIN blocks', NEW k \in DOMAIN blocks',
               i < j, j <= k, Scoped(blocks'[j])
        PROVE  blocks'[i].scope # blocks'[k].scope
    BY <1>2, <2>3 DEF Scopes
  <2> QED BY <2>1, <2>2, <2>3 DEF Scopes
<1>7. Expended'
  <2> SUFFICES ASSUME NEW j \in DOMAIN blocks', blocks'[j].kind = "relay", blocks'[j].toScope # NoScope
               PROVE  /\ j > 1 /\ blocks'[j].toScope = blocks'[j - 1].scope
                      /\ \A i \in DOMAIN blocks' : i < j /\ blocks'[i].scope = blocks'[j].toScope
                                                    => blocks'[i].kind \in {"with", "try"}
    BY DEF Expended
  <2> QED BY <1>2, <1>3 DEF Expended
<1>8. Nested'
  <2>1. ASSUME NEW i \in DOMAIN blocks', NEW j \in DOMAIN blocks', NEW k \in DOMAIN blocks',
               i < j, j < k, blocks'[i].ctx = blocks'[k].ctx
        PROVE  blocks'[j].ctx = blocks'[i].ctx
    BY <1>2, <2>1 DEF Nested
  <2>2. ASSUME NEW j \in DOMAIN blocks', blocks'[j].kind = "relay"
        PROVE  /\ blocks'[j].to # blocks'[j].ctx
               /\ \A i \in DOMAIN blocks' : i < j => blocks'[i].ctx # blocks'[j].ctx
               /\ \/ j > 1 /\ blocks'[j].to = blocks'[j - 1].ctx
                  \/ \A i \in DOMAIN blocks' : blocks'[i].ctx # blocks'[j].to
    BY <1>2, <1>3, <2>2 DEF Nested
  <2> QED BY <2>1, <2>2 DEF Nested
<1> QED BY <1>5, <1>6, <1>7, <1>8 DEF Shape

LEMMA CutKeepsPhases ==
  ASSUME TypeOK, Phases, NEW n \in 0 .. Depth, CutTo(n),
         n > 0 => LET b == blocks'[n]
                  IN  /\ b.phase # "body" => b.kind = "try"
                      /\ b.phase # "catch" => b.var = NoExc
                      /\ b.phase = "catch" => jump' = NoJump /\ b.var # NoExc
  PROVE  Phases'
<1>1. /\ n \in Nat /\ DOMAIN blocks' = 1 .. n /\ 1 .. n \subseteq DOMAIN blocks /\ Depth' = n
      /\ \A i \in DOMAIN blocks' : Same(blocks'[i], blocks[i]) /\ i \in Nat /\ 1 <= i /\ i <= n
      /\ \A i \in DOMAIN blocks' : i < n => blocks'[i] = blocks[i]
  BY CutFacts
<1>2. Depth \in Nat /\ n <= Depth
  BY BlockFacts
<1> SUFFICES ASSUME NEW i \in DOMAIN blocks'
             PROVE  /\ blocks'[i].phase # "body" => blocks'[i].kind = "try"
                    /\ blocks'[i].phase # "catch" => blocks'[i].var = NoExc
                    /\ blocks'[i].phase = "catch" => i = n /\ jump' = NoJump /\ blocks'[i].var # NoExc
                    /\ blocks'[i].phase = "finally" /\ i < n => blocks'[i + 1].kind = "relay"
  BY <1>1 DEF Phases
<1>3. CASE i = n
  BY <1>1, <1>3
<1>4. CASE i < n
  <2>1. i \in DOMAIN blocks /\ i + 1 \in DOMAIN blocks' /\ i < Depth /\ i # Depth
    BY <1>1, <1>2, <1>4
  <2>2. blocks'[i + 1].kind = blocks[i + 1].kind
    BY <1>1, <2>1 DEF Same
  <2> QED BY <1>1, <1>4, <2>1, <2>2 DEF Phases
<1> QED BY <1>1, <1>3, <1>4

\* A block begins: the others are as they were.
Pushed(b) == blocks' = Append(blocks, b)

LEMMA PushFacts ==
  ASSUME TypeOK, NEW b \in Block, Pushed(b)
  PROVE  LET n == Depth + 1
         IN  /\ blocks' \in Seq(Block) /\ Depth' = n /\ DOMAIN blocks' = 1 .. n
             /\ n \in Nat /\ n \notin DOMAIN blocks /\ DOMAIN blocks' = DOMAIN blocks \cup {n}
             /\ blocks'[n] = b
             /\ \A i \in DOMAIN blocks : i < n /\ blocks'[i] = blocks[i]
<1>1. blocks \in Seq(Block) /\ Depth = Len(blocks) /\ Depth \in Nat /\ DOMAIN blocks = 1 .. Depth
  BY BlockFacts
<1>2. /\ blocks' \in Seq(Block) /\ Len(blocks') = Depth + 1
      /\ blocks'[Depth + 1] = b
      /\ \A i \in 1 .. Depth : blocks'[i] = blocks[i]
  BY <1>1 DEF Pushed
<1>3. Depth' = Depth + 1 /\ DOMAIN blocks' = 1 .. Depth + 1
  BY <1>2 DEF Depth
<1>4. \A m \in Nat : m + 1 \in Nat /\ m + 1 \notin 1 .. m /\ 1 .. m + 1 = (1 .. m) \cup {m + 1}
                     /\ \A i \in 1 .. m : i < m + 1
  OBVIOUS
<1> QED BY <1>1, <1>2, <1>3, <1>4

LEMMA PushKeepsShape ==
  ASSUME TypeOK, Shape, NEW b \in Block, Pushed(b),
         \A i \in DOMAIN blocks : blocks[i].id # b.id,
         IF Scoped(b) THEN b.scope = b.id ELSE Depth > 0 /\ b.scope = Top.scope,
         b.ctx \notin Used \/ (Depth > 0 /\ b.ctx = Top.ctx),
         b.kind = "relay" =>
           /\ b.ctx \notin Used \cup {b.to}
           /\ b.to \notin Used \/ (Depth > 0 /\ b.to = Top.ctx)
           /\ b.toScope # NoScope =>
                /\ Depth > 0 /\ b.toScope = Top.scope
                /\ \A i \in DOMAIN blocks :
                     blocks[i].scope = b.toScope => blocks[i].kind \in {"with", "try"}
  PROVE  Shape'
<1> Distinct /\ Scopes /\ Expended /\ Nested
  BY DEF Shape
<1> DEFINE n == Depth + 1
<1>1. /\ n \in Nat /\ n \notin DOMAIN blocks /\ DOMAIN blocks' = DOMAIN blocks \cup {n}
      /\ blocks'[n] = b
      /\ \A i \in DOMAIN blocks : i < n /\ blocks'[i] = blocks[i]
  BY PushFacts, Zenon
<1>2. /\ \A i \in DOMAIN blocks' : i = n \/ i \in DOMAIN blocks
      /\ \A i \in DOMAIN blocks' : i \in Nat /\ 1 <= i /\ i <= n
      /\ \A i \in DOMAIN blocks : 1 < i => i - 1 \in DOMAIN blocks
      /\ \A i \in DOMAIN blocks : i \in Nat /\ i <= Depth
  <2>1. Depth \in Nat /\ DOMAIN blocks = 1 .. Depth
    BY BlockFacts
  <2> QED BY <1>1, <2>1
<1>3. Depth > 0 => /\ Depth \in DOMAIN blocks /\ Top = blocks[Depth] /\ n > 1 /\ n - 1 = Depth
                   /\ blocks'[n - 1] = blocks[Depth]
  <2>1. Depth \in Nat
    BY BlockFacts
  <2> QED BY <1>1, <2>1, TopFacts
<1>4. \A i \in DOMAIN blocks : blocks[i].ctx \in Used /\ blocks[i].to \in Used
  BY DEF Used
<1> HIDE DEF n
<1>5. Distinct'
  BY <1>1, <1>2 DEF Distinct
<1>6. ASSUME NEW i \in DOMAIN blocks'
      PROVE  IF Scoped(blocks'[i]) THEN blocks'[i].scope = blocks'[i].id
             ELSE i > 1 /\ blocks'[i].scope = blocks'[i - 1].scope
  <2>1. CASE i = n
    BY <1>1, <1>3, <2>1
  <2>2. CASE i \in DOMAIN blocks
    BY <1>1, <1>2, <2>2 DEF Scopes
  <2> QED BY <1>2, <2>1, <2>2
<1>7. ASSUME NEW i \in DOMAIN blocks'
      PROVE  \E j \in DOMAIN blocks' :
               j <= i /\ Scoped(blocks'[j]) /\ blocks'[j].id = blocks'[i].scope
  <2>1. ASSUME NEW k \in DOMAIN blocks, k <= i, blocks[k].scope = blocks'[i].scope
        PROVE  \E j \in DOMAIN blocks' :
                 j <= i /\ Scoped(blocks'[j]) /\ blocks'[j].id = blocks'[i].scope
    <3>1. PICK j \in DOMAIN blocks : j <= k /\ Scoped(blocks[j]) /\ blocks[j].id = blocks[k].scope
      BY DEF Scopes
    <3>2. j <= i /\ j \in DOMAIN blocks' /\ blocks'[j] = blocks[j]
      BY <1>1, <1>2, <2>1, <3>1
    <3> QED BY <2>1, <3>1, <3>2
  <2>2. CASE i \in DOMAIN blocks
    BY <1>1, <1>2, <2>1, <2>2
  <2>3. CASE i = n /\ Scoped(b)
    BY <1>1, <2>3
  <2>4. CASE i = n /\ ~Scoped(b)
    <3>1. Depth \in DOMAIN blocks /\ Depth <= i /\ blocks[Depth].scope = blocks'[i].scope
      BY <1>1, <1>2, <1>3, <2>4
    <3> QED BY <2>1, <3>1
  <2> QED BY <1>2, <2>2, <2>3, <2>4
<1>8. ASSUME NEW i \in DOMAIN blocks', NEW j \in DOMAIN blocks', NEW k \in DOMAIN blocks',
             i < j, j <= k, Scoped(blocks'[j])
      PROVE  blocks'[i].scope # blocks'[k].scope
  <2>1. i \in DOMAIN blocks /\ blocks'[i] = blocks[i]
    BY <1>1, <1>2, <1>8
  <2>2. CASE k \in DOMAIN blocks
    <3>1. j \in DOMAIN blocks
      BY <1>1, <1>2, <1>8, <2>2
    <3> QED BY <1>1, <1>8, <2>1, <2>2, <3>1 DEF Scopes
  <2>3. CASE k = n /\ Scoped(b)
    <3>1. PICK l \in DOMAIN blocks : blocks[l].id = blocks[i].scope
      BY <2>1 DEF Scopes
    <3> QED BY <1>1, <2>1, <2>3, <3>1
  <2>4. CASE k = n /\ ~Scoped(b)
    <3>1. j \in DOMAIN blocks /\ j <= Depth
      BY <1>1, <1>2, <1>8, <2>4
    <3>2. Depth \in DOMAIN blocks /\ blocks[Depth].scope = blocks'[k].scope
      BY <1>1, <1>3, <2>4
    <3> QED BY <1>1, <1>8, <2>1, <3>1, <3>2 DEF Scopes
  <2> QED BY <1>2, <2>2, <2>3, <2>4
<1>9. Scopes'
  BY <1>6, <1>7, <1>8 DEF Scopes
<1>10. ASSUME NEW j \in DOMAIN blocks', blocks'[j].kind = "relay", blocks'[j].toScope # NoScope
       PROVE  /\ j > 1 /\ blocks'[j].toScope = blocks'[j - 1].scope
              /\ \A i \in DOMAIN blocks' : i < j /\ blocks'[i].scope = blocks'[j].toScope
                                            => blocks'[i].kind \in {"with", "try"}
  <2>1. CASE j = n
    <3>1. \A i \in DOMAIN blocks' : i < n => i \in DOMAIN blocks /\ blocks'[i] = blocks[i]
      BY <1>1, <1>2
    <3> QED BY <1>1, <1>3, <1>10, <2>1, <3>1
  <2>2. CASE j \in DOMAIN blocks
    <3>1. \A i \in DOMAIN blocks' : i < j => i \in DOMAIN blocks /\ blocks'[i] = blocks[i]
      BY <1>1, <1>2, <2>2
    <3> QED BY <1>1, <1>2, <1>10, <2>2, <3>1 DEF Expended
  <2> QED BY <1>2, <2>1, <2>2
<1>11. ASSUME NEW i \in DOMAIN blocks', NEW j \in DOMAIN blocks', NEW k \in DOMAIN blocks',
              i < j, j < k, blocks'[i].ctx = blocks'[k].ctx
       PROVE  blocks'[j].ctx = blocks'[i].ctx
  <2>1. /\ i \in DOMAIN blocks /\ blocks'[i] = blocks[i]
        /\ j \in DOMAIN blocks /\ blocks'[j] = blocks[j]
    BY <1>1, <1>2, <1>11
  <2>2. CASE k \in DOMAIN blocks
    BY <1>1, <1>11, <2>1, <2>2 DEF Nested
  <2>3. CASE k = n
    <3>1. blocks[i].ctx = b.ctx
      BY <1>1, <1>11, <2>1, <2>3
    <3>2. Depth > 0 /\ b.ctx = blocks[Depth].ctx
      BY <1>3, <1>4, <2>1, <3>1
    <3>3. j <= Depth /\ j \in Nat /\ Depth \in DOMAIN blocks /\ Depth \in Nat
      BY <1>2, <1>3, <2>1, <3>2
    <3>4. CASE j = Depth
      BY <2>1, <3>1, <3>2, <3>4
    <3>5. CASE j < Depth
      BY <1>11, <2>1, <3>1, <3>2, <3>3, <3>5 DEF Nested
    <3> QED BY <3>3, <3>4, <3>5
  <2> QED BY <1>2, <2>2, <2>3
<1>12. ASSUME NEW j \in DOMAIN blocks', blocks'[j].kind = "relay"
       PROVE  /\ blocks'[j].to # blocks'[j].ctx
              /\ \A i \in DOMAIN blocks' : i < j => blocks'[i].ctx # blocks'[j].ctx
              /\ \/ j > 1 /\ blocks'[j].to = blocks'[j - 1].ctx
                 \/ \A i \in DOMAIN blocks' : blocks'[i].ctx # blocks'[j].to
  <2>1. CASE j = n
    <3>1. b.kind = "relay" /\ b.ctx \notin Used /\ b.ctx # b.to /\ blocks'[j] = b
      BY <1>1, <1>12, <2>1
    <3>2. \A i \in DOMAIN blocks' : i < n => blocks'[i].ctx # b.ctx
      BY <1>1, <1>2, <1>4, <3>1
    <3>3. CASE Depth > 0 /\ b.to = Top.ctx
      BY <1>3, <2>1, <3>1, <3>2, <3>3
    <3>4. CASE b.to \notin Used
      <4>1. \A i \in DOMAIN blocks' : blocks'[i].ctx # b.to
        BY <1>1, <1>2, <1>4, <3>1, <3>4
      <4> QED BY <2>1, <3>1, <3>2, <4>1
    <3> QED BY <3>1, <3>3, <3>4
  <2>2. CASE j \in DOMAIN blocks
    <3>1. blocks'[j] = blocks[j] /\ blocks[j].kind = "relay" /\ blocks[j].to # blocks[j].ctx
      BY <1>1, <1>12, <2>2 DEF Nested
    <3>2. \A i \in DOMAIN blocks' : i < j => i \in DOMAIN blocks /\ blocks'[i] = blocks[i]
      BY <1>1, <1>2, <2>2
    <3>3. \A i \in DOMAIN blocks' : i < j => blocks'[i].ctx # blocks'[j].ctx
      BY <2>2, <3>1, <3>2 DEF Nested
    <3>4. CASE j > 1 /\ blocks[j].to = blocks[j - 1].ctx
      BY <1>1, <1>2, <2>2, <3>1, <3>3, <3>4
    <3>5. CASE \A i \in DOMAIN blocks : blocks[i].ctx # blocks[j].to
      <4>1. b.ctx # blocks[j].to
        BY <1>3, <1>4, <2>2, <3>5
      <4>2. \A i \in DOMAIN blocks' : blocks'[i].ctx # blocks'[j].to
        BY <1>1, <1>2, <3>1, <3>5, <4>1
      <4> QED BY <3>1, <3>3, <4>2
    <3> QED BY <2>2, <3>1, <3>4, <3>5 DEF Nested
  <2> QED BY <1>2, <2>1, <2>2
<1>13. Expended' /\ Nested'
  BY <1>10, <1>11, <1>12 DEF Expended, Nested
<1> QED BY <1>5, <1>9, <1>13 DEF Shape

LEMMA PushKeepsPhases ==
  ASSUME TypeOK, Phases, NEW b \in Block, Pushed(b), jump' = NoJump,
         b.phase = "body" /\ b.var = NoExc,
         Depth > 0 /\ Top.phase # "body" => Top.phase = "finally" /\ b.kind = "relay"
  PROVE  Phases'
<1> DEFINE n == Depth + 1
<1>1. /\ n \in Nat /\ n \notin DOMAIN blocks /\ DOMAIN blocks' = DOMAIN blocks \cup {n}
      /\ blocks'[n] = b /\ Depth' = n
      /\ \A i \in DOMAIN blocks : i < n /\ blocks'[i] = blocks[i]
  BY PushFacts, Zenon
<1>2. Depth \in Nat /\ DOMAIN blocks = 1 .. Depth
  BY BlockFacts
<1> SUFFICES ASSUME NEW i \in DOMAIN blocks'
             PROVE  /\ blocks'[i].phase # "body" => blocks'[i].kind = "try"
                    /\ blocks'[i].phase # "catch" => blocks'[i].var = NoExc
                    /\ blocks'[i].phase = "catch" => i = n /\ jump' = NoJump /\ blocks'[i].var # NoExc
                    /\ blocks'[i].phase = "finally" /\ i < n => blocks'[i + 1].kind = "relay"
  BY <1>1 DEF Phases
<1>3. CASE i = n
  <2>1. blocks'[i].phase = "body" /\ blocks'[i].var = NoExc
    BY <1>1, <1>3
  <2> QED BY <2>1
<1>4. CASE i \in DOMAIN blocks /\ i = Depth
  <2>1. Depth > 0 /\ Top = blocks[i] /\ blocks'[i] = blocks[i] /\ blocks'[i + 1] = b
    BY <1>1, <1>2, <1>4, TopFacts
  <2>2. blocks[i].phase = "body" \/ (blocks[i].phase = "finally" /\ b.kind = "relay")
    BY <2>1
  <2> QED BY <1>4, <2>1, <2>2 DEF Phases
<1>5. CASE i \in DOMAIN blocks /\ i # Depth
  <2>1. i < Depth /\ i + 1 \in DOMAIN blocks /\ i < n
    BY <1>2, <1>5
  <2>2. blocks'[i] = blocks[i] /\ blocks'[i + 1] = blocks[i + 1]
    BY <1>1, <1>5, <2>1
  <2> QED BY <1>5, <2>1, <2>2 DEF Phases
<1> QED BY <1>1, <1>3, <1>4, <1>5

-----------------------------------------------------------------------------
(* Frames and jump points *)

LEMMA JmpsFacts ==
  ASSUME NEW c \in Context
  PROVE  /\ Jmps(c) \in Seq(JmpBufs) /\ Len(Jmps(c)) = Len(c.frames) /\ Len(c.frames) \in Nat
         /\ DOMAIN Jmps(c) = 1 .. Len(c.frames) /\ DOMAIN c.frames = 1 .. Len(c.frames)
         /\ \A k \in 1 .. Len(c.frames) : Jmps(c)[k] = c.frames[k].jmp
         /\ HasFrame(c) <=> Jmps(c) # << >>
<1>1. c.frames \in Seq(Frame)
  BY DEF Context
<1>2. Len(c.frames) \in Nat /\ DOMAIN c.frames = 1 .. Len(c.frames)
  BY <1>1
<1>3. \A k \in 1 .. Len(c.frames) : c.frames[k].jmp \in JmpBufs
  <2>1. \A f \in Frame : f.jmp \in JmpBufs
    BY DEF Frame
  <2>2. \A k \in 1 .. Len(c.frames) : c.frames[k] \in Frame
    BY <1>1, ElementOfSeq
  <2> QED BY <2>1, <2>2
<1> DEFINE n == Len(c.frames)
           f == [k \in 1 .. n |-> c.frames[k].jmp]
<1>4. Jmps(c) = f
  BY <1>2 DEF Jmps
<1> HIDE DEF n
<1>5. n \in Nat /\ f \in [1 .. n -> JmpBufs]
  BY <1>2, <1>3 DEF n
<1>6. f \in Seq(JmpBufs) /\ Len(f) = n
  BY <1>5
<1>7. \A k \in 1 .. n : f[k] = c.frames[k].jmp
  OBVIOUS
<1> HIDE DEF f
<1>8. f # << >> <=> n # 0
  BY <1>6, EmptySeq
<1>9. HasFrame(c) <=> n # 0
  BY <1>1, EmptySeq DEF n, HasFrame
<1> QED BY <1>2, <1>4, <1>6, <1>7, <1>8, <1>9, LenProperties DEF n

\* The frames of d are the first of those of c.
LEMMA JmpsPrefix ==
  ASSUME NEW c \in Context, NEW d \in Context, Len(d.frames) <= Len(c.frames),
         SameJmps(d.frames, c.frames, Len(d.frames))
  PROVE  /\ Jmps(d) = SubSeq(Jmps(c), 1, Len(d.frames))
         /\ Len(d.frames) = Len(c.frames) => Jmps(d) = Jmps(c)
<1> DEFINE n == Len(d.frames)
           s == SubSeq(Jmps(c), 1, n)
<1>1. /\ Jmps(c) \in Seq(JmpBufs) /\ Len(Jmps(c)) = Len(c.frames) /\ Len(c.frames) \in Nat
      /\ \A k \in 1 .. Len(c.frames) : Jmps(c)[k] = c.frames[k].jmp
  BY JmpsFacts
<1>2. /\ Jmps(d) \in Seq(JmpBufs) /\ Len(Jmps(d)) = n /\ n \in Nat
      /\ \A k \in 1 .. n : Jmps(d)[k] = d.frames[k].jmp
  BY JmpsFacts
<1>3. s \in Seq(JmpBufs) /\ Len(s) = n /\ \A k \in 1 .. n : s[k] = Jmps(c)[k]
  BY <1>1, <1>2, PrefixFacts
<1>4. \A k \in 1 .. n : k \in 1 .. Len(c.frames) /\ d.frames[k].jmp = c.frames[k].jmp
  BY <1>1, <1>2 DEF SameJmps
<1>5. \A k \in 1 .. n : Jmps(d)[k] = Jmps(c)[k]
  BY <1>1, <1>2, <1>4
<1> HIDE DEF s, n
<1>6. Jmps(d) = s
  BY <1>2, <1>3, <1>5, SeqEqual
<1>7. n = Len(c.frames) => Jmps(d) = Jmps(c)
  BY <1>1, <1>2, <1>5, SeqEqual
<1> QED BY <1>6, <1>7 DEF s, n

\* d has one frame more than c.
LEMMA JmpsAppend ==
  ASSUME NEW c \in Context, NEW d \in Context, NEW jmp \in JmpBufs,
         Len(d.frames) = Len(c.frames) + 1, SameJmps(d.frames, c.frames, Len(c.frames)),
         CurrentFrame(d).jmp = jmp
  PROVE  Jmps(d) = Append(Jmps(c), jmp)
<1> DEFINE n == Len(c.frames)
           s == Append(Jmps(c), jmp)
<1>1. /\ Jmps(c) \in Seq(JmpBufs) /\ Len(Jmps(c)) = n /\ n \in Nat
      /\ \A k \in 1 .. n : Jmps(c)[k] = c.frames[k].jmp
  BY JmpsFacts
<1>2. /\ Jmps(d) \in Seq(JmpBufs) /\ Len(Jmps(d)) = n + 1
      /\ \A k \in 1 .. n + 1 : Jmps(d)[k] = d.frames[k].jmp
  BY JmpsFacts
<1>3. CurrentFrame(d) = d.frames[n + 1]
  BY DEF CurrentFrame, Last
<1>4. /\ s \in Seq(JmpBufs) /\ Len(s) = n + 1 /\ s[n + 1] = jmp
      /\ \A k \in 1 .. n : s[k] = Jmps(c)[k]
  BY <1>1
<1>5. \A k \in 1 .. n + 1 : k = n + 1 \/ k \in 1 .. n
  BY <1>1
<1>6. \A k \in 1 .. n : k \in 1 .. n + 1 /\ d.frames[k].jmp = c.frames[k].jmp
  BY <1>1 DEF SameJmps
<1>7. n + 1 \in 1 .. n + 1
  BY <1>1
<1> HIDE DEF s, n
<1>8. \A k \in 1 .. n + 1 : Jmps(d)[k] = s[k]
  BY <1>1, <1>2, <1>3, <1>4, <1>5, <1>6, <1>7, Zenon
<1> QED BY <1>2, <1>4, <1>8, SeqEqual DEF s

LEMMA JumpPointsFacts ==
  ASSUME TypeOK, NEW c
  PROVE  /\ JumpPoints(c) \in SUBSET Nat /\ JumpPoints(c) \subseteq DOMAIN blocks
         /\ \A n \in Nat : Below(JumpPoints(c), n) \in SUBSET Nat
<1>1. \A i \in DOMAIN blocks : i \in Nat
  BY BlockFacts
<1> QED BY <1>1 DEF JumpPoints, Below

\* The frames of the blocks that stay stay.
LEMMA FramedCut ==
  ASSUME TypeOK, NEW n \in 0 .. Depth, CutTo(n), NEW m \in Nat, m <= n + 1,
         NEW x, FramedIn(x, m), \A c \in Ctxs : Jmps(ctx'[c]) = Jmps(x[c])
  PROVE  FramedIn(ctx, m)'
<1>1. /\ n \in Nat /\ DOMAIN blocks' = 1 .. n /\ 1 .. n \subseteq DOMAIN blocks
      /\ \A i \in DOMAIN blocks' : Same(blocks'[i], blocks[i])
  BY CutFacts
<1>2. \A i \in DOMAIN blocks : i \in Nat /\ 1 <= i
  BY BlockFacts
<1>3. \A i \in DOMAIN blocks : i < m => i \in DOMAIN blocks'
  BY <1>1, <1>2
<1>4. ASSUME NEW c \in Ctxs PROVE InOrder(Jmps(ctx'[c]), Below(JumpPoints(c)', m), Names')
  <2>1. InOrder(Jmps(x[c]), Below(JumpPoints(c), m), Names)
    BY DEF FramedIn
  <2>2. Below(JumpPoints(c)', m) = Below(JumpPoints(c), m)
    <3>1. \A i : i \in JumpPoints(c)' /\ i < m <=> i \in JumpPoints(c) /\ i < m
      BY <1>1, <1>3 DEF JumpPoints, Same
    <3> QED BY <3>1 DEF Below
  <2>3. \A i \in Below(JumpPoints(c), m) : Names[i] = Names'[i]
    <3> SUFFICES ASSUME NEW i \in Below(JumpPoints(c), m) PROVE Names[i] = Names'[i]
      OBVIOUS
    <3>1. i \in DOMAIN blocks /\ i \in DOMAIN blocks'
      BY <1>3 DEF Below, JumpPoints
    <3> QED BY <1>1, <3>1 DEF Names, Same
  <2> QED BY <2>1, <2>2, <2>3, InOrderSame
<1> QED BY <1>4 DEF FramedIn

\* The last frame of the innermost context is the innermost jump point.
LEMMA LastJumpPoint ==
  ASSUME TypeOK, Nested, NEW n \in DOMAIN blocks, NEW x \in [Ctxs -> Context], FramedIn(x, n + 1),
         NEW c \in Ctxs, c = blocks[n].ctx, HasFrame(x[c])
  PROVE  \E t \in 1 .. n :
           /\ t \in DOMAIN blocks /\ blocks[t].kind # "with" /\ blocks[t].ctx = c
           /\ Len(x[c].frames) \in Nat \ {0}
           /\ x[c].frames[Len(x[c].frames)].jmp = blocks[t].id
           /\ \A i \in DOMAIN blocks : t < i /\ i <= n => blocks[i].kind = "with"
           /\ InOrder(SubSeq(Jmps(x[c]), 1, Len(x[c].frames) - 1), Below(JumpPoints(c), t), Names)
           /\ \A d \in Ctxs : d # c => Below(JumpPoints(d), t) = Below(JumpPoints(d), n + 1)
<1> DEFINE f == Jmps(x[c])
           S == Below(JumpPoints(c), n + 1)
           k == Len(x[c].frames)
<1>1. n \in Nat /\ n + 1 \in Nat /\ S \in SUBSET Nat /\ x[c] \in Context
  BY BlockFacts, JumpPointsFacts
<1>2. InOrder(f, S, Names)
  BY DEF FramedIn
<1>3. /\ f \in Seq(JmpBufs) /\ Len(f) = k /\ k \in Nat /\ DOMAIN f = 1 .. k /\ f # << >>
      /\ \A l \in 1 .. k : f[l] = x[c].frames[l].jmp
  BY <1>1, JmpsFacts
<1>4. k \in Nat \ {0} /\ k \in DOMAIN f
  BY <1>3, EmptySeq
<1>5. PICK t \in S :
        /\ f[k] = Names[t]
        /\ InOrder(SubSeq(f, 1, k - 1), Below(S, t), Names)
        /\ \A j \in S : j <= t
  <2> HIDE DEF f, S, k
  <2>1. PICK t \in S : NamedAt(f, S, Names, k, t)
    BY <1>1, <1>2, <1>3, <1>4, InOrderBelow, Zenon
  <2> QED BY <1>3, <2>1 DEF NamedAt
<1>6. t \in 1 .. n /\ t \in DOMAIN blocks /\ blocks[t].kind # "with" /\ blocks[t].ctx = c /\ t \in Nat
  <2>1. t \in JumpPoints(c) /\ t < n + 1
    BY DEF Below
  <2>2. t \in DOMAIN blocks /\ blocks[t].kind # "with" /\ blocks[t].ctx = c
    BY <2>1 DEF JumpPoints
  <2> QED BY <1>1, <2>1, <2>2, BlockFacts
<1>7. x[c].frames[k].jmp = blocks[t].id
  BY <1>3, <1>4, <1>5, <1>6 DEF Names
<1>8. \A i \in DOMAIN blocks : t < i /\ i <= n => blocks[i].ctx = c
  <2> TAKE i \in DOMAIN blocks
  <2> HAVE t < i /\ i <= n
  <2>1. i \in Nat
    BY BlockFacts
  <2>2. CASE i = n
    BY <2>2
  <2>3. CASE i < n
    BY <1>6, <2>3 DEF Nested
  <2> QED BY <1>1, <2>1, <2>2, <2>3
<1>9. \A i \in DOMAIN blocks : t < i /\ i <= n => blocks[i].kind = "with"
  <2> TAKE i \in DOMAIN blocks
  <2> HAVE t < i /\ i <= n
  <2>1. i \in Nat /\ blocks[i].ctx = c
    BY <1>8, BlockFacts
  <2>2. blocks[i].kind # "with" => i \in S
    BY <1>1, <2>1 DEF Below, JumpPoints
  <2> QED BY <1>5, <1>6, <2>1, <2>2
<1>10. Below(S, t) = Below(JumpPoints(c), t)
  <2>1. \A i \in JumpPoints(c) : i < t => i < n + 1
    BY <1>1, <1>6, JumpPointsFacts
  <2> QED BY <2>1 DEF Below
<1>11. ASSUME NEW d \in Ctxs, d # c PROVE Below(JumpPoints(d), t) = Below(JumpPoints(d), n + 1)
  <2>1. ASSUME NEW i \in JumpPoints(d), i < n + 1 PROVE i < t
    <3>1. i \in DOMAIN blocks /\ blocks[i].ctx = d /\ i \in Nat /\ i <= n
      BY <1>1, <2>1, BlockFacts DEF JumpPoints
    <3>2. ~(t < i) /\ i # t
      BY <1>6, <1>8, <1>11, <3>1
    <3> QED BY <1>6, <3>1, <3>2
  <2>2. \A i \in JumpPoints(d) : i < t => i < n + 1
    BY <1>1, <1>6, JumpPointsFacts
  <2> QED BY <2>1, <2>2 DEF Below
<1> HIDE DEF f, S, k
<1> QED BY <1>4, <1>5, <1>6, <1>7, <1>9, <1>10, <1>11 DEF f, k

\* After the end of the blocks above n a jump goes to the next frame of the context c of
\* block n, or there is none and the program goes on.
LEMMA GoOn ==
  ASSUME TypeOK, Nested, NEW n \in 0 .. Depth, CutTo(n),
         NEW x \in [Ctxs -> Context], FramedIn(x, n + 1), NEW c \in Ctxs,
         \/ n > 0 /\ c = blocks[n].ctx
         \/ \A i \in DOMAIN blocks : i <= n => blocks[i].ctx # c,
         ctx' \in [Ctxs -> Context], \A d \in Ctxs : d # c => ctx'[d].frames = x[d].frames,
         NEW r, jump' = Jumping(r),
         ~HasFrame(x[c]) => r.to = NoJmp /\ ctx'[c].frames = x[c].frames,
         HasFrame(x[c]) => /\ r.to = x[c].frames[Len(x[c].frames)].jmp /\ r.why # DONT
                           /\ Len(ctx'[c].frames) = Len(x[c].frames) - 1
                           /\ SameJmps(ctx'[c].frames, x[c].frames, Len(x[c].frames) - 1)
  PROVE  Framed'
<1>1. /\ n \in Nat /\ n + 1 \in Nat /\ DOMAIN blocks' = 1 .. n /\ 1 .. n \subseteq DOMAIN blocks /\ Depth' = n
      /\ \A i \in DOMAIN blocks' : Same(blocks'[i], blocks[i])
  BY CutFacts
<1>2. x[c] \in Context /\ ctx'[c] \in Context
  OBVIOUS
<1>3. \A d \in Ctxs : d # c => Jmps(ctx'[d]) = Jmps(x[d])
  BY DEF Jmps
<1>4. CASE ~HasFrame(x[c])
  <2>1. jump' = NoJump
    BY <1>4 DEF Jumping
  <2>2. \A d \in Ctxs : Jmps(ctx'[d]) = Jmps(x[d])
    BY <1>3, <1>4 DEF Jmps
  <2>3. FramedIn(ctx, n + 1)'
    <3>1. PICK m \in Nat : m = n + 1
      BY <1>1
    <3>2. FramedIn(ctx, m)'
      BY <1>1, <2>2, <3>1, FramedCut
    <3> QED BY <3>1, <3>2 DEF FramedIn
  <2> QED BY <1>1, <2>1, <2>3 DEF Framed, FramedIn
<1>5. CASE HasFrame(x[c])
  <2>1. n > 0 /\ c = blocks[n].ctx
    <3> SUFFICES ASSUME \A i \in DOMAIN blocks : i <= n => blocks[i].ctx # c PROVE FALSE
      OBVIOUS
    <3>1. Below(JumpPoints(c), n + 1) = {}
      <4>1. \A i \in DOMAIN blocks : i < n + 1 => i <= n
        BY <1>1, BlockFacts
      <4> QED BY <4>1 DEF Below, JumpPoints
    <3>2. InOrder(Jmps(x[c]), Below(JumpPoints(c), n + 1), Names)
      BY DEF FramedIn
    <3>3. Jmps(x[c]) \in Seq(JmpBufs) /\ Jmps(x[c]) # << >>
      BY <1>2, <1>5, JmpsFacts
    <3> QED BY <3>1, <3>2, <3>3, InOrderEmpty
  <2>2. n \in DOMAIN blocks
    BY <1>1, <2>1
  <2>3. PICK t \in 1 .. n :
           /\ t \in DOMAIN blocks /\ blocks[t].kind # "with" /\ blocks[t].ctx = c
           /\ Len(x[c].frames) \in Nat \ {0}
           /\ x[c].frames[Len(x[c].frames)].jmp = blocks[t].id
           /\ \A i \in DOMAIN blocks : t < i /\ i <= n => blocks[i].kind = "with"
           /\ InOrder(SubSeq(Jmps(x[c]), 1, Len(x[c].frames) - 1), Below(JumpPoints(c), t), Names)
           /\ \A d \in Ctxs : d # c => Below(JumpPoints(d), t) = Below(JumpPoints(d), n + 1)
    <3> HIDE DEF Nested
    <3>1. c = blocks[n].ctx
      BY <2>1
    <3> QED BY <1>5, <2>2, <3>1, LastJumpPoint
  <2>4. t \in Nat /\ t \in DOMAIN blocks' /\ t <= n + 1
    BY <1>1
  <2>5. blocks[t].id \in JmpBufs /\ blocks[t].id # NoJmp
    BY <2>3, BlockFacts, FieldFacts, ContextAssumption
  <2>6. jump' = [to |-> blocks[t].id, why |-> r.why] /\ jump'.to = blocks[t].id /\ jump'.why # DONT
        /\ jump' # NoJump
    BY <1>5, <2>3, <2>5 DEF Jumping, NoJump
  <2>7. blocks'[t].id = blocks[t].id /\ blocks'[t].kind # "with"
    BY <1>1, <2>3, <2>4 DEF Same
  <2>8. \A i \in DOMAIN blocks' : t < i => blocks'[i].kind = "with"
    <3> TAKE i \in DOMAIN blocks'
    <3> HAVE t < i
    <3>1. i \in DOMAIN blocks /\ i <= n
      BY <1>1
    <3> QED BY <1>1, <2>3, <3>1 DEF Same
  <2>9. Jmps(ctx'[c]) = SubSeq(Jmps(x[c]), 1, Len(x[c].frames) - 1)
    <3>1. Len(ctx'[c].frames) <= Len(x[c].frames)
      BY <1>5, <2>3
    <3> QED BY <1>2, <1>5, <3>1, JmpsPrefix
  <2> DEFINE y == ctx'
  <2>10. FramedIn(ctx', t)
    <3> SUFFICES ASSUME NEW d \in Ctxs
                 PROVE  InOrder(Jmps(ctx'[d]), Below(JumpPoints(d), t), Names)
      BY DEF FramedIn
    <3>1. CASE d = c
      BY <2>3, <2>9, <3>1, Zenon
    <3>2. CASE d # c
      BY <1>3, <2>3, <3>2 DEF FramedIn
    <3> QED BY <3>1, <3>2
  <2>11. FramedIn(ctx, t)'
    BY <2>4, <2>10, FramedCut
  <2>12. Flies(t)'
    BY <2>6, <2>7, <2>8, <2>11 DEF Flies
  <2> QED BY <2>4, <2>6, <2>12 DEF Framed
<1> QED BY <1>4, <1>5

-----------------------------------------------------------------------------
(* Scopes and unwinding frames *)

\* What is captured stays captured, or is taken or freed all at once.
Quiet == \A s \in JmpBufs : scope'[s].captured \in {scope[s].captured, << >>}

LEMMA PassesLocal ==
  ASSUME TypeOK, NEW n \in 0 .. Depth, CutTo(n), NEW m \in Nat, m <= n, ~Passes(m),
         \A i \in DOMAIN blocks : i <= m /\ Scoped(blocks[i]) =>
            scope'[blocks[i].id].captured \in {scope[blocks[i].id].captured, << >>}
  PROVE  ~Passes(m)'
<1>1. /\ n \in Nat /\ DOMAIN blocks' = 1 .. n /\ 1 .. n \subseteq DOMAIN blocks
      /\ \A i \in DOMAIN blocks' : Same(blocks'[i], blocks[i])
  BY CutFacts
<1> SUFFICES ASSUME NEW i \in DOMAIN blocks', i <= m,
                    blocks'[i].kind = "relay" \/ (blocks'[i].kind = "with" /\ i > 1),
                    scope'[blocks'[i].id].captured # << >>,
                    \A j \in DOMAIN blocks' : i < j /\ j <= m => blocks'[j].kind # "capture"
             PROVE  Passes(m)
  BY DEF Passes
<1>2. i \in DOMAIN blocks /\ blocks[i].kind = blocks'[i].kind /\ blocks[i].id = blocks'[i].id
  BY <1>1 DEF Same
<1>3. scope[blocks[i].id].captured # << >>
  <2>1. Scoped(blocks[i])
    BY <1>2 DEF Scoped
  <2> QED BY <1>2, <2>1
<1>4. ASSUME NEW j \in DOMAIN blocks, i < j, j <= m PROVE blocks[j].kind # "capture"
  <2>1. j \in DOMAIN blocks'
    <3>1. j \in Nat /\ 1 <= j
      BY BlockFacts
    <3> QED BY <1>1, <1>4, <3>1
  <2> QED BY <1>1, <1>4, <2>1 DEF Same
<1> QED BY <1>2, <1>3, <1>4 DEF Passes

LEMMA PassesCut ==
  ASSUME TypeOK, NEW n \in 0 .. Depth, CutTo(n), Quiet, NEW m \in Nat, m <= n, ~Passes(m)
  PROVE  ~Passes(m)'
<1>1. \A i \in DOMAIN blocks : blocks[i].id \in JmpBufs
  BY BlockFacts, FieldFacts
<1> QED BY <1>1, PassesLocal DEF Quiet

\* Nothing below is passed if nothing is passed up to n, and no capture is in between.
LEMMA PassesBelow ==
  ASSUME TypeOK, NEW m \in Nat, NEW n \in Nat, m <= n, ~Passes(n),
         \A j \in DOMAIN blocks : m < j /\ j <= n => blocks[j].kind # "capture"
  PROVE  ~Passes(m)
<1> SUFFICES ASSUME NEW i \in DOMAIN blocks, i <= m,
                    blocks[i].kind = "relay" \/ (blocks[i].kind = "with" /\ i > 1),
                    scope[blocks[i].id].captured # << >>,
                    \A j \in DOMAIN blocks : i < j /\ j <= m => blocks[j].kind # "capture"
             PROVE  Passes(n)
  BY DEF Passes
<1>1. i <= n
  BY BlockFacts
<1>2. \A j \in DOMAIN blocks : i < j /\ j <= n => blocks[j].kind # "capture"
  <2>1. \A j \in DOMAIN blocks : j <= m \/ m < j
    BY BlockFacts
  <2> QED BY <2>1
<1> QED BY <1>1, <1>2 DEF Passes

\* Nothing that was captured is lost with the blocks above n, if nothing is passed.
LEMMA NothingAbove ==
  ASSUME TypeOK, NEW n \in Nat, 1 <= n, ~Passes(Depth), NEW i \in DOMAIN blocks, n < i,
         \A j \in DOMAIN blocks : n < j => blocks[j].kind = "with"
  PROVE  scope[blocks[i].id].captured = << >>
<1>1. i \in Nat /\ i > 1 /\ i <= Depth /\ blocks[i].kind = "with"
  BY BlockFacts
<1>2. \A j \in DOMAIN blocks : i < j => blocks[j].kind # "capture"
  <2>1. \A j \in DOMAIN blocks : i < j => n < j
    BY <1>1, BlockFacts
  <2> QED BY <2>1
<1> QED BY <1>1, <1>2 DEF Passes

\* The jump points below n, which a frame may unwind to, stay free.
FreeBelow(n) ==
  \A i \in 1 .. n : blocks[i].kind = "relay" \/ (blocks[i].phase = "finally" /\ i < n)
                      => (~Passes(i - 1) => ~Passes(i - 1)')

LEMMA QuietIsFree ==
  ASSUME TypeOK, NEW n \in 0 .. Depth, CutTo(n), Quiet
  PROVE  FreeBelow(n)
<1> SUFFICES ASSUME NEW i \in 1 .. n, ~Passes(i - 1) PROVE ~Passes(i - 1)'
  BY DEF FreeBelow
<1>1. n \in Nat
  BY CutFacts
<1>2. PICK m \in Nat : m = i - 1 /\ m <= n
  BY <1>1
<1>3. ~Passes(m)'
  BY <1>2, PassesCut
<1> QED BY <1>2, <1>3 DEF Passes

\* The frames are old ones, or do not unwind, or belong to block n, which is a finally.
OldFrames(n) ==
  \A c \in Ctxs : \A k \in DOMAIN ctx'[c].frames :
    LET f == ctx'[c].frames[k]
    IN  \/ f.reason = DONT
        \/ /\ k \in DOMAIN ctx[c].frames
           /\ f.jmp = ctx[c].frames[k].jmp /\ f.reason = ctx[c].frames[k].reason
           /\ n > 0 /\ f.jmp = blocks[n].id => blocks'[n].phase = blocks[n].phase /\ ~Passes(n - 1)'
        \/ n > 0 /\ f.jmp = blocks[n].id /\ blocks'[n].phase = "finally" /\ ~Passes(n - 1)'

LEMMA UnwindingCut ==
  ASSUME TypeOK, Distinct, Unwinding, NEW n \in 0 .. Depth, CutTo(n), FreeBelow(n), OldFrames(n)
  PROVE  Unwinding'
<1>1. /\ n \in Nat /\ DOMAIN blocks' = 1 .. n /\ 1 .. n \subseteq DOMAIN blocks
      /\ \A i \in DOMAIN blocks' : Same(blocks'[i], blocks[i]) /\ i \in Nat /\ 1 <= i /\ i <= n
      /\ \A i \in DOMAIN blocks' : i < n => blocks'[i] = blocks[i]
  BY CutFacts
<1> SUFFICES ASSUME NEW c \in Ctxs, NEW k \in DOMAIN ctx'[c].frames, NEW i \in DOMAIN blocks',
                    ctx'[c].frames[k].jmp = blocks'[i].id, ctx'[c].frames[k].reason # DONT
             PROVE  blocks'[i].phase = "finally" /\ ~Passes(i - 1)'
  <2>1. (\A c \in Ctxs : \A k \in DOMAIN ctx[c].frames : \A i \in DOMAIN blocks :
           ctx[c].frames[k].jmp = blocks[i].id /\ ctx[c].frames[k].reason # DONT
             => blocks[i].phase = "finally" /\ ~Passes(i - 1))' => Unwinding'
    BY DEF Unwinding
  <2> QED BY <2>1
<1>2. i \in DOMAIN blocks /\ blocks[i].id = blocks'[i].id
  BY <1>1 DEF Same
<1>3. CASE n > 0 /\ ctx'[c].frames[k].jmp = blocks[n].id /\ blocks'[n].phase = "finally"
           /\ ~Passes(n - 1)'
  <2>1. i = n
    BY <1>1, <1>2, <1>3 DEF Distinct
  <2> QED BY <1>3, <2>1
<1>4. CASE /\ k \in DOMAIN ctx[c].frames
           /\ ctx'[c].frames[k].jmp = ctx[c].frames[k].jmp
           /\ ctx'[c].frames[k].reason = ctx[c].frames[k].reason
           /\ n > 0 /\ ctx'[c].frames[k].jmp = blocks[n].id
                => blocks'[n].phase = blocks[n].phase /\ ~Passes(n - 1)'
  <2>1. blocks[i].phase = "finally" /\ ~Passes(i - 1)
    BY <1>2, <1>4 DEF Unwinding
  <2>2. CASE i = n
    <3>1. n > 0 /\ ctx'[c].frames[k].jmp = blocks[n].id
      BY <1>1, <1>2, <2>2
    <3> QED BY <1>4, <2>1, <2>2, <3>1
  <2>3. CASE i # n
    <3>1. i < n
      BY <1>1, <2>3
    <3> QED BY <1>1, <2>1, <3>1 DEF FreeBelow
  <2> QED BY <2>2, <2>3
<1> QED BY <1>3, <1>4 DEF OldFrames

\* The lists of the scopes below n serve the blocks there as before.
LEMMA WaitingCut ==
  ASSUME TypeOK, Scopes, Waiting, NEW n \in 0 .. Depth, CutTo(n), FreeBelow(n),
         \A s \in JmpBufs : scope'[s].captured # << >> =>
            \E i \in 1 .. n : Scoped(blocks[i]) /\ blocks[i].id = s,
         \A i \in 1 .. n : blocks[i].kind \in {"relay", "capture"} => scope'[blocks[i].scope].valid,
         \A i \in 1 .. n : blocks[i].kind = "relay" /\ blocks[i].toScope # NoScope
            => scope'[blocks[i].toScope].captured = << >>,
         jump' # NoJump => ~Passes(n)'
  PROVE  Waiting'
<1>1. /\ n \in Nat /\ DOMAIN blocks' = 1 .. n /\ 1 .. n \subseteq DOMAIN blocks /\ Depth' = n
      /\ \A i \in DOMAIN blocks' : Same(blocks'[i], blocks[i]) /\ i \in Nat /\ 1 <= i /\ i <= n
  BY CutFacts
<1>2. ASSUME NEW s \in JmpBufs, scope'[s].captured # << >>
      PROVE  \E i \in DOMAIN blocks' : Scoped(blocks'[i]) /\ blocks'[i].id = s
  BY <1>1, <1>2 DEF Same, Scoped
<1>3. ASSUME NEW i \in DOMAIN blocks', blocks'[i].kind \in {"relay", "capture"}
      PROVE  scope'[blocks'[i].scope].valid
  BY <1>1, <1>3 DEF Same
<1>4. ASSUME NEW i \in DOMAIN blocks', blocks'[i].kind = "relay"
      PROVE  /\ blocks'[i].toScope # NoScope => scope'[blocks'[i].toScope].captured = << >>
             /\ ~Passes(i - 1)'
  <2>1. blocks[i].kind = "relay" /\ blocks[i].toScope = blocks'[i].toScope /\ i \in DOMAIN blocks
    BY <1>1, <1>4 DEF Same
  <2>2. ~Passes(i - 1)
    BY <2>1 DEF Waiting
  <2> QED BY <1>1, <2>1, <2>2 DEF FreeBelow
<1>5. jump' # NoJump => ~Passes(Depth)'
  BY <1>1 DEF Passes
<1> QED BY <1>2, <1>3, <1>4, <1>5 DEF Waiting

\* The frames of d are frames of c, or do not unwind.
Kept(d, c) ==
  \A k \in DOMAIN d.frames :
    \/ d.frames[k].reason = DONT
    \/ /\ k \in DOMAIN c.frames
       /\ d.frames[k].jmp = c.frames[k].jmp /\ d.frames[k].reason = c.frames[k].reason

LEMMA QuietUnwinding ==
  ASSUME TypeOK, Distinct, Unwinding, NEW n \in 0 .. Depth, CutTo(n), Quiet,
         n > 0 => blocks'[n].phase \in {blocks[n].phase, "finally"},
         \A c \in Ctxs : Kept(ctx'[c], ctx[c])
  PROVE  Unwinding'
<1>1. n \in Nat /\ 1 .. n \subseteq DOMAIN blocks
  BY CutFacts
<1>2. FreeBelow(n)
  BY QuietIsFree
<1>3. OldFrames(n)
  <2> SUFFICES ASSUME NEW c \in Ctxs, NEW k \in DOMAIN ctx'[c].frames,
                      NEW f, f = ctx'[c].frames[k], f.reason # DONT
               PROVE  \/ /\ k \in DOMAIN ctx[c].frames
                         /\ f.jmp = ctx[c].frames[k].jmp /\ f.reason = ctx[c].frames[k].reason
                         /\ n > 0 /\ f.jmp = blocks[n].id
                              => blocks'[n].phase = blocks[n].phase /\ ~Passes(n - 1)'
                      \/ n > 0 /\ f.jmp = blocks[n].id /\ blocks'[n].phase = "finally" /\ ~Passes(n - 1)'
    BY DEF OldFrames
  <2>1. /\ k \in DOMAIN ctx[c].frames
        /\ f.jmp = ctx[c].frames[k].jmp /\ f.reason = ctx[c].frames[k].reason
    BY DEF Kept
  <2>2. CASE n > 0 /\ f.jmp = blocks[n].id
    <3>1. n \in DOMAIN blocks
      BY <1>1, <2>2
    <3>2. blocks[n].phase = "finally" /\ ~Passes(n - 1)
      BY <2>1, <2>2, <3>1, Zenon DEF Unwinding
    <3>3. PICK m \in Nat : m = n - 1 /\ m <= n
      BY <1>1, <2>2
    <3>4. ~Passes(m)'
      BY <3>2, <3>3, PassesCut
    <3>5. ~Passes(n - 1)'
      BY <3>3, <3>4 DEF Passes
    <3> QED BY <2>1, <2>2, <3>2, <3>5
  <2> QED BY <2>1, <2>2
<1> QED BY <1>2, <1>3, UnwindingCut

LEMMA QuietWaiting ==
  ASSUME TypeOK, Shape, Waiting, NEW n \in 0 .. Depth, CutTo(n), Quiet,
         \A i \in DOMAIN blocks : n < i /\ Scoped(blocks[i]) => scope'[blocks[i].id].captured = << >>,
         \A i \in 1 .. n : blocks[i].kind \in {"relay", "capture"} => scope'[blocks[i].scope].valid,
         jump' # NoJump => ~Passes(n)
  PROVE  Waiting'
<1>1. n \in Nat /\ 1 .. n \subseteq DOMAIN blocks
  BY CutFacts
<1>2. FreeBelow(n)
  BY QuietIsFree
<1>3. ASSUME NEW s \in JmpBufs, scope'[s].captured # << >>
      PROVE  \E i \in 1 .. n : Scoped(blocks[i]) /\ blocks[i].id = s
  <2>1. scope[s].captured # << >>
    BY <1>3 DEF Quiet
  <2>2. PICK i \in DOMAIN blocks : Scoped(blocks[i]) /\ blocks[i].id = s
    BY <2>1 DEF Waiting
  <2>3. ~(n < i)
    BY <1>3, <2>2
  <2>4. i \in 1 .. n
    BY <1>1, <2>3, BlockFacts
  <2> QED BY <2>2, <2>4
<1>4. ASSUME NEW i \in 1 .. n, blocks[i].kind = "relay", blocks[i].toScope # NoScope
      PROVE  scope'[blocks[i].toScope].captured = << >>
  <2>1. i \in DOMAIN blocks
    BY <1>1
  <2>2. scope[blocks[i].toScope].captured = << >> /\ blocks[i].toScope \in JmpBufs
    BY <1>4, <2>1, BlockFacts, FieldFacts DEF Waiting
  <2> QED BY <2>2 DEF Quiet
<1>5. ASSUME jump' # NoJump PROVE ~Passes(n)'
  BY <1>1, <1>5, PassesCut
<1>6. Scopes
  BY DEF Shape
<1> QED BY <1>2, <1>3, <1>4, <1>5, <1>6, WaitingCut

\* A block begins; if it has a scope of its own, that is new.
LEMMA PassesPush ==
  ASSUME TypeOK, NEW b \in Block, Pushed(b), \A i \in DOMAIN blocks : blocks[i].id # b.id,
         \A s \in JmpBufs : s # b.id => scope'[s] = scope[s],
         NEW m \in Nat, m <= Depth, ~Passes(m)
  PROVE  ~Passes(m)'
<1> DEFINE n == Depth + 1
<1>0. /\ n \in Nat /\ DOMAIN blocks' = DOMAIN blocks \cup {n} /\ blocks'[n] = b
      /\ \A i \in DOMAIN blocks : i < n /\ blocks'[i] = blocks[i]
  BY PushFacts, Zenon
<1>1. m < n
  BY BlockFacts
<1> HIDE DEF n
<1> SUFFICES ASSUME NEW i \in DOMAIN blocks', i <= m,
                    blocks'[i].kind = "relay" \/ (blocks'[i].kind = "with" /\ i > 1),
                    scope'[blocks'[i].id].captured # << >>,
                    \A j \in DOMAIN blocks' : i < j /\ j <= m => blocks'[j].kind # "capture"
             PROVE  Passes(m)
  BY DEF Passes
<1>2. i \in DOMAIN blocks /\ blocks[i] = blocks'[i]
  BY <1>0, <1>1
<1>3. scope[blocks[i].id].captured # << >>
  <2>1. blocks[i].id \in JmpBufs /\ blocks[i].id # b.id
    BY <1>2, BlockFacts, FieldFacts
  <2> QED BY <1>2, <2>1
<1>4. \A j \in DOMAIN blocks : i < j /\ j <= m => blocks[j].kind # "capture"
  BY <1>0
<1> QED BY <1>2, <1>3, <1>4 DEF Passes

LEMMA PushUnwinding ==
  ASSUME TypeOK, Unwinding, NEW b \in Block, Pushed(b), \A i \in DOMAIN blocks : blocks[i].id # b.id,
         \A s \in JmpBufs : s # b.id => scope'[s] = scope[s],
         \A c \in Ctxs : \A k \in DOMAIN ctx[c].frames : ctx[c].frames[k].jmp # b.id,
         \A c \in Ctxs : Kept(ctx'[c], ctx[c])
  PROVE  Unwinding'
<1> DEFINE n == Depth + 1
<1>1. /\ n \in Nat /\ DOMAIN blocks' = DOMAIN blocks \cup {n} /\ blocks'[n] = b
      /\ \A i \in DOMAIN blocks : i < n /\ blocks'[i] = blocks[i]
  BY PushFacts, Zenon
<1> SUFFICES ASSUME NEW c \in Ctxs, NEW k \in DOMAIN ctx'[c].frames, NEW i \in DOMAIN blocks',
                    ctx'[c].frames[k].jmp = blocks'[i].id, ctx'[c].frames[k].reason # DONT
             PROVE  blocks'[i].phase = "finally" /\ ~Passes(i - 1)'
  <2>1. (\A c \in Ctxs : \A k \in DOMAIN ctx[c].frames : \A i \in DOMAIN blocks :
           ctx[c].frames[k].jmp = blocks[i].id /\ ctx[c].frames[k].reason # DONT
             => blocks[i].phase = "finally" /\ ~Passes(i - 1))' => Unwinding'
    BY DEF Unwinding
  <2> QED BY <2>1
<1>2. /\ k \in DOMAIN ctx[c].frames /\ ctx[c].frames[k].jmp = blocks'[i].id
      /\ ctx[c].frames[k].reason # DONT
  BY DEF Kept
<1>3. i \in DOMAIN blocks /\ blocks'[i] = blocks[i]
  BY <1>1, <1>2
<1>4. blocks[i].phase = "finally" /\ ~Passes(i - 1)
  BY <1>2, <1>3 DEF Unwinding
<1>5. PICK m \in Nat : m = i - 1 /\ m <= Depth
  BY <1>3, BlockFacts
<1>6. ~Passes(m)'
  BY <1>4, <1>5, PassesPush
<1> QED BY <1>3, <1>4, <1>5, <1>6 DEF Passes

LEMMA PushWaiting ==
  ASSUME TypeOK, Shape, Waiting, NEW b \in Block, Pushed(b), jump' = NoJump,
         \A i \in DOMAIN blocks : blocks[i].id # b.id,
         \A s \in JmpBufs : s # b.id => scope'[s] = scope[s],
         IF Scoped(b) THEN scope'[b.id] = NewScope /\ b.scope = b.id
         ELSE scope' = scope /\ (b.kind = "capture" => scope[b.scope].valid),
         b.kind = "relay" =>
           /\ ~Passes(Depth)
           /\ b.toScope # NoScope => /\ Depth > 0 /\ b.toScope = Top.scope
                                     /\ scope[b.toScope].captured = << >>
  PROVE  Waiting'
<1> Scopes /\ Distinct /\ Expended
  BY DEF Shape
<1> DEFINE n == Depth + 1
<1>1. /\ n \in Nat /\ DOMAIN blocks' = DOMAIN blocks \cup {n} /\ blocks'[n] = b
      /\ \A i \in DOMAIN blocks : i < n /\ blocks'[i] = blocks[i]
  BY PushFacts, Zenon
<1>2. NewScope.captured = << >> /\ NewScope.valid
  BY DEF NewScope
<1>3. \A i \in DOMAIN blocks : blocks[i].scope \in JmpBufs /\ blocks[i].scope # b.id
  <2> TAKE i \in DOMAIN blocks
  <2>1. PICK j \in DOMAIN blocks : blocks[j].id = blocks[i].scope
    BY DEF Scopes
  <2> QED BY <2>1, BlockFacts, FieldFacts
<1>4. ASSUME NEW s \in JmpBufs, scope'[s].captured # << >>
      PROVE  \E i \in DOMAIN blocks' : Scoped(blocks'[i]) /\ blocks'[i].id = s
  <2>1. s # b.id \/ ~Scoped(b)
    BY <1>2, <1>4
  <2>2. scope'[s] = scope[s]
    BY <2>1
  <2>3. PICK i \in DOMAIN blocks : Scoped(blocks[i]) /\ blocks[i].id = s
    BY <1>4, <2>2 DEF Waiting
  <2> QED BY <1>1, <2>3
<1>5. ASSUME NEW i \in DOMAIN blocks', blocks'[i].kind \in {"relay", "capture"}
      PROVE  scope'[blocks'[i].scope].valid
  <2>1. CASE i = n
    BY <1>1, <1>2, <1>5, <2>1 DEF Scoped
  <2>2. CASE i \in DOMAIN blocks
    BY <1>1, <1>3, <1>5, <2>2 DEF Waiting
  <2> QED BY <1>1, <2>1, <2>2
<1>6. ASSUME NEW i \in DOMAIN blocks', blocks'[i].kind = "relay"
      PROVE  /\ blocks'[i].toScope # NoScope => scope'[blocks'[i].toScope].captured = << >>
             /\ ~Passes(i - 1)'
  <2>1. CASE i = n
    <3>1. PICK m \in Nat : m = Depth /\ m = n - 1
      BY BlockFacts
    <3>2. ~Passes(m)'
      BY <1>1, <1>6, <2>1, <3>1, PassesPush
    <3>3. b.toScope # NoScope => scope'[b.toScope].captured = << >>
      BY <1>1, <1>3, <1>6, <2>1, TopFacts
    <3>4. ~Passes(i - 1)'
      BY <2>1, <3>1, <3>2 DEF Passes
    <3> QED BY <1>1, <2>1, <3>3, <3>4
  <2>2. CASE i \in DOMAIN blocks
    <3>1. PICK m \in Nat : m = i - 1 /\ m <= Depth
      BY <2>2, BlockFacts
    <3>2. blocks'[i] = blocks[i] /\ blocks[i].kind = "relay"
      BY <1>1, <1>6, <2>2
    <3>3. ~Passes(m)'
      BY <2>2, <3>1, <3>2, PassesPush DEF Waiting
    <3>4. ~Passes(i - 1)'
      BY <3>1, <3>3 DEF Passes
    <3>5. ASSUME blocks[i].toScope # NoScope PROVE scope'[blocks[i].toScope].captured = << >>
      <4>1. i > 1 /\ blocks[i].toScope = blocks[i - 1].scope /\ i - 1 \in DOMAIN blocks
        BY <2>2, <3>2, <3>5, BlockFacts DEF Expended
      <4> QED BY <1>3, <2>2, <3>2, <3>5, <4>1 DEF Waiting
    <3> QED BY <3>2, <3>4, <3>5
  <2> QED BY <1>1, <2>1, <2>2
<1> QED BY <1>4, <1>5, <1>6 DEF Waiting

\* The blocks at n and above are replaced by one with id, or none: those below stay.
Replaced(n) == /\ n \in DOMAIN blocks'
               /\ \A i \in DOMAIN blocks' : i \in Nat
               /\ \A i \in DOMAIN blocks' : i < n => i \in DOMAIN blocks /\ Same(blocks'[i], blocks[i])
               /\ \A i \in DOMAIN blocks : i < n => i \in DOMAIN blocks'

LEMMA ReplacedFacts ==
  ASSUME TypeOK, NEW n \in Nat, Replaced(n), NEW c \in Ctxs
  PROVE  /\ Below(JumpPoints(c)', n) = Below(JumpPoints(c), n)
         /\ Below(JumpPoints(c)', n) \in SUBSET Nat
         /\ \A i \in Below(JumpPoints(c), n) : Names[i] = Names'[i]
         /\ Names'[n] = blocks'[n].id
         /\ Below(JumpPoints(c)', n + 1) =
              IF blocks'[n].kind # "with" /\ blocks'[n].ctx = c
              THEN Below(JumpPoints(c)', n) \cup {n} ELSE Below(JumpPoints(c)', n)
<1>1. \A i : i \in JumpPoints(c)' /\ i < n <=> i \in JumpPoints(c) /\ i < n
  BY DEF Replaced, JumpPoints, Same
<1>2. Below(JumpPoints(c)', n) = Below(JumpPoints(c), n)
  BY <1>1 DEF Below
<1>3. Below(JumpPoints(c)', n) \in SUBSET Nat
  BY DEF Below, JumpPoints, Replaced
<1>4. \A i \in Below(JumpPoints(c), n) : Names[i] = Names'[i]
  BY DEF Below, JumpPoints, Names, Replaced, Same
<1>5. Names'[n] = blocks'[n].id
  BY DEF Names, Replaced
<1>6. \A i : i \in Below(JumpPoints(c)', n + 1)
               <=> i \in Below(JumpPoints(c)', n) \/ (i = n /\ i \in JumpPoints(c)')
  <2>1. \A i \in Nat : i < n + 1 <=> i < n \/ i = n
    OBVIOUS
  <2> QED BY <2>1 DEF Below, JumpPoints, Replaced
<1>7. n \in JumpPoints(c)' <=> blocks'[n].kind # "with" /\ blocks'[n].ctx = c
  BY DEF JumpPoints, Replaced
<1> QED BY <1>2, <1>3, <1>4, <1>5, <1>6, <1>7, Zenon

\* A block that is entered has pushed its frame on its context, unless it needs none.
LEMMA FramedEnter ==
  ASSUME TypeOK, NEW n \in Nat, Replaced(n), FramedIn(ctx, n), Depth' = n, jump' = NoJump,
         blocks'[n].id \in JmpBufs, ctx' \in [Ctxs -> Context],
         \A c \in Ctxs :
           IF blocks'[n].kind # "with" /\ blocks'[n].ctx = c
           THEN /\ Len(ctx'[c].frames) = Len(ctx[c].frames) + 1
                /\ SameJmps(ctx'[c].frames, ctx[c].frames, Len(ctx[c].frames))
                /\ CurrentFrame(ctx'[c]).jmp = blocks'[n].id
           ELSE ctx'[c].frames = ctx[c].frames
  PROVE  Framed'
<1>1. ASSUME NEW c \in Ctxs PROVE InOrder(Jmps(ctx'[c]), Below(JumpPoints(c)', n + 1), Names')
  <2>1. ctx[c] \in Context /\ ctx'[c] \in Context
    BY DEF TypeOK
  <2>2. InOrder(Jmps(ctx[c]), Below(JumpPoints(c)', n), Names')
    <3> DEFINE f == Jmps(ctx[c])
               S == Below(JumpPoints(c), n)
               name == Names
               other == Names'
    <3>1. /\ InOrder(f, S, name) /\ Below(JumpPoints(c)', n) = S
          /\ \A i \in S : name[i] = other[i]
      BY ReplacedFacts, Zenon DEF FramedIn
    <3> HIDE DEF f, S, name, other
    <3>2. InOrder(f, S, other)
      BY <3>1, InOrderSame
    <3> QED BY <3>1, <3>2 DEF f, S, other
  <2>3. CASE blocks'[n].kind # "with" /\ blocks'[n].ctx = c
    <3>1. Jmps(ctx'[c]) = Append(Jmps(ctx[c]), blocks'[n].id)
      BY <2>1, <2>3, JmpsAppend
    <3>2. Jmps(ctx[c]) \in Seq(JmpBufs)
      BY <2>1, JmpsFacts
    <3>3. \A i \in Below(JumpPoints(c)', n) : i < n
      BY DEF Below
    <3>4. Below(JumpPoints(c)', n) \in SUBSET Nat /\ Names'[n] = blocks'[n].id
      BY ReplacedFacts, Zenon
    <3>5. InOrder(Append(Jmps(ctx[c]), blocks'[n].id), Below(JumpPoints(c)', n) \cup {n}, Names')
      <4> DEFINE f == Jmps(ctx[c])
                 S == Below(JumpPoints(c)', n)
                 name == Names'
                 x == blocks'[n].id
      <4>1. /\ f \in Seq(JmpBufs) /\ S \in SUBSET Nat /\ x \in JmpBufs /\ InOrder(f, S, name)
            /\ \A i \in S : i < n /\ name[n] = x
        BY <2>2, <3>2, <3>3, <3>4
      <4>2. name[n] = x
        BY <3>4
      <4> HIDE DEF f, S, name, x
      <4>3. InOrder(Append(f, x), S \cup {n}, name)
        BY <4>1, <4>2, InOrderAppend, Zenon
      <4> QED BY <4>3 DEF f, S, name, x
    <3>6. Below(JumpPoints(c)', n + 1) = Below(JumpPoints(c)', n) \cup {n}
      BY <2>3, ReplacedFacts, Zenon
    <3> QED BY <3>1, <3>5, <3>6, Zenon
  <2>4. CASE ~(blocks'[n].kind # "with" /\ blocks'[n].ctx = c)
    <3>1. Jmps(ctx'[c]) = Jmps(ctx[c])
      BY <2>4 DEF Jmps
    <3>2. Below(JumpPoints(c)', n + 1) = Below(JumpPoints(c)', n)
      BY <2>4, ReplacedFacts, Zenon
    <3> QED BY <2>2, <3>1, <3>2
  <2> QED BY <2>3, <2>4
<1>2. FramedIn(ctx, n + 1)'
  BY <1>1 DEF FramedIn
<1> QED BY <1>2 DEF Framed, FramedIn

\* Every frame is that of an open block on its context, and each of another block.
LEMMA FrameOf ==
  ASSUME TypeOK, NEW n \in Nat, FramedIn(ctx, n), NEW c \in Ctxs, NEW k \in DOMAIN ctx[c].frames
  PROVE  \E i \in DOMAIN blocks :
           /\ i < n /\ blocks[i].kind # "with" /\ blocks[i].ctx = c
           /\ ctx[c].frames[k].jmp = blocks[i].id
           /\ \A l \in DOMAIN ctx[c].frames : l < k =>
                \E j \in DOMAIN blocks : j < i /\ ctx[c].frames[l].jmp = blocks[j].id
<1>1. ctx[c] \in Context
  BY DEF TypeOK
<1>2. /\ DOMAIN Jmps(ctx[c]) = DOMAIN ctx[c].frames
      /\ \A l \in DOMAIN ctx[c].frames : Jmps(ctx[c])[l] = ctx[c].frames[l].jmp
  BY DEF Jmps
<1>3. InOrder(Jmps(ctx[c]), Below(JumpPoints(c), n), Names)
  BY DEF FramedIn
<1>4. PICK at \in [DOMAIN Jmps(ctx[c]) -> Below(JumpPoints(c), n)] :
        /\ \A l, m \in DOMAIN Jmps(ctx[c]) : l < m => at[l] < at[m]
        /\ \A l \in DOMAIN Jmps(ctx[c]) : Jmps(ctx[c])[l] = Names[at[l]]
  BY <1>3 DEF InOrder
<1>5. \A l \in DOMAIN ctx[c].frames :
        /\ at[l] \in DOMAIN blocks /\ at[l] < n /\ blocks[at[l]].kind # "with" /\ blocks[at[l]].ctx = c
        /\ ctx[c].frames[l].jmp = blocks[at[l]].id
  <2> TAKE l \in DOMAIN ctx[c].frames
  <2>1. at[l] \in Below(JumpPoints(c), n)
    BY <1>2, <1>4
  <2>2. at[l] \in DOMAIN blocks /\ at[l] < n /\ blocks[at[l]].kind # "with" /\ blocks[at[l]].ctx = c
    BY <2>1 DEF Below, JumpPoints
  <2> QED BY <1>2, <1>4, <2>2, Zenon DEF Names
<1>6. \A l \in DOMAIN ctx[c].frames : l < k => at[l] < at[k]
  BY <1>2, <1>4
<1> QED BY <1>5, <1>6

-----------------------------------------------------------------------------
(* Steps that begin a block *)

\* d is c with one frame more, which goes to id.
Entered(d, c, id) == /\ d \in Context /\ HasFrame(d)
                     /\ Len(d.frames) = Len(c.frames) + 1
                     /\ \A k \in 1 .. Len(c.frames) : d.frames[k] = c.frames[k]
                     /\ CurrentFrame(d).jmp = id

LEMMA EnteredFacts ==
  ASSUME NEW c \in Context, NEW d, NEW id, Entered(d, c, id)
  PROVE  /\ SameJmps(d.frames, c.frames, Len(c.frames))
         /\ \A k \in DOMAIN d.frames : k \in DOMAIN c.frames \/ k = Len(c.frames) + 1
         /\ \A k \in DOMAIN c.frames : d.frames[k] = c.frames[k]
         /\ CurrentFrame(d) = d.frames[Len(c.frames) + 1]
         /\ CurrentFrame(d).reason = DONT => Kept(d, c)
<1>1. /\ Len(c.frames) \in Nat /\ DOMAIN c.frames = 1 .. Len(c.frames)
      /\ DOMAIN d.frames = 1 .. Len(c.frames) + 1
  BY JmpsFacts DEF Entered
<1>2. SameJmps(d.frames, c.frames, Len(c.frames))
  BY DEF Entered, SameJmps
<1>3. \A k \in DOMAIN d.frames : k \in DOMAIN c.frames \/ k = Len(c.frames) + 1
  BY <1>1
<1>4. \A k \in DOMAIN c.frames : d.frames[k] = c.frames[k]
  BY <1>1 DEF Entered
<1>5. CurrentFrame(d) = d.frames[Len(c.frames) + 1]
  BY DEF Entered, CurrentFrame, Last
<1> QED BY <1>2, <1>3, <1>4, <1>5 DEF Kept

\* Replacing one context.
LEMMA OneContext ==
  ASSUME NEW x \in [Ctxs -> Context], NEW c \in Ctxs, NEW d
  PROVE  /\ [x EXCEPT ![c] = d][c] = d
         /\ \A e \in Ctxs : e # c => [x EXCEPT ![c] = d][e] = x[e]
         /\ d \in Context => [x EXCEPT ![c] = d] \in [Ctxs -> Context]
OBVIOUS

LEMMA KeptSame ==
  ASSUME NEW c, NEW d, d.frames = c.frames
  PROVE  Kept(d, c)
BY DEF Kept

LEMMA PushStep ==
  ASSUME IInv, jump = NoJump, jump' = NoJump, live' = live, ub' = ub,
         NEW b \in Block, Pushed(b), b.phase = "body" /\ b.var = NoExc,
         \A i \in DOMAIN blocks : blocks[i].id # b.id,
         \A c \in Ctxs : \A k \in DOMAIN ctx[c].frames : ctx[c].frames[k].jmp # b.id,
         Depth > 0 /\ Top.phase # "body" => Top.phase = "finally" /\ b.kind = "relay",
         IF Scoped(b) THEN b.scope = b.id /\ scope' = [scope EXCEPT ![b.id] = NewScope]
         ELSE /\ Depth > 0 /\ b.scope = Top.scope /\ scope' = scope
              /\ b.kind = "capture" => scope[b.scope].valid,
         b.ctx \notin Used \/ (Depth > 0 /\ b.ctx = Top.ctx),
         b.kind = "relay" =>
           /\ b.ctx \notin Used \cup {b.to}
           /\ b.to \notin Used \/ (Depth > 0 /\ b.to = Top.ctx)
           /\ ~Passes(Depth)
           /\ b.toScope # NoScope =>
                /\ Depth > 0 /\ b.toScope = Top.scope /\ scope[b.toScope].captured = << >>
                /\ \A i \in DOMAIN blocks :
                     blocks[i].scope = b.toScope => blocks[i].kind \in {"with", "try"},
         IF b.kind = "with" THEN ctx' = ctx
         ELSE \E d : /\ ctx' = [ctx EXCEPT ![b.ctx] = d]
                     /\ Entered(d, ctx[b.ctx], b.id) /\ CurrentFrame(d).reason = DONT
  PROVE  IInv'
<1> TypeOK /\ ~ub /\ Shape /\ Phases /\ Framed /\ Unwinding /\ Waiting
  BY DEF IInv
<1>0. b.id \in JmpBufs /\ b.ctx \in Ctxs
  BY FieldFacts
<1>1. /\ blocks' \in Seq(Block) /\ Depth' = Depth + 1 /\ Depth + 1 \in Nat
      /\ DOMAIN blocks' = DOMAIN blocks \cup {Depth + 1} /\ blocks'[Depth + 1] = b
      /\ DOMAIN blocks' = 1 .. Depth + 1
      /\ \A i \in DOMAIN blocks : i < Depth + 1 /\ blocks'[i] = blocks[i]
  BY PushFacts, Zenon
<1>2. scope' \in [JmpBufs -> Scope] /\ \A s \in JmpBufs : s # b.id => scope'[s] = scope[s]
  <2>1. NewScope \in Scope
    <3>1. << >> \in Seq(Exc)
      BY EmptySeq
    <3> QED BY <3>1 DEF NewScope, Scope
  <2>2. scope \in [JmpBufs -> Scope]
    BY DEF TypeOK
  <2> QED BY <1>0, <2>1, <2>2
<1>3. Scoped(b) => scope'[b.id] = NewScope
  BY <1>0 DEF TypeOK
<1>4. /\ ctx' \in [Ctxs -> Context]
      /\ \A c \in Ctxs : IF b.kind # "with" /\ b.ctx = c
                         THEN Entered(ctx'[c], ctx[c], b.id) /\ CurrentFrame(ctx'[c]).reason = DONT
                         ELSE ctx'[c] = ctx[c]
  <2>1. ctx \in [Ctxs -> Context]
    BY DEF TypeOK
  <2>2. CASE b.kind = "with"
    BY <2>1, <2>2
  <2>3. CASE b.kind # "with"
    <3>1. PICK d : /\ ctx' = [ctx EXCEPT ![b.ctx] = d]
                   /\ Entered(d, ctx[b.ctx], b.id) /\ CurrentFrame(d).reason = DONT
      BY <2>3
    <3>2. d \in Context
      BY <3>1 DEF Entered
    <3> QED BY <1>0, <2>1, <3>1, <3>2, OneContext
  <2> QED BY <2>2, <2>3
<1>5. TypeOK'
  BY <1>1, <1>2, <1>4 DEF TypeOK
<1>6. Shape'
  BY PushKeepsShape
<1>7. Phases'
  BY PushKeepsPhases
<1>8. \A c \in Ctxs : Kept(ctx'[c], ctx[c])
  <2> TAKE c \in Ctxs
  <2>1. ctx[c] \in Context
    BY DEF TypeOK
  <2> QED BY <1>4, <2>1, EnteredFacts, KeptSame
<1>9. Unwinding'
  BY <1>2, <1>8, PushUnwinding
<1>10. Waiting'
  <2>1. IF Scoped(b) THEN scope'[b.id] = NewScope /\ b.scope = b.id
        ELSE scope' = scope /\ (b.kind = "capture" => scope[b.scope].valid)
    BY <1>3
  <2> QED BY <1>2, <2>1, PushWaiting
<1>11. Framed'
  <2> DEFINE n == Depth + 1
  <2>1. Replaced(n)
    <3>1. \A i \in DOMAIN blocks' : i \in Nat
      BY <1>1
    <3>2. \A i \in DOMAIN blocks' : i < n => i \in DOMAIN blocks
      BY <1>1
    <3> QED BY <1>1, <3>1, <3>2 DEF Replaced, Same
  <2>2. FramedIn(ctx, n)
    BY DEF Framed
  <2>3. \A c \in Ctxs :
          IF blocks'[n].kind # "with" /\ blocks'[n].ctx = c
          THEN /\ Len(ctx'[c].frames) = Len(ctx[c].frames) + 1
               /\ SameJmps(ctx'[c].frames, ctx[c].frames, Len(ctx[c].frames))
               /\ CurrentFrame(ctx'[c]).jmp = blocks'[n].id
          ELSE ctx'[c].frames = ctx[c].frames
    <3> TAKE c \in Ctxs
    <3>1. ctx[c] \in Context
      BY DEF TypeOK
    <3> QED BY <1>1, <1>4, <3>1, EnteredFacts DEF Entered
  <2>4. n \in Nat /\ Depth' = n /\ blocks'[n].id \in JmpBufs
    BY <1>0, <1>1
  <2> HIDE DEF n
  <2> QED BY <1>4, <2>1, <2>2, <2>3, <2>4, FramedEnter
<1> QED BY <1>5, <1>6, <1>7, <1>9, <1>10, <1>11 DEF IInv

LEMMA NewBlockFacts ==
  ASSUME NEW kind \in {"with", "relay", "try", "capture"}, NEW id \in JmpBufs, NEW s \in JmpBufs,
         NEW c \in Ctxs, NEW to \in Ctxs, NEW toScope \in JmpBufs \cup {NoScope}
  PROVE  LET b == NewBlock(kind, id, s, c, to, toScope)
         IN  /\ b \in Block
             /\ b.kind = kind /\ b.id = id /\ b.phase = "body" /\ b.var = NoExc
             /\ b.scope = s /\ b.ctx = c /\ b.to = to /\ b.toScope = toScope
BY DEF NewBlock, Block

LEMMA PushedFrameEnters ==
  ASSUME NEW c \in Context, NEW id \in JmpBufs
  PROVE  LET d == PushFrame(c, id, DONT, FALSE, FALSE)
         IN  Entered(d, c, id) /\ CurrentFrame(d).reason = DONT /\ d.exceptions = c.exceptions
<1> DEFINE d == PushFrame(c, id, DONT, FALSE, FALSE)
<1>1. DONT \in JumpReason /\ FALSE \in BOOLEAN
  BY DEF JumpReason
<1>2. /\ d \in Context /\ HasFrame(d) /\ d.exceptions = c.exceptions
      /\ CurrentFrame(d) = NewFrame(id, DONT, FALSE, FALSE)
      /\ Len(d.frames) = Len(c.frames) + 1
      /\ \A i \in 1 .. Len(c.frames) : d.frames[i] = c.frames[i]
  BY <1>1, PushFrameFacts, Zenon
<1> HIDE DEF d
<1>3. CurrentFrame(d).jmp = id /\ CurrentFrame(d).reason = DONT
  BY <1>2 DEF NewFrame
<1>4. Entered(d, c, id)
  BY <1>2, <1>3, Zenon DEF Entered
<1> QED BY <1>2, <1>3, <1>4, Zenon DEF d

LEMMA TryEnters ==
  ASSUME NEW c \in Context, NEW id \in JmpBufs, NEW reason \in JumpReason
  PROVE  LET d == Try(c, id, reason)
         IN  /\ Entered(d, c, id)
             /\ CurrentFrame(d).reason = IF reason = DONT THEN DONT ELSE THROW
<1> DEFINE d == Try(c, id, reason)
<1>1. /\ d \in Context /\ HasFrame(d)
      /\ Len(d.frames) = Len(c.frames) + 1
      /\ \A i \in 1 .. Len(c.frames) : d.frames[i] = c.frames[i]
      /\ CurrentFrame(d) = TryFrame(id, reason)
  BY TryFacts
<1>2. TryFrame(id, reason).jmp = id /\ TryFrame(id, reason).reason = IF reason = DONT THEN DONT ELSE THROW
  BY DEF TryFrame, NewFrame, JumpReason, DONT, THROW, RETHROW
<1> HIDE DEF d
<1>3. Entered(d, c, id)
  BY <1>1, <1>2 DEF Entered
<1> QED BY <1>1, <1>2, <1>3 DEF d

LEMMA MayPassFacts ==
  ASSUME Proper, TypeOK, MayPass
  PROVE  ~Passes(Depth)
<1>1. "captureThenThrow" \notin Usage
  BY DEF Proper
<1>2. ~PassesCaptured
  BY <1>1 DEF MayPass
<1> SUFFICES ASSUME NEW i \in DOMAIN blocks,
                    \A j \in DOMAIN blocks : i < j /\ j <= Depth => blocks[j].kind # "capture"
             PROVE  \A j \in i + 1 .. Depth : blocks[j].kind # "capture"
  BY <1>2 DEF PassesCaptured, Passes
<1>3. \A j \in i + 1 .. Depth : j \in DOMAIN blocks /\ i < j /\ j <= Depth
  BY BlockFacts
<1> QED BY <1>3

LEMMA RunningFacts ==
  ASSUME Running
  PROVE  ~ub /\ jump = NoJump
BY DEF Running

LEMMA MayUseFacts ==
  ASSUME Proper, NEW c, MayUse(c)
  PROVE  c \notin Used \/ (Depth > 0 /\ c = Top.ctx)
BY DEF Proper, MayUse

LEMMA MayRelayFacts ==
  ASSUME Proper, MayRelay
  PROVE  /\ Running /\ Depth > 0
         /\ Top.phase # "body" => Top.phase = "finally"
BY DEF Proper, MayRelay, InBody, In

LEMMA OpenWithKeeps ==
  ASSUME Proper, IInv, NEW id \in JmpBufs, NEW c \in Ctxs, OpenWith(id, c)
  PROVE  IInv'
<1> DEFINE b == NewBlock("with", id, id, c, c, NoScope)
<1>1. b \in Block /\ b.kind = "with" /\ b.id = id /\ b.phase = "body" /\ b.var = NoExc
      /\ b.scope = id /\ b.ctx = c
  BY NewBlockFacts
<1>2. Scoped(b) /\ b.kind # "relay"
  BY <1>1 DEF Scoped
<1>3. jump = NoJump /\ Unused(id) /\ (Depth > 0 => Top.phase = "body")
  BY RunningFacts DEF OpenWith
<1>4. c \notin Used \/ (Depth > 0 /\ c = Top.ctx)
  BY MayUseFacts DEF OpenWith
<1>5. Pushed(b) /\ scope' = [scope EXCEPT ![id] = NewScope] /\ ctx' = ctx
      /\ jump' = jump /\ live' = live /\ ub' = ub
  BY DEF OpenWith, Pushed
<1> HIDE DEF b
<1>6. /\ \A i \in DOMAIN blocks : blocks[i].id # b.id
      /\ \A d \in Ctxs : \A k \in DOMAIN ctx[d].frames : ctx[d].frames[k].jmp # b.id
  BY <1>1, <1>3 DEF Unused
<1> QED BY <1>1, <1>2, <1>3, <1>4, <1>5, <1>6, PushStep, Zenon

LEMMA BeginRelayKeeps ==
  ASSUME Proper, IInv, NEW id \in JmpBufs, NEW c \in Ctxs, NEW to \in Ctxs,
         NEW toScope \in JmpBufs \cup {NoScope}, jump = NoJump,
         Depth > 0 /\ Top.phase # "body" => Top.phase = "finally",
         to \notin Used \/ (Depth > 0 /\ to = Top.ctx),
         toScope # NoScope =>
                /\ Depth > 0 /\ toScope = Top.scope /\ scope[toScope].captured = << >>
                /\ \A i \in DOMAIN blocks :
                     blocks[i].scope = toScope => blocks[i].kind \in {"with", "try"},
         BeginRelay(id, c, to, toScope)
  PROVE  IInv'
<1> DEFINE b == NewBlock("relay", id, id, c, to, toScope)
           d == PushFrame(ctx[c], id, DONT, FALSE, FALSE)
<1>1. b \in Block /\ b.kind = "relay" /\ b.id = id /\ b.phase = "body" /\ b.var = NoExc
      /\ b.scope = id /\ b.ctx = c /\ b.to = to /\ b.toScope = toScope
  BY NewBlockFacts
<1>2. Scoped(b)
  BY <1>1 DEF Scoped
<1>3. Unused(id) /\ c \notin Used \cup {to}
  BY DEF BeginRelay, Proper
<1>4. ~Passes(Depth)
  BY MayPassFacts DEF BeginRelay, IInv
<1>5. Entered(d, ctx[c], id) /\ CurrentFrame(d).reason = DONT
  <2>1. ctx[c] \in Context
    BY DEF IInv, TypeOK
  <2> QED BY <2>1, PushedFrameEnters, Zenon
<1>6. Pushed(b) /\ scope' = [scope EXCEPT ![id] = NewScope] /\ ctx' = [ctx EXCEPT ![c] = d]
      /\ jump' = jump /\ live' = live /\ ub' = ub
  BY DEF BeginRelay, Pushed
<1> HIDE DEF b, d
<1>7. /\ \A i \in DOMAIN blocks : blocks[i].id # b.id
      /\ \A e \in Ctxs : \A k \in DOMAIN ctx[e].frames : ctx[e].frames[k].jmp # b.id
  BY <1>1, <1>3 DEF Unused
<1>8. b.kind # "with" /\ \E x : /\ ctx' = [ctx EXCEPT ![b.ctx] = x]
              /\ Entered(x, ctx[b.ctx], b.id) /\ CurrentFrame(x).reason = DONT
  BY <1>1, <1>5, <1>6, Zenon
<1> QED BY <1>1, <1>2, <1>3, <1>4, <1>6, <1>7, <1>8, PushStep, Zenon

LEMMA OpenRelayKeeps ==
  ASSUME Proper, IInv, NEW id \in JmpBufs, NEW c \in Ctxs, OpenRelay(id, c)
  PROVE  IInv'
<1>1. jump = NoJump /\ Depth > 0 /\ (Top.phase # "body" => Top.phase = "finally")
  BY MayRelayFacts, RunningFacts DEF OpenRelay
<1>2. /\ scope[Top.scope].captured = << >>
      /\ \A i \in DOMAIN blocks : blocks[i].scope = Top.scope => blocks[i].kind \in {"with", "try"}
  BY DEF OpenRelay, Expendable, Proper
<1>3. Top.ctx \in Ctxs /\ Top.scope \in JmpBufs
  BY <1>1, TopFacts, FieldFacts DEF IInv
<1>4. BeginRelay(id, c, Top.ctx, Top.scope)
  BY DEF OpenRelay
<1> QED BY <1>1, <1>2, <1>3, <1>4, BeginRelayKeeps

LEMMA OpenRelayToKeeps ==
  ASSUME Proper, IInv, NEW id \in JmpBufs, NEW c \in Ctxs, NEW to \in Ctxs, OpenRelayTo(id, c, to)
  PROVE  IInv'
<1>1. jump = NoJump
  BY RunningFacts DEF OpenRelayTo
<1>2. Depth > 0 /\ Top.phase # "body" => Top.phase = "finally"
  BY MayRelayFacts DEF OpenRelayTo
<1>3. to \notin Used \/ (Depth > 0 /\ to = Top.ctx)
  BY MayUseFacts DEF OpenRelayTo
<1>4. BeginRelay(id, c, to, NoScope)
  BY DEF OpenRelayTo
<1> QED BY <1>1, <1>2, <1>3, <1>4, BeginRelayKeeps

\* A try and a capture are in the scope and on the context of the block around them.
LEMMA OpenInKeeps ==
  ASSUME Proper, IInv, NEW kind \in {"try", "capture"}, NEW id \in JmpBufs, NEW d, InBody,
         Entered(d, ctx[Top.ctx], id), CurrentFrame(d).reason = DONT,
         kind = "capture" => scope[Top.scope].valid,
         OpenIn(kind, id, d)
  PROVE  IInv'
<1> DEFINE b == NewBlock(kind, id, Top.scope, Top.ctx, Top.ctx, NoScope)
<1>1. jump = NoJump /\ Depth > 0 /\ Top.phase = "body"
  BY RunningFacts DEF InBody
<1>2. Top.ctx \in Ctxs /\ Top.scope \in JmpBufs
  BY <1>1, TopFacts, FieldFacts DEF IInv
<1>3. b \in Block /\ b.kind = kind /\ b.id = id /\ b.phase = "body" /\ b.var = NoExc
      /\ b.scope = Top.scope /\ b.ctx = Top.ctx
  BY <1>2, NewBlockFacts
<1>4. ~Scoped(b) /\ b.kind # "relay" /\ b.kind # "with"
  BY <1>3 DEF Scoped
<1>5. Pushed(b) /\ scope' = scope /\ ctx' = [ctx EXCEPT ![Top.ctx] = d] /\ Unused(id)
      /\ jump' = jump /\ live' = live /\ ub' = ub
  BY DEF OpenIn, Pushed
<1> HIDE DEF b
<1>6. /\ \A i \in DOMAIN blocks : blocks[i].id # b.id
      /\ \A e \in Ctxs : \A k \in DOMAIN ctx[e].frames : ctx[e].frames[k].jmp # b.id
  BY <1>3, <1>5 DEF Unused
<1>7. \E x : /\ ctx' = [ctx EXCEPT ![b.ctx] = x]
             /\ Entered(x, ctx[b.ctx], b.id) /\ CurrentFrame(x).reason = DONT
  BY <1>3, <1>5, Zenon
<1> QED BY <1>1, <1>3, <1>4, <1>5, <1>6, <1>7, PushStep, Zenon

LEMMA OpenTryKeeps ==
  ASSUME Proper, IInv, NEW id \in JmpBufs, OpenTry(id)
  PROVE  IInv'
<1> DEFINE d == Try(ctx[Top.ctx], id, DONT)
<1>1. InBody /\ OpenIn("try", id, d)
  BY DEF OpenTry
<1>2. ctx[Top.ctx] \in Context /\ DONT \in JumpReason
  BY <1>1, TopFacts, FieldFacts DEF IInv, InBody, TypeOK, JumpReason
<1>3. Entered(d, ctx[Top.ctx], id) /\ CurrentFrame(d).reason = DONT
  BY <1>2, TryEnters
<1> HIDE DEF d
<1> QED BY <1>1, <1>3, OpenInKeeps

LEMMA OpenCaptureKeeps ==
  ASSUME Proper, IInv, NEW id \in JmpBufs, OpenCapture(id)
  PROVE  IInv'
<1> DEFINE d == PushFrame(ctx[Top.ctx], id, DONT, FALSE, FALSE)
<1>1. InBody /\ OpenIn("capture", id, d) /\ scope[Top.scope].valid
  BY Zenon DEF OpenCapture, Proper
<1>2. ctx[Top.ctx] \in Context
  BY <1>1, TopFacts, FieldFacts DEF IInv, InBody, TypeOK
<1>3. Entered(d, ctx[Top.ctx], id) /\ CurrentFrame(d).reason = DONT
  BY <1>2, PushedFrameEnters, Zenon
<1> HIDE DEF d
<1> QED BY <1>1, <1>3, OpenInKeeps

-----------------------------------------------------------------------------
(* Steps that end a block or stay in it *)

\* Block b may be the innermost one, with j the jump under way.
Innermost(b, j) == /\ b.phase # "body" => b.kind = "try"
                   /\ b.phase # "catch" => b.var = NoExc
                   /\ b.phase = "catch" => j = NoJump /\ b.var # NoExc

LEMMA CutStep ==
  ASSUME IInv, TypeOK', ub' = ub, NEW n \in 0 .. Depth, CutTo(n), Quiet, Framed',
         n > 0 => Innermost(blocks'[n], jump') /\ blocks'[n].phase \in {blocks[n].phase, "finally"},
         \A c \in Ctxs : Kept(ctx'[c], ctx[c]),
         \A i \in DOMAIN blocks : n < i /\ Scoped(blocks[i]) => scope'[blocks[i].id].captured = << >>,
         \A i \in 1 .. n : blocks[i].kind \in {"relay", "capture"}
            => scope'[blocks[i].scope].valid = scope[blocks[i].scope].valid,
         jump' # NoJump => ~Passes(n)
  PROVE  IInv'
<1> TypeOK /\ ~ub /\ Shape /\ Phases /\ Framed /\ Unwinding /\ Waiting /\ Distinct
  BY DEF IInv, Shape
<1>1. Shape'
  BY CutKeepsShape
<1>2. Phases'
  BY CutKeepsPhases DEF Innermost
<1>3. Unwinding'
  BY QuietUnwinding
<1>4. \A i \in 1 .. n : blocks[i].kind \in {"relay", "capture"} => scope'[blocks[i].scope].valid
  <2>1. 1 .. n \subseteq DOMAIN blocks
    BY CutFacts
  <2> QED BY <2>1 DEF Waiting
<1>5. Waiting'
  BY <1>4, QuietWaiting
<1> QED BY <1>1, <1>2, <1>3, <1>5 DEF IInv

\* A block that stays as it was may be innermost, unless a handler has run in it.
LEMMA StaysInnermost ==
  ASSUME IInv, NEW n \in 0 .. Depth, n > 0, blocks'[n] = blocks[n],
         n < Depth \/ blocks[n].phase # "catch"
  PROVE  Innermost(blocks'[n], jump') /\ blocks'[n].phase \in {blocks[n].phase, "finally"}
<1> TypeOK /\ Phases
  BY DEF IInv
<1>1. n \in DOMAIN blocks /\ n \in Nat /\ Depth \in Nat
  BY BlockFacts
<1>2. /\ blocks[n].phase # "body" => blocks[n].kind = "try"
      /\ blocks[n].phase # "catch" => blocks[n].var = NoExc
      /\ blocks[n].phase = "catch" => n = Depth
  BY <1>1 DEF Phases
<1>3. blocks[n].phase # "catch"
  BY <1>1, <1>2
<1> QED BY <1>2, <1>3 DEF Innermost

\* After c a jump goes on to its last frame, or there is none and the program goes on.
GoesOn(c, r) ==
  /\ r \in JumpResult
  /\ ~HasFrame(c) => r.to = NoJmp /\ r.ctx.frames = c.frames
  /\ HasFrame(c) => /\ LandsAt(c, r, Len(c.frames))
                    /\ \A k \in 1 .. Len(c.frames) - 1 : r.ctx.frames[k] = c.frames[k]

LEMMA GoesOnFacts ==
  ASSUME NEW c \in Context, NEW r, GoesOn(c, r)
  PROVE  /\ r.ctx \in Context
         /\ Jumping(r) \in [to : JmpBufs \cup {NoJmp}, why : JumpReason]
         /\ Jumping(r) # NoJump => r.to # NoJmp
         /\ Kept(r.ctx, c)
<1>1. r \in JumpResult /\ r.ctx \in Context
  BY DEF GoesOn, JumpResult
<1>2. Jumping(r) \in [to : JmpBufs \cup {NoJmp}, why : JumpReason]
  <2>1. r.to \in JmpBufs \cup {NoJmp} /\ r.why \in JumpReason /\ DONT \in JumpReason
    BY <1>1 DEF JumpResult, JumpReason
  <2> QED BY <2>1 DEF Jumping, NoJump
<1>3. Kept(r.ctx, c)
  <2>1. CASE ~HasFrame(c)
    BY <2>1, KeptSame DEF GoesOn
  <2>2. CASE HasFrame(c)
    <3>1. /\ Len(r.ctx.frames) = Len(c.frames) - 1
          /\ \A k \in 1 .. Len(c.frames) - 1 : r.ctx.frames[k] = c.frames[k]
      BY <2>2 DEF GoesOn, LandsAt
    <3>2. /\ DOMAIN r.ctx.frames = 1 .. Len(r.ctx.frames) /\ DOMAIN c.frames = 1 .. Len(c.frames)
          /\ Len(c.frames) \in Nat
      BY <1>1, JmpsFacts
    <3>3. \A k \in DOMAIN r.ctx.frames : k \in DOMAIN c.frames /\ r.ctx.frames[k] = c.frames[k]
      BY <3>1, <3>2
    <3> QED BY <3>3 DEF Kept
  <2> QED BY <2>1, <2>2
<1> QED BY <1>1, <1>2, <1>3 DEF Jumping

LEMMA JumpBecauseGoesOn ==
  ASSUME NEW c \in Context, NEW reason \in JumpReason, reason # DONT
  PROVE  GoesOn(c, JumpBecause(c, reason)) /\ JumpBecause(c, reason).ctx.exceptions = c.exceptions
BY JumpBecauseFacts DEF GoesOn

LEMMA JumpThrowingGoesOn ==
  ASSUME NEW c \in Context
  PROVE  GoesOn(c, JumpThrowing(c)) /\ JumpThrowing(c).ctx.exceptions = c.exceptions
<1> DEFINE reason == IF IsRethrowing(c) THEN RETHROW ELSE THROW
<1>1. reason \in JumpReason /\ reason # DONT
  BY DEF JumpReason, DONT, THROW, RETHROW
<1>2. JumpThrowing(c) = JumpBecause(c, reason)
  BY DEF JumpThrowing
<1> HIDE DEF reason
<1> QED BY <1>1, <1>2, JumpBecauseGoesOn

LEMMA ThrowGoesOn ==
  ASSUME NEW c \in Context, NEW e \in Exc
  PROVE  GoesOn(c, Throw(c, e)) /\ Throw(c, e).ctx.exceptions = Append(c.exceptions, e)
BY ThrowFacts DEF GoesOn

\* With no jump under way the frames are the jump points of the blocks that stay.
LEMMA FramedStay ==
  ASSUME TypeOK, NEW n \in 0 .. Depth, CutTo(n), jump' = NoJump,
         NEW x, FramedIn(x, n + 1), \A c \in Ctxs : Jmps(ctx'[c]) = Jmps(x[c])
  PROVE  Framed'
<1>1. n \in Nat /\ Depth' = n
  BY CutFacts
<1>2. PICK m \in Nat : m = n + 1
  BY <1>1
<1>3. FramedIn(ctx, m)'
  BY <1>2, FramedCut
<1> QED BY <1>1, <1>2, <1>3 DEF Framed, FramedIn

\* After the end of the blocks above n a jump goes on from context c of x, in which those
\* blocks have no frame left.
LEMMA JumpStep ==
  ASSUME IInv, ub' = ub, live' \subseteq Exc, scope' \in [JmpBufs -> Scope],
         NEW n \in 0 .. Depth, CutTo(n), Quiet,
         n > 0 => blocks'[n] = blocks[n] /\ (n < Depth \/ blocks[n].phase # "catch"),
         NEW x \in [Ctxs -> Context], FramedIn(x, n + 1),
         \A d \in Ctxs : x[d].frames = ctx[d].frames \/ x[d].frames = << >>,
         NEW c \in Ctxs,
         \/ n > 0 /\ c = blocks[n].ctx
         \/ \A i \in DOMAIN blocks : i <= n => blocks[i].ctx # c,
         NEW r, GoesOn(x[c], r), ctx' = [x EXCEPT ![c] = r.ctx], jump' = Jumping(r),
         \A i \in DOMAIN blocks : n < i /\ Scoped(blocks[i]) => scope'[blocks[i].id].captured = << >>,
         \A i \in 1 .. n : blocks[i].kind \in {"relay", "capture"}
            => scope'[blocks[i].scope].valid = scope[blocks[i].scope].valid,
         r.to # NoJmp => ~Passes(n)
  PROVE  IInv'
<1> TypeOK /\ Shape /\ Nested /\ Phases
  BY DEF IInv, Shape
<1>1. x[c] \in Context
  OBVIOUS
<1>2. /\ r.ctx \in Context
      /\ Jumping(r) \in [to : JmpBufs \cup {NoJmp}, why : JumpReason]
      /\ Jumping(r) # NoJump => r.to # NoJmp
      /\ Kept(r.ctx, x[c])
  BY <1>1, GoesOnFacts
<1>3. ctx' \in [Ctxs -> Context] /\ ctx'[c] = r.ctx /\ \A d \in Ctxs : d # c => ctx'[d] = x[d]
  BY <1>2, OneContext
<1>4. TypeOK'
  BY <1>2, <1>3 DEF TypeOK, CutTo
<1>5. Framed'
  <2>1. ~HasFrame(x[c]) => r.to = NoJmp /\ ctx'[c].frames = x[c].frames
    BY <1>3 DEF GoesOn
  <2>2. HasFrame(x[c]) => /\ r.to = x[c].frames[Len(x[c].frames)].jmp /\ r.why # DONT
                          /\ Len(ctx'[c].frames) = Len(x[c].frames) - 1
                          /\ SameJmps(ctx'[c].frames, x[c].frames, Len(x[c].frames) - 1)
    BY <1>3 DEF GoesOn, LandsAt
  <2>3. \A d \in Ctxs : d # c => ctx'[d].frames = x[d].frames
    BY <1>3
  <2> HIDE DEF Nested
  <2> QED BY <1>3, <2>1, <2>2, <2>3, GoOn
<1>6. \A d \in Ctxs : Kept(ctx'[d], ctx[d])
  <2> TAKE d \in Ctxs
  <2>1. DOMAIN << >> = {}
    OBVIOUS
  <2>2. Kept(ctx'[d], x[d])
    BY <1>2, <1>3, KeptSame
  <2> QED BY <2>1, <2>2 DEF Kept
<1>7. n > 0 => Innermost(blocks'[n], jump') /\ blocks'[n].phase \in {blocks[n].phase, "finally"}
  BY StaysInnermost
<1> QED BY <1>2, <1>4, <1>5, <1>6, <1>7, CutStep

\* A with block has no frame.
LEMMA FramedWith ==
  ASSUME TypeOK, NEW m \in Nat, NEW n \in Nat, m <= n, NEW x, FramedIn(x, n),
         \A i \in DOMAIN blocks : m <= i /\ i < n => blocks[i].kind = "with"
  PROVE  FramedIn(x, m)
<1> SUFFICES ASSUME NEW c \in Ctxs PROVE InOrder(Jmps(x[c]), Below(JumpPoints(c), m), Names)
  BY DEF FramedIn
<1>1. InOrder(Jmps(x[c]), Below(JumpPoints(c), n), Names)
  BY DEF FramedIn
<1>2. Below(JumpPoints(c), m) = Below(JumpPoints(c), n)
  <2>1. \A i \in JumpPoints(c) : i < m <=> i < n
    <3> TAKE i \in JumpPoints(c)
    <3>1. i \in DOMAIN blocks /\ i \in Nat /\ blocks[i].kind # "with"
      BY BlockFacts DEF JumpPoints
    <3>2. ~(m <= i /\ i < n)
      BY <3>1
    <3> QED BY <3>1, <3>2
  <2> QED BY <2>1 DEF Below
<1> QED BY <1>1, <1>2

\* The current frame of the current context is that of the innermost block.
LEMMA TopFrame ==
  ASSUME TypeOK, Nested, Depth > 0, Top.kind # "with", FramedIn(ctx, Depth + 1)
  PROVE  /\ Top.ctx \in Ctxs /\ ctx[Top.ctx] \in Context /\ HasFrame(ctx[Top.ctx])
         /\ CurrentFrame(ctx[Top.ctx]).jmp = Top.id
         /\ InOrder(SubSeq(Jmps(ctx[Top.ctx]), 1, Len(ctx[Top.ctx].frames) - 1),
                    Below(JumpPoints(Top.ctx), Depth), Names)
         /\ \A d \in Ctxs : d # Top.ctx =>
              Below(JumpPoints(d), Depth) = Below(JumpPoints(d), Depth + 1)
<1> DEFINE c == Top.ctx
<1>1. Depth \in DOMAIN blocks /\ Top = blocks[Depth] /\ Depth \in Nat /\ c \in Ctxs
  BY TopFacts, FieldFacts, BlockFacts
<1>2. ctx \in [Ctxs -> Context] /\ ctx[c] \in Context
  BY <1>1 DEF TypeOK
<1>3. HasFrame(ctx[c])
  <2>1. Depth \in Below(JumpPoints(c), Depth + 1)
    <3>1. Depth < Depth + 1
      BY <1>1
    <3> QED BY <1>1, <3>1 DEF Below, JumpPoints
  <2>2. InOrder(Jmps(ctx[c]), Below(JumpPoints(c), Depth + 1), Names)
    BY <1>1 DEF FramedIn
  <2>3. Jmps(ctx[c]) \in Seq(JmpBufs)
    BY <1>2, JmpsFacts
  <2>4. Jmps(ctx[c]) # << >>
    BY <2>1, <2>2, <2>3, InOrderEmpty
  <2> QED BY <1>2, <2>4, JmpsFacts
<1> HIDE DEF c
<1>4. PICK t \in 1 .. Depth :
        /\ t \in DOMAIN blocks /\ blocks[t].kind # "with" /\ blocks[t].ctx = c
        /\ Len(ctx[c].frames) \in Nat \ {0}
        /\ ctx[c].frames[Len(ctx[c].frames)].jmp = blocks[t].id
        /\ \A i \in DOMAIN blocks : t < i /\ i <= Depth => blocks[i].kind = "with"
        /\ InOrder(SubSeq(Jmps(ctx[c]), 1, Len(ctx[c].frames) - 1), Below(JumpPoints(c), t), Names)
        /\ \A d \in Ctxs : d # c => Below(JumpPoints(d), t) = Below(JumpPoints(d), Depth + 1)
  <2> HIDE DEF Nested
  <2>1. c = blocks[Depth].ctx
    BY <1>1 DEF c
  <2> QED BY <1>1, <1>2, <1>3, <2>1, LastJumpPoint
<1>5. t = Depth
  BY <1>1, <1>4
<1>6. CurrentFrame(ctx[c]) = ctx[c].frames[Len(ctx[c].frames)]
  BY DEF CurrentFrame, Last
<1> QED BY <1>1, <1>2, <1>3, <1>4, <1>5, <1>6 DEF c

LEMMA FramedPop ==
  ASSUME TypeOK, Nested, Depth > 0, Top.kind # "with", FramedIn(ctx, Depth + 1),
         NEW x, x[Top.ctx] \in Context,
         \A d \in Ctxs : d # Top.ctx => x[d].frames = ctx[d].frames,
         Len(x[Top.ctx].frames) = Len(ctx[Top.ctx].frames) - 1,
         SameJmps(x[Top.ctx].frames, ctx[Top.ctx].frames, Len(ctx[Top.ctx].frames) - 1)
  PROVE  FramedIn(x, Depth)
<1> DEFINE c == Top.ctx
<1>1. /\ c \in Ctxs /\ ctx[c] \in Context /\ HasFrame(ctx[c])
      /\ InOrder(SubSeq(Jmps(ctx[c]), 1, Len(ctx[c].frames) - 1), Below(JumpPoints(c), Depth), Names)
      /\ \A d \in Ctxs : d # c => Below(JumpPoints(d), Depth) = Below(JumpPoints(d), Depth + 1)
  BY TopFrame
<1>2. Jmps(x[c]) = SubSeq(Jmps(ctx[c]), 1, Len(ctx[c].frames) - 1)
  <2>1. Len(ctx[c].frames) \in Nat \ {0}
    BY <1>1, CurrentFrameFacts
  <2>2. Len(x[c].frames) <= Len(ctx[c].frames)
    BY <2>1
  <2> DEFINE a == ctx[c]
             b == x[c]
  <2>3. /\ a \in Context /\ b \in Context /\ Len(b.frames) <= Len(a.frames)
        /\ Len(b.frames) = Len(a.frames) - 1 /\ SameJmps(b.frames, a.frames, Len(b.frames))
    BY <1>1, <2>2
  <2> HIDE DEF a, b
  <2>4. Jmps(b) = SubSeq(Jmps(a), 1, Len(b.frames))
    BY <2>3, JmpsPrefix, Zenon
  <2> QED BY <2>3, <2>4 DEF a, b
<1> SUFFICES ASSUME NEW d \in Ctxs PROVE InOrder(Jmps(x[d]), Below(JumpPoints(d), Depth), Names)
  BY DEF FramedIn
<1>3. CASE d = c
  BY <1>1, <1>2, <1>3, Zenon
<1>4. CASE d # c
  <2>1. Jmps(x[d]) = Jmps(ctx[d])
    BY <1>4 DEF Jmps
  <2> QED BY <1>1, <1>4, <2>1 DEF FramedIn
<1> QED BY <1>3, <1>4

LEMMA DestroyedFacts ==
  ASSUME NEW x \in [JmpBufs -> Scope], NEW S
  PROVE  /\ Destroyed(x, S) \in [JmpBufs -> Scope]
         /\ \A s \in JmpBufs : /\ s \in S => Destroyed(x, S)[s].captured = << >>
                               /\ s \notin S => Destroyed(x, S)[s] = x[s]
                               /\ Destroyed(x, S)[s].captured \in {x[s].captured, << >>}
<1>1. ZeroScope \in Scope /\ ZeroScope.captured = << >>
  <2>1. << >> \in Seq(Exc)
    BY EmptySeq
  <2> QED BY <2>1 DEF ZeroScope, Scope
<1>2. \A s \in JmpBufs : Destroyed(x, S)[s] = IF s \in S THEN ZeroScope ELSE x[s]
  BY DEF Destroyed
<1>3. Destroyed(x, S) \in [JmpBufs -> Scope]
  BY <1>1 DEF Destroyed
<1> QED BY <1>1, <1>2, <1>3

\* The scope of a block that has its own is used by no block below it.
LEMMA OwnScope ==
  ASSUME TypeOK, Scopes, NEW i \in DOMAIN blocks, NEW j \in DOMAIN blocks, i < j, Scoped(blocks[j])
  PROVE  blocks[i].scope # blocks[j].id
<1>1. j <= j
  BY BlockFacts
<1> QED BY <1>1 DEF Scopes

LEMMA ThrowNewKeeps ==
  ASSUME Proper, IInv, ThrowNew
  PROVE  IInv'
<1> TypeOK /\ Framed
  BY DEF IInv
<1> DEFINE c == Top.ctx
<1>1. InBody /\ MayPass /\ jump = NoJump /\ Depth > 0 /\ Top.phase = "body"
  BY RunningFacts DEF ThrowNew, MayThrow, InBody
<1>2. Depth \in DOMAIN blocks /\ Top = blocks[Depth] /\ c \in Ctxs /\ ctx[c] \in Context
  BY <1>1, TopFacts, FieldFacts DEF TypeOK
<1>3. PICK e \in Exc \ live : LET r == Throw(ctx[c], e)
                              IN  /\ ctx' = [ctx EXCEPT ![c] = r.ctx]
                                  /\ jump' = Jumping(r)
                                  /\ live' = live \cup {e}
  BY Zenon DEF ThrowNew
<1> DEFINE r == Throw(ctx[c], e)
<1>4. /\ ctx' = [ctx EXCEPT ![c] = r.ctx] /\ jump' = Jumping(r) /\ live' \subseteq Exc
      /\ blocks' = blocks /\ scope' = scope /\ ub' = ub
  BY <1>3, Zenon DEF ThrowNew, TypeOK
<1>5. GoesOn(ctx[c], r)
  BY <1>2, ThrowGoesOn
<1> HIDE DEF r
<1>6. Depth \in 0 .. Depth /\ CutTo(Depth)
  BY <1>4, SameIsCut
<1>7. Quiet /\ scope' \in [JmpBufs -> Scope]
  BY <1>4 DEF Quiet, TypeOK
<1>8. ctx \in [Ctxs -> Context] /\ FramedIn(ctx, Depth + 1)
  BY <1>1 DEF Framed, TypeOK
<1>9. ~Passes(Depth)
  BY <1>1, MayPassFacts
<1>10. \A i \in DOMAIN blocks : ~(Depth < i)
  BY BlockFacts
<1>11. blocks'[Depth] = blocks[Depth] /\ blocks[Depth].phase # "catch" /\ c = blocks[Depth].ctx
  BY <1>1, <1>2, <1>4
<1> HIDE DEF c
<1> QED BY <1>1, <1>2, <1>4, <1>5, <1>6, <1>7, <1>8, <1>9, <1>10, <1>11, JumpStep, Zenon

\* A block ends, or changes its phase, and no jump is under way.
LEMMA StayStep ==
  ASSUME IInv, jump' = NoJump, ub' = ub, live' \subseteq Exc, scope' \in [JmpBufs -> Scope],
         ctx' \in [Ctxs -> Context],
         NEW n \in 0 .. Depth, CutTo(n), Quiet, FramedIn(ctx', n + 1),
         n > 0 => Innermost(blocks'[n], NoJump) /\ blocks'[n].phase \in {blocks[n].phase, "finally"},
         \A d \in Ctxs : Kept(ctx'[d], ctx[d]),
         \A i \in DOMAIN blocks : n < i /\ Scoped(blocks[i]) => scope'[blocks[i].id].captured = << >>,
         \A i \in 1 .. n : blocks[i].kind \in {"relay", "capture"}
            => scope'[blocks[i].scope].valid = scope[blocks[i].scope].valid
  PROVE  IInv'
<1>1. TypeOK
  BY DEF IInv
<1>2. TypeOK'
  <2>1. NoJump \in [to : JmpBufs \cup {NoJmp}, why : JumpReason]
    BY DEF NoJump, JumpReason
  <2> QED BY <1>1, <2>1 DEF TypeOK, CutTo
<1>3. Framed'
  BY <1>1, FramedStay
<1> QED BY <1>2, <1>3, CutStep

LEMMA ThrowCapturedKeeps ==
  ASSUME Proper, IInv, ThrowCaptured
  PROVE  IInv'
<1> TypeOK /\ Framed
  BY DEF IInv
<1> DEFINE c == Top.ctx
           s == Top.scope
           full == [ctx[c] EXCEPT !.exceptions = @ \o scope[s].captured]
           stay == [ctx |-> full, to |-> NoJmp, why |-> DONT]
           r == IF HasExceptions(full) THEN JumpThrowing(full) ELSE stay
           x == [ctx EXCEPT ![c] = full]
<1>1. InBody /\ MayPass /\ jump = NoJump /\ Depth > 0 /\ Top.phase = "body"
  BY RunningFacts DEF ThrowCaptured, MayThrow, InBody
<1>2. /\ Depth \in DOMAIN blocks /\ Top = blocks[Depth] /\ c \in Ctxs /\ s \in JmpBufs
      /\ ctx \in [Ctxs -> Context] /\ scope \in [JmpBufs -> Scope]
  BY <1>1, TopFacts, FieldFacts DEF TypeOK
<1>3. /\ ctx' = [ctx EXCEPT ![c] = r.ctx] /\ scope' = [scope EXCEPT ![s] = NewScope]
      /\ jump' = Jumping(r) /\ blocks' = blocks /\ live' \subseteq Exc /\ ub' = ub /\ scope[s].valid
  BY DEF ThrowCaptured, Proper, TypeOK
<1>4. full \in Context /\ full.frames = ctx[c].frames
  <2>1. ctx[c] \in Context /\ scope[s].captured \in Seq(Exc)
    BY <1>2 DEF Scope
  <2>2. full = [frames |-> ctx[c].frames, exceptions |-> ctx[c].exceptions \o scope[s].captured]
    BY <2>1, ContextExcept, Zenon
  <2>3. ctx[c].exceptions \o scope[s].captured \in Seq(Exc)
    BY <2>1 DEF Context
  <2> QED BY <2>1, <2>2, <2>3, Zenon DEF Context
<1> HIDE DEF full
<1>5. x \in [Ctxs -> Context] /\ x[c] = full /\ \A d \in Ctxs : x[d].frames = ctx[d].frames
  BY <1>2, <1>4
<1>6. NewScope \in Scope /\ NewScope.captured = << >> /\ NewScope.valid
  <2>1. << >> \in Seq(Exc)
    BY EmptySeq
  <2> QED BY <2>1 DEF NewScope, Scope
<1>7. scope' \in [JmpBufs -> Scope] /\ \A i \in JmpBufs : scope'[i] = IF i = s THEN NewScope ELSE scope[i]
  BY <1>2, <1>3, <1>6
<1>8. Quiet
  BY <1>6, <1>7 DEF Quiet
<1>9. \A i \in 1 .. Depth : blocks[i].kind \in {"relay", "capture"}
            => scope'[blocks[i].scope].valid = scope[blocks[i].scope].valid
  <2>1. \A i \in 1 .. Depth : blocks[i].scope \in JmpBufs
    BY BlockFacts, FieldFacts
  <2>2. scope \in [JmpBufs -> Scope] /\ scope[s].valid \in BOOLEAN
    BY <1>2 DEF Scope
  <2>3. NewScope.valid = scope[s].valid
    BY <1>3, <1>6, <2>2 DEF NewScope
  <2> QED BY <1>7, <2>1, <2>3
<1>10. Depth \in 0 .. Depth /\ CutTo(Depth)
  BY <1>3, SameIsCut
<1>11. ~Passes(Depth)
  BY <1>1, MayPassFacts
<1>12. \A i \in DOMAIN blocks : ~(Depth < i)
  BY BlockFacts
<1>13. blocks'[Depth] = blocks[Depth] /\ blocks[Depth].phase # "catch" /\ c = blocks[Depth].ctx
  BY <1>1, <1>2, <1>3
<1>14. FramedIn(x, Depth + 1)
  BY <1>1, <1>5 DEF Framed, FramedIn, Jmps
<1>15. ctx' = [x EXCEPT ![c] = r.ctx]
  BY <1>2, <1>3, Zenon
<1>16. CASE HasExceptions(full)
  <2>1. GoesOn(x[c], r)
    BY <1>4, <1>5, <1>16, JumpThrowingGoesOn
  <2> HIDE DEF r, x, c, s
  <2> QED BY <1>1, <1>2, <1>3, <1>5, <1>7, <1>8, <1>9, <1>10, <1>11, <1>12, <1>13, <1>14, <1>15, <2>1,
             JumpStep, Zenon
<1>17. CASE ~HasExceptions(full)
  <2>1. r.to = NoJmp /\ r.ctx = full
    BY <1>17
  <2> HIDE DEF r, c, s
  <2>2. jump' = NoJump
    BY <1>3, <2>1 DEF Jumping
  <2>3. ctx' = x
    BY <1>3, <2>1
  <2> HIDE DEF x
  <2>6. \A d \in Ctxs : Kept(ctx'[d], ctx[d])
    BY <1>5, <2>3, KeptSame
  <2>7. Depth > 0 => /\ Innermost(blocks'[Depth], NoJump)
                     /\ blocks'[Depth].phase \in {blocks[Depth].phase, "finally"}
    BY <1>10, <1>13, <2>2, StaysInnermost
  <2> QED BY <1>3, <1>5, <1>7, <1>8, <1>9, <1>10, <1>12, <1>14, <2>2, <2>3, <2>6, <2>7, StayStep, Zenon
<1> QED BY <1>16, <1>17

LEMMA EndWithKeeps ==
  ASSUME IInv, EndWith
  PROVE  IInv'
<1> TypeOK /\ Framed /\ Shape /\ Scopes
  BY DEF IInv, Shape
<1>1. jump = NoJump /\ Depth > 0 /\ Top.kind = "with"
  BY RunningFacts DEF EndWith, In
<1>2. /\ Depth \in DOMAIN blocks /\ Top = blocks[Depth] /\ Top.scope \in JmpBufs /\ Depth \in Nat
      /\ ctx \in [Ctxs -> Context] /\ scope \in [JmpBufs -> Scope]
  BY <1>1, TopFacts, FieldFacts, BlockFacts DEF TypeOK
<1>3. Scoped(Top) /\ Top.scope = Top.id
  BY <1>1, <1>2 DEF Scoped, Scopes
<1> DEFINE n == Depth - 1
           S == {Top.scope}
<1>4. blocks' = Front(blocks) /\ scope' = Destroyed(scope, S) /\ live' \subseteq Exc /\ ctx' = ctx
      /\ jump' = NoJump /\ ub' = ub
  BY <1>1 DEF EndWith, TypeOK
<1>5. n \in 0 .. Depth /\ CutTo(n) /\ \A i \in 1 .. n : blocks'[i] = blocks[i]
  BY <1>1, <1>2, <1>4, FrontIsCut
<1>6. n + 1 = Depth /\ \A i \in DOMAIN blocks : n < i => i = Depth
  BY <1>2, BlockFacts
<1>7. /\ scope' \in [JmpBufs -> Scope]
      /\ \A s \in JmpBufs : /\ s \in S => scope'[s].captured = << >>
                            /\ s \notin S => scope'[s] = scope[s]
                            /\ scope'[s].captured \in {scope[s].captured, << >>}
  BY <1>2, <1>4, DestroyedFacts
<1>8. FramedIn(ctx', n + 1)
  <2>1. FramedIn(ctx, Depth + 1)
    BY <1>1 DEF Framed
  <2>2. \A i \in DOMAIN blocks : Depth <= i /\ i < Depth + 1 => blocks[i].kind = "with"
    <3>1. \A i \in DOMAIN blocks : Depth <= i => i = Depth
      BY BlockFacts
    <3> QED BY <1>1, <1>2, <3>1
  <2>3. PICK m \in Nat : m = Depth + 1
    BY <1>2
  <2>4. Depth <= m
    BY <1>2, <2>3
  <2>5. FramedIn(ctx, Depth)
    BY <1>2, <2>1, <2>2, <2>3, <2>4, FramedWith
  <2> QED BY <1>4, <1>6, <2>5
<1>9. \A i \in 1 .. n : i \in DOMAIN blocks /\ i < Depth /\ i # Depth
  BY <1>2, BlockFacts
<1>10. \A i \in 1 .. n : scope'[blocks[i].scope] = scope[blocks[i].scope]
  <2> TAKE i \in 1 .. n
  <2>1. blocks[i].scope \in JmpBufs /\ blocks[i].scope # Top.scope
    BY <1>2, <1>3, <1>9, OwnScope, BlockFacts, FieldFacts
  <2> QED BY <1>7, <2>1
<1>11. n > 0 => Innermost(blocks'[n], NoJump) /\ blocks'[n].phase \in {blocks[n].phase, "finally"}
  <2>1. n > 0 => blocks'[n] = blocks[n] /\ n < Depth
    BY <1>2, <1>5
  <2> HIDE DEF n
  <2> QED BY <1>4, <1>5, <2>1, StaysInnermost
<1>12. Quiet
  BY <1>7 DEF Quiet
<1>13. \A i \in DOMAIN blocks : n < i /\ Scoped(blocks[i]) => scope'[blocks[i].id].captured = << >>
  BY <1>2, <1>3, <1>6, <1>7
<1>14. \A d \in Ctxs : Kept(ctx'[d], ctx[d])
  BY <1>4, KeptSame
<1> HIDE DEF n, S
<1> QED BY <1>2, <1>4, <1>5, <1>7, <1>8, <1>10, <1>11, <1>12, <1>13, <1>14, StayStep

LEMMA FramedSame ==
  ASSUME NEW n, NEW x, NEW y, FramedIn(x, n), \A d \in Ctxs : Jmps(y[d]) = Jmps(x[d])
  PROVE  FramedIn(y, n)
BY DEF FramedIn

\* The frame of a block that is no finally does not unwind.
LEMMA CalmTop ==
  ASSUME IInv, jump = NoJump, Depth > 0, Top.kind # "with", Top.phase # "finally"
  PROVE  CurrentFrame(ctx[Top.ctx]).reason = DONT
<1> TypeOK /\ Framed /\ Nested /\ Unwinding
  BY DEF IInv, Shape
<1>1. /\ Top.ctx \in Ctxs /\ ctx[Top.ctx] \in Context /\ HasFrame(ctx[Top.ctx])
      /\ CurrentFrame(ctx[Top.ctx]).jmp = Top.id
  <2>1. FramedIn(ctx, Depth + 1)
    BY DEF Framed
  <2> QED BY <2>1, TopFrame
<1>2. Depth \in DOMAIN blocks /\ Top = blocks[Depth]
  BY TopFacts
<1>3. PICK k \in DOMAIN ctx[Top.ctx].frames : CurrentFrame(ctx[Top.ctx]) = ctx[Top.ctx].frames[k]
  <2>1. Len(ctx[Top.ctx].frames) \in DOMAIN ctx[Top.ctx].frames
    BY <1>1, CurrentFrameFacts, JmpsFacts
  <2> QED BY <1>1, <2>1, CurrentFrameFacts
<1> QED BY <1>1, <1>2, <1>3 DEF Unwinding

LEMMA PopKept ==
  ASSUME NEW c \in Context, HasFrame(c), CurrentFrame(c).reason = DONT
  PROVE  Kept(PopFrame(c), c)
<1> DEFINE d == PopFrame(c)
           n == Len(c.frames)
<1>1. /\ d \in Context /\ Len(d.frames) = n - 1
      /\ \A i \in 1 .. n - 2 : d.frames[i] = c.frames[i]
      /\ HasFrame(d) => CurrentFrame(d).reason = DONT
  BY PopFrameFacts
<1>2. n \in Nat \ {0} /\ DOMAIN c.frames = 1 .. n /\ DOMAIN d.frames = 1 .. Len(d.frames)
  BY <1>1, CurrentFrameFacts, JmpsFacts
<1> HIDE DEF d, n
<1>3. \A k \in DOMAIN d.frames : k = n - 1 \/ (k \in 1 .. n - 2 /\ k \in DOMAIN c.frames)
  BY <1>1, <1>2
<1>4. n - 1 \in DOMAIN d.frames => d.frames[n - 1].reason = DONT
  <2> SUFFICES ASSUME n - 1 \in DOMAIN d.frames PROVE d.frames[n - 1].reason = DONT
    OBVIOUS
  <2>1. d.frames # << >>
    BY <1>1, <1>2, EmptySeq
  <2>2. CurrentFrame(d) = d.frames[Len(d.frames)]
    BY DEF CurrentFrame, Last
  <2> QED BY <1>1, <2>1, <2>2 DEF HasFrame
<1>5. Kept(d, c)
  BY <1>1, <1>3, <1>4 DEF Kept
<1> QED BY <1>5 DEF d

LEMMA EndCaptureKeeps ==
  ASSUME IInv, EndCapture
  PROVE  IInv'
<1> TypeOK /\ Framed /\ Nested
  BY DEF IInv, Shape
<1> DEFINE c == Top.ctx
           d == PopFrame(ctx[c])
           n == Depth - 1
<1>1. jump = NoJump /\ Depth > 0 /\ Top.kind = "capture" /\ Top.phase = "body"
  BY RunningFacts DEF EndCapture, In
<1>2. FramedIn(ctx, Depth + 1) /\ ctx \in [Ctxs -> Context] /\ Depth \in Nat
  BY <1>1, BlockFacts DEF Framed, TypeOK
<1>3. c \in Ctxs /\ ctx[c] \in Context /\ HasFrame(ctx[c])
  BY <1>1, <1>2, TopFrame
<1>4. /\ d \in Context /\ Len(d.frames) = Len(ctx[c].frames) - 1
      /\ SameJmps(d.frames, ctx[c].frames, Len(ctx[c].frames) - 1)
  BY <1>3, PopFrameFacts
<1>5. Kept(d, ctx[c])
  BY <1>1, <1>3, CalmTop, PopKept
<1>6. /\ ctx' = [ctx EXCEPT ![c] = d] /\ blocks' = Front(blocks) /\ scope' = scope
      /\ live' \subseteq Exc /\ ub' = ub /\ jump' = NoJump
  BY <1>1 DEF EndCapture, TypeOK
<1> HIDE DEF d
<1>7. ctx' \in [Ctxs -> Context] /\ ctx'[c] = d /\ \A e \in Ctxs : e # c => ctx'[e] = ctx[e]
  BY <1>2, <1>3, <1>4, <1>6, OneContext
<1>8. n \in 0 .. Depth /\ CutTo(n) /\ (n > 0 => blocks'[n] = blocks[n]) /\ n < Depth /\ n + 1 = Depth
  BY <1>1, <1>2, <1>6, FrontIsCut
<1>9. FramedIn(ctx', n + 1)
  <2>1. FramedIn(ctx', Depth)
    <3> DEFINE x == ctx'
    <3>1. x[Top.ctx] = d /\ \A e \in Ctxs : e # Top.ctx => x[e].frames = ctx[e].frames
      BY <1>7
    <3> HIDE DEF x
    <3>2. FramedIn(x, Depth)
      BY <1>1, <1>2, <1>4, <3>1, FramedPop, Zenon
    <3> QED BY <3>2 DEF x
  <2> QED BY <1>8, <2>1
<1>10. n > 0 => Innermost(blocks'[n], NoJump) /\ blocks'[n].phase \in {blocks[n].phase, "finally"}
  <2> HIDE DEF n
  <2> QED BY <1>6, <1>8, StaysInnermost
<1>11. Quiet /\ scope' \in [JmpBufs -> Scope]
  BY <1>6 DEF Quiet, TypeOK
<1>12. \A e \in Ctxs : Kept(ctx'[e], ctx[e])
  BY <1>5, <1>7, KeptSame
<1>13. \A i \in DOMAIN blocks : ~(n < i /\ Scoped(blocks[i]))
  <2>1. \A i \in DOMAIN blocks : n < i => i = Depth
    BY <1>8, BlockFacts
  <2> QED BY <1>1, <2>1, TopFacts DEF Scoped
<1> HIDE DEF n, c
<1> QED BY <1>6, <1>7, <1>8, <1>9, <1>10, <1>11, <1>12, <1>13, StayStep, Zenon

\* Steps in which the innermost block goes on to its finally.
LEMMA ToFinally ==
  ASSUME IInv, jump = NoJump, Depth > 0, Top.kind = "try",
         NEW b \in Block, Same(b, Top), b.phase = "finally", b.var = NoExc, blocks' = WithTop(b),
         jump' = NoJump, ub' = ub, live' \subseteq Exc, scope' = scope,
         ctx' \in [Ctxs -> Context], FramedIn(ctx', Depth + 1), \A e \in Ctxs : Kept(ctx'[e], ctx[e])
  PROVE  IInv'
<1> TypeOK
  BY DEF IInv
<1>1. Depth \in 0 .. Depth /\ CutTo(Depth) /\ blocks'[Depth] = b
  BY WithTopIsCut
<1>2. Innermost(blocks'[Depth], NoJump) /\ blocks'[Depth].phase = "finally"
  BY <1>1 DEF Innermost, Same
<1>3. Quiet /\ scope' \in [JmpBufs -> Scope]
  BY DEF Quiet, TypeOK
<1>4. \A i \in DOMAIN blocks : ~(Depth < i)
  BY BlockFacts
<1> QED BY <1>1, <1>2, <1>3, <1>4, StayStep

LEMMA CatchDoneKeeps ==
  ASSUME IInv, CatchDone
  PROVE  IInv'
<1> TypeOK /\ Framed
  BY DEF IInv
<1> DEFINE b == [Top EXCEPT !.phase = "finally", !.var = NoExc]
<1>1. jump = NoJump /\ Depth > 0 /\ Top.kind = "try"
  BY RunningFacts DEF CatchDone, In
<1>2. Top \in Block
  BY <1>1, TopFacts
<1>3. b \in Block /\ Same(b, Top) /\ b.phase = "finally" /\ b.var = NoExc
  BY <1>2, Zenon DEF Block, Same
<1>4. /\ blocks' = WithTop(b) /\ live' \subseteq Exc /\ ctx' = ctx /\ scope' = scope
      /\ jump' = NoJump /\ ub' = ub
  BY <1>1 DEF CatchDone, TypeOK
<1> HIDE DEF b
<1>5. FramedIn(ctx', Depth + 1) /\ ctx' \in [Ctxs -> Context]
  BY <1>1, <1>4 DEF Framed, TypeOK
<1>6. \A e \in Ctxs : Kept(ctx'[e], ctx[e])
  BY <1>4, KeptSame
<1> QED BY <1>1, <1>3, <1>4, <1>5, <1>6, ToFinally

LEMMA EndBodyKeeps ==
  ASSUME IInv, EndBody
  PROVE  IInv'
<1> TypeOK /\ Framed /\ Nested /\ Phases
  BY DEF IInv, Shape
<1> DEFINE b == [Top EXCEPT !.phase = "finally"]
           c == Top.ctx
           d == StopTrying(ctx[c])
<1>1. jump = NoJump /\ Depth > 0 /\ Top.kind = "try" /\ Top.phase = "body"
  BY RunningFacts DEF EndBody, In
<1>2. Top \in Block /\ Top.var = NoExc
  BY <1>1, TopFacts DEF Phases
<1>3. b \in Block /\ Same(b, Top) /\ b.phase = "finally" /\ b.var = NoExc
  BY <1>2 DEF Block, Same
<1>4. /\ blocks' = WithTop(b) /\ live' \subseteq Exc /\ ctx' = [ctx EXCEPT ![c] = d] /\ scope' = scope
      /\ jump' = NoJump /\ ub' = ub
  BY <1>1 DEF EndBody, TypeOK
<1> HIDE DEF b
<1>5. FramedIn(ctx, Depth + 1) /\ ctx \in [Ctxs -> Context]
  BY <1>1 DEF Framed, TypeOK
<1>6. c \in Ctxs /\ ctx[c] \in Context /\ HasFrame(ctx[c])
  BY <1>1, <1>5, TopFrame
<1>7. /\ d \in Context /\ Len(d.frames) = Len(ctx[c].frames)
      /\ SameJmps(d.frames, ctx[c].frames, Len(ctx[c].frames))
      /\ \A k \in 1 .. Len(ctx[c].frames) - 1 : d.frames[k] = ctx[c].frames[k]
      /\ CurrentFrame(d).reason = CurrentFrame(ctx[c]).reason
  BY <1>6, StopTryingFacts
<1> HIDE DEF d
<1>8. ctx' \in [Ctxs -> Context] /\ ctx'[c] = d /\ \A e \in Ctxs : e # c => ctx'[e] = ctx[e]
  BY <1>4, <1>5, <1>6, <1>7, OneContext
<1>9. FramedIn(ctx', Depth + 1)
  <2>1. Jmps(d) = Jmps(ctx[c])
    <3>1. Len(ctx[c].frames) <= Len(ctx[c].frames)
      BY <1>6, JmpsFacts
    <3> DEFINE a == ctx[c]
    <3>2. /\ a \in Context /\ Len(d.frames) <= Len(a.frames) /\ Len(d.frames) = Len(a.frames)
          /\ SameJmps(d.frames, a.frames, Len(d.frames))
      BY <1>6, <1>7, <3>1
    <3> HIDE DEF a
    <3>3. Jmps(d) = Jmps(a)
      BY <1>7, <3>2, JmpsPrefix
    <3> QED BY <3>3 DEF a
  <2>2. \A e \in Ctxs : Jmps(ctx'[e]) = Jmps(ctx[e])
    BY <1>8, <2>1
  <2> HIDE DEF c
  <2> DEFINE y == ctx'
             m == Depth + 1
  <2> HIDE DEF y, m
  <2>3. FramedIn(y, m)
    BY <1>5, <2>2, FramedSame DEF y, m
  <2> QED BY <2>3 DEF y, m
<1>10. Kept(d, ctx[c])
  <2>1. /\ CurrentFrame(d) = d.frames[Len(d.frames)]
        /\ CurrentFrame(ctx[c]) = ctx[c].frames[Len(ctx[c].frames)]
    BY DEF CurrentFrame, Last
  <2>2. /\ DOMAIN d.frames = 1 .. Len(ctx[c].frames) /\ DOMAIN ctx[c].frames = 1 .. Len(ctx[c].frames)
        /\ Len(ctx[c].frames) \in Nat
    BY <1>6, <1>7, JmpsFacts
  <2> SUFFICES ASSUME NEW k \in DOMAIN d.frames
               PROVE  /\ k \in DOMAIN ctx[c].frames
                      /\ d.frames[k].jmp = ctx[c].frames[k].jmp
                      /\ d.frames[k].reason = ctx[c].frames[k].reason
    BY DEF Kept
  <2>3. CASE k = Len(ctx[c].frames)
    BY <1>7, <2>1, <2>2, <2>3 DEF SameJmps
  <2>4. CASE k # Len(ctx[c].frames)
    <3>1. k \in 1 .. Len(ctx[c].frames) - 1
      BY <2>2, <2>4
    <3> QED BY <1>7, <2>2, <3>1
  <2> QED BY <2>3, <2>4
<1>11. \A e \in Ctxs : Kept(ctx'[e], ctx[e])
  BY <1>8, <1>10, KeptSame
<1> HIDE DEF c
<1> QED BY <1>1, <1>3, <1>4, <1>8, <1>9, <1>11, ToFinally, Zenon

LEMMA CatchHitKeeps ==
  ASSUME IInv, NEW type, CatchHit(type)
  PROVE  IInv'
<1> TypeOK /\ ~ub /\ Framed /\ Shape /\ Distinct /\ Nested /\ Phases /\ Unwinding /\ Waiting
  BY DEF IInv, Shape
<1> DEFINE c == Top.ctx
           r == Catch(ctx[c], type)
           d == r.ctx
           b == [Top EXCEPT !.phase = "catch", !.var = r.caught, !.handled = TRUE]
           n == Depth
<1>1. jump = NoJump /\ Depth > 0 /\ Top.kind = "try"
  BY RunningFacts DEF CatchHit, In
<1>2. FramedIn(ctx, Depth + 1) /\ ctx \in [Ctxs -> Context]
  BY <1>1 DEF Framed, TypeOK
<1>3. c \in Ctxs /\ ctx[c] \in Context /\ HasFrame(ctx[c]) /\ CurrentFrame(ctx[c]).jmp = Top.id
  BY <1>1, <1>2, TopFrame
<1>4. r.caught # NoExc
  BY DEF CatchHit
<1>5. /\ d \in Context /\ r.caught \in Exc \cup {NoExc}
      /\ HasFrame(d) /\ CurrentFrame(d).reason = DONT
      /\ Len(d.frames) = Len(ctx[c].frames)
      /\ \A i \in 1 .. Len(ctx[c].frames) - 1 : d.frames[i] = ctx[c].frames[i]
      /\ SameJmps(d.frames, ctx[c].frames, Len(ctx[c].frames))
  BY <1>3, <1>4, CatchFacts
<1>6. /\ blocks' = WithTop(b) /\ ctx' = [ctx EXCEPT ![c] = d] /\ scope' = scope
      /\ live' = live /\ ub' = ub /\ jump' = NoJump
  BY <1>1 DEF CatchHit
<1>7. Top \in Block /\ n \in DOMAIN blocks /\ Top = blocks[n]
  BY <1>1, TopFacts
<1>8. b \in Block /\ Same(b, Top) /\ b.phase = "catch" /\ b.var # NoExc
  BY <1>4, <1>5, <1>7, Zenon DEF Block, Same
<1> HIDE DEF b, d, r
<1>9. n \in 0 .. Depth /\ CutTo(n) /\ blocks'[n] = b
  BY <1>1, <1>6, <1>8, WithTopIsCut
<1>10. ctx' \in [Ctxs -> Context] /\ ctx'[c] = d /\ \A e \in Ctxs : e # c => ctx'[e] = ctx[e]
  BY <1>2, <1>3, <1>5, <1>6, OneContext
<1>11. TypeOK'
  BY <1>1, <1>6, <1>9, <1>10 DEF TypeOK, CutTo
<1>12. Quiet /\ scope' = scope
  BY <1>6 DEF Quiet
<1>13. Shape'
  BY <1>9, CutKeepsShape
<1>14. Phases'
  BY <1>1, <1>6, <1>8, <1>9, CutKeepsPhases DEF Same
<1>15. Framed'
  <2>1. Jmps(d) = Jmps(ctx[c])
    <3>1. Len(ctx[c].frames) <= Len(ctx[c].frames)
      BY <1>3, JmpsFacts
    <3> DEFINE a == ctx[c]
    <3>2. /\ a \in Context /\ Len(d.frames) <= Len(a.frames) /\ Len(d.frames) = Len(a.frames)
          /\ SameJmps(d.frames, a.frames, Len(d.frames))
      BY <1>3, <1>5, <3>1
    <3> HIDE DEF a
    <3>3. Jmps(d) = Jmps(a)
      BY <1>5, <3>2, JmpsPrefix
    <3> QED BY <3>3 DEF a
  <2>2. \A e \in Ctxs : Jmps(ctx'[e]) = Jmps(ctx[e])
    BY <1>10, <2>1
  <2> HIDE DEF Nested
  <2> QED BY <1>2, <1>6, <1>9, <2>2, FramedStay
<1>16. OldFrames(n)
  <2> SUFFICES ASSUME NEW e \in Ctxs, NEW k \in DOMAIN ctx'[e].frames,
                      ctx'[e].frames[k].reason # DONT
               PROVE  /\ k \in DOMAIN ctx[e].frames
                      /\ ctx'[e].frames[k] = ctx[e].frames[k]
                      /\ ctx[e].frames[k].jmp # blocks[n].id
    BY DEF OldFrames
  <2>1. Depth + 1 \in Nat
    BY BlockFacts
  <2>2. CASE e # c
    <3>1. ctx'[e] = ctx[e]
      BY <1>10, <2>2
    <3>2. PICK i \in DOMAIN blocks : blocks[i].ctx = e /\ ctx[e].frames[k].jmp = blocks[i].id
      BY <1>2, <2>1, <3>1, FrameOf
    <3> QED BY <1>7, <2>2, <3>1, <3>2 DEF Distinct
  <2>3. CASE e = c
    <3> DEFINE l == Len(ctx[c].frames)
    <3>1. /\ DOMAIN d.frames = 1 .. l /\ DOMAIN ctx[c].frames = 1 .. l /\ l \in Nat \ {0}
          /\ CurrentFrame(d) = d.frames[l] /\ CurrentFrame(ctx[c]) = ctx[c].frames[l]
      BY <1>3, <1>5, JmpsFacts, CurrentFrameFacts
    <3>2. k # l
      BY <1>5, <1>10, <2>3, <3>1
    <3>3. k \in 1 .. l - 1 /\ k < l /\ k \in DOMAIN ctx[c].frames /\ l \in DOMAIN ctx[c].frames
      BY <1>10, <2>3, <3>1, <3>2
    <3>4. d.frames[k] = ctx[c].frames[k]
      BY <1>5, <3>3
    <3>5. PICK i \in DOMAIN blocks :
            /\ ctx[c].frames[l].jmp = blocks[i].id
            /\ \A m \in DOMAIN ctx[c].frames : m < l =>
                 \E j \in DOMAIN blocks : j < i /\ ctx[c].frames[m].jmp = blocks[j].id
      BY <1>2, <1>3, <2>1, <3>3, FrameOf
    <3>6. i = n
      BY <1>3, <1>7, <3>1, <3>5 DEF Distinct
    <3>7. PICK j \in DOMAIN blocks : j < n /\ ctx[c].frames[k].jmp = blocks[j].id
      BY <3>3, <3>5, <3>6
    <3>8. j # n
      BY <3>7, BlockFacts
    <3> QED BY <1>7, <1>10, <2>3, <3>3, <3>4, <3>7, <3>8 DEF Distinct
  <2> QED BY <2>2, <2>3
<1>17. Unwinding'
  BY <1>9, <1>12, <1>16, QuietIsFree, UnwindingCut
<1>18. Waiting'
  <2>1. \A i \in DOMAIN blocks : ~(n < i)
    BY BlockFacts
  <2>2. \A i \in 1 .. n : blocks[i].kind \in {"relay", "capture"} => scope'[blocks[i].scope].valid
    BY <1>12, BlockFacts DEF Waiting
  <2> QED BY <1>6, <1>9, <1>12, <2>1, <2>2, QuietWaiting
<1> QED BY <1>6, <1>11, <1>13, <1>14, <1>15, <1>17, <1>18 DEF IInv

\* The context of a block is that of the block around it, or of no block around it.
LEMMA AroundTop ==
  ASSUME TypeOK, Nested, Depth > 0
  PROVE  \/ Depth - 1 > 0 /\ blocks[Depth - 1].ctx = Top.ctx
         \/ \A i \in DOMAIN blocks : i <= Depth - 1 => blocks[i].ctx # Top.ctx
<1>1. Depth \in DOMAIN blocks /\ Top = blocks[Depth] /\ Depth \in Nat
  BY TopFacts, BlockFacts
<1> SUFFICES ASSUME NEW i \in DOMAIN blocks, i <= Depth - 1, blocks[i].ctx = Top.ctx
             PROVE  Depth - 1 > 0 /\ blocks[Depth - 1].ctx = Top.ctx
  OBVIOUS
<1>2. i \in Nat /\ 1 <= i /\ Depth - 1 > 0 /\ Depth - 1 \in DOMAIN blocks /\ Depth - 1 < Depth
  BY <1>1, BlockFacts
<1>3. CASE i = Depth - 1
  BY <1>2, <1>3
<1>4. CASE i < Depth - 1
  BY <1>1, <1>2, <1>4 DEF Nested
<1> QED BY <1>1, <1>2, <1>3, <1>4

LEMMA EndFinallyKeeps ==
  ASSUME IInv, EndFinally
  PROVE  IInv'
<1> TypeOK /\ Framed /\ Nested /\ Unwinding
  BY DEF IInv, Shape
<1> DEFINE c == Top.ctx
           r == FinallyDone(ctx[c])
           l == Len(ctx[c].frames)
           n == Depth - 1
<1>1. jump = NoJump /\ Depth > 0 /\ Top.kind = "try"
  BY RunningFacts DEF EndFinally, In
<1>2. FramedIn(ctx, Depth + 1) /\ ctx \in [Ctxs -> Context] /\ Depth \in Nat
  BY <1>1, BlockFacts DEF Framed, TypeOK
<1>3. c \in Ctxs /\ ctx[c] \in Context /\ HasFrame(ctx[c]) /\ CurrentFrame(ctx[c]).jmp = Top.id
  BY <1>1, <1>2, TopFrame
<1>4. /\ blocks' = Front(blocks) /\ scope' = scope /\ live' \subseteq Exc /\ ub' = ub
      /\ ctx' = [ctx EXCEPT ![c] = r.ctx] /\ jump' = Jumping(r)
  BY DEF EndFinally, TypeOK
<1>5. /\ r.ctx \in Context /\ r.to \in JmpBufs \cup {NoJmp} /\ r.why \in JumpReason
      /\ CurrentFrame(ctx[c]).reason = DONT \/ l = 1 =>
            /\ r.to = NoJmp
            /\ Len(r.ctx.frames) = l - 1
            /\ \A i \in 1 .. l - 1 : r.ctx.frames[i] = ctx[c].frames[i]
      /\ CurrentFrame(ctx[c]).reason # DONT /\ l > 1 =>
            /\ LandsAt(ctx[c], r, l - 1)
            /\ \A i \in 1 .. l - 2 : r.ctx.frames[i] = ctx[c].frames[i]
  BY <1>3, FinallyDoneFacts DEF JumpResult
<1>6. n \in 0 .. Depth /\ CutTo(n) /\ (n > 0 => blocks'[n] = blocks[n]) /\ n < Depth /\ n + 1 = Depth
  BY <1>1, <1>2, <1>4, FrontIsCut
<1>7. /\ l \in Nat \ {0} /\ DOMAIN ctx[c].frames = 1 .. l /\ CurrentFrame(ctx[c]) = ctx[c].frames[l]
      /\ DOMAIN r.ctx.frames = 1 .. Len(r.ctx.frames)
  BY <1>3, <1>5, JmpsFacts, CurrentFrameFacts
<1> HIDE DEF r
<1>8. ctx' \in [Ctxs -> Context] /\ ctx'[c] = r.ctx /\ \A e \in Ctxs : e # c => ctx'[e] = ctx[e]
  BY <1>2, <1>3, <1>4, <1>5, OneContext
<1>9. Quiet /\ scope' \in [JmpBufs -> Scope] /\ scope' = scope
  BY <1>4 DEF Quiet, TypeOK
<1>10. \A i \in DOMAIN blocks : ~(n < i /\ Scoped(blocks[i]))
  <2>1. \A i \in DOMAIN blocks : n < i => i = Depth
    BY <1>6, BlockFacts
  <2> QED BY <1>1, <2>1, TopFacts DEF Scoped
<1>11. CASE CurrentFrame(ctx[c]).reason = DONT \/ l = 1
  <2>1. /\ r.to = NoJmp /\ Len(r.ctx.frames) = l - 1
        /\ \A i \in 1 .. l - 1 : r.ctx.frames[i] = ctx[c].frames[i]
    BY <1>5, <1>11, Zenon
  <2>2. jump' = NoJump
    BY <1>4, <2>1 DEF Jumping
  <2>3. FramedIn(ctx', n + 1)
    <3> DEFINE x == ctx'
    <3>1. SameJmps(r.ctx.frames, ctx[c].frames, l - 1)
      BY <2>1 DEF SameJmps
    <3>2. x[Top.ctx] = r.ctx /\ \A e \in Ctxs : e # Top.ctx => x[e].frames = ctx[e].frames
      BY <1>8
    <3> HIDE DEF x
    <3>3. FramedIn(x, Depth)
      BY <1>1, <1>2, <1>5, <2>1, <3>1, <3>2, FramedPop, Zenon
    <3> QED BY <1>6, <3>3 DEF x
  <2>4. Kept(r.ctx, ctx[c])
    <3>1. \A k \in DOMAIN r.ctx.frames : k \in 1 .. l - 1 /\ k \in DOMAIN ctx[c].frames
      BY <1>7, <2>1
    <3> QED BY <2>1, <3>1, Zenon DEF Kept
  <2>5. \A e \in Ctxs : Kept(ctx'[e], ctx[e])
    BY <1>8, <2>4, KeptSame
  <2>6. n > 0 => Innermost(blocks'[n], NoJump) /\ blocks'[n].phase \in {blocks[n].phase, "finally"}
    <3> HIDE DEF n
    <3> QED BY <1>6, <2>2, StaysInnermost
  <2> HIDE DEF n, c
  <2> QED BY <1>4, <1>6, <1>8, <1>9, <1>10, <2>2, <2>3, <2>5, <2>6, StayStep, Zenon
<1>12. CASE CurrentFrame(ctx[c]).reason # DONT /\ l # 1
  <2> DEFINE p == PopFrame(ctx[c])
             x == [ctx EXCEPT ![c] = p]
  <2>1. l > 1 /\ l - 1 \in Nat \ {0} /\ l - 2 \in Nat /\ l - 1 - 1 = l - 2
    <3>1. l \in Nat \ {0} /\ l # 1
      BY <1>7, <1>12
    <3> HIDE DEF l
    <3> QED BY <3>1
  <2>2. /\ r.to = ctx[c].frames[l - 1].jmp /\ r.why # DONT
        /\ Len(r.ctx.frames) = l - 2
        /\ \A i \in 1 .. l - 2 : r.ctx.frames[i] = ctx[c].frames[i]
    BY <1>5, <1>12, <2>1 DEF LandsAt
  <2>3. p \in Context /\ Len(p.frames) = l - 1 /\ SameJmps(p.frames, ctx[c].frames, l - 1)
    BY <1>3, PopFrameFacts
  <2>4. HasFrame(p)
    BY <2>1, <2>3, EmptySeq DEF HasFrame
  <2> HIDE DEF p
  <2>5. x \in [Ctxs -> Context] /\ x[c] = p /\ \A e \in Ctxs : e # c => x[e] = ctx[e]
    BY <1>2, <1>3, <2>3, OneContext
  <2> HIDE DEF x
  <2>6. FramedIn(x, Depth)
    <3>1. x[Top.ctx] = p /\ \A e \in Ctxs : e # Top.ctx => x[e].frames = ctx[e].frames
      BY <2>5
    <3> QED BY <1>1, <1>2, <2>3, <3>1, FramedPop, Zenon
  <2>7. ~Passes(n)
    <3>1. l \in DOMAIN ctx[c].frames /\ Depth \in DOMAIN blocks /\ Top = blocks[Depth]
      BY <1>1, <1>7, TopFacts
    <3> QED BY <1>3, <1>7, <1>12, <3>1 DEF Unwinding
  <2>8. /\ r.to = p.frames[Len(p.frames)].jmp
        /\ Len(r.ctx.frames) = Len(p.frames) - 1
        /\ SameJmps(r.ctx.frames, p.frames, Len(p.frames) - 1)
    <3>1. l - 1 \in 1 .. l - 1 /\ \A i \in 1 .. l - 2 : i \in 1 .. l - 1
      BY <2>1
    <3> QED BY <2>1, <2>2, <2>3, <3>1, Zenon DEF SameJmps
  <2>9. Framed'
    <3> DEFINE y == ctx'
    <3>1. \A e \in Ctxs : e # c => ctx'[e].frames = x[e].frames
      BY <1>8, <2>5
    <3>2. \/ n > 0 /\ c = blocks[n].ctx
          \/ \A i \in DOMAIN blocks : i <= n => blocks[i].ctx # c
      BY <1>1, AroundTop
    <3>3. ~HasFrame(x[c]) => r.to = NoJmp /\ ctx'[c].frames = x[c].frames
      BY <2>4, <2>5
    <3>4. HasFrame(x[c]) => /\ r.to = x[c].frames[Len(x[c].frames)].jmp /\ r.why # DONT
                            /\ Len(ctx'[c].frames) = Len(x[c].frames) - 1
                            /\ SameJmps(ctx'[c].frames, x[c].frames, Len(x[c].frames) - 1)
      BY <1>8, <2>2, <2>5, <2>8
    <3>5. FramedIn(x, n + 1)
      BY <1>6, <2>6
    <3> HIDE DEF n, c, Nested
    <3>6. n \in 0 .. Depth /\ CutTo(n) /\ c \in Ctxs /\ x \in [Ctxs -> Context] /\ ctx' \in [Ctxs -> Context]
      BY <1>3, <1>6, <1>8, <2>5
    <3>7. jump' = Jumping(r)
      BY <1>4
    <3> QED BY <3>1, <3>2, <3>3, <3>4, <3>5, <3>6, <3>7, GoOn
  <2>10. TypeOK'
    <3>1. jump' \in [to : JmpBufs \cup {NoJmp}, why : JumpReason]
      <4>1. DONT \in JumpReason
        BY DEF JumpReason
      <4> QED BY <1>4, <1>5, <4>1 DEF Jumping, NoJump
    <3> QED BY <1>4, <1>6, <1>8, <1>9, <3>1 DEF TypeOK, CutTo
  <2>11. Kept(r.ctx, ctx[c])
    <3>1. \A k \in DOMAIN r.ctx.frames : k \in 1 .. l - 2 /\ k \in DOMAIN ctx[c].frames
      BY <1>7, <2>2
    <3> QED BY <2>2, <3>1, Zenon DEF Kept
  <2>12. \A e \in Ctxs : Kept(ctx'[e], ctx[e])
    BY <1>8, <2>11, KeptSame
  <2>13. n > 0 => Innermost(blocks'[n], jump') /\ blocks'[n].phase \in {blocks[n].phase, "finally"}
    <3> HIDE DEF n
    <3> QED BY <1>6, StaysInnermost
  <2> HIDE DEF n, c
  <2> QED BY <1>4, <1>6, <1>9, <1>10, <2>7, <2>9, <2>10, <2>12, <2>13, CutStep
<1> QED BY <1>7, <1>11, <1>12

-----------------------------------------------------------------------------
(* The end of a relay *)

LEMMA MovedFacts ==
  ASSUME NEW x \in [Ctxs -> Context], NEW from \in Ctxs, NEW to \in Ctxs, from # to
  PROVE  LET m == Moved(x, from, to)
         IN  /\ m \in [Ctxs -> Context]
             /\ \A d \in Ctxs : m[d].frames = x[d].frames
             /\ m[to].exceptions = x[to].exceptions \o x[from].exceptions
             /\ m[from].exceptions = << >>
             /\ \A d \in Ctxs : d # from /\ d # to => m[d] = x[d]
<1> DEFINE a == [x[to] EXCEPT !.exceptions = @ \o x[from].exceptions]
           b == [x[from] EXCEPT !.exceptions = << >>]
           m == Moved(x, from, to)
<1>1. x[to] \in Context /\ x[from] \in Context
  OBVIOUS
<1>2. /\ x[to].frames \in Seq(Frame) /\ x[to].exceptions \in Seq(Exc)
      /\ x[from].frames \in Seq(Frame) /\ x[from].exceptions \in Seq(Exc) /\ << >> \in Seq(Exc)
  BY <1>1, EmptySeq DEF Context
<1>3. /\ a = [frames |-> x[to].frames, exceptions |-> x[to].exceptions \o x[from].exceptions]
      /\ b = [frames |-> x[from].frames, exceptions |-> << >>]
  BY <1>1, ContextExcept, Zenon
<1>4. a \in Context /\ b \in Context
  <2>1. x[to].exceptions \o x[from].exceptions \in Seq(Exc)
    BY <1>2
  <2> QED BY <1>2, <1>3, <2>1, Zenon DEF Context
<1>5. m = [d \in Ctxs |-> IF d = from THEN b ELSE IF d = to THEN a ELSE x[d]]
  BY Zenon DEF Moved
<1> HIDE DEF a, b, m
<1>6. m \in [Ctxs -> Context]
  BY <1>4, <1>5
<1>7. /\ m[from] = b /\ m[to] = a
      /\ \A d \in Ctxs : d # from /\ d # to => m[d] = x[d]
  BY <1>5
<1>8. \A d \in Ctxs : m[d].frames = x[d].frames
  <2>1. a.frames = x[to].frames /\ b.frames = x[from].frames
    BY <1>3
  <2> QED BY <1>7, <2>1
<1>9. m[to].exceptions = x[to].exceptions \o x[from].exceptions /\ m[from].exceptions = << >>
  <2>1. a.exceptions = x[to].exceptions \o x[from].exceptions
    BY <1>3, Zenon
  <2>2. b.exceptions = << >>
    BY <1>3, Zenon
  <2> QED BY <1>7, <2>1, <2>2, Zenon
<1> QED BY <1>6, <1>7, <1>8, <1>9, Zenon DEF m

\* What the end of the relay of block i does to scopes is seen by no block below.
LEMMA RelayScopes ==
  ASSUME IInv, NEW i \in DOMAIN blocks, blocks[i].kind = "relay",
         NEW y \in [JmpBufs -> Scope], \A s \in JmpBufs : s # blocks[i].id => y[s] = scope[s],
         scope' = Destroyed(y, {blocks[i].scope, blocks[i].toScope} \ {NoScope})
  PROVE  /\ scope' \in [JmpBufs -> Scope]
         /\ Quiet
         /\ scope'[blocks[i].id].captured = << >>
         /\ \A k \in 1 .. i - 1 : blocks[k].kind \in {"relay", "capture"}
              => scope'[blocks[k].scope].valid = scope[blocks[k].scope].valid
<1> TypeOK /\ Scopes /\ Expended
  BY DEF IInv, Shape
<1> DEFINE b == blocks[i]
           S == {b.scope, b.toScope} \ {NoScope}
<1>1. b.id \in JmpBufs /\ b.scope = b.id /\ Scoped(b) /\ b.id # NoScope
  BY BlockFacts, FieldFacts, RelayAssumption DEF Scopes, Scoped
<1>2. /\ scope' \in [JmpBufs -> Scope]
      /\ \A s \in JmpBufs : /\ s \in S => scope'[s].captured = << >>
                            /\ s \notin S => scope'[s] = y[s]
                            /\ scope'[s].captured \in {y[s].captured, << >>}
  <2> DEFINE z == Destroyed(y, S)
  <2>1. scope' = z
    OBVIOUS
  <2> HIDE DEF S
  <2>2. /\ z \in [JmpBufs -> Scope]
        /\ \A s \in JmpBufs : /\ s \in S => z[s].captured = << >>
                              /\ s \notin S => z[s] = y[s]
                              /\ z[s].captured \in {y[s].captured, << >>}
    BY DestroyedFacts
  <2> HIDE DEF z
  <2> QED BY <2>1, <2>2, Zenon
<1>3. b.id \in S
  BY <1>1
<1>4. Quiet
  <2> SUFFICES ASSUME NEW s \in JmpBufs PROVE scope'[s].captured \in {scope[s].captured, << >>}
    BY Zenon DEF Quiet
  <2>1. CASE s = b.id
    BY <1>1, <1>2, <1>3, <2>1, Zenon
  <2>2. CASE s # b.id
    <3>1. y[s] = scope[s]
      BY <2>2
    <3> QED BY <1>2, <3>1, Zenon
  <2> QED BY <2>1, <2>2
<1>5. ASSUME NEW k \in 1 .. i - 1, blocks[k].kind \in {"relay", "capture"}
      PROVE  scope'[blocks[k].scope].valid = scope[blocks[k].scope].valid
  <2>1. k \in DOMAIN blocks /\ k < i
    BY BlockFacts
  <2>2. blocks[k].scope \in JmpBufs /\ blocks[k].scope # b.id
    BY <1>1, <2>1, OwnScope, BlockFacts, FieldFacts
  <2>3. blocks[k].scope \notin S
    BY <1>1, <1>5, <2>1, <2>2 DEF Expended
  <2>4. scope'[blocks[k].scope] = scope[blocks[k].scope]
    BY <1>2, <2>2, <2>3, Zenon
  <2> QED BY <2>4
<1> QED BY <1>1, <1>2, <1>3, <1>4, <1>5, Zenon

\* What a relay relays to is the context around it or of no open block.
LEMMA RelayTo ==
  ASSUME IInv, NEW i \in DOMAIN blocks, blocks[i].kind = "relay"
  PROVE  /\ blocks[i].ctx \in Ctxs /\ blocks[i].to \in Ctxs /\ blocks[i].ctx # blocks[i].to
         /\ \/ i - 1 > 0 /\ blocks[i].to = blocks[i - 1].ctx
            \/ \A k \in DOMAIN blocks : k <= i - 1 => blocks[k].ctx # blocks[i].to
         /\ Below(JumpPoints(blocks[i].ctx), i) = {}
         /\ ~Passes(i - 1)
<1> TypeOK /\ Nested /\ Waiting
  BY DEF IInv, Shape
<1>1. blocks[i].ctx \in Ctxs /\ blocks[i].to \in Ctxs
  BY BlockFacts, FieldFacts
<1>2. /\ blocks[i].ctx # blocks[i].to
      /\ \A k \in DOMAIN blocks : k < i => blocks[k].ctx # blocks[i].ctx
      /\ \/ i > 1 /\ blocks[i].to = blocks[i - 1].ctx
         \/ \A k \in DOMAIN blocks : blocks[k].ctx # blocks[i].to
  BY DEF Nested
<1>3. i > 1 => i - 1 > 0
  BY BlockFacts
<1>4. Below(JumpPoints(blocks[i].ctx), i) = {}
  BY <1>2 DEF Below, JumpPoints
<1>5. ~Passes(i - 1)
  BY DEF Waiting
<1> QED BY <1>1, <1>2, <1>3, <1>4, <1>5

LEMMA EndRelayKeeps ==
  ASSUME IInv, EndRelay
  PROVE  IInv'
<1> TypeOK /\ Framed /\ Nested /\ Scopes /\ Waiting
  BY DEF IInv, Shape
<1> DEFINE n == Depth - 1
           c == Top.ctx
           to == Top.to
           s == Top.scope
           uncaptured == [ctx EXCEPT ![c].exceptions = @ \o scope[s].captured]
           moved == Moved(uncaptured, c, to)
           popped == [moved EXCEPT ![c] = PopFrame(@)]
           r == IF HasExceptions(popped[to]) THEN JumpBecause(popped[to], THROW)
                ELSE [ctx |-> popped[to], to |-> NoJmp, why |-> DONT]
           y == [scope EXCEPT ![s] = NewScope]
<1>1. jump = NoJump /\ Depth > 0 /\ Top.kind = "relay"
  BY RunningFacts, Zenon DEF EndRelay, In
<1>2. /\ Depth \in DOMAIN blocks /\ Top = blocks[Depth] /\ s \in JmpBufs /\ Depth \in Nat
      /\ ctx \in [Ctxs -> Context] /\ scope \in [JmpBufs -> Scope] /\ FramedIn(ctx, Depth + 1)
  BY <1>1, TopFacts, FieldFacts, BlockFacts DEF TypeOK, Framed
<1>3. /\ c \in Ctxs /\ to \in Ctxs /\ c # to
      /\ \/ n > 0 /\ to = blocks[n].ctx
         \/ \A k \in DOMAIN blocks : k <= n => blocks[k].ctx # to
      /\ Below(JumpPoints(c), Depth) = {}
      /\ ~Passes(n)
  BY <1>1, <1>2, RelayTo, Zenon
<1>4. s = Top.id /\ scope[s].valid
  BY <1>1, <1>2 DEF Scopes, Waiting, Scoped
<1>5. /\ ctx' = [popped EXCEPT ![to] = r.ctx]
      /\ scope' = Destroyed(y, {Top.scope, Top.toScope} \ {NoScope})
      /\ live' \subseteq Exc /\ jump' = Jumping(r) /\ blocks' = Front(blocks) /\ ub' = ub
  BY <1>4, Zenon DEF EndRelay, DestroyScopes, TypeOK
<1>6. uncaptured \in [Ctxs -> Context] /\ \A d \in Ctxs : uncaptured[d].frames = ctx[d].frames
  <2> DEFINE a == [ctx[c] EXCEPT !.exceptions = @ \o scope[s].captured]
  <2>1. ctx[c] \in Context /\ scope[s].captured \in Seq(Exc)
    BY <1>2, <1>3 DEF Scope
  <2>2. a = [frames |-> ctx[c].frames, exceptions |-> ctx[c].exceptions \o scope[s].captured]
    BY <2>1, ContextExcept, Zenon
  <2>3. ctx[c].frames \in Seq(Frame) /\ ctx[c].exceptions \o scope[s].captured \in Seq(Exc)
    BY <2>1 DEF Context
  <2>4. a \in Context /\ a.frames = ctx[c].frames
    BY <2>2, <2>3, Zenon DEF Context
  <2>5. uncaptured = [ctx EXCEPT ![c] = a]
    OBVIOUS
  <2> HIDE DEF a
  <2> QED BY <1>2, <1>3, <2>4, <2>5, Zenon
<1> HIDE DEF uncaptured
<1>7. moved \in [Ctxs -> Context] /\ \A d \in Ctxs : moved[d].frames = ctx[d].frames
  <2> HIDE DEF c, to, n
  <2>1. c \in Ctxs /\ to \in Ctxs /\ c # to /\ uncaptured \in [Ctxs -> Context]
    BY <1>3, <1>6
  <2>2. moved \in [Ctxs -> Context] /\ \A d \in Ctxs : moved[d].frames = uncaptured[d].frames
    BY <2>1, MovedFacts, Zenon
  <2> HIDE DEF moved
  <2> QED BY <1>6, <2>2
<1> HIDE DEF moved
<1>8. HasFrame(ctx[c]) /\ ctx[c] \in Context
  BY <1>1, <1>2, TopFrame
<1>9. /\ popped \in [Ctxs -> Context]
      /\ \A d \in Ctxs : d # c => popped[d].frames = ctx[d].frames
      /\ Len(popped[c].frames) = Len(ctx[c].frames) - 1
      /\ SameJmps(popped[c].frames, ctx[c].frames, Len(ctx[c].frames) - 1)
  <2>1. moved[c] \in Context /\ HasFrame(moved[c]) /\ moved[c].frames = ctx[c].frames
    BY <1>3, <1>7, <1>8 DEF HasFrame
  <2>2. /\ PopFrame(moved[c]) \in Context
        /\ Len(PopFrame(moved[c]).frames) = Len(ctx[c].frames) - 1
        /\ SameJmps(PopFrame(moved[c]).frames, ctx[c].frames, Len(ctx[c].frames) - 1)
    BY <2>1, PopFrameFacts, Zenon
  <2>3. popped[c] = PopFrame(moved[c]) /\ \A d \in Ctxs : d # c => popped[d] = moved[d]
    BY <1>3, <1>7
  <2>4. popped \in [Ctxs -> Context]
    BY <1>3, <1>7, <2>2
  <2> HIDE DEF popped
  <2> QED BY <1>7, <2>2, <2>3, <2>4
<1> HIDE DEF popped
<1>10. FramedIn(popped, Depth)
  <2>1. popped[Top.ctx] \in Context
    BY <1>3, <1>9
  <2>2. \A d \in Ctxs : d # Top.ctx => popped[d].frames = ctx[d].frames
    BY <1>9
  <2>3. /\ Len(popped[Top.ctx].frames) = Len(ctx[Top.ctx].frames) - 1
        /\ SameJmps(popped[Top.ctx].frames, ctx[Top.ctx].frames, Len(ctx[Top.ctx].frames) - 1)
    BY <1>9
  <2>4. Top.kind # "with"
    BY <1>1
  <2> HIDE DEF Nested, c
  <2> QED BY <1>1, <1>2, <2>1, <2>2, <2>3, <2>4, FramedPop, Zenon
<1>11. popped[c].frames = << >>
  <2>1. InOrder(Jmps(popped[c]), {}, Names)
    BY <1>3, <1>10 DEF FramedIn
  <2>2. popped[c] \in Context
    BY <1>3, <1>9
  <2>3. Jmps(popped[c]) = << >>
    BY <2>1, <2>2, JmpsFacts, InOrderEmpty
  <2> QED BY <2>2, <2>3, JmpsFacts DEF HasFrame
<1>12. n \in 0 .. Depth /\ CutTo(n) /\ (n > 0 => blocks'[n] = blocks[n]) /\ n < Depth /\ n + 1 = Depth
  BY <1>1, <1>2, <1>5, FrontIsCut
<1>13. /\ scope' \in [JmpBufs -> Scope] /\ Quiet
       /\ scope'[Top.id].captured = << >>
       /\ \A k \in 1 .. n : blocks[k].kind \in {"relay", "capture"}
              => scope'[blocks[k].scope].valid = scope[blocks[k].scope].valid
  <2>1. NewScope \in Scope
    <3>1. << >> \in Seq(Exc)
      BY EmptySeq
    <3> QED BY <3>1 DEF NewScope, Scope
  <2>2. y \in [JmpBufs -> Scope] /\ \A q \in JmpBufs : q # Top.id => y[q] = scope[q]
    BY <1>2, <1>4, <2>1
  <2> HIDE DEF y
  <2> QED BY <1>1, <1>2, <1>5, <2>2, RelayScopes, Zenon
<1>14. \A i \in DOMAIN blocks : n < i /\ Scoped(blocks[i]) => scope'[blocks[i].id].captured = << >>
  <2>1. \A i \in DOMAIN blocks : n < i => i = Depth
    BY <1>12, BlockFacts
  <2> QED BY <1>2, <1>13, <2>1
<1>15. \A d \in Ctxs : popped[d].frames = ctx[d].frames \/ popped[d].frames = << >>
  BY <1>9, <1>11
<1>16. FramedIn(popped, n + 1)
  BY <1>10, <1>12
<1>17. popped[to] \in Context /\ THROW \in JumpReason /\ THROW # DONT
  BY <1>3, <1>9 DEF JumpReason, THROW, DONT
<1>18. CASE HasExceptions(popped[to])
  <2>1. GoesOn(popped[to], r)
    BY <1>17, <1>18, JumpBecauseGoesOn
  <2> HIDE DEF r, c, to, n, s, y, Nested
  <2> QED BY <1>3, <1>5, <1>9, <1>12, <1>13, <1>14, <1>15, <1>16, <2>1, JumpStep, Zenon
<1>19. CASE ~HasExceptions(popped[to])
  <2>1. r.to = NoJmp /\ r.ctx = popped[to]
    BY <1>19
  <2> HIDE DEF r
  <2>2. jump' = NoJump
    BY <1>5, <2>1 DEF Jumping
  <2>3. ctx' = popped
    BY <1>3, <1>5, <1>9, <2>1
  <2>4. \A d \in Ctxs : Kept(ctx'[d], ctx[d])
    <3>1. DOMAIN << >> = {}
      OBVIOUS
    <3> QED BY <1>15, <2>3, <3>1, KeptSame DEF Kept
  <2>5. n > 0 => Innermost(blocks'[n], NoJump) /\ blocks'[n].phase \in {blocks[n].phase, "finally"}
    <3> HIDE DEF n
    <3> QED BY <1>12, <2>2, StaysInnermost
  <2> HIDE DEF c, to, n, s, y, Nested
  <2> QED BY <1>5, <1>9, <1>12, <1>13, <1>14, <1>16, <2>2, <2>3, <2>4, <2>5, StayStep, Zenon
<1> QED BY <1>18, <1>19

-----------------------------------------------------------------------------
(* Landings *)

LEMMA LandsFacts ==
  ASSUME IInv, NEW kind, NEW i \in DOMAIN blocks, Lands(kind, i)
  PROVE  /\ jump # NoJump /\ Flies(i) /\ ~Passes(Depth) /\ jump.why \in JumpReason
         /\ blocks[i].kind = kind /\ blocks[i] \in Block
         /\ i \in Nat /\ 1 <= i /\ i <= Depth /\ Depth \in Nat /\ i - 1 \in 0 .. Depth
         /\ blocks[i].ctx \in Ctxs /\ ctx \in [Ctxs -> Context] /\ scope \in [JmpBufs -> Scope]
         /\ \A k \in DOMAIN blocks : i < k => /\ blocks[k].kind = "with"
                                              /\ scope[blocks[k].id].captured = << >>
<1> TypeOK /\ Framed /\ Waiting /\ Distinct
  BY DEF IInv, Shape
<1>1. jump # NoJump /\ blocks[i].kind = kind /\ blocks[i].id = jump.to
  BY DEF Lands
<1>2. PICK t \in DOMAIN blocks : Flies(t)
  BY <1>1 DEF Framed
<1>3. t = i
  BY <1>1, <1>2 DEF Distinct, Flies
<1>4. ~Passes(Depth) /\ jump.why \in JumpReason
  BY <1>1 DEF Waiting, TypeOK
<1>5. i \in Nat /\ 1 <= i /\ i <= Depth /\ Depth \in Nat /\ blocks[i] \in Block
  BY BlockFacts
<1>6. blocks[i].ctx \in Ctxs /\ i - 1 \in 0 .. Depth
  BY <1>5, FieldFacts
<1>7. \A k \in DOMAIN blocks : i < k => blocks[k].kind = "with"
  BY <1>2, <1>3 DEF Flies
<1>8. \A k \in DOMAIN blocks : i < k => scope[blocks[k].id].captured = << >>
  BY <1>4, <1>5, <1>7, NothingAbove
<1> QED BY <1>1, <1>2, <1>3, <1>4, <1>5, <1>6, <1>7, <1>8 DEF TypeOK

LEMMA LandInRelayKeeps ==
  ASSUME IInv, NEW i \in DOMAIN blocks, LandInRelay(i)
  PROVE  IInv'
<1> TypeOK
  BY DEF IInv
<1> DEFINE n == i - 1
           b == blocks[i]
           moved == Moved(ctx, b.ctx, b.to)
           r == JumpBecause(moved[b.to], jump.why)
<1>1. /\ Flies(i) /\ ~Passes(Depth) /\ jump.why \in JumpReason /\ jump # NoJump
      /\ b.kind = "relay" /\ i \in Nat /\ 1 <= i /\ i <= Depth /\ Depth \in Nat /\ n \in 0 .. Depth
      /\ ctx \in [Ctxs -> Context] /\ scope \in [JmpBufs -> Scope]
      /\ \A k \in DOMAIN blocks : i < k => scope[blocks[k].id].captured = << >>
  <2>1. Lands("relay", i)
    BY DEF LandInRelay
  <2> QED BY <2>1, LandsFacts
<1>2. /\ b.ctx \in Ctxs /\ b.to \in Ctxs /\ b.ctx # b.to
      /\ \/ n > 0 /\ b.to = blocks[n].ctx
         \/ \A k \in DOMAIN blocks : k <= n => blocks[k].ctx # b.to
      /\ ~Passes(n)
  BY <1>1, RelayTo
<1>3. /\ ctx' = [moved EXCEPT ![b.to] = r.ctx]
      /\ scope' = Destroyed(scope, {b.scope, b.toScope} \ {NoScope})
      /\ live' \subseteq Exc /\ jump' = Jumping(r) /\ blocks' = SubSeq(blocks, 1, n) /\ ub' = ub
  BY DEF LandInRelay, DestroyScopes, TypeOK
<1>4. moved \in [Ctxs -> Context] /\ \A d \in Ctxs : moved[d].frames = ctx[d].frames
  BY <1>1, <1>2, MovedFacts, Zenon
<1>5. GoesOn(moved[b.to], r)
  <2>1. jump.why # DONT
    BY <1>1 DEF Flies
  <2> HIDE DEF moved
  <2>2. moved[b.to] \in Context
    BY <1>2, <1>4
  <2> QED BY <1>1, <2>1, <2>2, JumpBecauseGoesOn
<1> HIDE DEF r, moved
<1>6. /\ scope' \in [JmpBufs -> Scope] /\ Quiet
      /\ scope'[b.id].captured = << >>
      /\ \A k \in 1 .. n : blocks[k].kind \in {"relay", "capture"}
              => scope'[blocks[k].scope].valid = scope[blocks[k].scope].valid
  BY <1>1, <1>3, RelayScopes, Zenon
<1>7. n \in 0 .. Depth /\ CutTo(n) /\ (n > 0 => blocks'[n] = blocks[n]) /\ n < Depth /\ n + 1 = i
  BY <1>1, <1>3, PrefixIsCut
<1>8. \A k \in DOMAIN blocks : n < k /\ Scoped(blocks[k]) => scope'[blocks[k].id].captured = << >>
  <2> TAKE k \in DOMAIN blocks
  <2> HAVE n < k /\ Scoped(blocks[k])
  <2>1. CASE k = i
    BY <1>6, <2>1
  <2>2. CASE i < k
    <3>1. scope[blocks[k].id].captured = << >> /\ blocks[k].id \in JmpBufs
      BY <1>1, <2>2, BlockFacts, FieldFacts
    <3> QED BY <1>6, <3>1 DEF Quiet
  <2>3. k \in Nat
    BY BlockFacts
  <2> QED BY <1>7, <2>1, <2>2, <2>3
<1>9. FramedIn(moved, n + 1)
  <2>1. FramedIn(ctx, i)
    BY <1>1 DEF Flies
  <2> QED BY <1>4, <1>7, <2>1 DEF FramedIn, Jmps
<1> HIDE DEF n, b
<1> QED BY <1>2, <1>3, <1>4, <1>5, <1>6, <1>7, <1>8, <1>9, JumpStep, Zenon

LEMMA LandInTryKeeps ==
  ASSUME IInv, NEW i \in DOMAIN blocks, LandInTry(i)
  PROVE  IInv'
<1> TypeOK /\ ~ub /\ Shape /\ Distinct /\ Phases /\ Unwinding /\ Waiting
  BY DEF IInv, Shape
<1> DEFINE b == blocks[i]
           a == ctx[b.ctx]
           d == Try(a, b.id, jump.why)
           e == [b EXCEPT !.phase = "finally", !.var = NoExc]
<1>1. /\ Flies(i) /\ ~Passes(Depth) /\ jump.why \in JumpReason
      /\ b.kind = "try" /\ b \in Block /\ i \in Nat /\ 1 <= i /\ i <= Depth /\ Depth \in Nat
      /\ b.ctx \in Ctxs /\ ctx \in [Ctxs -> Context] /\ a \in Context
      /\ \A k \in DOMAIN blocks : i < k => /\ blocks[k].kind = "with"
                                           /\ scope[blocks[k].id].captured = << >>
  <2>1. Lands("try", i)
    BY DEF LandInTry
  <2> QED BY <2>1, LandsFacts
<1>2. b.id \in JmpBufs /\ jump.why # DONT
  BY <1>1, FieldFacts DEF Flies
<1>3. /\ ctx' = [ctx EXCEPT ![b.ctx] = d] /\ blocks' = Append(SubSeq(blocks, 1, i - 1), e)
      /\ jump' = NoJump /\ scope' = scope /\ ub' = ub /\ live' \subseteq Exc
  BY DEF LandInTry, TypeOK
<1>4. Entered(d, a, b.id) /\ CurrentFrame(d).reason = THROW
  BY <1>1, <1>2, TryEnters
<1>5. e \in Block /\ Same(e, b) /\ e.phase = "finally" /\ e.var = NoExc
  BY <1>1, Zenon DEF Block, Same
<1> HIDE DEF d, e
<1>6. i \in 0 .. Depth /\ CutTo(i) /\ blocks'[i] = e
  BY <1>3, <1>5, ReenterIsCut, Zenon
<1>7. ctx' \in [Ctxs -> Context] /\ ctx'[b.ctx] = d /\ \A c \in Ctxs : c # b.ctx => ctx'[c] = ctx[c]
  BY <1>1, <1>3, <1>4, OneContext DEF Entered
<1>8. /\ DOMAIN blocks' = 1 .. i /\ 1 .. i \subseteq DOMAIN blocks /\ Depth' = i
      /\ \A k \in DOMAIN blocks' : Same(blocks'[k], blocks[k]) /\ k \in Nat
  BY <1>6, CutFacts
<1>9. TypeOK'
  <2>1. NoJump \in [to : JmpBufs \cup {NoJmp}, why : JumpReason]
    BY DEF NoJump, JumpReason
  <2> QED BY <1>3, <1>6, <1>7, <2>1 DEF TypeOK, CutTo
<1>10. Shape'
  BY <1>6, CutKeepsShape
<1>11. Phases'
  BY <1>1, <1>3, <1>5, <1>6, CutKeepsPhases DEF Same
<1>12. Quiet
  BY <1>3 DEF Quiet
<1>13. Framed'
  <2>1. Replaced(i)
    <3>1. \A k \in DOMAIN blocks : k < i => k \in DOMAIN blocks'
      BY <1>1, <1>8, BlockFacts
    <3>2. i \in DOMAIN blocks'
      BY <1>1, <1>8
    <3> QED BY <1>8, <3>1, <3>2 DEF Replaced
  <2>2. FramedIn(ctx, i)
    BY <1>1 DEF Flies
  <2>3. blocks'[i].kind = "try" /\ blocks'[i].id = b.id /\ blocks'[i].ctx = b.ctx
    BY <1>1, <1>5, <1>6 DEF Same
  <2>4. SameJmps(d.frames, a.frames, Len(a.frames))
    BY <1>1, <1>4, EnteredFacts
  <2>5. \A c \in Ctxs :
          IF blocks'[i].kind # "with" /\ blocks'[i].ctx = c
          THEN /\ Len(ctx'[c].frames) = Len(ctx[c].frames) + 1
               /\ SameJmps(ctx'[c].frames, ctx[c].frames, Len(ctx[c].frames))
               /\ CurrentFrame(ctx'[c]).jmp = blocks'[i].id
          ELSE ctx'[c].frames = ctx[c].frames
    BY <1>4, <1>7, <2>3, <2>4 DEF Entered
  <2> QED BY <1>1, <1>2, <1>3, <1>7, <1>8, <2>1, <2>2, <2>3, <2>5, FramedEnter
<1>14. ~Passes(i - 1)'
  <2>1. PICK m \in Nat : m = i - 1 /\ m <= Depth /\ m <= i
    BY <1>1
  <2>2. \A k \in DOMAIN blocks : m < k => blocks[k].kind # "capture"
    <3>1. \A k \in DOMAIN blocks : m < k => k = i \/ i < k
      BY <1>1, <2>1, BlockFacts
    <3> QED BY <1>1, <3>1
  <2>3. ~Passes(m)
    BY <1>1, <2>1, <2>2, PassesBelow
  <2>4. ~Passes(m)'
    BY <1>6, <1>12, <2>1, <2>3, PassesCut
  <2> QED BY <2>1, <2>4 DEF Passes
<1>15. OldFrames(i)
  <2> SUFFICES ASSUME NEW c \in Ctxs, NEW k \in DOMAIN ctx'[c].frames
               PROVE  \/ /\ k \in DOMAIN ctx[c].frames
                         /\ ctx'[c].frames[k] = ctx[c].frames[k]
                         /\ ctx[c].frames[k].jmp # b.id
                      \/ ctx'[c].frames[k].jmp = b.id
    BY <1>1, <1>5, <1>6, <1>14 DEF OldFrames
  <2>1. CASE k \in DOMAIN ctx[c].frames
    <3>1. FramedIn(ctx, i)
      BY <1>1 DEF Flies
    <3>2. PICK j \in DOMAIN blocks : j < i /\ ctx[c].frames[k].jmp = blocks[j].id
      BY <1>1, <2>1, <3>1, FrameOf
    <3>3. j # i
      BY <1>1, <3>2
    <3>4. ctx'[c].frames[k] = ctx[c].frames[k]
      BY <1>1, <1>4, <1>7, <2>1, EnteredFacts
    <3> QED BY <2>1, <3>2, <3>3, <3>4 DEF Distinct
  <2>2. CASE k \notin DOMAIN ctx[c].frames
    <3>1. c = b.ctx
      BY <1>7, <2>2
    <3>2. k = Len(a.frames) + 1 /\ CurrentFrame(d) = d.frames[Len(a.frames) + 1]
      BY <1>1, <1>4, <1>7, <2>2, <3>1, EnteredFacts
    <3> QED BY <1>4, <1>7, <3>1, <3>2 DEF Entered
  <2> QED BY <2>1, <2>2
<1>16. Unwinding'
  BY <1>6, <1>12, <1>15, QuietIsFree, UnwindingCut
<1>17. Waiting'
  <2>1. \A k \in 1 .. i : blocks[k].kind \in {"relay", "capture"} => scope'[blocks[k].scope].valid
    BY <1>3, <1>8, Zenon DEF Waiting
  <2>2. \A k \in DOMAIN blocks : i < k /\ Scoped(blocks[k]) => scope'[blocks[k].id].captured = << >>
    BY <1>1, <1>3
  <2> QED BY <1>3, <1>6, <1>12, <2>1, <2>2, QuietWaiting
<1> QED BY <1>3, <1>9, <1>10, <1>11, <1>13, <1>16, <1>17 DEF IInv

LEMMA LandInCaptureKeeps ==
  ASSUME IInv, NEW i \in DOMAIN blocks, LandInCapture(i)
  PROVE  IInv'
<1> TypeOK /\ ~ub /\ Shape /\ Distinct /\ Scopes /\ Expended /\ Phases /\ Unwinding /\ Waiting
  BY DEF IInv, Shape
<1> DEFINE b == blocks[i]
           n == i - 1
           d == ClearAll(ctx[b.ctx])
           q == [scope[b.scope] EXCEPT !.captured = @ \o ctx[b.ctx].exceptions]
<1>1. /\ Flies(i) /\ b.kind = "capture" /\ b \in Block
      /\ i \in Nat /\ 1 <= i /\ i <= Depth /\ Depth \in Nat /\ n \in 0 .. Depth
      /\ b.ctx \in Ctxs /\ ctx \in [Ctxs -> Context] /\ scope \in [JmpBufs -> Scope]
      /\ \A k \in DOMAIN blocks : i < k => scope[blocks[k].id].captured = << >>
  <2>1. Lands("capture", i)
    BY DEF LandInCapture
  <2> QED BY <2>1, LandsFacts
<1>2. scope[b.scope].valid /\ b.scope \in JmpBufs
  BY <1>1, FieldFacts DEF Waiting
<1>3. /\ scope' = [scope EXCEPT ![b.scope] = q]
      /\ ctx' = [ctx EXCEPT ![b.ctx] = d]
      /\ blocks' = SubSeq(blocks, 1, n) /\ jump' = NoJump /\ live' \subseteq Exc /\ ub' = ub
  BY <1>2 DEF LandInCapture, TypeOK
<1>4. d \in Context /\ d.frames = ctx[b.ctx].frames
  <2>1. ctx[b.ctx] \in Context /\ << >> \in Seq(Exc)
    BY <1>1, EmptySeq
  <2>2. d = [frames |-> ctx[b.ctx].frames, exceptions |-> << >>]
    BY <2>1, ContextExcept, Zenon DEF ClearAll
  <2> QED BY <2>1, <2>2 DEF Context
<1>5. q \in Scope /\ q.valid = scope[b.scope].valid
  <2>1. /\ ctx[b.ctx].exceptions \in Seq(Exc) /\ scope[b.scope] \in Scope
        /\ scope[b.scope].captured \in Seq(Exc)
    BY <1>1, <1>2 DEF Context, Scope
  <2>2. scope[b.scope].captured \o ctx[b.ctx].exceptions \in Seq(Exc)
    BY <2>1
  <2> QED BY <2>1, <2>2, Zenon DEF Scope
<1> HIDE DEF d, q
<1>6. n \in 0 .. Depth /\ CutTo(n) /\ (\A k \in 1 .. n : blocks'[k] = blocks[k]) /\ n + 1 = i
  BY <1>1, <1>3, PrefixIsCut
<1>7. /\ ctx' \in [Ctxs -> Context] /\ \A c \in Ctxs : ctx'[c].frames = ctx[c].frames
      /\ scope' \in [JmpBufs -> Scope]
      /\ \A s \in JmpBufs : /\ scope'[s].valid = scope[s].valid
                            /\ s # b.scope => scope'[s] = scope[s]
  BY <1>1, <1>2, <1>3, <1>4, <1>5, Zenon
<1>8. TypeOK'
  <2>1. NoJump \in [to : JmpBufs \cup {NoJmp}, why : JumpReason]
    BY DEF NoJump, JumpReason
  <2> QED BY <1>3, <1>6, <1>7, <2>1 DEF TypeOK, CutTo
<1>9. 1 .. n \subseteq DOMAIN blocks /\ n \in Nat /\ \A k \in 1 .. n : k < i /\ k \in Nat /\ 1 <= k /\ k <= n
  BY <1>1, BlockFacts
<1>10. Shape'
  BY <1>6, CutKeepsShape
<1>11. Phases'
  <2>1. n > 0 => /\ n \in DOMAIN blocks /\ n < Depth /\ blocks'[n] = blocks[n]
    BY <1>1, <1>6, <1>9
  <2>2. n > 0 => blocks[n].phase # "catch"
    BY <1>1, <2>1 DEF Phases
  <2> HIDE DEF n
  <2> QED BY <1>6, <2>1, <2>2, CutKeepsPhases DEF Phases
<1>12. Framed'
  <2>1. FramedIn(ctx, n + 1)
    BY <1>1, <1>6 DEF Flies
  <2>2. \A c \in Ctxs : Jmps(ctx'[c]) = Jmps(ctx[c])
    BY <1>7 DEF Jmps
  <2> HIDE DEF n
  <2> QED BY <1>3, <1>6, <2>1, <2>2, FramedStay
\* The scope that captures is not that of a block below a relay.
<1>13. ASSUME NEW k \in 1 .. n, Scoped(blocks[k])
       PROVE  \A j \in DOMAIN blocks : j < k => blocks[j].scope # b.scope
  <2>1. k \in DOMAIN blocks /\ k <= i
    <3>1. k \in DOMAIN blocks /\ k < i /\ k \in Nat
      BY <1>9
    <3> HIDE DEF n
    <3> QED BY <1>1, <3>1
  <2> QED BY <1>1, <1>13, <2>1 DEF Scopes
<1>14. FreeBelow(n)
  <2> SUFFICES ASSUME NEW k \in 1 .. n,
                      blocks[k].kind = "relay" \/ (blocks[k].phase = "finally" /\ k < n),
                      ~Passes(k - 1)
               PROVE  ~Passes(k - 1)'
    BY DEF FreeBelow
  <2>1. k \in DOMAIN blocks /\ k \in Nat /\ 1 <= k /\ k <= n
    BY <1>9
  <2>2. \A j \in DOMAIN blocks : j < k => blocks[j].scope # b.scope
    <3>1. CASE blocks[k].kind = "relay"
      BY <1>13, <3>1 DEF Scoped
    <3>2. CASE blocks[k].phase = "finally" /\ k < n
      <4>1. k + 1 \in 1 .. n /\ k < Depth /\ \A j \in DOMAIN blocks : j < k => j < k + 1
        BY <1>1, <1>9, <2>1, <3>2, BlockFacts
      <4>2. blocks[k + 1].kind = "relay"
        BY <2>1, <3>2, <4>1 DEF Phases
      <4> QED BY <1>13, <4>1, <4>2 DEF Scoped
    <3> QED BY <3>1, <3>2
  <2>3. PICK m \in Nat : m = k - 1 /\ m <= n /\ \A j \in DOMAIN blocks : j <= m => j < k
    BY <2>1, BlockFacts
  <2>4. \A j \in DOMAIN blocks : j <= m /\ Scoped(blocks[j]) => scope'[blocks[j].id] = scope[blocks[j].id]
    <3> TAKE j \in DOMAIN blocks
    <3> HAVE j <= m /\ Scoped(blocks[j])
    <3>1. blocks[j].scope = blocks[j].id /\ blocks[j].id \in JmpBufs
      BY BlockFacts, FieldFacts DEF Scopes
    <3> QED BY <1>7, <2>2, <2>3, <3>1
  <2> HIDE DEF n
  <2>5. ~Passes(m)'
    BY <1>6, <2>3, <2>4, PassesLocal
  <2> QED BY <2>3, <2>5 DEF Passes
<1>15. OldFrames(n)
  <2> SUFFICES ASSUME NEW c \in Ctxs, NEW k \in DOMAIN ctx'[c].frames, ctx'[c].frames[k].reason # DONT
               PROVE  ~(n > 0 /\ ctx'[c].frames[k].jmp = blocks[n].id)
    BY <1>7 DEF OldFrames
  <2> SUFFICES ASSUME n > 0, ctx'[c].frames[k].jmp = blocks[n].id PROVE FALSE
    OBVIOUS
  <2>1. n \in DOMAIN blocks /\ n < Depth
    BY <1>1, <1>9
  <2>2. blocks[n].phase = "finally"
    BY <1>7, <2>1 DEF Unwinding
  <2>3. blocks[n + 1].kind = "relay"
    BY <2>1, <2>2 DEF Phases
  <2> QED BY <1>1, <1>6, <2>3
<1>16. Unwinding'
  BY <1>6, <1>14, <1>15, UnwindingCut
<1>17. Waiting'
  <2>1. ASSUME NEW s \in JmpBufs, scope'[s].captured # << >>
        PROVE  \E k \in 1 .. n : Scoped(blocks[k]) /\ blocks[k].id = s
    <3>1. PICK k \in DOMAIN blocks : Scoped(blocks[k]) /\ blocks[k].id = s /\ k <= i
      <4>1. CASE s = b.scope
        BY <4>1 DEF Scopes
      <4>2. CASE s # b.scope
        <5>1. scope[s].captured # << >>
          BY <1>7, <2>1, <4>2
        <5>2. PICK k \in DOMAIN blocks : Scoped(blocks[k]) /\ blocks[k].id = s
          BY <5>1 DEF Waiting
        <5>3. ~(i < k)
          BY <1>1, <5>1, <5>2
        <5>4. k <= i
          BY <1>1, <5>3, BlockFacts
        <5> QED BY <5>2, <5>4
      <4> QED BY <4>1, <4>2
    <3>2. k # i
      BY <1>1, <3>1 DEF Scoped
    <3>3. k \in 1 .. n
      BY <1>1, <3>1, <3>2, BlockFacts
    <3> QED BY <3>1, <3>3
  <2>2. ASSUME NEW k \in 1 .. n, blocks[k].kind \in {"relay", "capture"} PROVE scope'[blocks[k].scope].valid
    <3>1. k \in DOMAIN blocks /\ blocks[k].scope \in JmpBufs
      BY <1>9, BlockFacts, FieldFacts
    <3> QED BY <1>7, <2>2, <3>1 DEF Waiting
  <2>3. ASSUME NEW k \in 1 .. n, blocks[k].kind = "relay", blocks[k].toScope # NoScope
        PROVE  scope'[blocks[k].toScope].captured = << >>
    <3>1. k \in DOMAIN blocks /\ blocks[k].toScope \in JmpBufs
      BY <1>9, <2>3, BlockFacts, FieldFacts
    <3>2. k > 1 /\ blocks[k].toScope = blocks[k - 1].scope
      BY <2>3, <3>1 DEF Expended
    <3>3. k - 1 \in DOMAIN blocks /\ k - 1 < k
      BY <3>1, <3>2, BlockFacts
    <3>4. blocks[k].toScope # b.scope
      BY <1>13, <2>3, <3>2, <3>3 DEF Scoped
    <3> QED BY <1>7, <2>3, <3>1, <3>4 DEF Waiting
  <2> HIDE DEF n
  <2> QED BY <1>3, <1>6, <1>14, <2>1, <2>2, <2>3, WaitingCut
<1> QED BY <1>3, <1>8, <1>10, <1>11, <1>12, <1>16, <1>17 DEF IInv

-----------------------------------------------------------------------------
(* The invariant, and the frames of every context *)

LEMMA InitKeeps ==
  ASSUME Init
  PROVE  IInv
<1>1. /\ blocks = << >> /\ DOMAIN blocks = {} /\ blocks \in Seq(Block) /\ Len(blocks) = 0
      /\ << >> \in Seq(Exc) /\ << >> \in Seq(Frame)
  BY EmptySeq DEF Init
<1>2. EmptyContext \in Context /\ ZeroScope \in Scope /\ ZeroScope.captured = << >>
  BY <1>1 DEF EmptyContext, Context, ZeroScope, Scope
<1>3. NoJump \in [to : JmpBufs \cup {NoJmp}, why : JumpReason]
  BY DEF NoJump, JumpReason
<1>4. TypeOK
  BY <1>1, <1>2, <1>3, Zenon DEF Init, TypeOK
<1>5. \A s \in JmpBufs : scope[s].captured = << >>
  BY <1>2 DEF Init
<1>6. Distinct /\ Scopes /\ Expended /\ Nested /\ Phases
  BY <1>1 DEF Distinct, Scopes, Expended, Nested, Phases
<1>7. \A c \in Ctxs : DOMAIN ctx[c].frames = {}
  <2>1. DOMAIN << >> = {}
    OBVIOUS
  <2> QED BY <2>1 DEF Init, EmptyContext
<1>8. FramedIn(ctx, Depth + 1)
  <2> SUFFICES ASSUME NEW c \in Ctxs PROVE InOrder(Jmps(ctx[c]), Below(JumpPoints(c), Depth + 1), Names)
    BY DEF FramedIn
  <2>1. Jmps(ctx[c]) = << >>
    <3>1. ctx[c] \in Context /\ ctx[c].frames = << >>
      BY <1>2 DEF Init, EmptyContext
    <3> QED BY <3>1, JmpsFacts DEF HasFrame
  <2>2. Below(JumpPoints(c), Depth + 1) = {}
    BY <1>1 DEF Below, JumpPoints
  <2> QED BY <2>1, <2>2, EmptyInOrder
<1>9. Framed
  BY <1>8 DEF Framed, Init
<1>10. Unwinding
  BY <1>7 DEF Unwinding
<1>11. Waiting
  BY <1>1, <1>5 DEF Waiting, Init
<1> QED BY <1>4, <1>6, <1>9, <1>10, <1>11 DEF IInv, Shape, Init

LEMMA StutterKeeps ==
  ASSUME IInv, UNCHANGED vars
  PROVE  IInv'
<1>1. blocks' = blocks /\ ctx' = ctx /\ scope' = scope /\ jump' = jump /\ live' = live /\ ub' = ub
  BY DEF vars
<1>2. Depth' = Depth /\ Names' = Names /\ \A c : JumpPoints(c)' = JumpPoints(c)
  BY <1>1 DEF Depth, Names, JumpPoints
<1>3. \A n : Passes(n)' = Passes(n)
  BY <1>1 DEF Passes
<1>4. TypeOK'
  BY <1>1 DEF IInv, TypeOK
<1>5. Shape'
  BY <1>1 DEF IInv, Shape, Distinct, Scopes, Expended, Nested
<1>6. Phases'
  BY <1>1, <1>2 DEF IInv, Phases
<1>7. Framed'
  BY <1>1, <1>2 DEF IInv, Framed, Flies, FramedIn
<1>8. Unwinding'
  BY <1>1, <1>3 DEF IInv, Unwinding
<1>9. Waiting'
  BY <1>1, <1>2, <1>3 DEF IInv, Waiting
<1> QED BY <1>1, <1>4, <1>5, <1>6, <1>7, <1>8, <1>9 DEF IInv

LEMMA NextKeeps ==
  ASSUME Proper, IInv, [Next]_vars
  PROVE  IInv'
<1>1. CASE \E id \in JmpBufs : OpenTry(id) \/ OpenCapture(id)
  BY <1>1, OpenTryKeeps, OpenCaptureKeeps
<1>2. CASE \E id \in JmpBufs : \E c \in Ctxs : OpenWith(id, c) \/ OpenRelay(id, c)
  BY <1>2, OpenWithKeeps, OpenRelayKeeps
<1>3. CASE \E id \in JmpBufs : \E c, to \in Ctxs : OpenRelayTo(id, c, to)
  BY <1>3, OpenRelayToKeeps
<1>4. CASE ThrowNew \/ ThrowCaptured
  BY <1>4, ThrowNewKeeps, ThrowCapturedKeeps
<1>5. CASE Land
  BY <1>5, LandInTryKeeps, LandInCaptureKeeps, LandInRelayKeeps DEF Land
<1>6. CASE EndWith \/ EndRelay \/ EndCapture \/ EndBody
  BY <1>6, EndWithKeeps, EndRelayKeeps, EndCaptureKeeps, EndBodyKeeps
<1>7. CASE \E type \in Types : CatchHit(type)
  BY <1>7, CatchHitKeeps
<1>8. CASE CatchDone \/ EndFinally
  BY <1>8, CatchDoneKeeps, EndFinallyKeeps
<1>9. CASE UNCHANGED vars
  BY <1>9, StutterKeeps
<1> QED BY <1>1, <1>2, <1>3, <1>4, <1>5, <1>6, <1>7, <1>8, <1>9 DEF Next

LEMMA Invariant ==
  ASSUME Proper
  PROVE  Spec => []IInv
<1>1. Init => IInv
  BY InitKeeps
<1>2. IInv /\ [Next]_vars => IInv'
  BY NextKeeps
<1> QED BY <1>1, <1>2, PTL DEF Spec

LEMMA InvariantMatches ==
  ASSUME IInv
  PROVE  FramesMatchContexts
<1> TypeOK /\ ~ub /\ Framed
  BY DEF IInv
<1>1. NoUndefinedBehaviour
  BY DEF NoUndefinedBehaviour, Framed, Flies
<1>2. ASSUME Running, NEW c \in Ctxs
      PROVE  \E at \in [DOMAIN ctx[c].frames -> JumpPoints(c)] :
               /\ \A k, l \in DOMAIN ctx[c].frames : k < l => at[k] < at[l]
               /\ \A i \in JumpPoints(c) : \E k \in DOMAIN ctx[c].frames : at[k] = i
               /\ \A k \in DOMAIN ctx[c].frames : ctx[c].frames[k].jmp = blocks[at[k]].id
  <2>1. Below(JumpPoints(c), Depth + 1) = JumpPoints(c)
    <3>1. \A i \in JumpPoints(c) : i < Depth + 1
      BY BlockFacts DEF JumpPoints
    <3> QED BY <3>1 DEF Below
  <2>2. InOrder(Jmps(ctx[c]), JumpPoints(c), Names)
    BY <1>2, <2>1, RunningFacts DEF Framed, FramedIn
  <2>3. /\ DOMAIN Jmps(ctx[c]) = DOMAIN ctx[c].frames
        /\ \A k \in DOMAIN ctx[c].frames : Jmps(ctx[c])[k] = ctx[c].frames[k].jmp
    BY DEF Jmps
  <2>4. PICK at \in [DOMAIN ctx[c].frames -> JumpPoints(c)] :
          /\ \A k, l \in DOMAIN ctx[c].frames : k < l => at[k] < at[l]
          /\ \A i \in JumpPoints(c) : \E k \in DOMAIN ctx[c].frames : at[k] = i
          /\ \A k \in DOMAIN ctx[c].frames : Jmps(ctx[c])[k] = Names[at[k]]
    BY <2>2, <2>3 DEF InOrder
  <2>5. \A k \in DOMAIN ctx[c].frames : ctx[c].frames[k].jmp = blocks[at[k]].id
    <3> TAKE k \in DOMAIN ctx[c].frames
    <3>1. at[k] \in DOMAIN blocks
      BY DEF JumpPoints
    <3> QED BY <2>3, <2>4, <3>1, Zenon DEF Names
  <2> QED BY <2>4, <2>5
<1> QED BY <1>1, <1>2 DEF FramesMatchContexts

\* with_exceptions, with_exceptions_relay, with_exceptions_relay_to and
\* capture_exceptions leave every context with the frames of its open blocks, in order,
\* however blocks and contexts nest and whatever is thrown; a longjmp has a target, and
\* no zeroed list is followed.
THEOREM FramesInEveryContext ==
  ASSUME Proper
  PROVE  Spec => []FramesMatchContexts
<1>1. IInv => FramesMatchContexts
  BY InvariantMatches
<1> QED BY <1>1, Invariant, PTL

-----------------------------------------------------------------------------
(* Every exception in one place *)

\* What the catch that is being executed has caught, as a list
Caught == IF Depth > 0 /\ Top.phase = "catch" THEN <<Top.var>> ELSE << >>

InContext(c) == <<"context", c>>
InScope(s) == <<"scope", s>>
InVar == <<"var", NoExc>>
Holders == {InContext(c) : c \in Ctxs} \cup {InScope(s) : s \in JmpBufs} \cup {InVar}

\* The lists of the contexts x and the scopes y, and what is caught
Lists(x, y, v) == [h \in Holders |-> IF h = InVar THEN v
                                     ELSE IF h[1] = "context" THEN x[h[2]].exceptions
                                     ELSE y[h[2]].captured]

Single(x, y, v, L) == OneHolder(Exc, Lists(x, y, v), L)

Once == Single(ctx, scope, Caught, live)

LEMMA HoldersFacts ==
  /\ \A c \in Ctxs : InContext(c) \in Holders /\ InContext(c) # InVar
  /\ \A s \in JmpBufs : InScope(s) \in Holders /\ InScope(s) # InVar
  /\ InVar \in Holders
  /\ \A c, d : InContext(c) = InContext(d) => c = d
  /\ \A s, r : InScope(s) = InScope(r) => s = r
  /\ \A c, s : InContext(c) # InScope(s)
  /\ \A h \in Holders : h = InVar \/ (\E c \in Ctxs : h = InContext(c)) \/ \E s \in JmpBufs : h = InScope(s)
<1>1. \A c, s : InContext(c) # InScope(s) /\ InContext(c) # InVar /\ InScope(s) # InVar
  BY DEF InContext, InScope, InVar
<1>2. \A c, d : (InContext(c) = InContext(d) => c = d) /\ (InScope(c) = InScope(d) => c = d)
  BY DEF InContext, InScope
<1>3. \A c \in Ctxs : InContext(c) \in Holders
  BY DEF Holders
<1>4. \A s \in JmpBufs : InScope(s) \in Holders
  BY DEF Holders
<1>5. InVar \in Holders
  BY DEF Holders
<1>6. \A h \in Holders : h = InVar \/ (\E c \in Ctxs : h = InContext(c)) \/ \E s \in JmpBufs : h = InScope(s)
  BY DEF Holders
<1> QED BY <1>1, <1>2, <1>3, <1>4, <1>5, <1>6, Zenon

Reads(f, x, y, v) == /\ \A c \in Ctxs : f[InContext(c)] = x[c].exceptions
                     /\ \A s \in JmpBufs : f[InScope(s)] = y[s].captured
                     /\ f[InVar] = v

LEMMA ListsFacts ==
  ASSUME NEW x \in [Ctxs -> Context], NEW y \in [JmpBufs -> Scope], NEW v \in Seq(Exc)
  PROVE  \E f \in [Holders -> Seq(Exc)] :
           Reads(f, x, y, v) /\ \A L : Single(x, y, v, L) <=> OneHolder(Exc, f, L)
<1> DEFINE f == Lists(x, y, v)
<1>1. DOMAIN f = Holders /\ f = [h \in Holders |-> f[h]]
  BY DEF Lists
<1>2. ASSUME NEW c \in Ctxs PROVE f[InContext(c)] = x[c].exceptions /\ x[c].exceptions \in Seq(Exc)
  <2>1. InContext(c) \in Holders /\ InContext(c) # InVar
    BY HoldersFacts
  <2>2. InContext(c)[1] = "context" /\ InContext(c)[2] = c
    BY DEF InContext
  <2>3. f[InContext(c)] = x[c].exceptions
    BY <2>1, <2>2 DEF Lists
  <2>4. x[c] \in Context
    OBVIOUS
  <2> QED BY <2>3, <2>4 DEF Context
<1>3. ASSUME NEW s \in JmpBufs PROVE f[InScope(s)] = y[s].captured /\ y[s].captured \in Seq(Exc)
  <2>1. InScope(s) \in Holders /\ InScope(s) # InVar
    BY HoldersFacts
  <2>2. InScope(s)[1] # "context" /\ InScope(s)[2] = s
    BY DEF InScope
  <2>3. f[InScope(s)] = y[s].captured
    BY <2>1, <2>2 DEF Lists
  <2>4. y[s] \in Scope
    OBVIOUS
  <2> QED BY <2>3, <2>4 DEF Scope
<1>4. f[InVar] = v
  BY HoldersFacts DEF Lists
<1> HIDE DEF f
<1>5. ASSUME NEW h \in Holders PROVE f[h] \in Seq(Exc)
  <2>1. h = InVar \/ (\E c \in Ctxs : h = InContext(c)) \/ \E s \in JmpBufs : h = InScope(s)
    BY HoldersFacts
  <2> QED BY <1>2, <1>3, <1>4, <2>1
<1>6. f \in [Holders -> Seq(Exc)]
  BY <1>1, <1>5
<1>7. Reads(f, x, y, v)
  BY <1>2, <1>3, <1>4 DEF Reads
<1>8. \A L : Single(x, y, v, L) <=> OneHolder(Exc, f, L)
  BY DEF Single, f
<1> QED BY <1>6, <1>7, <1>8

\* The lists that are not in S have not changed.
SameElse(x, y, v, x2, y2, v2, S) ==
  /\ \A c \in Ctxs : InContext(c) \notin S => x2[c].exceptions = x[c].exceptions
  /\ \A s \in JmpBufs : InScope(s) \notin S => y2[s].captured = y[s].captured
  /\ InVar \notin S => v2 = v

LEMMA Elsewhere ==
  ASSUME NEW x, NEW y, NEW v, NEW x2, NEW y2, NEW v2, NEW S,
         NEW f \in [Holders -> Seq(Exc)], NEW g, Reads(f, x, y, v), Reads(g, x2, y2, v2),
         SameElse(x, y, v, x2, y2, v2, S)
  PROVE  SameBut(f, g, S)
<1> USE DEF SameElse
<1> SUFFICES ASSUME NEW h \in Holders, h \notin S PROVE g[h] = f[h]
  BY DEF SameBut
<1>1. CASE h = InVar
  BY <1>1 DEF Reads
<1>2. ASSUME NEW c \in Ctxs, h = InContext(c) PROVE g[h] = f[h]
  BY <1>2 DEF Reads
<1>3. ASSUME NEW s \in JmpBufs, h = InScope(s) PROVE g[h] = f[h]
  BY <1>3 DEF Reads
<1> QED BY <1>1, <1>2, <1>3, HoldersFacts

\* Only the lists count.
LEMMA SameLists ==
  ASSUME NEW x \in [Ctxs -> Context], NEW y \in [JmpBufs -> Scope], NEW v \in Seq(Exc), NEW L,
         NEW x2 \in [Ctxs -> Context], NEW y2 \in [JmpBufs -> Scope], Single(x, y, v, L),
         \A c \in Ctxs : x2[c].exceptions = x[c].exceptions,
         \A s \in JmpBufs : y2[s].captured = y[s].captured
  PROVE  Single(x2, y2, v, L)
<1>1. PICK f \in [Holders -> Seq(Exc)] :
           Reads(f, x, y, v) /\ \A M : Single(x, y, v, M) <=> OneHolder(Exc, f, M)
  BY ListsFacts, Zenon
<1>2. PICK g \in [Holders -> Seq(Exc)] :
           Reads(g, x2, y2, v) /\ \A M : Single(x2, y2, v, M) <=> OneHolder(Exc, g, M)
  BY ListsFacts, Zenon
<1>3. SameBut(f, g, {})
  <2>1. SameElse(x, y, v, x2, y2, v, {})
    BY DEF SameElse
  <2> QED BY <1>1, <1>2, <2>1, Elsewhere
<1>4. f = g
  BY <1>3 DEF SameBut
<1> QED BY <1>1, <1>2, <1>4

\* The exceptions of context a go to context b.
Transfers(x, x2, a, b) ==
  /\ x2[a].exceptions = << >> /\ x2[b].exceptions = x[b].exceptions \o x[a].exceptions
  /\ \A c \in Ctxs : c # a /\ c # b => x2[c].exceptions = x[c].exceptions

LEMMA MoveBetween ==
  ASSUME NEW x \in [Ctxs -> Context], NEW y \in [JmpBufs -> Scope], NEW v \in Seq(Exc), NEW L,
         NEW x2 \in [Ctxs -> Context], Single(x, y, v, L),
         NEW a \in Ctxs, NEW b \in Ctxs, a # b, Transfers(x, x2, a, b)
  PROVE  Single(x2, y, v, L)
<1> USE DEF Transfers
<1>1. PICK f \in [Holders -> Seq(Exc)] :
           Reads(f, x, y, v) /\ \A M : Single(x, y, v, M) <=> OneHolder(Exc, f, M)
  BY ListsFacts, Zenon
<1>2. PICK g \in [Holders -> Seq(Exc)] :
           Reads(g, x2, y, v) /\ \A M : Single(x2, y, v, M) <=> OneHolder(Exc, g, M)
  BY ListsFacts, Zenon
<1>3. /\ InContext(a) \in Holders /\ InContext(b) \in Holders /\ InContext(a) # InContext(b)
      /\ g[InContext(a)] = << >> /\ g[InContext(b)] = f[InContext(b)] \o f[InContext(a)]
  BY <1>1, <1>2, HoldersFacts, Zenon DEF Reads
<1>4. SameBut(f, g, {InContext(a), InContext(b)})
  <2> DEFINE S == {InContext(a), InContext(b)}
  <2>1. SameElse(x, y, v, x2, y, v, S)
    BY HoldersFacts, Zenon DEF SameElse
  <2> HIDE DEF S
  <2>2. SameBut(f, g, S)
    BY <1>1, <1>2, <2>1, Elsewhere, Zenon
  <2> QED BY <2>2 DEF S
<1>5. OneHolder(Exc, f, L)
  BY <1>1
<1>6. OneHolder(Exc, g, L)
  BY <1>3, <1>4, <1>5, HolderMove, Zenon
<1> QED BY <1>2, <1>6

\* What was captured in scope s goes to context b, from x and y to x2 and y2.
MovesOut(x, y, x2, y2, s, b) ==
  /\ y2[s].captured = << >> /\ x2[b].exceptions = x[b].exceptions \o y[s].captured
  /\ \A c \in Ctxs : c # b => x2[c].exceptions = x[c].exceptions
  /\ \A r \in JmpBufs : r # s => y2[r].captured = y[r].captured

LEMMA MoveOut ==
  ASSUME NEW x \in [Ctxs -> Context], NEW y \in [JmpBufs -> Scope], NEW v \in Seq(Exc), NEW L,
         NEW x2 \in [Ctxs -> Context], NEW y2 \in [JmpBufs -> Scope], Single(x, y, v, L),
         NEW s \in JmpBufs, NEW b \in Ctxs, MovesOut(x, y, x2, y2, s, b)
  PROVE  Single(x2, y2, v, L)
<1> USE DEF MovesOut
<1>1. PICK f \in [Holders -> Seq(Exc)] :
           Reads(f, x, y, v) /\ \A M : Single(x, y, v, M) <=> OneHolder(Exc, f, M)
  BY ListsFacts, Zenon
<1>2. PICK g \in [Holders -> Seq(Exc)] :
           Reads(g, x2, y2, v) /\ \A M : Single(x2, y2, v, M) <=> OneHolder(Exc, g, M)
  BY ListsFacts, Zenon
<1>3. /\ InScope(s) \in Holders /\ InContext(b) \in Holders /\ InScope(s) # InContext(b)
      /\ g[InScope(s)] = << >> /\ g[InContext(b)] = f[InContext(b)] \o f[InScope(s)]
  BY <1>1, <1>2, HoldersFacts, Zenon DEF Reads
<1>4. SameBut(f, g, {InScope(s), InContext(b)})
  <2> DEFINE S == {InScope(s), InContext(b)}
  <2>1. SameElse(x, y, v, x2, y2, v, S)
    BY HoldersFacts DEF SameElse
  <2> HIDE DEF S
  <2>2. SameBut(f, g, S)
    BY <1>1, <1>2, <2>1, Elsewhere, Zenon
  <2> QED BY <2>2 DEF S
<1>5. OneHolder(Exc, f, L)
  BY <1>1
<1>6. OneHolder(Exc, g, L)
  BY <1>3, <1>4, <1>5, HolderMove, Zenon
<1> QED BY <1>2, <1>6

\* The exceptions of context a are captured in scope s.
MovesIn(x, y, x2, y2, a, s) ==
  /\ x2[a].exceptions = << >> /\ y2[s].captured = y[s].captured \o x[a].exceptions
  /\ \A c \in Ctxs : c # a => x2[c].exceptions = x[c].exceptions
  /\ \A r \in JmpBufs : r # s => y2[r].captured = y[r].captured

LEMMA MoveIn ==
  ASSUME NEW x \in [Ctxs -> Context], NEW y \in [JmpBufs -> Scope], NEW v \in Seq(Exc), NEW L,
         NEW x2 \in [Ctxs -> Context], NEW y2 \in [JmpBufs -> Scope], Single(x, y, v, L),
         NEW a \in Ctxs, NEW s \in JmpBufs, MovesIn(x, y, x2, y2, a, s)
  PROVE  Single(x2, y2, v, L)
<1> USE DEF MovesIn
<1>1. PICK f \in [Holders -> Seq(Exc)] :
           Reads(f, x, y, v) /\ \A M : Single(x, y, v, M) <=> OneHolder(Exc, f, M)
  BY ListsFacts, Zenon
<1>2. PICK g \in [Holders -> Seq(Exc)] :
           Reads(g, x2, y2, v) /\ \A M : Single(x2, y2, v, M) <=> OneHolder(Exc, g, M)
  BY ListsFacts, Zenon
<1>3. /\ InScope(s) \in Holders /\ InContext(a) \in Holders /\ InScope(s) # InContext(a)
      /\ g[InContext(a)] = << >> /\ g[InScope(s)] = f[InScope(s)] \o f[InContext(a)]
  BY <1>1, <1>2, HoldersFacts, Zenon DEF Reads
<1>4. SameBut(f, g, {InContext(a), InScope(s)})
  <2> DEFINE S == {InContext(a), InScope(s)}
  <2>1. SameElse(x, y, v, x2, y2, v, S)
    BY HoldersFacts DEF SameElse
  <2> HIDE DEF S
  <2>2. SameBut(f, g, S)
    BY <1>1, <1>2, <2>1, Elsewhere, Zenon
  <2> QED BY <2>2 DEF S
<1>5. OneHolder(Exc, f, L)
  BY <1>1
<1>6. OneHolder(Exc, g, L)
  BY <1>3, <1>4, <1>5, HolderMove, Zenon
<1> QED BY <1>2, <1>6

\* A new exception is added to a context.
LEMMA AddNew ==
  ASSUME NEW x \in [Ctxs -> Context], NEW y \in [JmpBufs -> Scope], NEW v \in Seq(Exc), NEW L,
         NEW x2 \in [Ctxs -> Context], Single(x, y, v, L),
         NEW a \in Ctxs, NEW e \in Exc \ L, x2[a].exceptions = Append(x[a].exceptions, e),
         \A c \in Ctxs : c # a => x2[c].exceptions = x[c].exceptions
  PROVE  Single(x2, y, v, L \cup {e})
<1>1. PICK f \in [Holders -> Seq(Exc)] :
           Reads(f, x, y, v) /\ \A M : Single(x, y, v, M) <=> OneHolder(Exc, f, M)
  BY ListsFacts, Zenon
<1>2. PICK g \in [Holders -> Seq(Exc)] :
           Reads(g, x2, y, v) /\ \A M : Single(x2, y, v, M) <=> OneHolder(Exc, g, M)
  BY ListsFacts, Zenon
<1>3. InContext(a) \in Holders /\ g[InContext(a)] = Append(f[InContext(a)], e)
  BY <1>1, <1>2, HoldersFacts DEF Reads
<1>4. SameBut(f, g, {InContext(a)})
  <2> DEFINE S == {InContext(a)}
  <2>1. SameElse(x, y, v, x2, y, v, S)
    BY HoldersFacts DEF SameElse
  <2> HIDE DEF S
  <2>2. SameBut(f, g, S)
    BY <1>1, <1>2, <2>1, Elsewhere, Zenon
  <2> QED BY <2>2 DEF S
<1>5. OneHolder(Exc, f, L)
  BY <1>1
<1>6. OneHolder(Exc, g, L \cup {e})
  BY <1>3, <1>4, <1>5, HolderAdd, Zenon
<1> QED BY <1>2, <1>6

\* A context keeps its first exception, and the others are freed.
LEMMA KeepFirst ==
  ASSUME NEW x \in [Ctxs -> Context], NEW y \in [JmpBufs -> Scope], NEW v \in Seq(Exc), NEW L,
         NEW x2 \in [Ctxs -> Context], Single(x, y, v, L), NEW a \in Ctxs,
         HasExceptions(x[a]) => x2[a].exceptions = <<x[a].exceptions[1]>>,
         ~HasExceptions(x[a]) => x2[a].exceptions = << >>,
         \A c \in Ctxs : c # a => x2[c].exceptions = x[c].exceptions
  PROVE  Single(x2, y, v, L \ (ToSet(x[a].exceptions) \ ToSet(x2[a].exceptions)))
<1>1. PICK f \in [Holders -> Seq(Exc)] :
           Reads(f, x, y, v) /\ \A M : Single(x, y, v, M) <=> OneHolder(Exc, f, M)
  BY ListsFacts, Zenon
<1>2. PICK g \in [Holders -> Seq(Exc)] :
           Reads(g, x2, y, v) /\ \A M : Single(x2, y, v, M) <=> OneHolder(Exc, g, M)
  BY ListsFacts, Zenon
<1>3. InContext(a) \in Holders /\ f[InContext(a)] = x[a].exceptions /\ g[InContext(a)] = x2[a].exceptions
  BY <1>1, <1>2, HoldersFacts DEF Reads
<1>4. SameBut(f, g, {InContext(a)})
  <2> DEFINE S == {InContext(a)}
  <2>1. SameElse(x, y, v, x2, y, v, S)
    BY HoldersFacts DEF SameElse
  <2> HIDE DEF S
  <2>2. SameBut(f, g, S)
    BY <1>1, <1>2, <2>1, Elsewhere, Zenon
  <2> QED BY <2>2 DEF S
<1>5. OneHolder(Exc, f, L)
  BY <1>1
<1>6. NoRepeat(x2[a].exceptions) /\ \A e : Has(x2[a].exceptions, e) => Has(x[a].exceptions, e)
  <2>1. CASE HasExceptions(x[a])
    <3>1. x[a].exceptions \in Seq(Exc) /\ x[a].exceptions # << >>
      BY <2>1 DEF HasExceptions, Context
    <3>2. 1 \in DOMAIN x[a].exceptions
      BY <3>1, FrontFacts
    <3>3. x2[a].exceptions = <<x[a].exceptions[1]>>
      BY <2>1
    <3>4. NoRepeat(x2[a].exceptions) /\ \A e : Has(x2[a].exceptions, e) <=> e = x[a].exceptions[1]
      BY <3>3, SingleHas
    <3> QED BY <3>2, <3>4 DEF Has
  <2>2. CASE ~HasExceptions(x[a])
    BY <2>2, EmptyHas
  <2> QED BY <2>1, <2>2
<1>7. NoRepeat(g[InContext(a)]) /\ \A e : Has(g[InContext(a)], e) => Has(f[InContext(a)], e)
  BY <1>3, <1>6
<1>8. OneHolder(Exc, g, L \ (ToSet(f[InContext(a)]) \ ToSet(g[InContext(a)])))
  BY <1>3, <1>4, <1>5, <1>7, HolderDrop, Zenon
<1> QED BY <1>2, <1>3, <1>8

\* A scope is destroyed and what it captured is freed.
LEMMA FreeScope ==
  ASSUME NEW x \in [Ctxs -> Context], NEW y \in [JmpBufs -> Scope], NEW v \in Seq(Exc), NEW L,
         NEW y2 \in [JmpBufs -> Scope], Single(x, y, v, L), NEW s \in JmpBufs,
         y2[s].captured = << >>, \A r \in JmpBufs : r # s => y2[r].captured = y[r].captured
  PROVE  Single(x, y2, v, L \ ToSet(y[s].captured))
<1>1. PICK f \in [Holders -> Seq(Exc)] :
           Reads(f, x, y, v) /\ \A M : Single(x, y, v, M) <=> OneHolder(Exc, f, M)
  BY ListsFacts, Zenon
<1>2. PICK g \in [Holders -> Seq(Exc)] :
           Reads(g, x, y2, v) /\ \A M : Single(x, y2, v, M) <=> OneHolder(Exc, g, M)
  BY ListsFacts, Zenon
<1>3. InScope(s) \in Holders /\ f[InScope(s)] = y[s].captured /\ g[InScope(s)] = << >>
  BY <1>1, <1>2, HoldersFacts DEF Reads
<1>4. SameBut(f, g, {InScope(s)})
  <2> DEFINE S == {InScope(s)}
  <2>1. SameElse(x, y, v, x, y2, v, S)
    BY HoldersFacts DEF SameElse
  <2> HIDE DEF S
  <2>2. SameBut(f, g, S)
    BY <1>1, <1>2, <2>1, Elsewhere, Zenon
  <2> QED BY <2>2 DEF S
<1>5. OneHolder(Exc, f, L)
  BY <1>1
<1>6. NoRepeat(g[InScope(s)]) /\ \A e : Has(g[InScope(s)], e) => Has(f[InScope(s)], e)
  BY <1>3, EmptyHas
<1>7. OneHolder(Exc, g, L \ (ToSet(f[InScope(s)]) \ ToSet(g[InScope(s)])))
  BY <1>3, <1>4, <1>5, <1>6, HolderDrop, Zenon
<1>8. ToSet(g[InScope(s)]) = {}
  BY <1>3, EmptyHas, ToSetHas
<1>9. ToSet(f[InScope(s)]) \ ToSet(g[InScope(s)]) = ToSet(y[s].captured)
  BY <1>3, <1>8
<1> QED BY <1>2, <1>7, <1>9, Zenon

\* An exception is taken out of a context and becomes the variable of the catch.
LEMMA TakeCaught ==
  ASSUME NEW x \in [Ctxs -> Context], NEW y \in [JmpBufs -> Scope], NEW L,
         NEW x2 \in [Ctxs -> Context], Single(x, y, << >>, L),
         NEW a \in Ctxs, NEW k \in 1 .. Len(x[a].exceptions), NEW e \in Exc, e = x[a].exceptions[k],
         x2[a].exceptions = RemoveAt(x[a].exceptions, k),
         \A c \in Ctxs : c # a => x2[c].exceptions = x[c].exceptions
  PROVE  Single(x2, y, <<e>>, L)
<1>0. << >> \in Seq(Exc) /\ <<e>> \in Seq(Exc)
  BY EmptySeq
<1>1. PICK f \in [Holders -> Seq(Exc)] :
           Reads(f, x, y, << >>) /\ \A M : Single(x, y, << >>, M) <=> OneHolder(Exc, f, M)
  BY <1>0, ListsFacts, Zenon
<1>2. PICK g \in [Holders -> Seq(Exc)] :
           Reads(g, x2, y, <<e>>) /\ \A M : Single(x2, y, <<e>>, M) <=> OneHolder(Exc, g, M)
  BY <1>0, ListsFacts, Zenon
<1>3. /\ InContext(a) \in Holders /\ InVar \in Holders /\ InContext(a) # InVar
      /\ f[InContext(a)] = x[a].exceptions /\ g[InContext(a)] = x2[a].exceptions
      /\ f[InVar] = << >> /\ g[InVar] = <<e>>
  BY <1>1, <1>2, HoldersFacts DEF Reads
<1>4. SameBut(f, g, {InContext(a), InVar})
  <2> DEFINE S == {InContext(a), InVar}
  <2>1. SameElse(x, y, << >>, x2, y, <<e>>, S)
    BY HoldersFacts DEF SameElse
  <2> HIDE DEF S
  <2>2. SameBut(f, g, S)
    BY <1>1, <1>2, <2>1, Elsewhere
  <2> QED BY <2>2 DEF S
<1>5. OneHolder(Exc, f, L)
  BY <1>1
<1>6. /\ k \in 1 .. Len(f[InContext(a)]) /\ g[InContext(a)] = RemoveAt(f[InContext(a)], k)
      /\ g[InVar] = <<f[InContext(a)][k]>>
  BY <1>3
<1>7. OneHolder(Exc, g, L)
  BY <1>3, <1>4, <1>5, <1>6, HolderTake, Zenon
<1> QED BY <1>2, <1>7

\* What was caught is freed.
LEMMA FreeCaught ==
  ASSUME NEW x \in [Ctxs -> Context], NEW y \in [JmpBufs -> Scope], NEW L,
         NEW e \in Exc, Single(x, y, <<e>>, L)
  PROVE  Single(x, y, << >>, L \ {e})
<1>0. << >> \in Seq(Exc) /\ <<e>> \in Seq(Exc)
  BY EmptySeq
<1>1. PICK f \in [Holders -> Seq(Exc)] :
           Reads(f, x, y, <<e>>) /\ \A M : Single(x, y, <<e>>, M) <=> OneHolder(Exc, f, M)
  BY <1>0, ListsFacts, Zenon
<1>2. PICK g \in [Holders -> Seq(Exc)] :
           Reads(g, x, y, << >>) /\ \A M : Single(x, y, << >>, M) <=> OneHolder(Exc, g, M)
  BY <1>0, ListsFacts, Zenon
<1>3. InVar \in Holders /\ f[InVar] = <<e>> /\ g[InVar] = << >>
  BY <1>1, <1>2, HoldersFacts DEF Reads
<1>4. SameBut(f, g, {InVar})
  <2> DEFINE S == {InVar}
  <2>1. SameElse(x, y, <<e>>, x, y, << >>, S)
    BY HoldersFacts DEF SameElse
  <2> HIDE DEF S
  <2>2. SameBut(f, g, S)
    BY <1>1, <1>2, <2>1, Elsewhere
  <2> QED BY <2>2 DEF S
<1>5. OneHolder(Exc, f, L)
  BY <1>1
<1>6. NoRepeat(g[InVar]) /\ \A d : Has(g[InVar], d) => Has(f[InVar], d)
  BY <1>3, EmptyHas
<1>7. OneHolder(Exc, g, L \ (ToSet(f[InVar]) \ ToSet(g[InVar])))
  BY <1>3, <1>4, <1>5, <1>6, HolderDrop, Zenon
<1>8. ToSet(f[InVar]) \ ToSet(g[InVar]) = {e}
  BY <1>3, EmptyHas, SingleHas, ToSetHas
<1> QED BY <1>2, <1>7, <1>8, Zenon

-----------------------------------------------------------------------------
(* Each step keeps every exception in one place *)

\* With no catch being executed nothing is caught.
LEMMA NoneCaught ==
  ASSUME TypeOK, Depth > 0 => Top.phase # "catch"
  PROVE  Caught = << >>
BY DEF Caught

LEMMA NoneCaughtNext ==
  ASSUME NEW n \in Nat, blocks' \in Seq(Block), Len(blocks') = n,
         n > 0 => blocks'[n].phase # "catch"
  PROVE  Caught' = << >>
BY DEF Caught, Depth, Top, Last

\* What IInv says before and after a step about the types of the lists
LEMMA OnceTypes ==
  ASSUME IInv, IInv'
  PROVE  /\ ctx \in [Ctxs -> Context] /\ scope \in [JmpBufs -> Scope] /\ blocks \in Seq(Block)
         /\ ctx' \in [Ctxs -> Context] /\ scope' \in [JmpBufs -> Scope] /\ blocks' \in Seq(Block)
         /\ << >> \in Seq(Exc) /\ live \subseteq Exc
         /\ \A c \in Ctxs : ctx[c] \in Context /\ ctx[c].exceptions \in Seq(Exc)
         /\ \A s \in JmpBufs : scope[s] \in Scope /\ scope[s].captured \in Seq(Exc)
<1>1. TypeOK /\ TypeOK'
  BY DEF IInv
<1>2. << >> \in Seq(Exc)
  BY EmptySeq
<1>3. \A c \in Ctxs : ctx[c] \in Context /\ ctx[c].exceptions \in Seq(Exc)
  BY <1>1 DEF TypeOK, Context
<1>4. \A s \in JmpBufs : scope[s] \in Scope /\ scope[s].captured \in Seq(Exc)
  BY <1>1 DEF TypeOK, Scope
<1> QED BY <1>1, <1>2, <1>3, <1>4 DEF TypeOK

\* A step that neither moves nor frees an exception, and leaves no catch.
LEMMA OnceSame ==
  ASSUME IInv, IInv', Once, Caught = << >>, Caught' = << >>, live' = live,
         \A c \in Ctxs : ctx'[c].exceptions = ctx[c].exceptions,
         \A s \in JmpBufs : scope'[s].captured = scope[s].captured
  PROVE  Once'
<1>1. PICK x \in [Ctxs -> Context], y \in [JmpBufs -> Scope] : x = ctx' /\ y = scope'
  BY OnceTypes
<1>2. Single(ctx, scope, << >>, live)
  BY DEF Once
<1>3. Single(x, y, << >>, live)
  BY <1>1, <1>2, OnceTypes, SameLists, Zenon
<1>4. Once' <=> Single(ctx', scope', Caught', live')
  BY DEF Once
<1> QED BY <1>1, <1>3, <1>4

\* A block begins: its scope, if it has one, is new, and nothing was captured in it.
LEMMA OncePush ==
  ASSUME IInv, IInv', Once, NEW b, b.phase = "body", Pushed(b), b.id \in JmpBufs, live' = live,
         Depth > 0 => Top.phase # "catch",
         \A i \in DOMAIN blocks : blocks[i].id # b.id,
         \A c \in Ctxs : ctx'[c].exceptions = ctx[c].exceptions,
         scope' = scope \/ scope' = [scope EXCEPT ![b.id] = NewScope]
  PROVE  Once'
<1> TypeOK /\ Waiting
  BY DEF IInv
<1>1. Caught = << >>
  BY NoneCaught
<1>2. Caught' = << >>
  <2>1. Len(blocks') = Depth + 1 /\ blocks'[Depth + 1] = b /\ Depth + 1 \in Nat /\ blocks' \in Seq(Block)
    BY OnceTypes, BlockFacts DEF Pushed
  <2>2. PICK n \in Nat : n = Depth + 1
    BY <2>1
  <2> QED BY <2>1, <2>2, NoneCaughtNext
<1>3. scope[b.id].captured = << >>
  BY DEF Waiting
<1>4. \A s \in JmpBufs : scope'[s].captured = scope[s].captured
  <2>1. NewScope.captured = << >>
    BY DEF NewScope
  <2> QED BY <1>3, <2>1, OnceTypes
<1> QED BY <1>1, <1>2, <1>4, OnceSame

LEMMA SameExceptions ==
  ASSUME NEW x \in [Ctxs -> Context], NEW c \in Ctxs, NEW d, d.exceptions = x[c].exceptions,
         ctx' = [x EXCEPT ![c] = d]
  PROVE  \A e \in Ctxs : ctx'[e].exceptions = x[e].exceptions
OBVIOUS

LEMMA OpenWithOnce ==
  ASSUME Proper, IInv, IInv', Once, NEW id \in JmpBufs, NEW c \in Ctxs, OpenWith(id, c)
  PROVE  Once'
<1> DEFINE b == NewBlock("with", id, id, c, c, NoScope)
<1>1. b.phase = "body" /\ b.id = id
  BY DEF NewBlock
<1>2. /\ Pushed(b) /\ scope' = [scope EXCEPT ![id] = NewScope] /\ ctx' = ctx /\ live' = live
      /\ Depth > 0 => Top.phase # "catch"
      /\ \A i \in DOMAIN blocks : blocks[i].id # id
  BY DEF OpenWith, Pushed, Unused
<1> HIDE DEF b
<1> QED BY <1>1, <1>2, OncePush, Zenon

LEMMA BeginRelayOnce ==
  ASSUME IInv, IInv', Once, NEW id \in JmpBufs, NEW c \in Ctxs, NEW to, NEW toScope,
         Depth > 0 => Top.phase # "catch", BeginRelay(id, c, to, toScope)
  PROVE  Once'
<1> DEFINE b == NewBlock("relay", id, id, c, to, toScope)
           d == PushFrame(ctx[c], id, DONT, FALSE, FALSE)
<1>1. b.phase = "body" /\ b.id = id
  BY DEF NewBlock
<1>2. /\ Pushed(b) /\ scope' = [scope EXCEPT ![id] = NewScope] /\ live' = live
      /\ \A i \in DOMAIN blocks : blocks[i].id # id
      /\ ctx' = [ctx EXCEPT ![c] = d]
  BY DEF BeginRelay, Pushed, Unused
<1>3. d.exceptions = ctx[c].exceptions
  BY OnceTypes, PushedFrameEnters, Zenon
<1> HIDE DEF b, d
<1>4. \A e \in Ctxs : ctx'[e].exceptions = ctx[e].exceptions
  BY <1>2, <1>3, OnceTypes, SameExceptions
<1> QED BY <1>1, <1>2, <1>4, OncePush, Zenon

LEMMA OpenRelayOnce ==
  ASSUME Proper, IInv, IInv', Once, NEW id \in JmpBufs, NEW c \in Ctxs, OpenRelay(id, c)
  PROVE  Once'
<1>1. Depth > 0 => Top.phase # "catch"
  BY MayRelayFacts DEF OpenRelay
<1>2. BeginRelay(id, c, Top.ctx, Top.scope)
  BY DEF OpenRelay
<1> QED BY <1>1, <1>2, BeginRelayOnce

LEMMA OpenRelayToOnce ==
  ASSUME Proper, IInv, IInv', Once, NEW id \in JmpBufs, NEW c \in Ctxs, NEW to, OpenRelayTo(id, c, to)
  PROVE  Once'
<1>1. Depth > 0 => Top.phase # "catch"
  BY MayRelayFacts DEF OpenRelayTo
<1>2. BeginRelay(id, c, to, NoScope)
  BY DEF OpenRelayTo
<1> QED BY <1>1, <1>2, BeginRelayOnce

LEMMA OpenInOnce ==
  ASSUME IInv, IInv', Once, NEW kind, NEW id \in JmpBufs, NEW d, InBody,
         d.exceptions = ctx[Top.ctx].exceptions, OpenIn(kind, id, d)
  PROVE  Once'
<1> DEFINE b == NewBlock(kind, id, Top.scope, Top.ctx, Top.ctx, NoScope)
<1>1. b.phase = "body" /\ b.id = id
  BY DEF NewBlock
<1>2. /\ Pushed(b) /\ scope' = scope /\ live' = live
      /\ \A i \in DOMAIN blocks : blocks[i].id # id
      /\ ctx' = [ctx EXCEPT ![Top.ctx] = d]
      /\ Depth > 0 /\ Top.phase # "catch"
  BY DEF OpenIn, Pushed, Unused, InBody
<1>3. Top.ctx \in Ctxs
  BY <1>2, TopFacts, FieldFacts DEF IInv
<1> HIDE DEF b
<1>4. \A e \in Ctxs : ctx'[e].exceptions = ctx[e].exceptions
  BY <1>2, <1>3, OnceTypes, SameExceptions
<1> QED BY <1>1, <1>2, <1>4, OncePush

LEMMA OpenTryOnce ==
  ASSUME IInv, IInv', Once, NEW id \in JmpBufs, OpenTry(id)
  PROVE  Once'
<1>1. InBody /\ OpenIn("try", id, Try(ctx[Top.ctx], id, DONT))
  BY DEF OpenTry
<1>2. ctx[Top.ctx] \in Context /\ DONT \in JumpReason
  BY <1>1, TopFacts, FieldFacts DEF IInv, InBody, TypeOK, JumpReason
<1>3. Try(ctx[Top.ctx], id, DONT).exceptions = ctx[Top.ctx].exceptions
  BY <1>2, TryFacts
<1> QED BY <1>1, <1>3, OpenInOnce

LEMMA OpenCaptureOnce ==
  ASSUME Proper, IInv, IInv', Once, NEW id \in JmpBufs, OpenCapture(id)
  PROVE  Once'
<1>1. InBody /\ OpenIn("capture", id, PushFrame(ctx[Top.ctx], id, DONT, FALSE, FALSE))
  BY Zenon DEF OpenCapture
<1>2. ctx[Top.ctx] \in Context
  BY <1>1, TopFacts, FieldFacts DEF IInv, InBody, TypeOK
<1>3. PushFrame(ctx[Top.ctx], id, DONT, FALSE, FALSE).exceptions = ctx[Top.ctx].exceptions
  BY <1>2, PushedFrameEnters, Zenon
<1> QED BY <1>1, <1>3, OpenInOnce, Zenon

\* After blocks have ended none is handling an exception.
LEMMA CutCatchesNothing ==
  ASSUME IInv, NEW n \in 0 .. Depth, CutTo(n),
         n > 0 => blocks'[n] = blocks[n] /\ (n < Depth \/ blocks[n].phase # "catch")
  PROVE  Caught' = << >>
<1>1. n \in Nat /\ 1 .. n \subseteq DOMAIN blocks
  BY CutFacts DEF IInv
<1>2. n > 0 => blocks'[n].phase # "catch"
  <2>1. n > 0 => n \in DOMAIN blocks
    BY <1>1
  <2> QED BY <1>1, <2>1 DEF IInv, Phases
<1> QED BY <1>1, <1>2, NoneCaughtNext DEF CutTo

LEMMA OnceNext ==
  Once' <=> Single(ctx', scope', Caught', live')
BY DEF Once

LEMMA ThrowNewOnce ==
  ASSUME IInv, IInv', Once, ThrowNew
  PROVE  Once'
<1> TypeOK
  BY DEF IInv
<1> DEFINE c == Top.ctx
<1>1. Depth > 0 /\ Top.phase = "body" /\ Top.phase # "catch"
  BY DEF ThrowNew, MayThrow, InBody
<1>2. Depth \in DOMAIN blocks /\ Top = blocks[Depth] /\ c \in Ctxs
  BY <1>1, TopFacts, FieldFacts
<1>3. PICK e \in Exc \ live : LET r == Throw(ctx[c], e)
                              IN  ctx' = [ctx EXCEPT ![c] = r.ctx] /\ live' = live \cup {e}
  BY Zenon DEF ThrowNew
<1> DEFINE d == Throw(ctx[c], e).ctx
<1>4. /\ ctx' = [ctx EXCEPT ![c] = d] /\ live' = live \cup {e}
      /\ blocks' = blocks /\ scope' = scope
  BY <1>3, Zenon DEF ThrowNew
<1>5. d.exceptions = Append(ctx[c].exceptions, e)
  BY <1>2, OnceTypes, ThrowGoesOn, Zenon
<1> HIDE DEF d, c
<1>6. Caught = << >> /\ Caught' = << >>
  <2>1. Depth \in 0 .. Depth /\ CutTo(Depth)
    BY <1>4, SameIsCut
  <2>2. blocks'[Depth] = blocks[Depth] /\ blocks[Depth].phase # "catch"
    BY <1>1, <1>2, <1>4
  <2> QED BY <1>1, <2>1, <2>2, NoneCaught, CutCatchesNothing
<1>7. PICK x \in [Ctxs -> Context] : x = ctx' /\ x[c] = d /\ \A f \in Ctxs : f # c => x[f] = ctx[f]
  BY <1>2, <1>4, OnceTypes, Zenon
<1>8. Single(ctx, scope, << >>, live)
  BY <1>6 DEF Once
<1>9. x[c].exceptions = Append(ctx[c].exceptions, e) /\ \A f \in Ctxs : f # c => x[f].exceptions = ctx[f].exceptions
  BY <1>5, <1>7
<1>10. Single(x, scope, << >>, live \cup {e})
  BY <1>2, <1>8, <1>9, OnceTypes, AddNew, Zenon
<1> QED BY <1>4, <1>6, <1>7, <1>10, OnceNext

LEMMA ThrowCapturedOnce ==
  ASSUME Proper, IInv, IInv', Once, ThrowCaptured
  PROVE  Once'
<1> TypeOK
  BY DEF IInv
<1> DEFINE c == Top.ctx
           s == Top.scope
           full == [ctx[c] EXCEPT !.exceptions = @ \o scope[s].captured]
           stay == [ctx |-> full, to |-> NoJmp, why |-> DONT]
           r == IF HasExceptions(full) THEN JumpThrowing(full) ELSE stay
<1>1. Depth > 0 /\ Top.phase = "body" /\ Top.phase # "catch"
  BY DEF ThrowCaptured, MayThrow, InBody
<1>2. Depth \in DOMAIN blocks /\ Top = blocks[Depth] /\ c \in Ctxs /\ s \in JmpBufs
  BY <1>1, TopFacts, FieldFacts
<1>3. /\ ctx' = [ctx EXCEPT ![c] = r.ctx] /\ scope' = [scope EXCEPT ![s] = NewScope]
      /\ blocks' = blocks /\ live' = live
  BY DEF ThrowCaptured, Proper
<1>4. full \in Context /\ full.exceptions = ctx[c].exceptions \o scope[s].captured
  <2>1. /\ ctx[c] \in Context /\ ctx[c].exceptions \in Seq(Exc) /\ scope[s].captured \in Seq(Exc)
    BY <1>2, OnceTypes
  <2>2. full = [frames |-> ctx[c].frames, exceptions |-> ctx[c].exceptions \o scope[s].captured]
    BY <2>1, ContextExcept, Zenon
  <2>3. ctx[c].exceptions \o scope[s].captured \in Seq(Exc)
    BY <2>1
  <2> QED BY <2>1, <2>2, <2>3, Zenon DEF Context
<1> HIDE DEF full
<1>5. r.ctx.exceptions = full.exceptions
  BY <1>4, JumpThrowingGoesOn, Zenon
<1> HIDE DEF r, c, s
<1>6. Caught = << >> /\ Caught' = << >>
  <2>1. Depth \in 0 .. Depth /\ CutTo(Depth)
    BY <1>3, SameIsCut
  <2>2. blocks'[Depth] = blocks[Depth] /\ blocks[Depth].phase # "catch"
    BY <1>1, <1>2, <1>3
  <2> QED BY <1>1, <2>1, <2>2, NoneCaught, CutCatchesNothing
<1>7. /\ ctx \in [Ctxs -> Context] /\ scope \in [JmpBufs -> Scope]
      /\ ctx' \in [Ctxs -> Context] /\ scope' \in [JmpBufs -> Scope]
  BY OnceTypes
<1> DEFINE x == ctx'
           y == scope'
<1>8. /\ x[c].exceptions = ctx[c].exceptions \o scope[s].captured
      /\ \A f \in Ctxs : f # c => x[f].exceptions = ctx[f].exceptions
  BY <1>2, <1>3, <1>4, <1>5, <1>7, OnceTypes, Zenon
<1>9. y[s].captured = << >> /\ \A q \in JmpBufs : q # s => y[q].captured = scope[q].captured
  <2>1. NewScope.captured = << >>
    BY DEF NewScope
  <2> QED BY <1>2, <1>3, <1>7, <2>1, OnceTypes
<1>10. Single(ctx, scope, << >>, live)
  BY <1>6 DEF Once
<1>11. Single(x, y, << >>, live)
  <2>1. x \in [Ctxs -> Context] /\ y \in [JmpBufs -> Scope] /\ << >> \in Seq(Exc)
    BY <1>7, EmptySeq
  <2> HIDE DEF x, y
  <2>2. ctx \in [Ctxs -> Context] /\ scope \in [JmpBufs -> Scope] /\ s \in JmpBufs /\ c \in Ctxs
    BY <1>2, <1>7
  <2>3. MovesOut(ctx, scope, x, y, s, c)
    BY <1>8, <1>9 DEF MovesOut
  <2> QED BY <1>10, <2>1, <2>2, <2>3, MoveOut, Zenon
<1> QED BY <1>3, <1>6, <1>7, <1>11, OnceNext

LEMMA EndWithOnce ==
  ASSUME IInv, IInv', Once, EndWith
  PROVE  Once'
<1> TypeOK
  BY DEF IInv
<1> DEFINE n == Depth - 1
           s == Top.scope
<1>1. Depth > 0 /\ Top.phase # "catch"
  BY DEF EndWith, In
<1>2. s \in JmpBufs /\ Depth \in Nat
  BY <1>1, TopFacts, FieldFacts, BlockFacts
<1>3. /\ blocks' = Front(blocks) /\ ctx' = ctx /\ scope' = Destroyed(scope, {s})
      /\ live' = live \ CapturedIn(scope, {s})
  BY DEF EndWith
<1>4. CapturedIn(scope, {s}) = ToSet(scope[s].captured)
  BY DEF CapturedIn
<1>5. Caught = << >> /\ Caught' = << >>
  <2>1. n \in 0 .. Depth /\ CutTo(n) /\ (n > 0 => blocks'[n] = blocks[n] /\ n < Depth)
    BY <1>1, <1>2, <1>3, FrontIsCut
  <2> HIDE DEF n
  <2> QED BY <1>1, <2>1, NoneCaught, CutCatchesNothing
<1> HIDE DEF s
<1>6. PICK y \in [JmpBufs -> Scope] : y = scope'
  BY OnceTypes
<1>7. /\ \A q \in JmpBufs : /\ q \in {s} => y[q].captured = << >>
                            /\ q \notin {s} => y[q] = scope[q]
  BY <1>3, <1>6, OnceTypes, DestroyedFacts
<1>8. y[s].captured = << >> /\ \A q \in JmpBufs : q # s => y[q].captured = scope[q].captured
  BY <1>2, <1>7
<1>9. Single(ctx, scope, << >>, live)
  BY <1>5 DEF Once
<1>10. Single(ctx, y, << >>, live \ ToSet(scope[s].captured))
  BY <1>2, <1>8, <1>9, OnceTypes, FreeScope, Zenon
<1> QED BY <1>3, <1>4, <1>5, <1>6, <1>10, OnceNext, Zenon

\* The end of a block that takes away a frame, or changes it, moves no exception.
LEMMA EndOnce ==
  ASSUME IInv, IInv', Once, Depth > 0, Top.phase # "catch", blocks' = Front(blocks),
         scope' = scope, live' = live, NEW d, ctx' = [ctx EXCEPT ![Top.ctx] = d],
         d.exceptions = ctx[Top.ctx].exceptions
  PROVE  Once'
<1> TypeOK
  BY DEF IInv
<1> DEFINE n == Depth - 1
<1>1. n \in 0 .. Depth /\ CutTo(n) /\ (n > 0 => blocks'[n] = blocks[n] /\ n < Depth)
  BY BlockFacts, FrontIsCut
<1> HIDE DEF n
<1>2. Caught = << >> /\ Caught' = << >>
  BY <1>1, NoneCaught, CutCatchesNothing
<1>3. Top.ctx \in Ctxs
  BY TopFacts, FieldFacts
<1>4. \A e \in Ctxs : ctx'[e].exceptions = ctx[e].exceptions
  BY <1>3, OnceTypes, SameExceptions
<1> QED BY <1>2, <1>4, OnceSame

LEMMA EndCaptureOnce ==
  ASSUME IInv, IInv', Once, EndCapture
  PROVE  Once'
<1> TypeOK /\ Framed /\ Nested
  BY DEF IInv, Shape
<1>1. jump = NoJump /\ Depth > 0 /\ Top.kind = "capture" /\ Top.phase = "body"
  BY RunningFacts DEF EndCapture, In
<1>2. ctx[Top.ctx] \in Context /\ HasFrame(ctx[Top.ctx])
  <2>1. FramedIn(ctx, Depth + 1)
    BY <1>1 DEF Framed
  <2> QED BY <1>1, <2>1, TopFrame
<1>3. PopFrame(ctx[Top.ctx]).exceptions = ctx[Top.ctx].exceptions
  BY <1>2, PopFrameFacts
<1> QED BY <1>1, <1>3, EndOnce, Zenon DEF EndCapture

LEMMA EndFinallyOnce ==
  ASSUME IInv, IInv', Once, EndFinally
  PROVE  Once'
<1> TypeOK /\ Framed /\ Nested
  BY DEF IInv, Shape
<1>1. jump = NoJump /\ Depth > 0 /\ Top.kind = "try" /\ Top.phase = "finally"
  BY RunningFacts DEF EndFinally, In
<1>2. ctx[Top.ctx] \in Context /\ HasFrame(ctx[Top.ctx])
  <2>1. FramedIn(ctx, Depth + 1)
    BY <1>1 DEF Framed
  <2> QED BY <1>1, <2>1, TopFrame
<1>3. FinallyDone(ctx[Top.ctx]).ctx.exceptions = ctx[Top.ctx].exceptions
  BY <1>2, FinallyDoneFacts
<1> QED BY <1>1, <1>3, EndOnce, Zenon DEF EndFinally

LEMMA EndBodyOnce ==
  ASSUME IInv, IInv', Once, EndBody
  PROVE  Once'
<1> TypeOK
  BY DEF IInv
<1> DEFINE b == [Top EXCEPT !.phase = "finally"]
           d == StopTrying(ctx[Top.ctx])
<1>1. Depth > 0 /\ Top.phase # "catch"
  BY DEF EndBody, In
<1>2. Top \in Block /\ Top.ctx \in Ctxs
  BY <1>1, TopFacts, FieldFacts
<1>3. b \in Block /\ b.phase = "finally" /\ Same(b, Top)
  BY <1>2 DEF Block, Same
<1>4. blocks' = WithTop(b) /\ ctx' = [ctx EXCEPT ![Top.ctx] = d] /\ scope' = scope /\ live' = live
  BY DEF EndBody
<1>5. d.exceptions = ctx[Top.ctx].exceptions
  BY <1>2, OnceTypes, StopTryingFacts
<1> HIDE DEF b, d
<1>6. Caught = << >> /\ Caught' = << >>
  <2>1. CutTo(Depth) /\ blocks'[Depth] = b /\ Depth \in Nat
    BY <1>1, <1>3, <1>4, WithTopIsCut, BlockFacts
  <2>2. Caught' = << >>
    BY <1>3, <2>1, NoneCaughtNext DEF CutTo
  <2> QED BY <1>1, <2>2, NoneCaught
<1>7. \A e \in Ctxs : ctx'[e].exceptions = ctx[e].exceptions
  BY <1>2, <1>4, <1>5, OnceTypes, SameExceptions
<1> QED BY <1>4, <1>6, <1>7, OnceSame

LEMMA CatchHitOnce ==
  ASSUME IInv, IInv', Once, NEW type, CatchHit(type)
  PROVE  Once'
<1> TypeOK /\ Framed /\ Nested
  BY DEF IInv, Shape
<1> DEFINE c == Top.ctx
           r == Catch(ctx[c], type)
           d == r.ctx
           e == r.caught
           b == [Top EXCEPT !.phase = "catch", !.var = e, !.handled = TRUE]
<1>1. jump = NoJump /\ Depth > 0 /\ Top.kind = "try" /\ Top.phase # "catch"
  BY RunningFacts DEF CatchHit, In
<1>2. Top \in Block /\ c \in Ctxs /\ Depth \in Nat
  BY <1>1, TopFacts, FieldFacts, BlockFacts
<1>3. ctx[c] \in Context /\ HasFrame(ctx[c])
  <2>1. FramedIn(ctx, Depth + 1)
    BY <1>1 DEF Framed
  <2> QED BY <1>1, <2>1, TopFrame
<1>4. /\ e # NoExc /\ blocks' = WithTop(b) /\ ctx' = [ctx EXCEPT ![c] = d] /\ scope' = scope /\ live' = live
  BY DEF CatchHit
<1>5. /\ e \in Exc
      /\ \E k \in 1 .. Len(ctx[c].exceptions) :
           e = ctx[c].exceptions[k] /\ d.exceptions = RemoveAt(ctx[c].exceptions, k)
  BY <1>3, <1>4, CatchFacts
<1> HIDE DEF e, d
<1>6. b \in Block /\ b.phase = "catch" /\ b.var = e /\ Same(b, Top)
  BY <1>2, <1>5, Zenon DEF Block, Same
<1> HIDE DEF b, c
<1>7. Caught = << >> /\ Caught' = <<e>>
  <2>1. CutTo(Depth) /\ blocks'[Depth] = b
    BY <1>1, <1>4, <1>6, WithTopIsCut
  <2>2. Depth' = Depth /\ Top' = b
    BY <1>2, <2>1 DEF CutTo, Depth, Top, Last
  <2>3. Caught' = <<e>>
    BY <1>1, <1>6, <2>2 DEF Caught
  <2> QED BY <1>1, <2>3, NoneCaught
<1>8. PICK k \in 1 .. Len(ctx[c].exceptions) :
        e = ctx[c].exceptions[k] /\ d.exceptions = RemoveAt(ctx[c].exceptions, k)
  BY <1>5
<1>9. PICK x \in [Ctxs -> Context] : x = ctx'
  BY OnceTypes
<1>10. /\ x[c].exceptions = RemoveAt(ctx[c].exceptions, k)
       /\ \A f \in Ctxs : f # c => x[f].exceptions = ctx[f].exceptions
  BY <1>2, <1>4, <1>8, <1>9, OnceTypes
<1>11. Single(ctx, scope, << >>, live)
  BY <1>7 DEF Once
<1>12. Single(x, scope, <<e>>, live)
  BY <1>2, <1>5, <1>8, <1>10, <1>11, OnceTypes, TakeCaught, Zenon
<1> QED BY <1>4, <1>7, <1>9, <1>12, OnceNext

LEMMA CatchDoneOnce ==
  ASSUME IInv, IInv', Once, CatchDone
  PROVE  Once'
<1> TypeOK /\ Phases
  BY DEF IInv
<1> DEFINE b == [Top EXCEPT !.phase = "finally", !.var = NoExc]
           e == Top.var
<1>1. Depth > 0 /\ Top.phase = "catch"
  BY DEF CatchDone, In
<1>2. Top \in Block /\ Depth \in Nat /\ Depth \in DOMAIN blocks /\ Top = blocks[Depth]
  BY <1>1, TopFacts, BlockFacts
<1>3. e \in Exc
  BY <1>1, <1>2, FieldFacts DEF Phases
<1>4. b \in Block /\ b.phase = "finally" /\ Same(b, Top)
  BY <1>2, Zenon DEF Block, Same
<1>5. blocks' = WithTop(b) /\ ctx' = ctx /\ scope' = scope /\ live' = live \ {e}
  BY DEF CatchDone
<1>6. Caught = <<e>>
  BY <1>1 DEF Caught
<1> HIDE DEF b, e
<1>7. Caught' = << >>
  <2>1. CutTo(Depth) /\ blocks'[Depth] = b
    BY <1>1, <1>4, <1>5, WithTopIsCut
  <2> QED BY <1>2, <1>4, <2>1, NoneCaughtNext DEF CutTo
<1>8. Single(ctx, scope, <<e>>, live)
  BY <1>6 DEF Once
<1>9. Single(ctx, scope, << >>, live \ {e})
  BY <1>3, <1>8, OnceTypes, FreeCaught, Zenon
<1> QED BY <1>5, <1>7, <1>9, OnceNext

\* Scopes that hold nothing are destroyed, and nothing is freed.
LEMMA NothingDestroyed ==
  ASSUME NEW y \in [JmpBufs -> Scope], NEW S, S \subseteq JmpBufs, \A s \in S : y[s].captured = << >>
  PROVE  /\ Destroyed(y, S) \in [JmpBufs -> Scope]
         /\ \A s \in JmpBufs : Destroyed(y, S)[s].captured = y[s].captured
         /\ CapturedIn(y, S) = {}
<1>1. \A s \in S : ToSet(y[s].captured) = {}
  BY EmptyHas, ToSetHas
<1>2. CapturedIn(y, S) = {}
  BY <1>1 DEF CapturedIn
<1>3. ASSUME NEW s \in JmpBufs PROVE Destroyed(y, S)[s].captured = y[s].captured
  BY DestroyedFacts
<1> QED BY <1>2, <1>3, DestroyedFacts

\* From the lists of x and y the end of a relay transfers the exceptions of context a to
\* context b, and destroys scopes that hold nothing.
Relays(x, y, a, b) ==
  /\ Transfers(x, ctx', a, b)
  /\ \E S \in SUBSET JmpBufs : /\ \A s \in S : y[s].captured = << >>
                               /\ scope' = Destroyed(y, S)
                               /\ live' = live \ CapturedIn(y, S)

LEMMA RelaysFacts ==
  ASSUME NEW x, NEW y \in [JmpBufs -> Scope], NEW a, NEW b, Relays(x, y, a, b)
  PROVE  /\ live' = live
         /\ scope' \in [JmpBufs -> Scope]
         /\ \A s \in JmpBufs : scope'[s].captured = y[s].captured
<1>1. PICK S \in SUBSET JmpBufs : /\ \A s \in S : y[s].captured = << >>
                                  /\ scope' = Destroyed(y, S)
                                  /\ live' = live \ CapturedIn(y, S)
  BY DEF Relays
<1>2. /\ Destroyed(y, S) \in [JmpBufs -> Scope]
      /\ \A s \in JmpBufs : Destroyed(y, S)[s].captured = y[s].captured
      /\ CapturedIn(y, S) = {}
  BY <1>1, NothingDestroyed
<1> QED BY <1>1, <1>2

LEMMA RelaysOnce ==
  ASSUME IInv, IInv', NEW x \in [Ctxs -> Context], NEW y \in [JmpBufs -> Scope],
         NEW a \in Ctxs, NEW b \in Ctxs, a # b, Relays(x, y, a, b),
         Single(x, y, << >>, live), Caught' = << >>
  PROVE  Once'
<1>1. PICK u \in [Ctxs -> Context], v \in [JmpBufs -> Scope] : u = ctx' /\ v = scope'
  BY OnceTypes
<1>2. live' = live /\ \A s \in JmpBufs : v[s].captured = y[s].captured
  BY <1>1, RelaysFacts
<1>3. Transfers(x, u, a, b)
  BY <1>1 DEF Relays
<1>4. Single(u, y, << >>, live)
  BY <1>3, OnceTypes, MoveBetween, Zenon
<1>5. \A c \in Ctxs : u[c].exceptions = u[c].exceptions
  OBVIOUS
<1>6. Single(u, v, << >>, live)
  BY <1>2, <1>4, <1>5, OnceTypes, SameLists, Zenon
<1> QED BY <1>1, <1>2, <1>6, OnceNext

\* with_exceptions_relay_done: what was captured is added to the context of the relay,
\* which is then emptied into the one that it relays to.
LEMMA EndRelayMoves ==
  ASSUME IInv, EndRelay
  PROVE  \E x \in [Ctxs -> Context], y \in [JmpBufs -> Scope] :
           MovesOut(ctx, scope, x, y, Top.id, Top.ctx) /\ Relays(x, y, Top.ctx, Top.to)
<1> TypeOK /\ Framed /\ Nested /\ Scopes /\ Waiting
  BY DEF IInv, Shape
<1> DEFINE c == Top.ctx
           to == Top.to
           s == Top.scope
           S == {s, Top.toScope} \ {NoScope}
           x == [ctx EXCEPT ![c].exceptions = @ \o scope[s].captured]
           moved == Moved(x, c, to)
           popped == [moved EXCEPT ![c] = PopFrame(@)]
           r == IF HasExceptions(popped[to]) THEN JumpBecause(popped[to], THROW)
                ELSE [ctx |-> popped[to], to |-> NoJmp, why |-> DONT]
           y == [scope EXCEPT ![s] = NewScope]
<1>1. jump = NoJump /\ Depth > 0 /\ Top.kind = "relay"
  BY RunningFacts, Zenon DEF EndRelay, In
<1>2. /\ Depth \in DOMAIN blocks /\ Top = blocks[Depth] /\ s \in JmpBufs /\ Depth \in Nat
      /\ ctx \in [Ctxs -> Context] /\ scope \in [JmpBufs -> Scope] /\ FramedIn(ctx, Depth + 1)
      /\ Top.toScope \in JmpBufs \cup {NoScope}
  BY <1>1, TopFacts, FieldFacts, BlockFacts DEF TypeOK, Framed
<1>3. c \in Ctxs /\ to \in Ctxs /\ c # to
  BY <1>1, <1>2, RelayTo
<1>4. s = Top.id /\ scope[s].valid
  BY <1>1, <1>2 DEF Scopes, Waiting, Scoped
<1>5. /\ ctx' = [popped EXCEPT ![to] = r.ctx]
      /\ scope' = Destroyed(y, S)
      /\ live' = live \ CapturedIn(y, S)
  BY <1>4, Zenon DEF EndRelay, DestroyScopes
<1>6. NewScope \in Scope /\ NewScope.captured = << >>
  BY EmptySeq DEF NewScope, Scope
<1>7. y \in [JmpBufs -> Scope] /\ y[s].captured = << >> /\ \A q \in JmpBufs : q # s => y[q] = scope[q]
  BY <1>2, <1>6
<1>8. /\ x \in [Ctxs -> Context] /\ x[c].exceptions = ctx[c].exceptions \o scope[s].captured
      /\ \A d \in Ctxs : x[d].frames = ctx[d].frames /\ (d # c => x[d] = ctx[d])
  <2> DEFINE a == [ctx[c] EXCEPT !.exceptions = @ \o scope[s].captured]
  <2>1. ctx[c] \in Context /\ scope[s].captured \in Seq(Exc)
    BY <1>2, <1>3 DEF Scope
  <2>2. a = [frames |-> ctx[c].frames, exceptions |-> ctx[c].exceptions \o scope[s].captured]
    BY <2>1, ContextExcept, Zenon
  <2>3. ctx[c].frames \in Seq(Frame) /\ ctx[c].exceptions \o scope[s].captured \in Seq(Exc)
    BY <2>1 DEF Context
  <2>4. a \in Context /\ a.frames = ctx[c].frames /\ a.exceptions = ctx[c].exceptions \o scope[s].captured
    BY <2>2, <2>3, Zenon DEF Context
  <2>5. x = [ctx EXCEPT ![c] = a]
    OBVIOUS
  <2> HIDE DEF a, x
  <2> QED BY <1>2, <1>3, <2>4, <2>5, Zenon
<1> HIDE DEF x
<1>9. S \subseteq JmpBufs /\ \A q \in S : y[q].captured = << >>
  <2>1. Top.toScope # NoScope => scope[Top.toScope].captured = << >>
    BY <1>1, <1>2 DEF Waiting
  <2> HIDE DEF y
  <2> QED BY <1>2, <1>7, <2>1
<1> HIDE DEF y, S
<1>10. /\ moved \in [Ctxs -> Context] /\ \A d \in Ctxs : moved[d].frames = x[d].frames
       /\ moved[to].exceptions = x[to].exceptions \o x[c].exceptions
       /\ moved[c].exceptions = << >>
       /\ \A d \in Ctxs : d # c /\ d # to => moved[d] = x[d]
  <2> HIDE DEF c, to
  <2> QED BY <1>3, <1>8, MovedFacts, Zenon
<1> HIDE DEF moved
<1>11. PopFrame(moved[c]).exceptions = << >> /\ PopFrame(moved[c]) \in Context
  <2>1. HasFrame(ctx[c])
    BY <1>1, <1>2, TopFrame
  <2>2. moved[c] \in Context /\ HasFrame(moved[c])
    BY <1>3, <1>8, <1>10, <2>1 DEF HasFrame
  <2> QED BY <1>10, <2>2, PopFrameFacts
<1>12. /\ popped \in [Ctxs -> Context] /\ popped[c].exceptions = << >>
       /\ \A d \in Ctxs : d # c => popped[d] = moved[d]
  BY <1>3, <1>10, <1>11
<1> HIDE DEF popped
<1>13. r.ctx.exceptions = popped[to].exceptions
  <2>1. THROW \in JumpReason /\ THROW # DONT
    BY DEF JumpReason, THROW, DONT
  <2>2. popped[to] \in Context
    BY <1>3, <1>12
  <2> QED BY <2>1, <2>2, JumpBecauseGoesOn
<1> HIDE DEF r
<1>14. \A d \in Ctxs : ctx'[d].exceptions = popped[d].exceptions
  BY <1>3, <1>5, <1>12, <1>13
<1>15. Transfers(x, ctx', c, to)
  BY <1>3, <1>10, <1>12, <1>14, Zenon DEF Transfers
<1>16. MovesOut(ctx, scope, x, y, s, c)
  BY <1>7, <1>8 DEF MovesOut
<1>17. Relays(x, y, c, to)
  BY <1>5, <1>9, <1>15 DEF Relays
<1> QED BY <1>4, <1>7, <1>8, <1>16, <1>17

LEMMA EndRelayOnce ==
  ASSUME IInv, IInv', Once, EndRelay
  PROVE  Once'
<1> TypeOK /\ Waiting
  BY DEF IInv
<1> DEFINE c == Top.ctx
           to == Top.to
           s == Top.id
           n == Depth - 1
<1>1. jump = NoJump /\ Depth > 0 /\ Top.kind = "relay" /\ Top.phase # "catch"
  BY RunningFacts, Zenon DEF EndRelay, In
<1>2. Depth \in DOMAIN blocks /\ Top = blocks[Depth] /\ s \in JmpBufs
  BY <1>1, TopFacts, FieldFacts
<1>3. c \in Ctxs /\ to \in Ctxs /\ c # to
  BY <1>1, <1>2, RelayTo
<1>4. PICK x \in [Ctxs -> Context], y \in [JmpBufs -> Scope] :
        MovesOut(ctx, scope, x, y, s, c) /\ Relays(x, y, c, to)
  BY EndRelayMoves
<1>5. blocks' = Front(blocks)
  <2>1. scope[Top.scope].valid
    BY <1>1, <1>2 DEF Waiting
  <2> QED BY <2>1, Zenon DEF EndRelay
<1>6. Caught = << >> /\ Caught' = << >>
  <2>1. n \in 0 .. Depth /\ CutTo(n) /\ (n > 0 => blocks'[n] = blocks[n] /\ n < Depth)
    BY <1>1, <1>5, BlockFacts, FrontIsCut
  <2> HIDE DEF n
  <2> QED BY <1>1, <2>1, NoneCaught, CutCatchesNothing
<1> HIDE DEF c, to, s
<1>7. Single(ctx, scope, << >>, live)
  BY <1>6 DEF Once
<1>8. Single(x, y, << >>, live)
  BY <1>2, <1>3, <1>4, <1>7, OnceTypes, MoveOut, Zenon
<1> QED BY <1>3, <1>4, <1>6, <1>8, RelaysOnce

\* The longjmp to a relay: nothing was captured in its scope, for no jump passes that, and
\* its context is emptied into the one that it relays to.
LEMMA LandInRelayMoves ==
  ASSUME IInv, NEW i \in DOMAIN blocks, LandInRelay(i)
  PROVE  /\ scope[blocks[i].id].captured = << >>
         /\ Relays(ctx, scope, blocks[i].ctx, blocks[i].to)
<1> TypeOK /\ Scopes /\ Waiting
  BY DEF IInv, Shape
<1> DEFINE b == blocks[i]
           S == {b.scope, b.toScope} \ {NoScope}
           moved == Moved(ctx, b.ctx, b.to)
           r == JumpBecause(moved[b.to], jump.why)
<1>1. /\ Flies(i) /\ ~Passes(Depth) /\ jump.why \in JumpReason /\ b \in Block
      /\ b.kind = "relay" /\ i \in Nat /\ 1 <= i /\ i <= Depth
      /\ ctx \in [Ctxs -> Context] /\ scope \in [JmpBufs -> Scope]
      /\ \A k \in DOMAIN blocks : i < k => blocks[k].kind = "with"
  <2>1. Lands("relay", i)
    BY DEF LandInRelay
  <2> QED BY <2>1, LandsFacts
<1>2. b.ctx \in Ctxs /\ b.to \in Ctxs /\ b.ctx # b.to
  BY <1>1, RelayTo
<1>3. /\ ctx' = [moved EXCEPT ![b.to] = r.ctx]
      /\ scope' = Destroyed(scope, S)
      /\ live' = live \ CapturedIn(scope, S)
  BY DEF LandInRelay, DestroyScopes
<1>4. scope[b.id].captured = << >> /\ b.scope = b.id /\ b.id \in JmpBufs
  <2>1. \A k \in DOMAIN blocks : i < k => blocks[k].kind # "capture"
    BY <1>1
  <2>2. scope[b.id].captured = << >>
    BY <1>1, <2>1 DEF Passes
  <2> QED BY <1>1, <2>2, FieldFacts DEF Scopes, Scoped
<1>5. S \subseteq JmpBufs /\ \A q \in S : scope[q].captured = << >>
  <2>1. b.toScope # NoScope => scope[b.toScope].captured = << >>
    BY <1>1 DEF Waiting
  <2>2. b.toScope \in JmpBufs \cup {NoScope}
    BY <1>1, FieldFacts
  <2> QED BY <1>4, <2>1, <2>2
<1> HIDE DEF S
<1>6. /\ moved \in [Ctxs -> Context]
      /\ moved[b.to].exceptions = ctx[b.to].exceptions \o ctx[b.ctx].exceptions
      /\ moved[b.ctx].exceptions = << >>
      /\ \A d \in Ctxs : d # b.ctx /\ d # b.to => moved[d] = ctx[d]
  <2> DEFINE a == b.ctx
             to == b.to
             m == Moved(ctx, a, to)
  <2>1. a \in Ctxs /\ to \in Ctxs /\ a # to
    BY <1>2
  <2> HIDE DEF a, to
  <2>2. /\ m \in [Ctxs -> Context] /\ m[a].exceptions = << >>
        /\ m[to].exceptions = ctx[to].exceptions \o ctx[a].exceptions
        /\ \A d \in Ctxs : d # a /\ d # to => m[d] = ctx[d]
    BY <1>1, <2>1, MovedFacts, Zenon
  <2> HIDE DEF m
  <2>3. m = moved
    BY DEF m, a, to
  <2> QED BY <2>2, <2>3, Zenon DEF a, to
<1> HIDE DEF moved
<1>7. r.ctx.exceptions = moved[b.to].exceptions
  <2>1. jump.why # DONT
    BY <1>1 DEF Flies
  <2>2. moved[b.to] \in Context
    BY <1>2, <1>6
  <2> QED BY <1>1, <2>1, <2>2, JumpBecauseGoesOn
<1> HIDE DEF r
<1>8. \A d \in Ctxs : ctx'[d].exceptions = moved[d].exceptions
  BY <1>2, <1>3, <1>6, <1>7, Zenon
<1>9. Transfers(ctx, ctx', b.ctx, b.to)
  BY <1>2, <1>6, <1>8, Zenon DEF Transfers
<1>10. Relays(ctx, scope, b.ctx, b.to)
  BY <1>3, <1>5, <1>9 DEF Relays
<1> QED BY <1>4, <1>10

\* While a jump is under way nothing is caught.
LEMMA FlyingCatchesNothing ==
  ASSUME IInv, jump # NoJump
  PROVE  Caught = << >>
<1>1. Depth > 0 => Top.phase # "catch"
  <2>1. TypeOK /\ Phases
    BY DEF IInv
  <2> QED BY <2>1, TopFacts DEF Phases
<1> QED BY <1>1, NoneCaught DEF IInv

LEMMA LandInRelayOnce ==
  ASSUME IInv, IInv', Once, NEW i \in DOMAIN blocks, LandInRelay(i)
  PROVE  Once'
<1> TypeOK
  BY DEF IInv
<1> DEFINE n == i - 1
<1>1. jump # NoJump /\ blocks[i].kind = "relay" /\ n \in 0 .. Depth /\ i <= Depth /\ i \in Nat /\ Depth \in Nat
  <2>1. Lands("relay", i)
    BY DEF LandInRelay
  <2> QED BY <2>1, LandsFacts
<1>2. blocks[i].ctx \in Ctxs /\ blocks[i].to \in Ctxs /\ blocks[i].ctx # blocks[i].to
  BY <1>1, RelayTo
<1>3. Relays(ctx, scope, blocks[i].ctx, blocks[i].to)
  BY LandInRelayMoves
<1>4. Caught = << >>
  BY <1>1, FlyingCatchesNothing
<1>5. Caught' = << >>
  <2>1. blocks' = SubSeq(blocks, 1, n)
    BY DEF LandInRelay
  <2>2. CutTo(n) /\ (n > 0 => blocks'[n] = blocks[n]) /\ n < Depth
    BY <1>1, <2>1, PrefixIsCut
  <2> HIDE DEF n
  <2> QED BY <1>1, <2>2, CutCatchesNothing
<1>6. Single(ctx, scope, << >>, live)
  BY <1>4 DEF Once
<1> QED BY <1>2, <1>3, <1>5, <1>6, OnceTypes, RelaysOnce, Zenon

LEMMA LandInTryOnce ==
  ASSUME IInv, IInv', Once, NEW i \in DOMAIN blocks, LandInTry(i)
  PROVE  Once'
<1> TypeOK
  BY DEF IInv
<1> DEFINE b == blocks[i]
           c == b.ctx
           d == Try(ctx[c], b.id, jump.why)
           e == [b EXCEPT !.phase = "finally", !.var = NoExc]
<1>1. /\ jump # NoJump /\ jump.why # DONT /\ jump.why \in JumpReason
      /\ b \in Block /\ b.id \in JmpBufs /\ c \in Ctxs /\ ctx[c] \in Context /\ i \in Nat
  <2>1. Lands("try", i)
    BY DEF LandInTry
  <2>2. /\ jump # NoJump /\ Flies(i) /\ jump.why \in JumpReason /\ i \in Nat
        /\ b \in Block /\ c \in Ctxs /\ ctx \in [Ctxs -> Context]
    BY <2>1, LandsFacts
  <2> QED BY <2>2, FieldFacts DEF Flies
<1>2. /\ ctx' = [ctx EXCEPT ![c] = d] /\ blocks' = Append(SubSeq(blocks, 1, i - 1), e)
      /\ scope' = scope /\ live' = live \ (ToSet(ctx[c].exceptions) \ ToSet(d.exceptions))
  BY DEF LandInTry
<1>3. /\ HasExceptions(ctx[c]) => d.exceptions = <<ctx[c].exceptions[1]>>
      /\ ~HasExceptions(ctx[c]) => d.exceptions = << >>
  BY <1>1, TryFacts
<1>4. e \in Block /\ Same(e, b) /\ e.phase = "finally"
  BY <1>1, Zenon DEF Block, Same
<1> HIDE DEF d, e
<1>5. Caught = << >>
  BY <1>1, FlyingCatchesNothing
<1>6. Caught' = << >>
  <2>1. CutTo(i) /\ blocks'[i] = e
    BY <1>2, <1>4, ReenterIsCut, Zenon
  <2> QED BY <1>1, <1>4, <2>1, NoneCaughtNext DEF CutTo
<1> HIDE DEF b, c
<1>7. PICK x \in [Ctxs -> Context] : x = ctx' /\ x[c] = d /\ \A f \in Ctxs : f # c => x[f] = ctx[f]
  BY <1>1, <1>2, OnceTypes, Zenon
<1>8. Single(ctx, scope, << >>, live)
  BY <1>5 DEF Once
<1>9. /\ HasExceptions(ctx[c]) => x[c].exceptions = <<ctx[c].exceptions[1]>>
      /\ ~HasExceptions(ctx[c]) => x[c].exceptions = << >>
      /\ \A f \in Ctxs : f # c => x[f].exceptions = ctx[f].exceptions
  BY <1>3, <1>7
<1>10. Single(x, scope, << >>, live \ (ToSet(ctx[c].exceptions) \ ToSet(x[c].exceptions)))
  BY <1>1, <1>8, <1>9, OnceTypes, KeepFirst, Zenon
<1> QED BY <1>2, <1>6, <1>7, <1>10, OnceNext

\* Where a capture lands, its scope takes the exceptions of its context.
LEMMA LandInCaptureMoves ==
  ASSUME IInv, NEW i \in DOMAIN blocks, LandInCapture(i)
  PROVE  LET b == blocks[i]
         IN  /\ b.ctx \in Ctxs /\ b.scope \in JmpBufs
             /\ MovesIn(ctx, scope, ctx', scope', b.ctx, b.scope)
             /\ jump # NoJump /\ live' = live /\ blocks' = SubSeq(blocks, 1, i - 1)
             /\ i \in Nat /\ Depth \in Nat /\ i <= Depth /\ i - 1 \in 0 .. Depth
<1> TypeOK /\ Waiting
  BY DEF IInv
<1> DEFINE b == blocks[i]
           d == ClearAll(ctx[b.ctx])
           q == [scope[b.scope] EXCEPT !.captured = @ \o ctx[b.ctx].exceptions]
<1>1. /\ jump # NoJump /\ b.kind = "capture" /\ b \in Block /\ i \in Nat /\ Depth \in Nat
      /\ i <= Depth /\ i - 1 \in 0 .. Depth
      /\ b.ctx \in Ctxs /\ ctx \in [Ctxs -> Context] /\ scope \in [JmpBufs -> Scope]
  <2>1. Lands("capture", i)
    BY DEF LandInCapture
  <2> QED BY <2>1, LandsFacts
<1>2. b.scope \in JmpBufs /\ scope[b.scope].valid
  BY <1>1, FieldFacts DEF Waiting
<1>3. /\ ctx' = [ctx EXCEPT ![b.ctx] = d] /\ scope' = [scope EXCEPT ![b.scope] = q]
      /\ live' = live /\ blocks' = SubSeq(blocks, 1, i - 1)
  BY <1>2 DEF LandInCapture
<1>4. d.exceptions = << >>
  <2>1. ctx[b.ctx] \in Context
    BY <1>1
  <2> QED BY <2>1 DEF Context, ClearAll
<1>5. q.captured = scope[b.scope].captured \o ctx[b.ctx].exceptions
  <2>1. scope[b.scope] \in Scope
    BY <1>1, <1>2
  <2> QED BY <2>1, Zenon DEF Scope
<1> HIDE DEF d, q
<1>6. MovesIn(ctx, scope, ctx', scope', b.ctx, b.scope)
  BY <1>1, <1>2, <1>3, <1>4, <1>5, Zenon DEF MovesIn
<1> QED BY <1>1, <1>2, <1>3, <1>6

LEMMA LandInCaptureOnce ==
  ASSUME IInv, IInv', Once, NEW i \in DOMAIN blocks, LandInCapture(i)
  PROVE  Once'
<1> TypeOK
  BY DEF IInv
<1> DEFINE b == blocks[i]
           n == i - 1
<1>1. /\ b.ctx \in Ctxs /\ b.scope \in JmpBufs
      /\ MovesIn(ctx, scope, ctx', scope', b.ctx, b.scope)
      /\ jump # NoJump /\ live' = live /\ blocks' = SubSeq(blocks, 1, n)
      /\ i \in Nat /\ Depth \in Nat /\ i <= Depth /\ n \in 0 .. Depth
  BY LandInCaptureMoves
<1>2. Caught = << >>
  BY <1>1, FlyingCatchesNothing
<1>3. Caught' = << >>
  <2>1. CutTo(n) /\ (n > 0 => blocks'[n] = blocks[n]) /\ n < Depth
    BY <1>1, PrefixIsCut
  <2> HIDE DEF n
  <2> QED BY <1>1, <2>1, CutCatchesNothing
<1> HIDE DEF b
<1>4. PICK x \in [Ctxs -> Context], y \in [JmpBufs -> Scope] : x = ctx' /\ y = scope'
  BY OnceTypes
<1>5. Single(ctx, scope, << >>, live)
  BY <1>2 DEF Once
<1>6. MovesIn(ctx, scope, x, y, b.ctx, b.scope)
  BY <1>1, <1>4
<1>7. Single(x, y, << >>, live)
  BY <1>1, <1>5, <1>6, OnceTypes, MoveIn, Zenon
<1> QED BY <1>1, <1>3, <1>4, <1>7, OnceNext

LEMMA EmptyOnce ==
  ASSUME Init
  PROVE  Once
<1>1. Caught = << >> /\ live = {}
  BY EmptySeq DEF Caught, Depth, Init
<1>2. \A c \in Ctxs : ctx[c].exceptions = << >>
  BY DEF Init, EmptyContext
<1>3. \A s \in JmpBufs : scope[s].captured = << >>
  BY DEF Init, ZeroScope
<1>4. ctx \in [Ctxs -> Context] /\ scope \in [JmpBufs -> Scope] /\ << >> \in Seq(Exc)
  BY InitKeeps, EmptySeq DEF IInv, TypeOK
<1>5. PICK f \in [Holders -> Seq(Exc)] :
        Reads(f, ctx, scope, << >>) /\ \A L : Single(ctx, scope, << >>, L) <=> OneHolder(Exc, f, L)
  BY <1>4, ListsFacts, Zenon
<1>6. \A h \in Holders : f[h] = << >>
  <2>1. \A h \in Holders : h = InVar \/ (\E c \in Ctxs : h = InContext(c)) \/ \E s \in JmpBufs : h = InScope(s)
    BY HoldersFacts
  <2> QED BY <1>2, <1>3, <1>5, <2>1, Zenon DEF Reads
<1>7. OneHolder(Exc, f, {})
  <2>1. DOMAIN << >> = {}
    OBVIOUS
  <2> QED BY <1>6, <2>1 DEF OneHolder, NoRepeat, Apart, Has
<1> QED BY <1>1, <1>5, <1>7 DEF Once

LEMMA StutterOnce ==
  ASSUME Once, UNCHANGED vars
  PROVE  Once'
BY DEF Once, vars, Caught, Depth, Top, Last

LEMMA OnceKept ==
  ASSUME Proper, IInv, Once, [Next]_vars
  PROVE  Once'
<1>0. IInv'
  BY NextKeeps
<1>1. CASE \E id \in JmpBufs : OpenTry(id) \/ OpenCapture(id)
  BY <1>0, <1>1, OpenTryOnce, OpenCaptureOnce
<1>2. CASE \E id \in JmpBufs : \E c \in Ctxs : OpenWith(id, c) \/ OpenRelay(id, c)
  BY <1>0, <1>2, OpenWithOnce, OpenRelayOnce
<1>3. CASE \E id \in JmpBufs : \E c, to \in Ctxs : OpenRelayTo(id, c, to)
  BY <1>0, <1>3, OpenRelayToOnce
<1>4. CASE ThrowNew \/ ThrowCaptured
  BY <1>0, <1>4, ThrowNewOnce, ThrowCapturedOnce
<1>5. CASE Land
  BY <1>0, <1>5, LandInTryOnce, LandInCaptureOnce, LandInRelayOnce DEF Land
<1>6. CASE EndWith \/ EndRelay \/ EndCapture \/ EndBody
  BY <1>0, <1>6, EndWithOnce, EndRelayOnce, EndCaptureOnce, EndBodyOnce
<1>7. CASE \E type \in Types : CatchHit(type)
  BY <1>0, <1>7, CatchHitOnce
<1>8. CASE CatchDone \/ EndFinally
  BY <1>0, <1>8, CatchDoneOnce, EndFinallyOnce
<1>9. CASE UNCHANGED vars
  BY <1>9, StutterOnce
<1> QED BY <1>1, <1>2, <1>3, <1>4, <1>5, <1>6, <1>7, <1>8, <1>9 DEF Next

\* The places of an exception are its positions in the lists.
LEMMA OncePlaces ==
  ASSUME IInv, Once
  PROVE  OnePlace
<1> TypeOK /\ Phases
  BY DEF IInv
<1> SUFFICES ASSUME NEW e \in Exc
             PROVE  Cardinality(Places(e)) = IF e \in live THEN 1 ELSE 0
  BY DEF OnePlace
<1> DEFINE inCtx(c) == {j \in DOMAIN ctx[c].exceptions : ctx[c].exceptions[j] = e}
           inScope(s) == {j \in DOMAIN scope[s].captured : scope[s].captured[j] = e}
           inVar == {j \in DOMAIN blocks : blocks[j].var = e}
           A(c) == {<<"context", c, i>> : i \in inCtx(c)}
           B(s) == {<<"scope", s, i>> : i \in inScope(s)}
           C == {<<"var", i>> : i \in inVar}
           allA == UNION {A(c) : c \in Ctxs}
           allB == UNION {B(s) : s \in JmpBufs}
<1>1. Places(e) = allA \cup allB \cup C
  BY DEF Places
<1> HIDE DEF A, B, C, allA, allB
<1>2. Caught \in Seq(Exc)
  <2>1. CASE Depth > 0 /\ Top.phase = "catch"
    <3>1. Top.var \in Exc
      BY <2>1, TopFacts, FieldFacts DEF Phases
    <3> QED BY <2>1, <3>1 DEF Caught
  <2>2. CASE ~(Depth > 0 /\ Top.phase = "catch")
    BY <2>2, EmptySeq DEF Caught
  <2> QED BY <2>1, <2>2
<1>3. PICK f \in [Holders -> Seq(Exc)] :
        /\ Reads(f, ctx, scope, Caught)
        /\ \A L : Single(ctx, scope, Caught, L) <=> OneHolder(Exc, f, L)
  BY <1>2, ListsFacts, Zenon DEF TypeOK
<1>4. OneHolder(Exc, f, live)
  BY <1>3 DEF Once
<1>5. /\ \A c \in Ctxs : Has(f[InContext(c)], e) <=> inCtx(c) # {}
      /\ \A s \in JmpBufs : Has(f[InScope(s)], e) <=> inScope(s) # {}
  BY <1>3 DEF Reads, Has
<1>6. /\ Has(f[InVar], e) <=> inVar # {}
      /\ \A i, j \in inVar : i = j
  <2>1. \A j \in inVar : j = Depth /\ blocks[j].phase = "catch"
    <3> TAKE j \in inVar
    <3>1. blocks[j].var # NoExc
      BY ContextAssumption
    <3> QED BY <3>1 DEF Phases
  <2>2. Depth > 0 => Depth \in DOMAIN blocks /\ Top = blocks[Depth]
    BY TopFacts
  <2>3. inVar # {} => Depth > 0
    BY BlockFacts
  <2>4. inVar # {} <=> Depth > 0 /\ Top.phase = "catch" /\ Top.var = e
    BY <2>1, <2>2, <2>3
  <2>5. Has(Caught, e) <=> Depth > 0 /\ Top.phase = "catch" /\ Top.var = e
    BY EmptyHas, SingleHas DEF Caught
  <2>6. f[InVar] = Caught
    BY <1>3 DEF Reads
  <2> QED BY <2>1, <2>4, <2>5, <2>6
<1>7. /\ \A h \in Holders : NoRepeat(f[h])
      /\ \A h, k \in Holders : Has(f[h], e) /\ Has(f[k], e) => h = k
      /\ e \in live <=> \E h \in Holders : Has(f[h], e)
  BY <1>4, ApartHas DEF OneHolder
<1>8. /\ \A c \in Ctxs : \A i, j \in inCtx(c) : i = j
      /\ \A s \in JmpBufs : \A i, j \in inScope(s) : i = j
  BY <1>3, <1>7, HoldersFacts DEF NoRepeat, Reads
<1> HIDE DEF inCtx, inScope, inVar
<1> DEFINE P == Places(e)
<1>14. \A p : p \in P <=>
         \/ \E c \in Ctxs : \E i \in inCtx(c) : p = <<"context", c, i>>
         \/ \E s \in JmpBufs : \E i \in inScope(s) : p = <<"scope", s, i>>
         \/ \E i \in inVar : p = <<"var", i>>
  <2>1. P = allA \cup allB \cup C
    BY <1>1
  <2>2. \A p, c : p \in A(c) <=> \E i \in inCtx(c) : p = <<"context", c, i>>
    BY DEF A
  <2>3. \A p, s : p \in B(s) <=> \E i \in inScope(s) : p = <<"scope", s, i>>
    BY DEF B
  <2>4. \A p : p \in C <=> \E i \in inVar : p = <<"var", i>>
    BY DEF C
  <2> HIDE DEF P
  <2>5. \A p : p \in allA <=> \E c \in Ctxs : p \in A(c)
    BY DEF allA
  <2>6. \A p : p \in allB <=> \E s \in JmpBufs : p \in B(s)
    BY DEF allB
  <2>7. \A p : p \in P <=>
          \/ p \in allA
          \/ p \in allB
          \/ p \in C
    BY <2>1
  <2> TAKE p
  <2>8. p \in P <=>
          \/ \E c \in Ctxs : p \in A(c)
          \/ \E s \in JmpBufs : p \in B(s)
          \/ p \in C
    BY <2>5, <2>6, <2>7
  <2> QED BY <2>2, <2>3, <2>4, <2>8
<1> HIDE DEF P
<1>9. CASE e \notin live
  <2>1. inVar = {} /\ (\A c \in Ctxs : inCtx(c) = {}) /\ (\A s \in JmpBufs : inScope(s) = {})
    BY <1>5, <1>6, <1>7, <1>9, HoldersFacts
  <2>2. P = {}
    BY <1>14, <2>1
  <2> QED BY <1>9, <2>2, FS_EmptySet DEF P
<1>10. ASSUME NEW a \in Ctxs, inCtx(a) # {} PROVE Cardinality(P) = 1 /\ e \in live
  <2>1. PICK k \in inCtx(a) : inCtx(a) = {k}
    BY <1>8, <1>10
  <2>2. Has(f[InContext(a)], e) /\ InContext(a) \in Holders
    BY <1>5, <1>10, HoldersFacts
  <2>3. inVar = {} /\ \A s \in JmpBufs : inScope(s) = {}
    BY <1>5, <1>6, <1>7, <2>2, HoldersFacts
  <2>4. \A c \in Ctxs : c # a => inCtx(c) = {}
    BY <1>5, <1>7, <2>2, HoldersFacts, Zenon
  <2>5. P = {<<"context", a, k>>}
    BY <1>14, <2>1, <2>3, <2>4
  <2> QED BY <1>7, <2>2, <2>5, FS_Singleton, Zenon
<1>11. ASSUME NEW a \in JmpBufs, inScope(a) # {} PROVE Cardinality(P) = 1 /\ e \in live
  <2>1. PICK k \in inScope(a) : inScope(a) = {k}
    BY <1>8, <1>11
  <2>2. Has(f[InScope(a)], e) /\ InScope(a) \in Holders
    BY <1>5, <1>11, HoldersFacts
  <2>3. inVar = {} /\ \A c \in Ctxs : inCtx(c) = {}
    BY <1>5, <1>6, <1>7, <2>2, HoldersFacts
  <2>4. \A s \in JmpBufs : s # a => inScope(s) = {}
    BY <1>5, <1>7, <2>2, HoldersFacts, Zenon
  <2>5. P = {<<"scope", a, k>>}
    BY <1>14, <2>1, <2>3, <2>4
  <2> QED BY <1>7, <2>2, <2>5, FS_Singleton, Zenon
<1>12. CASE inVar # {}
  <2>1. PICK k \in inVar : inVar = {k}
    BY <1>6, <1>12
  <2>2. Has(f[InVar], e) /\ InVar \in Holders
    BY <1>6, <1>12, HoldersFacts
  <2>3. (\A c \in Ctxs : inCtx(c) = {}) /\ \A s \in JmpBufs : inScope(s) = {}
    BY <1>5, <1>7, <2>2, HoldersFacts
  <2>4. P = {<<"var", k>>}
    BY <1>14, <2>1, <2>3
  <2> QED BY <1>7, <2>2, <2>4, FS_Singleton, Zenon DEF P
<1>13. e \in live => \/ inVar # {} \/ (\E c \in Ctxs : inCtx(c) # {})
                     \/ \E s \in JmpBufs : inScope(s) # {}
  BY <1>5, <1>6, <1>7, HoldersFacts, Zenon
<1> QED BY <1>9, <1>10, <1>11, <1>12, <1>13 DEF P

\* Whatever contexts and scopes an exception is relayed through, captured in and thrown
\* from, it is in one place while it is allocated and in none after: exceptional_list_move
\* (exception_scope.c:50,100,114) hands each over once, and the scopes that a relay
\* destroys hold nothing that it has not handed over.
THEOREM OnePlaceAtATime ==
  ASSUME Proper
  PROVE  Spec => []OnePlace
<1>1. Init => Once
  BY EmptyOnce
<1>2. IInv /\ Once /\ [Next]_vars => Once'
  BY OnceKept
<1>3. IInv /\ Once => OnePlace
  BY OncePlaces
<1> QED BY <1>1, <1>2, <1>3, Invariant, PTL DEF Spec

-----------------------------------------------------------------------------
(* What a step may never do *)

\* A block ends by its end, or by a jump to it or to one below it; the blocks above the
\* target of a jump are with blocks.
LEMMA BlockEnds ==
  ASSUME IInv, [Next]_vars, NEW i \in DOMAIN blocks, i \notin DOMAIN blocks'
  PROVE  \/ i = Depth /\ Top = blocks[i] /\ (EndWith \/ EndRelay \/ EndCapture \/ EndFinally)
         \/ \E j \in DOMAIN blocks :
              /\ j < i => blocks[i].kind = "with"
              /\ j <= i /\ blocks[j].id = jump.to
              /\ LandInTry(j) \/ LandInCapture(j) \/ LandInRelay(j)
<1> TypeOK /\ Waiting /\ Shape
  BY DEF IInv
<1>1. /\ blocks \in Seq(Block) /\ Depth \in Nat /\ DOMAIN blocks = 1 .. Depth
      /\ i \in Nat /\ 1 <= i /\ i <= Depth
  BY BlockFacts
<1>2. blocks' # blocks
  OBVIOUS
<1>3. ~\E b : blocks' = Append(blocks, b)
  BY <1>1
<1>4. ~\E b : blocks' = WithTop(b)
  BY <1>1 DEF WithTop
<1>5. CASE EndWith \/ EndRelay \/ EndCapture \/ EndFinally
  <2>1. Depth > 0 /\ Top = blocks[Depth] /\ Depth \in DOMAIN blocks
    BY <1>1, TopFacts
  <2>2. EndRelay => scope[Top.scope].valid
    BY <2>1, Zenon DEF EndRelay, In, Waiting
  <2>3. blocks' = Front(blocks)
    BY <1>5, <2>2, Zenon DEF EndWith, EndRelay, EndCapture, EndFinally
  <2>4. Len(blocks') = Depth - 1 /\ blocks' \in Seq(Block)
    BY <2>1, <2>3, FrontIsCut DEF CutTo
  <2>5. i = Depth
    BY <1>1, <2>4
  <2> QED BY <1>5, <2>1, <2>5
<1>6. ASSUME NEW j \in DOMAIN blocks, LandInTry(j) \/ LandInCapture(j) \/ LandInRelay(j)
      PROVE  /\ j < i => blocks[i].kind = "with"
             /\ j <= i /\ blocks[j].id = jump.to
  <2>1. PICK kind : Lands(kind, j)
    BY <1>6 DEF LandInTry, LandInCapture, LandInRelay
  <2>2. /\ j \in Nat /\ 1 <= j /\ j <= Depth /\ jump.to = blocks[j].id
        /\ \A k \in DOMAIN blocks : j < k => blocks[k].kind = "with"
    BY <2>1, LandsFacts DEF Lands
  <2>3. LandInCapture(j) => scope[blocks[j].scope].valid
    BY DEF LandInCapture, Lands, Waiting
  <2>4. \A k \in 1 .. j - 1 : k \in DOMAIN blocks'
    <3>1. PICK m \in 0 .. Depth : m = j - 1
      BY <1>1, <2>2
    <3>2. \/ blocks' = SubSeq(blocks, 1, m)
          \/ \E b : blocks' = Append(SubSeq(blocks, 1, m), b)
      BY <1>6, <2>3, <3>1 DEF LandInTry, LandInCapture, LandInRelay
    <3>3. SubSeq(blocks, 1, m) \in Seq(Block) /\ Len(SubSeq(blocks, 1, m)) = m
      BY <1>1, <3>1
    <3>4. \A k \in 1 .. m : k \in DOMAIN blocks'
      BY <3>2, <3>3
    <3> QED BY <3>1, <3>4
  <2>5. j <= i
    BY <1>1, <2>2, <2>4
  <2> QED BY <2>2, <2>5
<1>7. CASE Land
  BY <1>6, <1>7 DEF Land
<1>8. CASE \E id \in JmpBufs : OpenTry(id) \/ OpenCapture(id)
  BY <1>3, <1>8, Zenon DEF OpenTry, OpenCapture, OpenIn
<1>9. CASE \E id \in JmpBufs : \E c \in Ctxs : OpenWith(id, c) \/ OpenRelay(id, c)
  BY <1>3, <1>9, Zenon DEF OpenWith, OpenRelay, BeginRelay
<1>10. CASE \E id \in JmpBufs : \E c, to \in Ctxs : OpenRelayTo(id, c, to)
  BY <1>3, <1>10 DEF OpenRelayTo, BeginRelay
<1>11. CASE ThrowNew \/ ThrowCaptured \/ UNCHANGED vars
  BY <1>2, <1>11 DEF ThrowNew, ThrowCaptured, Crash, vars
<1>12. CASE EndBody \/ CatchDone \/ \E type \in Types : CatchHit(type)
  BY <1>4, <1>12, Zenon DEF EndBody, CatchDone, CatchHit
<1> QED BY <1>5, <1>7, <1>8, <1>9, <1>10, <1>11, <1>12 DEF Next

\* Lists that are put together have all the elements of both.
LEMMA ConcatToSet ==
  ASSUME NEW S, NEW s \in Seq(S), NEW r \in Seq(S)
  PROVE  ToSet(s \o r) = ToSet(s) \cup ToSet(r)
BY ConcatHas, ToSetHas

LEMMA RelayedAll ==
  ASSUME IInv, [Next]_vars, NEW i \in DOMAIN blocks, blocks[i].kind = "relay",
         (i = Depth /\ jump = NoJump) \/ blocks[i].id = jump.to, i \notin DOMAIN blocks'
  PROVE  ToSet(ctx[blocks[i].ctx].exceptions) \cup ToSet(scope[blocks[i].id].captured)
           \subseteq ToSet(ctx'[blocks[i].to].exceptions)
<1> TypeOK /\ Distinct
  BY DEF IInv, Shape
<1> DEFINE b == blocks[i]
           c == b.ctx
           to == b.to
           s == b.id
<1>1. /\ c \in Ctxs /\ to \in Ctxs /\ c # to /\ s \in JmpBufs
      /\ \A d \in Ctxs : ctx[d].exceptions \in Seq(Exc)
      /\ scope[s].captured \in Seq(Exc)
  <2>1. c \in Ctxs /\ to \in Ctxs /\ c # to
    BY RelayTo
  <2>2. s \in JmpBufs
    BY BlockFacts, FieldFacts
  <2> QED BY <2>1, <2>2 DEF TypeOK, Context, Scope
<1>2. CASE EndRelay /\ i = Depth /\ Top = b
  <2>1. PICK x \in [Ctxs -> Context], y \in [JmpBufs -> Scope] :
          MovesOut(ctx, scope, x, y, s, c) /\ Relays(x, y, c, to)
    BY <1>2, EndRelayMoves
  <2> HIDE DEF c, to, s
  <2>2. /\ x[c].exceptions = ctx[c].exceptions \o scope[s].captured
        /\ ctx'[to].exceptions = x[to].exceptions \o x[c].exceptions
    BY <2>1 DEF MovesOut, Relays, Transfers
  <2>3. x[to].exceptions \in Seq(Exc) /\ x[c].exceptions \in Seq(Exc)
    BY <1>1 DEF Context
  <2>4. /\ ToSet(x[c].exceptions) = ToSet(ctx[c].exceptions) \cup ToSet(scope[s].captured)
        /\ ToSet(ctx'[to].exceptions) = ToSet(x[to].exceptions) \cup ToSet(x[c].exceptions)
    <3>1. ToSet(ctx[c].exceptions \o scope[s].captured) = ToSet(ctx[c].exceptions) \cup ToSet(scope[s].captured)
      BY <1>1, ConcatToSet
    <3>2. ToSet(x[to].exceptions \o x[c].exceptions) = ToSet(x[to].exceptions) \cup ToSet(x[c].exceptions)
      BY <2>3, ConcatToSet
    <3> QED BY <2>2, <3>1, <3>2
  <2>5. ToSet(ctx[c].exceptions) \cup ToSet(scope[s].captured) \subseteq ToSet(ctx'[to].exceptions)
    BY <2>4
  <2> QED BY <2>5 DEF c, to, s
<1>3. CASE LandInRelay(i)
  <2>1. scope[s].captured = << >> /\ Relays(ctx, scope, c, to)
    BY <1>3, LandInRelayMoves
  <2> HIDE DEF c, to, s
  <2>2. ctx'[to].exceptions = ctx[to].exceptions \o ctx[c].exceptions
    BY <2>1 DEF Relays, Transfers
  <2>3. ToSet(scope[s].captured) = {}
    BY <2>1, EmptyHas, ToSetHas
  <2>4. ToSet(ctx'[to].exceptions) = ToSet(ctx[to].exceptions) \cup ToSet(ctx[c].exceptions)
    BY <1>1, <2>2, ConcatToSet
  <2>5. ToSet(ctx[c].exceptions) \cup ToSet(scope[s].captured) \subseteq ToSet(ctx'[to].exceptions)
    BY <2>3, <2>4
  <2> QED BY <2>5 DEF c, to, s
<1>4. CASE i = Depth /\ Top = b /\ (EndWith \/ EndRelay \/ EndCapture \/ EndFinally)
  <2>1. EndRelay
    BY <1>4 DEF EndWith, EndCapture, EndFinally, In
  <2> QED BY <1>2, <1>4, <2>1
<1>5. ASSUME NEW j \in DOMAIN blocks, j < i => b.kind = "with", j <= i, blocks[j].id = jump.to,
             LandInTry(j) \/ LandInCapture(j) \/ LandInRelay(j)
      PROVE  LandInRelay(i)
  <2>1. j = i
    BY <1>5, BlockFacts
  <2> QED BY <1>5, <2>1 DEF LandInTry, LandInCapture, Lands
<1> QED BY <1>3, <1>4, <1>5, BlockEnds

\* What the end of a relay finds in its context, and its scope captured, is then in the
\* context that it relays to, whether the block ends normally or by a jump: neither
\* destroying the scopes (exception_scope.c:118) nor the jump that follows loses any of it
\* ("After execution relays all uncaught exceptions", exceptional.h:44).
THEOREM EverythingRelayed ==
  ASSUME Proper
  PROVE  Spec => AllRelayed
<1>1. IInv /\ [Next]_vars =>
        [\A i \in DOMAIN blocks :
           blocks[i].kind = "relay" /\ ((i = Depth /\ jump = NoJump) \/ blocks[i].id = jump.to)
             /\ i \notin DOMAIN blocks'
           => ToSet(ctx[blocks[i].ctx].exceptions) \cup ToSet(scope[blocks[i].id].captured)
                \subseteq ToSet(ctx'[blocks[i].to].exceptions)]_vars
  BY RelayedAll
<1> QED BY <1>1, Invariant, PTL DEF Spec, AllRelayed

LEMMA FinallyRuns ==
  ASSUME IInv, [Next]_vars, NEW i \in DOMAIN blocks, blocks[i].kind = "try", i \notin DOMAIN blocks'
  PROVE  i = Depth /\ blocks[i].phase = "finally"
<1> TypeOK
  BY DEF IInv
<1>1. CASE i = Depth /\ Top = blocks[i] /\ (EndWith \/ EndRelay \/ EndCapture \/ EndFinally)
  BY <1>1, Zenon DEF EndWith, EndRelay, EndCapture, EndFinally, In
<1>2. ASSUME NEW j \in DOMAIN blocks, j < i => blocks[i].kind = "with", j <= i,
             LandInTry(j) \/ LandInCapture(j) \/ LandInRelay(j)
      PROVE  FALSE
  <2>1. j = i
    BY <1>2, BlockFacts
  <2>2. LandInTry(i)
    BY <1>2, <2>1 DEF LandInCapture, LandInRelay, Lands
  <2>3. /\ i \in Nat /\ 1 <= i /\ i <= Depth /\ Depth \in Nat /\ blocks \in Seq(Block)
        /\ i - 1 \in 0 .. Depth
    BY BlockFacts
  <2>4. PICK m \in 0 .. Depth : m = i - 1
    BY <2>3
  <2>5. Len(SubSeq(blocks, 1, m)) = m /\ SubSeq(blocks, 1, m) \in Seq(Block)
    BY <2>3, <2>4
  <2>6. \E b : blocks' = Append(SubSeq(blocks, 1, m), b)
    BY <2>2, <2>4 DEF LandInTry
  <2>7. i \in DOMAIN blocks'
    BY <2>3, <2>4, <2>5, <2>6
  <2> QED BY <2>7
<1> QED BY <1>1, <1>2, BlockEnds

\* A try block ends only by its own finally: no jump, through any relays and out of any
\* contexts, passes one ("A matching finally code block ... will *always* be executed",
\* exceptional.h:90).
THEOREM FinallyAlwaysRuns ==
  ASSUME Proper
  PROVE  Spec => FinallyNeverSkipped
<1>1. IInv /\ [Next]_vars =>
        [\A i \in DOMAIN blocks :
           blocks[i].kind = "try" /\ i \notin DOMAIN blocks'
             => i = Depth /\ blocks[i].phase = "finally"]_vars
  BY FinallyRuns
<1> QED BY <1>1, Invariant, PTL DEF Spec, FinallyNeverSkipped

LEMMA StartsWith ==
  ASSUME NEW S, NEW s \in Seq(S), NEW r \in Seq(S)
  PROVE  IsPrefix(s, s) /\ IsPrefix(s, s \o r)
<1>1. SubSeq(s, 1, Len(s)) = s /\ Len(s) <= Len(s)
  OBVIOUS
<1>2. s \o r \in Seq(S) /\ Len(s \o r) = Len(s) + Len(r) /\ Len(s) \in Nat /\ Len(r) \in Nat
  OBVIOUS
<1>3. SubSeq(s \o r, 1, Len(s)) = s
  OBVIOUS
<1>4. IsPrefix(s, s)
  BY <1>1 DEF IsPrefix
<1>5. IsPrefix(s, s \o r)
  BY <1>1, <1>2, <1>3 DEF IsPrefix
<1> QED BY <1>4, <1>5

LEMMA CapturedStays ==
  ASSUME Proper, IInv, [Next]_vars, NEW s \in JmpBufs,
         NEW i \in DOMAIN blocks', blocks'[i].id = s
  PROVE  IsPrefix(scope[s].captured, scope'[s].captured) \/ ThrowCaptured
<1> TypeOK /\ Waiting /\ Shape /\ Distinct /\ Scopes
  BY DEF IInv, Shape
<1>0. IInv'
  BY NextKeeps
<1>1. /\ scope[s].captured \in Seq(Exc) /\ scope \in [JmpBufs -> Scope]
      /\ blocks \in Seq(Block) /\ Depth \in Nat
      /\ scope' \in [JmpBufs -> Scope]
  BY <1>0, OnceTypes, BlockFacts
<1>2. ASSUME scope'[s].captured = scope[s].captured
      PROVE  IsPrefix(scope[s].captured, scope'[s].captured)
  BY <1>1, <1>2, StartsWith
<1>3. ASSUME scope' = scope PROVE IsPrefix(scope[s].captured, scope'[s].captured)
  BY <1>2, <1>3
<1>4. ASSUME NEW id \in JmpBufs, \A j \in DOMAIN blocks : blocks[j].id # id,
             scope' = [scope EXCEPT ![id] = NewScope]
      PROVE  IsPrefix(scope[s].captured, scope'[s].captured)
  <2>1. scope[id].captured = << >> /\ NewScope.captured = << >>
    BY <1>4 DEF Waiting, NewScope
  <2>2. scope'[s].captured = scope[s].captured
    BY <1>1, <1>4, <2>1
  <2> QED BY <1>2, <2>2
<1>5. CASE \E id \in JmpBufs : OpenTry(id) \/ OpenCapture(id)
  BY <1>3, <1>5, Zenon DEF OpenTry, OpenCapture, OpenIn
<1>6. CASE \E id \in JmpBufs : \E c \in Ctxs : OpenWith(id, c) \/ OpenRelay(id, c)
  BY <1>4, <1>6, Zenon DEF OpenWith, OpenRelay, BeginRelay, Unused
<1>7. CASE \E id \in JmpBufs : \E c, to \in Ctxs : OpenRelayTo(id, c, to)
  BY <1>4, <1>7, Zenon DEF OpenRelayTo, BeginRelay, Unused
<1>8. CASE ThrowNew \/ EndCapture \/ EndBody \/ CatchDone \/ EndFinally \/ UNCHANGED vars
  BY <1>3, <1>8 DEF ThrowNew, EndCapture, EndBody, CatchDone, EndFinally, vars
<1>9. CASE \E type \in Types : CatchHit(type)
  BY <1>3, <1>9 DEF CatchHit
<1>10. ASSUME NEW j \in DOMAIN blocks, LandInTry(j)
       PROVE  IsPrefix(scope[s].captured, scope'[s].captured)
  BY <1>3, <1>10 DEF LandInTry
<1>11. ASSUME NEW j \in DOMAIN blocks, LandInRelay(j)
       PROVE  IsPrefix(scope[s].captured, scope'[s].captured)
  <2>1. Relays(ctx, scope, blocks[j].ctx, blocks[j].to)
    BY <1>11, LandInRelayMoves
  <2>2. scope'[s].captured = scope[s].captured
    BY <1>1, <2>1, RelaysFacts
  <2> QED BY <1>2, <2>2
<1>12. ASSUME NEW j \in DOMAIN blocks, LandInCapture(j)
       PROVE  IsPrefix(scope[s].captured, scope'[s].captured)
  <2> DEFINE c == blocks[j].ctx
             q == blocks[j].scope
  <2>1. c \in Ctxs /\ q \in JmpBufs /\ MovesIn(ctx, scope, ctx', scope', c, q)
    BY <1>12, LandInCaptureMoves
  <2> HIDE DEF c, q
  <2>2. CASE s = q
    <3>1. scope'[s].captured = scope[s].captured \o ctx[c].exceptions
      BY <2>1, <2>2, Zenon DEF MovesIn
    <3>2. ctx[c].exceptions \in Seq(Exc)
      BY <2>1 DEF TypeOK, Context
    <3>3. IsPrefix(scope[s].captured, scope[s].captured \o ctx[c].exceptions)
      BY <1>1, <3>2, StartsWith
    <3> QED BY <3>1, <3>3
  <2>3. CASE s # q
    <3>1. scope'[s].captured = scope[s].captured
      BY <2>1, <2>3 DEF MovesIn
    <3> QED BY <1>2, <3>1
  <2> QED BY <2>2, <2>3
<1>13. CASE Land
  BY <1>10, <1>11, <1>12, <1>13 DEF Land
\* The block that has ended is not one of those that stay.
<1>14. ASSUME Depth > 0, blocks' = Front(blocks) PROVE s # Top.id
  <2>1. Depth \in DOMAIN blocks /\ Top = blocks[Depth]
    BY <1>14, TopFacts
  <2>2. Len(blocks') = Depth - 1 /\ \A k \in 1 .. Depth - 1 : blocks'[k] = blocks[k]
    BY <1>14, FrontIsCut DEF CutTo
  <2>3. blocks' \in Seq(Block)
    BY <1>0 DEF IInv, TypeOK
  <2>4. i \in 1 .. Depth - 1 /\ i \in DOMAIN blocks /\ i # Depth
    <3>0. DOMAIN blocks' = 1 .. Len(blocks')
      BY <2>3
    <3>1. DOMAIN blocks' = 1 .. Depth - 1 /\ DOMAIN blocks = 1 .. Depth
      BY <2>2, <3>0, BlockFacts
    <3>2. i \in Nat /\ 1 <= i /\ i <= Depth - 1
      BY <1>1, <3>1
    <3> QED BY <1>1, <3>1, <3>2
  <2> QED BY <2>1, <2>2, <2>4 DEF Distinct
<1>15. CASE EndWith
  <2>1. Depth > 0 /\ Top.kind = "with" /\ blocks' = Front(blocks) /\ scope' = Destroyed(scope, {Top.scope})
    BY <1>15 DEF EndWith, In
  <2>2. Top.scope = Top.id
    BY <2>1, TopFacts DEF Scopes, Scoped
  <2>3. s \notin {Top.scope}
    BY <1>14, <2>1, <2>2
  <2>4. scope'[s] = scope[s]
    BY <1>1, <2>1, <2>3, DestroyedFacts
  <2> QED BY <1>2, <2>4
<1>16. CASE EndRelay
  <2>1. Depth > 0 /\ Top.kind = "relay"
    BY <1>16, Zenon DEF EndRelay, In
  <2>2. blocks' = Front(blocks)
    <3>1. scope[Top.scope].valid
      BY <2>1, TopFacts DEF Waiting
    <3> QED BY <1>16, <3>1, Zenon DEF EndRelay
  <2>3. s # Top.id
    BY <1>14, <2>1, <2>2
  <2>4. PICK x \in [Ctxs -> Context], y \in [JmpBufs -> Scope] :
          MovesOut(ctx, scope, x, y, Top.id, Top.ctx) /\ Relays(x, y, Top.ctx, Top.to)
    BY <1>16, EndRelayMoves
  <2>5. y[s].captured = scope[s].captured
    BY <2>3, <2>4 DEF MovesOut
  <2>6. scope'[s].captured = y[s].captured
    BY <2>4, RelaysFacts
  <2> QED BY <1>2, <2>5, <2>6
<1> QED BY <1>5, <1>6, <1>7, <1>8, <1>9, <1>13, <1>15, <1>16 DEF Next

\* While the block of a scope is open, what its captures have put there stays, in order,
\* until throw_captured takes it: no relay inside it destroys the list, no jump empties
\* it, and no new scope takes its place ("can later be thrown", exceptional.h:134).
THEOREM CapturedWaits ==
  ASSUME Proper
  PROVE  Spec => CapturedKept
<1>1. IInv /\ [Next]_vars =>
        [\A s \in JmpBufs :
           (\E i \in DOMAIN blocks' : blocks'[i].id = s)
             => IsPrefix(scope[s].captured, scope'[s].captured) \/ ThrowCaptured]_vars
  BY CapturedStays
<1> QED BY <1>1, Invariant, PTL DEF Spec, CapturedKept

-----------------------------------------------------------------------------
(* The try blocks of a stack of blocks *)

\* f lists the try blocks among the first 0, 1, .. n elements of s.
Among(s, n, f) ==
  /\ f[0] = << >>
  /\ \A i \in 1 .. n : f[i] = IF s[i].kind = "try" THEN Append(f[i - 1], s[i]) ELSE f[i - 1]

\* There is such a function.
LEMMA AmongBegins ==
  ASSUME NEW s, NEW n \in Nat
  PROVE  \E f : Among(s, n, f)
<1> DEFINE T == {m \in Nat : \E f : Among(s, m, f)}
           Step(b, t) == IF b.kind = "try" THEN Append(t, b) ELSE t
<1>1. 0 \in T
  <2> DEFINE f == [i \in 0 .. 0 |-> << >>]
  <2>1. f[0] = << >> /\ \A i \in 1 .. 0 : FALSE
    OBVIOUS
  <2>2. Among(s, 0, f)
    BY <2>1 DEF Among
  <2> QED BY <2>2
<1>2. ASSUME NEW m \in Nat, m \in T PROVE m + 1 \in T
  <2>1. PICK h : h[0] = << >> /\ \A i \in 1 .. m : h[i] = Step(s[i], h[i - 1])
    BY <1>2 DEF Among
  <2> DEFINE f == [i \in 0 .. m + 1 |-> IF i = m + 1 THEN Step(s[i], h[m]) ELSE h[i]]
  <2> HIDE DEF Step
  <2>2. (\A i \in 0 .. m : f[i] = h[i]) /\ f[m + 1] = Step(s[m + 1], h[m])
    BY <1>2
  <2> HIDE DEF f
  <2>3. f[0] = << >>
    BY <1>2, <2>1, <2>2
  <2>4. ASSUME NEW i \in 1 .. m + 1 PROVE f[i] = Step(s[i], f[i - 1])
    <3>1. CASE i = m + 1
      <4>1. i - 1 = m /\ m \in 0 .. m
        BY <1>2, <3>1
      <4> QED BY <2>2, <3>1, <4>1
    <3>2. CASE i # m + 1
      <4>1. i \in 1 .. m /\ i \in 0 .. m /\ i - 1 \in 0 .. m
        BY <1>2, <3>2
      <4> QED BY <2>1, <2>2, <4>1
    <3> QED BY <3>1, <3>2
  <2>5. Among(s, m + 1, f)
    BY <2>3, <2>4 DEF Among, Step
  <2> QED BY <1>2, <2>5
<1> HIDE DEF T
<1>3. Nat \subseteq T
  BY <1>1, <1>2, NatSetInduction
<1> QED BY <1>3 DEF T

\* What it lists depends on the elements only, and changes only at a try.
LEMMA AmongAgree ==
  ASSUME NEW s, NEW r, NEW n \in Nat, NEW f, NEW g, Among(s, n, f), Among(r, n, g),
         \A i \in 1 .. n : s[i] = r[i]
  PROVE  f[n] = g[n]
<1> DEFINE T == {m \in Nat : m <= n => f[m] = g[m]}
<1>1. 0 \in T
  BY DEF Among
<1>2. ASSUME NEW m \in Nat, m \in T PROVE m + 1 \in T
  <2>1. ASSUME m + 1 <= n PROVE f[m + 1] = g[m + 1]
    <3>1. m + 1 \in 1 .. n /\ (m + 1) - 1 = m /\ f[m] = g[m]
      BY <1>2, <2>1
    <3> QED BY <3>1 DEF Among
  <2> QED BY <1>2, <2>1
<1> HIDE DEF T
<1>3. Nat \subseteq T
  BY <1>1, <1>2, NatSetInduction
<1> QED BY <1>3 DEF T

LEMMA AmongSkips ==
  ASSUME NEW s, NEW n \in Nat, NEW f, Among(s, n, f), NEW k \in 0 .. n,
         \A i \in 1 .. n : k < i => s[i].kind # "try"
  PROVE  f[n] = f[k]
<1> DEFINE T == {m \in Nat : k <= m /\ m <= n => f[m] = f[k]}
<1>1. 0 \in T
  <2>1. k <= 0 => k = 0
    OBVIOUS
  <2> QED BY <2>1
<1>2. ASSUME NEW m \in Nat, m \in T PROVE m + 1 \in T
  <2>1. ASSUME k <= m + 1, m + 1 <= n, k # m + 1 PROVE f[m + 1] = f[k]
    <3>1. m + 1 \in 1 .. n /\ (m + 1) - 1 = m /\ k < m + 1 /\ f[m] = f[k]
      BY <1>2, <2>1
    <3> QED BY <3>1 DEF Among
  <2> QED BY <1>2, <2>1
<1> HIDE DEF T
<1>3. Nat \subseteq T
  BY <1>1, <1>2, NatSetInduction
<1> QED BY <1>3 DEF T

\* The try blocks of s: each is one of its blocks, and there is one if s has one.
TryBlocksOf(s) == {b \in Block : b.kind = "try" /\ \E i \in DOMAIN s : s[i] = b}

LEMMA AmongType ==
  ASSUME NEW s \in Seq(Block), NEW n \in 0 .. Len(s), NEW f, Among(s, n, f)
  PROVE  /\ f[n] \in Seq(TryBlocksOf(s)) /\ Len(f[n]) <= n
         /\ f[n] = << >> => \A i \in 1 .. n : s[i].kind # "try"
<1> DEFINE B == TryBlocksOf(s)
           Holds(m) == /\ f[m] \in Seq(B) /\ Len(f[m]) <= m
                       /\ f[m] = << >> => \A i \in 1 .. m : s[i].kind # "try"
           T == {m \in Nat : m <= n => Holds(m)}
<1>0. /\ Len(s) \in Nat /\ n \in Nat /\ n <= Len(s)
      /\ \A m \in 1 .. n : m \in DOMAIN s /\ s[m] \in Block
  OBVIOUS
<1>1. 0 \in T
  <2>1. f[0] = << >> /\ << >> \in Seq(B) /\ Len(<< >>) = 0
    BY EmptySeq DEF Among
  <2> HIDE DEF B
  <2>2. \A i \in 1 .. 0 : FALSE
    OBVIOUS
  <2>3. Holds(0)
    BY <2>1, <2>2
  <2> HIDE DEF Holds
  <2> QED BY <2>3
<1>2. ASSUME NEW m \in Nat, m \in T PROVE m + 1 \in T
  <2> SUFFICES ASSUME m + 1 <= n PROVE Holds(m + 1)
    BY <1>2
  <2>1. /\ m + 1 \in 1 .. n /\ (m + 1) - 1 = m /\ m \in Nat
        /\ \A i \in 1 .. m + 1 : i = m + 1 \/ i \in 1 .. m
    BY <1>0, <1>2
  <2>2. Holds(m)
    BY <1>0, <1>2, <2>1
  <2> DEFINE b == s[m + 1]
  <2>3. f[m + 1] = IF b.kind = "try" THEN Append(f[m], b) ELSE f[m]
    BY <2>1 DEF Among
  <2>4. CASE b.kind = "try"
    <3>1. b \in B
      BY <1>0, <2>1, <2>4 DEF TryBlocksOf
    <3> HIDE DEF B, b
    <3>2. f[m + 1] = Append(f[m], b)
      BY <2>3, <2>4
    <3>3. f[m + 1] \in Seq(B) /\ Len(f[m + 1]) = Len(f[m]) + 1 /\ f[m + 1] # << >>
      BY <2>2, <3>1, <3>2
    <3>4. Len(f[m]) \in Nat /\ Len(f[m]) <= m
      BY <2>2
    <3> QED BY <2>1, <3>3, <3>4
  <2>5. CASE b.kind # "try"
    <3>1. f[m + 1] = f[m]
      BY <2>3, <2>5
    <3> HIDE DEF B
    <3>2. Len(f[m]) \in Nat /\ Len(f[m]) <= m + 1
      BY <2>2, <2>1
    <3>3. f[m] = << >> => \A i \in 1 .. m + 1 : s[i].kind # "try"
      BY <2>1, <2>2, <2>5
    <3> QED BY <2>2, <3>1, <3>2, <3>3
  <2> QED BY <2>4, <2>5
<1>3. Nat \subseteq T
  <2> HIDE DEF T
  <2> QED BY <1>1, <1>2, NatSetInduction
<1>4. n \in T
  BY <1>0, <1>3
<1> QED BY <1>0, <1>4

\* The definition of Tries has a solution.
LEMMA TriesSteps ==
  ASSUME NEW s \in Seq(Block)
  PROVE  \E f : Among(s, Len(s), f) /\ Tries(s) = f[Len(s)]
<1> DEFINE n == Len(s)
           Step(b, t) == IF b.kind = "try" THEN Append(t, b) ELSE t
           g == CHOOSE g : g = [i \in 0 .. n |-> IF i = 0 THEN << >>
                                  ELSE IF s[i].kind = "try" THEN Append(g[i - 1], s[i]) ELSE g[i - 1]]
<1>1. n \in Nat
  OBVIOUS
<1>2. PICK h : Among(s, n, h)
  BY <1>1, AmongBegins, Zenon
<1> DEFINE f == [i \in 0 .. n |-> h[i]]
<1>3. f = [i \in 0 .. n |-> IF i = 0 THEN << >>
                            ELSE IF s[i].kind = "try" THEN Append(f[i - 1], s[i]) ELSE f[i - 1]]
  <2>1. ASSUME NEW i \in 0 .. n
        PROVE  f[i] = IF i = 0 THEN << >>
                      ELSE IF s[i].kind = "try" THEN Append(f[i - 1], s[i]) ELSE f[i - 1]
    <3>1. CASE i = 0
      BY <1>2, <3>1 DEF Among
    <3>2. CASE i # 0
      <4>1. i \in 1 .. n /\ i - 1 \in 0 .. n
        BY <1>1, <3>2
      <4>2. f[i] = h[i] /\ f[i - 1] = h[i - 1]
        BY <4>1
      <4> HIDE DEF f
      <4> QED BY <1>2, <3>2, <4>1, <4>2 DEF Among
    <3> QED BY <3>1, <3>2
  <2>2. f = [i \in 0 .. n |-> f[i]]
    OBVIOUS
  <2> HIDE DEF f
  <2> QED BY <2>1, <2>2, Zenon
<1>4. g = [i \in 0 .. n |-> IF i = 0 THEN << >>
                            ELSE IF s[i].kind = "try" THEN Append(g[i - 1], s[i]) ELSE g[i - 1]]
  <2> HIDE DEF f
  <2> QED BY <1>3, Zenon
<1>5. Tries(s) = g[n]
  BY DEF Tries
<1> HIDE DEF g, n
<1>6. g[0] = << >>
  <2>1. 0 \in 0 .. n
    BY <1>1
  <2> QED BY <1>4, <2>1
<1>7. ASSUME NEW i \in 1 .. n PROVE g[i] = IF s[i].kind = "try" THEN Append(g[i - 1], s[i]) ELSE g[i - 1]
  <2>1. i \in 0 .. n /\ i # 0
    BY <1>1
  <2> QED BY <1>4, <2>1, Zenon
<1>8. Among(s, n, g)
  BY <1>6, <1>7 DEF Among
<1> QED BY <1>5, <1>8 DEF n

\* The try blocks of s and of its beginnings
LEMMA TriesFacts ==
  ASSUME NEW s \in Seq(Block)
  PROVE  /\ Tries(s) \in Seq(Block) /\ Len(Tries(s)) <= Len(s)
         /\ \A k \in 1 .. Len(Tries(s)) : \E i \in DOMAIN s : s[i] = Tries(s)[k] /\ s[i].kind = "try"
         /\ Tries(s) = << >> <=> \A i \in DOMAIN s : s[i].kind # "try"
<1>1. PICK f : Among(s, Len(s), f) /\ Tries(s) = f[Len(s)]
  BY TriesSteps
<1>2. Len(s) \in 0 .. Len(s) /\ DOMAIN s = 1 .. Len(s) /\ Len(s) \in Nat
  OBVIOUS
<1>3. /\ Tries(s) \in Seq(TryBlocksOf(s)) /\ Len(Tries(s)) <= Len(s)
      /\ Tries(s) = << >> => \A i \in 1 .. Len(s) : s[i].kind # "try"
  BY <1>1, <1>2, AmongType
<1>4. TryBlocksOf(s) \subseteq Block /\ \A b \in TryBlocksOf(s) : \E i \in DOMAIN s : s[i] = b /\ s[i].kind = "try"
  BY DEF TryBlocksOf
<1> DEFINE t == Tries(s)
<1> HIDE DEF t
<1>5. t \in Seq(Block) /\ \A k \in 1 .. Len(t) : t[k] \in TryBlocksOf(s)
  <2>1. t \in Seq(TryBlocksOf(s))
    BY <1>3 DEF t
  <2>2. \A k \in 1 .. Len(t) : t[k] \in TryBlocksOf(s)
    BY <2>1
  <2> QED BY <1>4, <2>1, <2>2
<1>6. \A k \in 1 .. Len(t) : \E i \in DOMAIN s : s[i] = t[k] /\ s[i].kind = "try"
  BY <1>4, <1>5
<1>7. (\A i \in DOMAIN s : s[i].kind # "try") => t = << >>
  <2> SUFFICES ASSUME t # << >> PROVE \E i \in DOMAIN s : s[i].kind = "try"
    OBVIOUS
  <2>1. 1 \in 1 .. Len(t)
    BY <1>5, EmptySeq
  <2> QED BY <1>6, <2>1
<1> QED BY <1>2, <1>3, <1>5, <1>6, <1>7 DEF t

LEMMA TriesEmpty == Tries(<< >>) = << >>
<1>1. << >> \in Seq(Block) /\ DOMAIN << >> = {}
  OBVIOUS
<1> QED BY <1>1, TriesFacts, Zenon

\* A try that begins is the innermost one; other blocks do not show.
LEMMA TriesAppend ==
  ASSUME NEW s \in Seq(Block), NEW b \in Block
  PROVE  Tries(Append(s, b)) = IF b.kind = "try" THEN Append(Tries(s), b) ELSE Tries(s)
<1> DEFINE r == Append(s, b)
           n == Len(s)
<1>1. /\ r \in Seq(Block) /\ Len(r) = n + 1 /\ n \in Nat /\ r[n + 1] = b
      /\ \A i \in 1 .. n : r[i] = s[i]
  BY AppendProperties
<1> HIDE DEF r
<1>2. PICK f : Among(s, n, f) /\ Tries(s) = f[n]
  BY TriesSteps
<1>3. PICK g : Among(r, Len(r), g) /\ Tries(r) = g[Len(r)]
  BY <1>1, TriesSteps
<1> HIDE DEF n
<1>4. Among(r, n + 1, g) /\ Tries(r) = g[n + 1]
  BY <1>1, <1>3
<1>5. Among(r, n, g)
  <2>1. \A i \in 1 .. n : i \in 1 .. n + 1
    BY <1>1
  <2> QED BY <1>4, <2>1 DEF Among
<1>6. f[n] = g[n]
  BY <1>1, <1>2, <1>5, AmongAgree
<1>7. n + 1 \in 1 .. n + 1 /\ (n + 1) - 1 = n
  BY <1>1
<1>8. g[n + 1] = IF b.kind = "try" THEN Append(g[n], b) ELSE g[n]
  BY <1>1, <1>4, <1>7 DEF Among
<1> QED BY <1>2, <1>4, <1>6, <1>8 DEF r

\* Blocks that are no try, above the first n, do not show.
LEMMA TriesBelow ==
  ASSUME NEW s \in Seq(Block), NEW n \in 0 .. Len(s), \A i \in DOMAIN s : n < i => s[i].kind # "try"
  PROVE  Tries(SubSeq(s, 1, n)) = Tries(s)
<1> DEFINE r == SubSeq(s, 1, n)
           l == Len(s)
<1>1. n \in Nat /\ l \in Nat /\ n <= l /\ DOMAIN s = 1 .. l
  OBVIOUS
<1>2. r \in Seq(Block) /\ Len(r) = n /\ \A i \in 1 .. n : r[i] = s[i]
  BY <1>1, PrefixFacts
<1> HIDE DEF r
<1>3. PICK f : Among(s, l, f) /\ Tries(s) = f[l]
  BY TriesSteps
<1>4. PICK g : Among(r, n, g) /\ Tries(r) = g[n]
  <2>1. PICK g : Among(r, Len(r), g) /\ Tries(r) = g[Len(r)]
    BY <1>2, TriesSteps
  <2> QED BY <1>2, <2>1
<1> HIDE DEF l
<1>5. Among(s, n, f)
  <2>1. \A i \in 1 .. n : i \in 1 .. l
    BY <1>1
  <2> QED BY <1>3, <2>1 DEF Among
<1>6. g[n] = f[n]
  BY <1>1, <1>2, <1>4, <1>5, AmongAgree
<1>7. f[l] = f[n]
  <2>1. n \in 0 .. l /\ \A i \in 1 .. l : n < i => s[i].kind # "try"
    BY <1>1
  <2> QED BY <1>1, <1>3, <2>1, AmongSkips
<1> QED BY <1>3, <1>4, <1>6, <1>7 DEF r

\* The innermost block, if it is a try, comes last.
LEMMA TriesTop ==
  ASSUME NEW s \in Seq(Block), s # << >>
  PROVE  Tries(s) = IF Last(s).kind = "try" THEN Append(Tries(Front(s)), Last(s)) ELSE Tries(Front(s))
<1>1. Front(s) \in Seq(Block) /\ Last(s) \in Block /\ s = Append(Front(s), Last(s))
  BY FrontAndLast
<1>2. Tries(Append(Front(s), Last(s)))
        = IF Last(s).kind = "try" THEN Append(Tries(Front(s)), Last(s)) ELSE Tries(Front(s))
  BY <1>1, TriesAppend
<1> QED BY <1>1, <1>2, Zenon

-----------------------------------------------------------------------------
(* The open blocks as the abstract specification sees them *)

\* A try, one that an exception lands in, and a stack of them
Shown(b) == [phase |-> b.phase, var |-> b.var, handled |-> b.handled]
Stopped(b) == [phase |-> "finally", var |-> NoExc, handled |-> b.handled]
AsOpen(s) == [i \in DOMAIN s |-> Shown(s[i])]

\* What Open shows of the blocks s, while a jump is under way or not
OpenOf(s, landing) ==
  LET tries == Tries(s)
  IN  [i \in DOMAIN tries |->
         IF landing /\ i = Len(tries) THEN Stopped(tries[i]) ELSE Shown(tries[i])]

LEMMA OpenIs ==
  /\ Open = OpenOf(blocks, jump # NoJump)
  /\ Open' = OpenOf(blocks', jump' # NoJump)
<1>1. ASSUME NEW s, NEW l \in BOOLEAN
      PROVE  LET tries == Tries(s)
             IN  [i \in DOMAIN tries |->
                    LET landing == l /\ i = Len(tries)
                    IN  [phase   |-> IF landing THEN "finally" ELSE tries[i].phase,
                         var     |-> IF landing THEN NoExc ELSE tries[i].var,
                         handled |-> tries[i].handled]]
                 = OpenOf(s, l)
  <2> DEFINE t == Tries(s)
  <2> HIDE DEF t
  <2>1. ASSUME NEW i \in DOMAIN t
        PROVE  [phase   |-> IF l /\ i = Len(t) THEN "finally" ELSE t[i].phase,
                var     |-> IF l /\ i = Len(t) THEN NoExc ELSE t[i].var,
                handled |-> t[i].handled]
               = IF l /\ i = Len(t) THEN Stopped(t[i]) ELSE Shown(t[i])
    BY DEF Stopped, Shown
  <2>2. [i \in DOMAIN t |-> [phase   |-> IF l /\ i = Len(t) THEN "finally" ELSE t[i].phase,
                             var     |-> IF l /\ i = Len(t) THEN NoExc ELSE t[i].var,
                             handled |-> t[i].handled]]
         = [i \in DOMAIN t |-> IF l /\ i = Len(t) THEN Stopped(t[i]) ELSE Shown(t[i])]
    BY <2>1
  <2> QED BY <2>2 DEF OpenOf, t
<1> QED BY <1>1, Zenon DEF Open

LEMMA ShownType ==
  ASSUME NEW b \in Block
  PROVE  Shown(b) \in Structured!Block /\ Stopped(b) \in Structured!Block
BY DEF Shown, Stopped, Block, Structured!Block

LEMMA AsOpenFacts ==
  ASSUME NEW s \in Seq(Block)
  PROVE  /\ AsOpen(s) \in Seq(Structured!Block) /\ Len(AsOpen(s)) = Len(s)
         /\ \A i \in 1 .. Len(s) : AsOpen(s)[i] = Shown(s[i])
<1>1. PICK n \in Nat : n = Len(s) /\ DOMAIN s = 1 .. n
  BY LenProperties
<1>2. \A i \in 1 .. n : Shown(s[i]) \in Structured!Block
  BY <1>1, ElementOfSeq, ShownType
<1>3. AsOpen(s) = [i \in 1 .. n |-> Shown(s[i])]
  BY <1>1 DEF AsOpen
<1>4. AsOpen(s) \in [1 .. n -> Structured!Block]
  BY <1>2, <1>3
<1>5. AsOpen(s) \in Seq(Structured!Block)
  BY <1>4, SeqDef
<1>6. Len(AsOpen(s)) = n
  BY <1>1, <1>4, <1>5, LenProperties
<1> QED BY <1>1, <1>3, <1>5, <1>6

LEMMA AsOpenAppend ==
  ASSUME NEW s \in Seq(Block), NEW b \in Block
  PROVE  AsOpen(Append(s, b)) = Append(AsOpen(s), Shown(b))
<1> DEFINE t == Append(s, b)
           u == Append(AsOpen(s), Shown(b))
<1>1. PICK n \in Nat : n = Len(s)
  BY LenProperties
<1>2. t \in Seq(Block) /\ Len(t) = n + 1 /\ t[n + 1] = b /\ \A i \in 1 .. n : t[i] = s[i]
  BY <1>1, AppendProperties
<1>3. /\ AsOpen(s) \in Seq(Structured!Block) /\ Len(AsOpen(s)) = n
      /\ \A i \in 1 .. n : AsOpen(s)[i] = Shown(s[i])
      /\ Shown(b) \in Structured!Block
  BY <1>1, AsOpenFacts, ShownType
<1>4. /\ u \in Seq(Structured!Block) /\ Len(u) = n + 1 /\ u[n + 1] = Shown(b)
      /\ \A i \in 1 .. n : u[i] = AsOpen(s)[i]
  BY <1>3, AppendProperties
<1> HIDE DEF t, u
<1>5. /\ AsOpen(t) \in Seq(Structured!Block) /\ Len(AsOpen(t)) = n + 1
      /\ \A i \in 1 .. n + 1 : AsOpen(t)[i] = Shown(t[i])
  BY <1>2, AsOpenFacts
<1>6. \A i \in 1 .. n + 1 : i = n + 1 \/ i \in 1 .. n
  OBVIOUS
<1>7. \A i \in 1 .. n + 1 : AsOpen(t)[i] = u[i]
  BY <1>2, <1>3, <1>4, <1>5, <1>6
<1>8. AsOpen(t) = u
  BY <1>4, <1>5, <1>7, SeqEqual
<1> QED BY <1>8 DEF t, u

\* While no jump is under way every try shows as it is; else the innermost one does not.
LEMMA OpenOfFacts ==
  ASSUME NEW s \in Seq(Block)
  PROVE  /\ OpenOf(s, FALSE) = AsOpen(Tries(s))
         /\ Tries(s) = << >> => OpenOf(s, TRUE) = << >> /\ OpenOf(s, FALSE) = << >>
         /\ \A u \in Seq(Block), b \in Block :
              Tries(s) = Append(u, b) => /\ OpenOf(s, TRUE) = Append(AsOpen(u), Stopped(b))
                                         /\ OpenOf(s, FALSE) = Append(AsOpen(u), Shown(b))
<1> DEFINE t == Tries(s)
<1>1. t \in Seq(Block)
  BY TriesFacts
<1>2. OpenOf(s, FALSE) = [i \in DOMAIN t |-> Shown(t[i])]
  BY DEF OpenOf
<1>3. OpenOf(s, FALSE) = AsOpen(t)
  BY <1>2, Zenon DEF AsOpen
<1>4. OpenOf(s, TRUE) = [i \in DOMAIN t |-> IF i = Len(t) THEN Stopped(t[i]) ELSE Shown(t[i])]
  BY DEF OpenOf
<1> HIDE DEF t
<1>5. ASSUME t = << >> PROVE OpenOf(s, TRUE) = << >> /\ OpenOf(s, FALSE) = << >>
  <2>1. Len(t) = 0 /\ DOMAIN t = 1 .. 0
    BY <1>5
  <2>2. AsOpen(t) = << >>
    BY <1>1, <2>1, AsOpenFacts, EmptySeq, Zenon
  <2> DEFINE r == OpenOf(s, TRUE)
             e == [i \in 1 .. 0 |-> IF i = Len(t) THEN Stopped(t[i]) ELSE Shown(t[i])]
  <2>3. r = e
    BY <1>4, <2>1, Zenon
  <2>4. e \in [1 .. 0 -> Nat]
    OBVIOUS
  <2> HIDE DEF e
  <2>5. e \in Seq(Nat) /\ Len(e) = 0
    BY <2>4
  <2>6. e = << >>
    BY <2>5, EmptySeq
  <2> QED BY <1>3, <2>2, <2>3, <2>6, Zenon DEF r
<1>6. ASSUME NEW u \in Seq(Block), NEW b \in Block, t = Append(u, b)
      PROVE  /\ OpenOf(s, TRUE) = Append(AsOpen(u), Stopped(b))
             /\ OpenOf(s, FALSE) = Append(AsOpen(u), Shown(b))
  <2> DEFINE r == OpenOf(s, TRUE)
             v == Append(AsOpen(u), Stopped(b))
  <2>1. PICK n \in Nat : n = Len(u)
    BY LenProperties
  <2>2. Len(t) = n + 1 /\ t[n + 1] = b /\ \A i \in 1 .. n : t[i] = u[i]
    BY <1>6, <2>1, AppendProperties
  <2>3. /\ AsOpen(u) \in Seq(Structured!Block) /\ Len(AsOpen(u)) = n
        /\ \A i \in 1 .. n : AsOpen(u)[i] = Shown(u[i])
    BY <2>1, AsOpenFacts
  <2>4. Stopped(b) \in Structured!Block
    BY ShownType
  <2>5. /\ v \in Seq(Structured!Block) /\ Len(v) = n + 1 /\ v[n + 1] = Stopped(b)
        /\ \A i \in 1 .. n : v[i] = AsOpen(u)[i]
    BY <2>3, <2>4, AppendProperties
  <2> HIDE DEF v
  <2>6. DOMAIN t = 1 .. n + 1
    BY <1>1, <2>2
  <2>7. r = [i \in 1 .. n + 1 |-> IF i = n + 1 THEN Stopped(t[i]) ELSE Shown(t[i])]
    BY <1>4, <2>2, <2>6, Zenon
  <2>8. DOMAIN v = 1 .. n + 1 /\ v = [i \in 1 .. n + 1 |-> v[i]]
    <3>1. DOMAIN v = 1 .. n + 1
      BY <2>5
    <3>2. v = [i \in DOMAIN v |-> v[i]]
      BY <2>5
    <3> QED BY <3>1, <3>2
  <2> HIDE DEF r
  <2>9. ASSUME NEW i \in 1 .. n + 1
        PROVE  v[i] = IF i = n + 1 THEN Stopped(t[i]) ELSE Shown(t[i])
    <3>1. CASE i = n + 1
      BY <2>2, <2>5, <3>1
    <3>2. CASE i # n + 1
      <4>1. i \in 1 .. n
        BY <3>2
      <4> QED BY <2>2, <2>3, <2>5, <3>2, <4>1
    <3> QED BY <3>1, <3>2
  <2>10. r = v
    BY <2>7, <2>8, <2>9
  <2>11. OpenOf(s, FALSE) = Append(AsOpen(u), Shown(b))
    BY <1>3, <1>6, AsOpenAppend, Zenon
  <2> QED BY <2>10, <2>11, Zenon DEF r, v
<1> QED BY <1>3, <1>5, <1>6, Zenon DEF t

-----------------------------------------------------------------------------
(* Where the exception is, in a program without any liberty *)

\* The contexts x hold one exception, e in context c.
Carries(x, c, e) == /\ c \in Ctxs /\ e \in Exc /\ x[c].exceptions = <<e>>
                    /\ \A d \in Ctxs : d # c => x[d].exceptions = << >>

\* From block to block inwards the context changes only where a relay begins one.
Begun == \A i, k \in DOMAIN blocks :
           i < k => \/ blocks[i].ctx = blocks[k].ctx
                    \/ \E j \in DOMAIN blocks : /\ i < j /\ j <= k
                                                /\ blocks[j].kind = "relay" /\ blocks[j].ctx = blocks[k].ctx

\* A relay relays to the context of the block around it.
RelaysOut == \A j \in DOMAIN blocks : blocks[j].kind = "relay" /\ j > 1 => blocks[j].to = blocks[j - 1].ctx

\* Nothing is captured, only the innermost block may be out of its body, and while it
\* handles an exception, or has handled one, there is no other.
Plain ==
  /\ \A s \in JmpBufs : scope[s].captured = << >>
  /\ \A i \in DOMAIN blocks :
       /\ blocks[i].kind # "capture"
       /\ blocks[i].phase = "catch" => blocks[i].handled
       /\ blocks[i].handled => blocks[i].phase # "body" /\ Clean /\ jump = NoJump
       /\ i < Depth => blocks[i].phase = "body"

InFinally == Depth > 0 /\ Top.kind = "try" /\ Top.phase = "finally"

\* No exception is in flight, and no finally unwinds.
Calm == /\ Clean /\ jump = NoJump
        /\ InFinally => CurrentFrame(ctx[Top.ctx]).reason = DONT

\* An exception is in flight: on its way to a block of its context, in the finally that
\* it has landed in, or left uncaught.
Flying(c, e) ==
  /\ Carries(ctx, c, e)
  /\ IF jump # NoJump THEN \E t \in DOMAIN blocks : blocks[t].id = jump.to /\ blocks[t].ctx = c
     ELSE \/ \A i \in DOMAIN blocks : blocks[i].kind = "with"
          \/ InFinally /\ Top.ctx = c /\ CurrentFrame(ctx[c]).reason # DONT

Flight == Begun /\ RelaysOut /\ Plain /\ (Calm \/ \E c \in Ctxs, e \in Exc : Flying(c, e))

\* The exception that InFlight shows is the one that the contexts hold.
FlightOf(x) == LET full == {c \in Ctxs : HasExceptions(x[c])}
               IN  IF full = {} THEN NoExc ELSE x[CHOOSE c \in full : TRUE].exceptions[1]

LEMMA InFlightIs == InFlight = FlightOf(ctx) /\ InFlight' = FlightOf(ctx')
BY DEF InFlight, FlightOf

LEMMA FlightOfFacts ==
  ASSUME NEW x
  PROVE  /\ (\A c \in Ctxs : x[c].exceptions = << >>) => FlightOf(x) = NoExc
         /\ \A c, e : Carries(x, c, e) => FlightOf(x) = e
<1> DEFINE full == {c \in Ctxs : HasExceptions(x[c])}
<1>1. ASSUME \A c \in Ctxs : x[c].exceptions = << >> PROVE FlightOf(x) = NoExc
  <2>1. full = {}
    BY <1>1 DEF HasExceptions
  <2> QED BY <2>1 DEF FlightOf
<1>2. ASSUME NEW c, NEW e, Carries(x, c, e) PROVE FlightOf(x) = e
  <2>1. <<e>> # << >> /\ <<e>>[1] = e
    <3>1. Len(<<e>>) = 1 /\ Len(<< >>) = 0
      OBVIOUS
    <3> QED BY <3>1
  <2>2. full = {c}
    BY <1>2, <2>1 DEF Carries, HasExceptions
  <2>3. (CHOOSE d \in full : TRUE) = c
    BY <2>2
  <2>4. FlightOf(x) = x[c].exceptions[1]
    BY <2>2, <2>3 DEF FlightOf
  <2> QED BY <1>2, <2>1, <2>4 DEF Carries
<1> QED BY <1>1, <1>2

\* The same exceptions are the same flight.
LEMMA SameFlight ==
  ASSUME NEW x, NEW y, \A c \in Ctxs : y[c].exceptions = x[c].exceptions
  PROVE  /\ FlightOf(y) = FlightOf(x)
         /\ \A c, e : Carries(x, c, e) => Carries(y, c, e)
<1> DEFINE fx == {c \in Ctxs : HasExceptions(x[c])}
           fy == {c \in Ctxs : HasExceptions(y[c])}
<1>1. fx = fy
  BY DEF HasExceptions
<1>2. fy # {} => (CHOOSE d \in fy : TRUE) \in Ctxs
  OBVIOUS
<1> HIDE DEF fx, fy
<1>3. FlightOf(x) = IF fx = {} THEN NoExc ELSE x[CHOOSE d \in fx : TRUE].exceptions[1]
  BY DEF FlightOf, fx
<1>4. FlightOf(y) = IF fy = {} THEN NoExc ELSE y[CHOOSE d \in fy : TRUE].exceptions[1]
  BY DEF FlightOf, fy
<1>5. FlightOf(y) = FlightOf(x)
  BY <1>1, <1>2, <1>3, <1>4
<1> QED BY <1>5 DEF Carries

\* A context in which a block needs a frame has one.
LEMMA FrameBelow ==
  ASSUME TypeOK, Begun, NEW n \in DOMAIN blocks, NEW x \in [Ctxs -> Context], FramedIn(x, n + 1),
         NEW m \in DOMAIN blocks, m <= n, blocks[m].kind # "with"
  PROVE  HasFrame(x[blocks[n].ctx])
<1> DEFINE c == blocks[n].ctx
           S == Below(JumpPoints(c), n + 1)
<1>1. c \in Ctxs /\ m \in Nat /\ n \in Nat
  BY BlockFacts, FieldFacts
<1>2. \E t \in DOMAIN blocks : t <= n /\ blocks[t].kind # "with" /\ blocks[t].ctx = c
  <2>1. CASE m = n \/ blocks[m].ctx = c
    BY <1>1, <2>1
  <2>2. CASE m # n /\ blocks[m].ctx # c
    <3>1. m < n
      BY <1>1, <2>2
    <3>2. PICK j \in DOMAIN blocks : m < j /\ j <= n /\ blocks[j].kind = "relay" /\ blocks[j].ctx = c
      BY <2>2, <3>1 DEF Begun
    <3> QED BY <3>2
  <2> QED BY <2>1, <2>2
<1>3. S # {}
  <2>1. PICK t \in DOMAIN blocks : t <= n /\ blocks[t].kind # "with" /\ blocks[t].ctx = c
    BY <1>2
  <2>2. t \in JumpPoints(c)
    BY <2>1 DEF JumpPoints
  <2>3. t < n + 1
    BY <1>1, <2>1, BlockFacts
  <2> QED BY <2>2, <2>3 DEF Below
<1>4. x[c] \in Context /\ InOrder(Jmps(x[c]), S, Names)
  BY <1>1 DEF FramedIn
<1> HIDE DEF c, S
<1>5. Jmps(x[c]) \in Seq(JmpBufs) /\ (HasFrame(x[c]) <=> Jmps(x[c]) # << >>)
  BY <1>4, JmpsFacts
<1>6. Jmps(x[c]) # << >>
  BY <1>3, <1>4, <1>5, InOrderEmpty
<1> QED BY <1>5, <1>6 DEF c

\* What Open shows, before and after a step
LEMMA ShowsOf ==
  ASSUME TypeOK
  PROVE  /\ jump = NoJump => Open = AsOpen(Tries(blocks))
         /\ jump # NoJump => Open = Structured!Unwound(AsOpen(Tries(blocks)))
         /\ blocks' \in Seq(Block) => /\ jump' = NoJump => Open' = AsOpen(Tries(blocks'))
                                      /\ jump' # NoJump => Open' = Structured!Unwound(AsOpen(Tries(blocks')))
<1>1. ASSUME NEW s \in Seq(Block)
      PROVE  /\ OpenOf(s, FALSE) = AsOpen(Tries(s))
             /\ OpenOf(s, TRUE) = Structured!Unwound(AsOpen(Tries(s)))
  <2>1. OpenOf(s, FALSE) = AsOpen(Tries(s)) /\ Tries(s) \in Seq(Block)
    BY OpenOfFacts, TriesFacts, Zenon
  <2>2. CASE Tries(s) = << >>
    <3>1. OpenOf(s, TRUE) = << >> /\ AsOpen(Tries(s)) = << >>
      BY <2>1, <2>2, OpenOfFacts, Zenon
    <3> QED BY <2>1, <3>1, Zenon DEF Structured!Unwound
  <2>3. CASE Tries(s) # << >>
    <3> DEFINE u == Front(Tries(s))
               b == Last(Tries(s))
    <3>1. u \in Seq(Block) /\ b \in Block /\ Tries(s) = Append(u, b)
      BY <2>1, <2>3, FrontAndLast, Zenon
    <3> HIDE DEF u, b
    <3>2. OpenOf(s, TRUE) = Append(AsOpen(u), Stopped(b)) /\ OpenOf(s, FALSE) = Append(AsOpen(u), Shown(b))
      BY <3>1, OpenOfFacts, Zenon
    <3> DEFINE o == Append(AsOpen(u), Shown(b))
    <3>3. AsOpen(u) \in Seq(Structured!Block) /\ Shown(b) \in Structured!Block
      BY <3>1, AsOpenFacts, ShownType
    <3>4. Front(o) = AsOpen(u) /\ Last(o) = Shown(b) /\ o # << >>
      BY <3>3, AppendFrontLast
    <3> HIDE DEF o
    <3>5. [Shown(b) EXCEPT !.phase = "finally", !.var = NoExc] = Stopped(b)
      <4> DEFINE x == [Shown(b) EXCEPT !.phase = "finally", !.var = NoExc]
      <4>1. x \in [phase : {"finally"}, var : {NoExc}, handled : {b.handled}]
        BY Zenon DEF Shown
      <4> HIDE DEF x
      <4>2. x = [phase |-> "finally", var |-> NoExc, handled |-> b.handled]
        BY <4>1
      <4> QED BY <4>2 DEF x, Stopped
    <3>6. Structured!Front(o) = AsOpen(u) /\ Structured!Last(o) = Shown(b)
      BY <3>4 DEF Structured!Front, Structured!Last, Front, Last
    <3>7. Structured!Unwound(o) = Append(AsOpen(u), Stopped(b))
      BY <3>4, <3>5, <3>6 DEF Structured!Unwound
    <3>8. o = AsOpen(Tries(s))
      BY <2>1, <3>2, Zenon DEF o
    <3> QED BY <2>1, <3>2, <3>7, <3>8, Zenon
  <2> QED BY <2>2, <2>3, Zenon
<1>2. blocks \in Seq(Block)
  BY DEF TypeOK
<1>3. Open = OpenOf(blocks, jump # NoJump) /\ Open' = OpenOf(blocks', jump' # NoJump)
  BY OpenIs
<1>4. (jump = NoJump => (jump # NoJump) = FALSE) /\ (jump # NoJump => (jump # NoJump) = TRUE)
  OBVIOUS
<1>5. (jump' = NoJump => (jump' # NoJump) = FALSE) /\ (jump' # NoJump => (jump' # NoJump) = TRUE)
  OBVIOUS
<1>6. /\ jump = NoJump => Open = OpenOf(blocks, FALSE)
      /\ jump # NoJump => Open = OpenOf(blocks, TRUE)
      /\ jump' = NoJump => Open' = OpenOf(blocks', FALSE)
      /\ jump' # NoJump => Open' = OpenOf(blocks', TRUE)
  BY <1>3, <1>4, <1>5, Zenon
<1> QED BY <1>1, <1>2, <1>6, Zenon

\* A block begins while nothing is in flight, in a relay's case on a context of its own.
Begins(b) ==
  /\ Pushed(b) /\ b \in Block /\ b.phase = "body" /\ ~b.handled /\ b.kind # "capture"
  /\ Depth > 0 => /\ Top.phase = "body"
                  /\ IF b.kind = "relay" THEN b.to = Top.ctx ELSE b.ctx = Top.ctx
  /\ \A c \in Ctxs : ctx'[c].exceptions = ctx[c].exceptions
  /\ \A s \in JmpBufs : scope'[s].captured = << >>
  /\ jump = NoJump /\ jump' = NoJump /\ Clean

\* Then it still is, and a try shows as one that has been entered.
LEMMA BeginsFlight ==
  ASSUME TypeOK, Flight, NEW b, Begins(b)
  PROVE  /\ Flight'
         /\ Open = AsOpen(Tries(blocks))
         /\ Open' = IF b.kind = "try" THEN Append(Open, Shown(b)) ELSE Open
         /\ InFlight' = InFlight /\ InFlight = NoExc
<1> /\ Begun /\ RelaysOut /\ Plain
  BY DEF Flight
<1> USE DEF Begins
<1> DEFINE n == Depth + 1
<1>1. /\ blocks' \in Seq(Block) /\ Depth' = n /\ DOMAIN blocks' = 1 .. n
      /\ n \in Nat /\ n \notin DOMAIN blocks /\ DOMAIN blocks' = DOMAIN blocks \cup {n}
      /\ blocks'[n] = b
      /\ \A i \in DOMAIN blocks : i < n /\ blocks'[i] = blocks[i]
  BY PushFacts, Zenon
<1>2. /\ Depth \in Nat /\ DOMAIN blocks = 1 .. Depth /\ Depth = n - 1 /\ n >= 1
      /\ \A i \in DOMAIN blocks : i \in Nat /\ 1 <= i /\ i <= Depth
  BY BlockFacts
<1>3. n > 1 => Depth > 0 /\ Depth \in DOMAIN blocks /\ Top = blocks[Depth]
  BY <1>2, TopFacts
<1>4. Clean'
  BY DEF Clean, HasExceptions
<1>5. Begun'
  <2>1. ASSUME NEW i \in DOMAIN blocks', NEW k \in DOMAIN blocks', i < k
        PROVE  \/ blocks'[i].ctx = blocks'[k].ctx
               \/ \E j \in DOMAIN blocks' : /\ i < j /\ j <= k
                                            /\ blocks'[j].kind = "relay" /\ blocks'[j].ctx = blocks'[k].ctx
    <3>1. i \in DOMAIN blocks /\ i \in Nat /\ i <= Depth
      BY <1>1, <1>2, <2>1
    <3>2. CASE k \in DOMAIN blocks
      <4>1. \/ blocks[i].ctx = blocks[k].ctx
            \/ \E j \in DOMAIN blocks : /\ i < j /\ j <= k
                                        /\ blocks[j].kind = "relay" /\ blocks[j].ctx = blocks[k].ctx
        BY <2>1, <3>1, <3>2 DEF Begun
      <4>2. blocks'[k] = blocks[k] /\ blocks'[i] = blocks[i]
        BY <1>1, <3>1, <3>2
      <4>3. \A j \in DOMAIN blocks : j \in DOMAIN blocks' /\ blocks'[j] = blocks[j]
        BY <1>1, Zenon
      <4> HIDE DEF n, Begins
      <4> QED BY <4>1, <4>2, <4>3
    <3>3. CASE k = n /\ b.kind = "relay"
      BY <1>1, <2>1, <3>3
    <3>4. CASE k = n /\ b.kind # "relay"
      <4>1. Depth > 0 /\ Depth \in DOMAIN blocks /\ blocks[Depth].ctx = b.ctx
        BY <1>2, <1>3, <3>1, <3>4
      <4>2. \/ blocks[i].ctx = blocks[Depth].ctx
            \/ \E j \in DOMAIN blocks : /\ i < j /\ j <= Depth
                                        /\ blocks[j].kind = "relay" /\ blocks[j].ctx = blocks[Depth].ctx
        BY <1>2, <3>1, <4>1 DEF Begun
      <4>3. \A j \in DOMAIN blocks : j <= k
        BY <1>1, <1>2, <3>4
      <4>4. blocks'[k].ctx = blocks[Depth].ctx /\ blocks'[i] = blocks[i]
        BY <1>1, <3>1, <3>4, <4>1
      <4>5. CASE blocks[i].ctx = blocks[Depth].ctx
        BY <4>4, <4>5
      <4>6. ASSUME NEW j \in DOMAIN blocks, i < j, blocks[j].kind = "relay", blocks[j].ctx = blocks[Depth].ctx
            PROVE  /\ j \in DOMAIN blocks' /\ i < j /\ j <= k
                   /\ blocks'[j].kind = "relay" /\ blocks'[j].ctx = blocks'[k].ctx
        BY <1>1, <4>3, <4>4, <4>6, Zenon
      <4> HIDE DEF n, Begins
      <4> QED BY <4>2, <4>5, <4>6
    <3> QED BY <1>1, <3>2, <3>3, <3>4, Zenon
  <2> QED BY <2>1 DEF Begun
<1>6. RelaysOut'
  <2>1. ASSUME NEW j \in DOMAIN blocks', blocks'[j].kind = "relay", j > 1
        PROVE  blocks'[j].to = blocks'[j - 1].ctx
    <3>1. CASE j \in DOMAIN blocks
      <4>1. j - 1 \in DOMAIN blocks
        BY <1>2, <2>1, <3>1
      <4> QED BY <1>1, <2>1, <3>1, <4>1 DEF RelaysOut
    <3>2. CASE j = n
      BY <1>1, <1>2, <1>3, <2>1, <3>2
    <3> QED BY <1>1, <3>1, <3>2, Zenon
  <2> QED BY <2>1 DEF RelaysOut
<1>7. Plain'
  <2>1. ASSUME NEW i \in DOMAIN blocks'
        PROVE  /\ blocks'[i].kind # "capture"
               /\ blocks'[i].phase = "catch" => blocks'[i].handled
               /\ blocks'[i].handled => blocks'[i].phase # "body" /\ Clean' /\ jump' = NoJump
               /\ i < Depth' => blocks'[i].phase = "body"
    <3>1. CASE i \in DOMAIN blocks
      <4>1. blocks'[i] = blocks[i] /\ blocks[i].phase = "body"
        <5>1. CASE i = Depth
          BY <1>1, <1>2, <1>3, <3>1, <5>1
        <5>2. CASE i # Depth
          <6>1. i < Depth
            BY <1>2, <3>1, <5>2
          <6> QED BY <1>1, <3>1, <6>1 DEF Plain
        <5> QED BY <5>1, <5>2
      <4> QED BY <3>1, <4>1 DEF Plain
    <3>2. CASE i = n
      <4>1. ~(n < n)
        BY <1>1
      <4> QED BY <1>1, <3>2, <4>1
    <3> QED BY <1>1, <3>1, <3>2, Zenon
  <2> QED BY <2>1 DEF Plain
<1>8. Calm'
  <2>1. Top' = b
    BY <1>1 DEF Top, Last, Depth
  <2> QED BY <1>4, <2>1 DEF Calm, InFinally
<1>9. Flight'
  BY <1>5, <1>6, <1>7, <1>8 DEF Flight
<1>10. InFlight' = InFlight /\ InFlight = NoExc
  <2>1. \A c \in Ctxs : ctx[c].exceptions = << >> /\ ctx'[c].exceptions = << >>
    BY DEF Clean, HasExceptions
  <2> QED BY <2>1, InFlightIs, FlightOfFacts
<1>11. Open = AsOpen(Tries(blocks)) /\ Open' = AsOpen(Tries(blocks')) /\ blocks \in Seq(Block)
  BY <1>1, ShowsOf DEF TypeOK
<1>12. Open' = IF b.kind = "try" THEN Append(Open, Shown(b)) ELSE Open
  <2>1. Tries(blocks') = IF b.kind = "try" THEN Append(Tries(blocks), b) ELSE Tries(blocks)
    BY <1>11, TriesAppend DEF Pushed
  <2>2. Tries(blocks) \in Seq(Block)
    BY <1>11, TriesFacts
  <2> QED BY <1>11, <2>1, <2>2, AsOpenAppend, Zenon
<1> QED BY <1>9, <1>10, <1>11, <1>12

-----------------------------------------------------------------------------
(* What each step is to the abstract specification *)

\* A program without any liberty: what README.md:385-427 shows, and no more.
Documented == Usage = {}

\* What a step does that the abstract specification does not see.
Unseen == Open' = Open /\ InFlight' = InFlight

LEMMA OpenWithFlight ==
  ASSUME Documented, IInv, Flight, NEW id \in JmpBufs, NEW c \in Ctxs, OpenWith(id, c)
  PROVE  Flight' /\ Unseen
<1> DEFINE b == NewBlock("with", id, id, c, c, NoScope)
<1>0. TypeOK
  BY DEF IInv
<1>1. b \in Block /\ b.kind = "with" /\ b.phase = "body" /\ b.ctx = c
  BY NewBlockFacts
<1>2. ~b.handled
  BY DEF NewBlock
<1>3. /\ jump = NoJump /\ Clean /\ (Depth > 0 => Top.phase = "body") /\ MayUse(c)
      /\ Pushed(b) /\ scope' = [scope EXCEPT ![id] = NewScope] /\ ctx' = ctx /\ jump' = jump
  BY RunningFacts DEF OpenWith, Pushed
<1>4. Depth > 0 => c = Top.ctx
  BY <1>3 DEF MayUse, Documented
<1> HIDE DEF b
<1>5. \A s \in JmpBufs : scope'[s].captured = << >>
  <2>1. NewScope.captured = << >>
    BY DEF NewScope
  <2> QED BY <1>0, <1>3, <2>1 DEF TypeOK, Flight, Plain
<1>6. Begins(b)
  BY <1>1, <1>2, <1>3, <1>4, <1>5 DEF Begins
<1> QED BY <1>0, <1>1, <1>6, BeginsFlight DEF Unseen

LEMMA BeginRelayFlight ==
  ASSUME Documented, IInv, Flight, NEW id \in JmpBufs, NEW c \in Ctxs, NEW to \in Ctxs,
         NEW toScope \in JmpBufs \cup {NoScope}, Running, Clean,
         Depth > 0 => Top.phase = "body" /\ to = Top.ctx,
         BeginRelay(id, c, to, toScope)
  PROVE  Flight' /\ Unseen
<1> DEFINE b == NewBlock("relay", id, id, c, to, toScope)
           d == PushFrame(ctx[c], id, DONT, FALSE, FALSE)
<1>0. TypeOK
  BY DEF IInv
<1>1. b \in Block /\ b.kind = "relay" /\ b.phase = "body" /\ b.to = to
  BY NewBlockFacts
<1>2. ~b.handled
  BY DEF NewBlock
<1>3. /\ Pushed(b) /\ scope' = [scope EXCEPT ![id] = NewScope] /\ ctx' = [ctx EXCEPT ![c] = d]
      /\ jump' = jump /\ jump = NoJump
  BY RunningFacts DEF BeginRelay, Pushed
<1>4. ctx \in [Ctxs -> Context] /\ ctx[c] \in Context
  BY <1>0 DEF TypeOK
<1>5. d.exceptions = ctx[c].exceptions
  BY <1>4, PushedFrameEnters, Zenon
<1> HIDE DEF b, d
<1>6. \A e \in Ctxs : ctx'[e].exceptions = ctx[e].exceptions
  BY <1>3, <1>4, <1>5, SameExceptions
<1>7. \A s \in JmpBufs : scope'[s].captured = << >>
  <2>1. NewScope.captured = << >>
    BY DEF NewScope
  <2> QED BY <1>0, <1>3, <2>1 DEF TypeOK, Flight, Plain
<1>8. Begins(b)
  BY <1>1, <1>2, <1>3, <1>6, <1>7 DEF Begins
<1> QED BY <1>0, <1>1, <1>8, BeginsFlight DEF Unseen

LEMMA OpenRelayFlight ==
  ASSUME Documented, IInv, Flight, NEW id \in JmpBufs, NEW c \in Ctxs, OpenRelay(id, c)
  PROVE  Flight' /\ Unseen
<1>1. InBody /\ BeginRelay(id, c, Top.ctx, Top.scope)
  BY DEF OpenRelay, MayRelay, Documented
<1>2. Running /\ Clean /\ Depth > 0 /\ Top.phase = "body"
  BY <1>1 DEF InBody
<1>3. Top.ctx \in Ctxs /\ Top.scope \in JmpBufs
  BY <1>2, TopFacts, FieldFacts DEF IInv
<1> QED BY <1>1, <1>2, <1>3, BeginRelayFlight

LEMMA OpenRelayToFlight ==
  ASSUME Documented, IInv, Flight, NEW id \in JmpBufs, NEW c \in Ctxs, NEW to \in Ctxs, OpenRelayTo(id, c, to)
  PROVE  Flight' /\ Unseen
<1>1. /\ Running /\ Clean /\ (Depth > 0 => InBody) /\ MayUse(to)
      /\ BeginRelay(id, c, to, NoScope)
  BY DEF OpenRelayTo, MayRelay, Documented
<1>2. Depth > 0 => Top.phase = "body" /\ to = Top.ctx
  BY <1>1 DEF InBody, MayUse, Documented
<1> QED BY <1>1, <1>2, BeginRelayFlight

LEMMA OpenTryFlight ==
  ASSUME Documented, IInv, Flight, NEW id \in JmpBufs, OpenTry(id)
  PROVE  Flight' /\ Structured!Enter
<1> DEFINE d == Try(ctx[Top.ctx], id, DONT)
           b == NewBlock("try", id, Top.scope, Top.ctx, Top.ctx, NoScope)
<1>0. TypeOK
  BY DEF IInv
<1>1. /\ Pushed(b) /\ scope' = scope /\ ctx' = [ctx EXCEPT ![Top.ctx] = d] /\ Unused(id)
      /\ jump' = jump /\ jump = NoJump /\ Clean /\ Depth > 0 /\ Top.phase = "body"
  BY RunningFacts DEF OpenTry, OpenIn, Pushed, InBody
<1>2. Top.ctx \in Ctxs /\ Top.scope \in JmpBufs
  BY <1>0, <1>1, TopFacts, FieldFacts
<1>3. b \in Block /\ b.kind = "try" /\ b.phase = "body" /\ b.ctx = Top.ctx /\ b.var = NoExc
  BY <1>2, NewBlockFacts
<1>4. ~b.handled /\ b.handled = FALSE
  BY DEF NewBlock
<1>5. ctx \in [Ctxs -> Context] /\ ctx[Top.ctx] \in Context /\ DONT \in JumpReason
  BY <1>0, <1>2 DEF TypeOK, JumpReason
<1>6. d.exceptions = ctx[Top.ctx].exceptions
  BY <1>5, TryFacts
<1> HIDE DEF b, d
<1>7. \A e \in Ctxs : ctx'[e].exceptions = ctx[e].exceptions
  BY <1>1, <1>2, <1>5, <1>6, SameExceptions
<1>8. \A s \in JmpBufs : scope'[s].captured = << >>
  BY <1>1 DEF Flight, Plain
<1>9. Begins(b)
  BY <1>1, <1>3, <1>4, <1>7, <1>8 DEF Begins
<1>10. /\ Flight' /\ InFlight' = InFlight /\ InFlight = NoExc
       /\ Open = AsOpen(Tries(blocks)) /\ Open' = Append(Open, Shown(b))
  BY <1>0, <1>3, <1>9, BeginsFlight
<1>11. Len(Open) < MaxDepth
  <2>1. blocks \in Seq(Block) /\ Depth = Len(blocks) /\ Depth \in Nat /\ Depth < MaxDepth /\ MaxDepth \in Nat
    BY <1>0, <1>1, BlockFacts, RelayAssumption DEF Unused
  <2>2. Tries(blocks) \in Seq(Block) /\ Len(Tries(blocks)) <= Len(blocks)
    BY <2>1, TriesFacts
  <2>3. Len(Open) = Len(Tries(blocks)) /\ Len(Tries(blocks)) \in Nat
    BY <1>10, <2>2, AsOpenFacts
  <2> QED BY <2>1, <2>2, <2>3
<1>12. Shown(b) = [phase |-> "body", var |-> NoExc, handled |-> FALSE]
  BY <1>3, <1>4, Zenon DEF Shown
<1> QED BY <1>10, <1>11, <1>12 DEF Structured!Enter

\* What receives a throw is a try.
LEMMA ReceivedByTry ==
  ASSUME TypeOK, Flight, Received
  PROVE  /\ \E i \in DOMAIN blocks : blocks[i].kind = "try"
         /\ Tries(blocks) # << >>
<1>1. PICK i \in DOMAIN blocks : blocks[i].kind \in {"try", "capture"}
  BY DEF Received
<1>2. blocks[i].kind = "try"
  BY <1>1 DEF Flight, Plain
<1> QED BY <1>2, TriesFacts DEF TypeOK

\* Below the innermost block all are in their bodies.
LEMMA BodyBelow ==
  ASSUME TypeOK, Plain, NEW i \in DOMAIN blocks, i < Depth \/ blocks[i].phase = "body"
  PROVE  blocks[i].phase = "body" /\ ~blocks[i].handled /\ blocks[i].kind # "capture"
BY DEF Plain

\* What the end of blocks, or a change of the innermost one, keeps
LEMMA CutFlight ==
  ASSUME TypeOK, Flight, NEW n \in 0 .. Depth, CutTo(n), Quiet,
         n > 0 => \/ blocks'[n].phase = "body" /\ ~blocks'[n].handled
                  \/ /\ blocks'[n].phase # "body" /\ jump' = NoJump
                     /\ blocks'[n].phase = "catch" => blocks'[n].handled
                     /\ blocks'[n].handled => Clean'
  PROVE  Begun' /\ RelaysOut' /\ Plain'
<1> Begun /\ RelaysOut /\ Plain
  BY DEF Flight
<1>1. /\ n \in Nat /\ Depth' = n /\ DOMAIN blocks' = 1 .. n /\ 1 .. n \subseteq DOMAIN blocks
      /\ \A i \in DOMAIN blocks' : Same(blocks'[i], blocks[i]) /\ i \in Nat /\ 1 <= i /\ i <= n
      /\ \A i \in DOMAIN blocks' : i < n => blocks'[i] = blocks[i]
  BY CutFacts
<1>2. n <= Depth /\ Depth \in Nat
  BY BlockFacts
<1>3. \A i \in DOMAIN blocks' : /\ i \in DOMAIN blocks
                                /\ blocks'[i].kind = blocks[i].kind /\ blocks'[i].ctx = blocks[i].ctx
                                /\ blocks'[i].to = blocks[i].to
  BY <1>1 DEF Same
<1>4. Begun'
  <2>1. ASSUME NEW i \in DOMAIN blocks', NEW k \in DOMAIN blocks', i < k
        PROVE  \/ blocks'[i].ctx = blocks'[k].ctx
               \/ \E j \in DOMAIN blocks' : /\ i < j /\ j <= k
                                            /\ blocks'[j].kind = "relay" /\ blocks'[j].ctx = blocks'[k].ctx
    <3>1. \/ blocks[i].ctx = blocks[k].ctx
          \/ \E j \in DOMAIN blocks : /\ i < j /\ j <= k
                                      /\ blocks[j].kind = "relay" /\ blocks[j].ctx = blocks[k].ctx
      BY <1>3, <2>1 DEF Begun
    <3>2. \A j \in DOMAIN blocks : j <= k => j \in DOMAIN blocks'
      BY <1>1, <1>2, BlockFacts
    <3> QED BY <1>3, <3>1, <3>2
  <2> QED BY <2>1 DEF Begun
<1>5. RelaysOut'
  <2>1. ASSUME NEW j \in DOMAIN blocks', blocks'[j].kind = "relay", j > 1
        PROVE  blocks'[j].to = blocks'[j - 1].ctx
    <3>1. j - 1 \in DOMAIN blocks'
      BY <1>1, <2>1
    <3> QED BY <1>3, <2>1, <3>1 DEF RelaysOut
  <2> QED BY <2>1 DEF RelaysOut
<1>6. Plain'
  <2>1. ASSUME NEW s \in JmpBufs PROVE scope'[s].captured = << >>
    BY DEF Quiet, Plain
  <2>2. ASSUME NEW i \in DOMAIN blocks'
        PROVE  /\ blocks'[i].kind # "capture"
               /\ blocks'[i].phase = "catch" => blocks'[i].handled
               /\ blocks'[i].handled => blocks'[i].phase # "body" /\ Clean' /\ jump' = NoJump
               /\ i < Depth' => blocks'[i].phase = "body"
    <3>1. blocks'[i].kind # "capture"
      BY <1>3 DEF Plain
    <3>2. CASE i < n
      <4>1. blocks'[i] = blocks[i] /\ i \in DOMAIN blocks /\ i < Depth
        BY <1>1, <1>2, <1>3, <3>2
      <4>2. blocks[i].phase = "body" /\ ~blocks[i].handled
        BY <4>1, BodyBelow
      <4> QED BY <3>1, <4>1, <4>2
    <3>3. CASE i = n
      <4>1. n > 0 /\ ~(n < n)
        BY <1>1, <3>3
      <4> QED BY <1>1, <3>1, <3>3, <4>1
    <3> QED BY <1>1, <3>2, <3>3
  <2> QED BY <2>1, <2>2 DEF Plain
<1> QED BY <1>4, <1>5, <1>6

\* A jump goes on from the context of the exception: to a block on that context, or, when
\* no block there is left that receives it, nowhere.
LEMMA GoesOnFlying ==
  ASSUME TypeOK, Nested, Begun, NEW n \in 0 .. Depth, CutTo(n),
         NEW x \in [Ctxs -> Context], FramedIn(x, n + 1), NEW c \in Ctxs, n > 0 => c = blocks[n].ctx,
         NEW r, GoesOn(x[c], r), jump' = Jumping(r), NEW e, Carries(ctx', c, e)
  PROVE  /\ Flying(c, e)'
         /\ jump' = NoJump => \A i \in DOMAIN blocks' : blocks'[i].kind = "with"
         /\ (\E i \in 1 .. n : blocks[i].kind # "with") => jump' # NoJump
<1>1. /\ n \in Nat /\ Depth' = n /\ DOMAIN blocks' = 1 .. n /\ 1 .. n \subseteq DOMAIN blocks
      /\ \A i \in DOMAIN blocks' : Same(blocks'[i], blocks[i]) /\ i \in Nat /\ 1 <= i /\ i <= n
  BY CutFacts
<1>2. \A i \in DOMAIN blocks' : /\ i \in DOMAIN blocks /\ blocks'[i].kind = blocks[i].kind
                                /\ blocks'[i].ctx = blocks[i].ctx /\ blocks'[i].id = blocks[i].id
  BY <1>1 DEF Same
<1>3. x[c] \in Context
  OBVIOUS
<1>4. CASE HasFrame(x[c])
  <2>1. n > 0
    <3> SUFFICES ASSUME n = 0 PROVE FALSE
      BY <1>1
    <3>1. Below(JumpPoints(c), n + 1) = {}
      <4>1. JumpPoints(c) \subseteq DOMAIN blocks
        BY JumpPointsFacts
      <4>2. \A i \in DOMAIN blocks : ~(i < n + 1)
        BY <1>1, BlockFacts
      <4> QED BY <4>1, <4>2 DEF Below
    <3>2. InOrder(Jmps(x[c]), {}, Names)
      BY <3>1 DEF FramedIn
    <3>3. Jmps(x[c]) \in Seq(JmpBufs) /\ Jmps(x[c]) # << >>
      BY <1>3, <1>4, JmpsFacts
    <3> QED BY <3>2, <3>3, InOrderEmpty
  <2>2. n \in DOMAIN blocks
    BY <1>1, <2>1
  <2>3. PICK t \in 1 .. n : /\ t \in DOMAIN blocks /\ blocks[t].kind # "with" /\ blocks[t].ctx = c
                            /\ x[c].frames[Len(x[c].frames)].jmp = blocks[t].id
    BY <1>4, <2>1, <2>2, LastJumpPoint
  <2>4. r.to = blocks[t].id /\ r.to \in JmpBufs
    <3>1. blocks[t].id \in JmpBufs
      BY <2>3, BlockFacts, FieldFacts
    <3> QED BY <1>4, <2>3, <3>1 DEF GoesOn, LandsAt
  <2>5. jump' # NoJump /\ jump'.to = blocks[t].id
    <3>1. r.to # NoJmp
      BY <2>4, ContextAssumption
    <3>2. jump' = [to |-> r.to, why |-> r.why]
      BY <3>1 DEF Jumping
    <3>3. jump'.to = r.to /\ NoJump.to = NoJmp
      BY <3>2 DEF NoJump
    <3> QED BY <2>4, <3>1, <3>3
  <2>6. t \in DOMAIN blocks' /\ blocks'[t].id = jump'.to /\ blocks'[t].ctx = c
    BY <1>1, <1>2, <2>3, <2>5
  <2> QED BY <2>5, <2>6 DEF Flying
<1>5. CASE ~HasFrame(x[c])
  <2>1. jump' = NoJump
    BY <1>5 DEF GoesOn, Jumping
  <2>2. ASSUME NEW i \in DOMAIN blocks', blocks[i].kind # "with" PROVE FALSE
    <3>1. n \in DOMAIN blocks /\ i \in DOMAIN blocks /\ i <= n /\ n > 0
      BY <1>1, <2>2
    <3>2. HasFrame(x[blocks[n].ctx])
      BY <2>2, <3>1, FrameBelow
    <3> QED BY <1>5, <3>1, <3>2
  <2>3. \A i \in DOMAIN blocks' : blocks'[i].kind = "with"
    BY <1>2, <2>2
  <2> QED BY <1>1, <2>1, <2>2, <2>3 DEF Flying
<1> QED BY <1>4, <1>5

\* What the innermost of the blocks t shows
LEMMA AsOpenTop ==
  ASSUME NEW t \in Seq(Block), t # << >>
  PROVE  /\ AsOpen(t) # << >>
         /\ Structured!Last(AsOpen(t)) = Shown(Last(t))
         /\ Structured!Front(AsOpen(t)) = AsOpen(Front(t))
         /\ Len(t) \in DOMAIN t /\ Last(t) = t[Len(t)]
<1>1. Front(t) \in Seq(Block) /\ Last(t) \in Block /\ t = Append(Front(t), Last(t))
  BY FrontAndLast
<1>2. AsOpen(t) = Append(AsOpen(Front(t)), Shown(Last(t)))
  <2>1. AsOpen(Append(Front(t), Last(t))) = Append(AsOpen(Front(t)), Shown(Last(t)))
    BY <1>1, AsOpenAppend
  <2> QED BY <1>1, <2>1, Zenon
<1>3. AsOpen(Front(t)) \in Seq(Structured!Block) /\ Shown(Last(t)) \in Structured!Block
  BY <1>1, AsOpenFacts, ShownType
<1>4. /\ Front(AsOpen(t)) = AsOpen(Front(t)) /\ Last(AsOpen(t)) = Shown(Last(t)) /\ AsOpen(t) # << >>
  <2> DEFINE o == Append(AsOpen(Front(t)), Shown(Last(t)))
  <2>1. Front(o) = AsOpen(Front(t)) /\ Last(o) = Shown(Last(t)) /\ o # << >>
    BY <1>3, AppendFrontLast
  <2> QED BY <1>2, <2>1, Zenon
<1>5. Len(t) \in DOMAIN t /\ Last(t) = t[Len(t)]
  <2>1. Len(t) \in Nat \ {0} /\ Last(t) = t[Len(t)]
    BY FrontFacts, Zenon
  <2> QED BY <2>1, LenProperties
<1> QED BY <1>4, <1>5 DEF Structured!Front, Structured!Last, Front, Last

LEMMA ThrowNewFlight ==
  ASSUME Documented, IInv, Flight, ThrowNew
  PROVE  Flight' /\ \E e \in Exc : Structured!Raise(e)
<1> TypeOK /\ Framed /\ Nested /\ Begun /\ Plain
  BY DEF IInv, Shape, Flight
<1>1. InBody /\ Received /\ jump = NoJump /\ Depth > 0 /\ Top.phase = "body" /\ Clean
  BY RunningFacts DEF ThrowNew, MayThrow, InBody, Documented
<1>2. PICK c \in Ctxs :
         /\ c = Top.ctx /\ Depth \in DOMAIN blocks /\ Top = blocks[Depth] /\ ctx[c] \in Context
         /\ ctx \in [Ctxs -> Context] /\ FramedIn(ctx, Depth + 1)
  BY <1>1, TopFacts, FieldFacts DEF TypeOK, Framed
<1>3. PICK e \in Exc \ live : LET r == Throw(ctx[c], e)
                              IN  ctx' = [ctx EXCEPT ![c] = r.ctx] /\ jump' = Jumping(r)
  BY <1>2, Zenon DEF ThrowNew
<1> DEFINE r == Throw(ctx[c], e)
<1>4. /\ ctx' = [ctx EXCEPT ![c] = r.ctx] /\ jump' = Jumping(r)
      /\ blocks' = blocks /\ scope' = scope
  BY <1>3, Zenon DEF ThrowNew
<1>5. GoesOn(ctx[c], r) /\ r.ctx.exceptions = Append(ctx[c].exceptions, e)
  BY <1>2, ThrowGoesOn
<1> HIDE DEF r
<1>6. Carries(ctx', c, e)
  <2>1. \A d \in Ctxs : ctx[d].exceptions = << >>
    BY <1>1 DEF Clean, HasExceptions
  <2>2. r.ctx.exceptions = <<e>>
    <3>1. Append(<< >>, e) = <<e>>
      OBVIOUS
    <3> QED BY <1>5, <2>1, <3>1, Zenon
  <2> QED BY <1>2, <1>4, <2>1, <2>2 DEF Carries
<1>7. Depth \in 0 .. Depth /\ CutTo(Depth) /\ Quiet
  BY <1>4, SameIsCut DEF Quiet
<1>8. blocks'[Depth].phase = "body" /\ ~blocks'[Depth].handled
  BY <1>1, <1>2, <1>4, BodyBelow
<1>9. Begun' /\ RelaysOut' /\ Plain'
  BY <1>7, <1>8, CutFlight
<1>10. Flying(c, e)' /\ ((\E i \in 1 .. Depth : blocks[i].kind # "with") => jump' # NoJump)
  <2>1. Depth > 0 => c = blocks[Depth].ctx
    BY <1>2
  <2> QED BY <1>2, <1>4, <1>5, <1>6, <1>7, <2>1, GoesOnFlying, Zenon
<1>11. Flight'
  BY <1>2, <1>9, <1>10 DEF Flight
<1>12. PICK i \in DOMAIN blocks : blocks[i].kind = "try"
  BY <1>1, ReceivedByTry
<1>13. jump' # NoJump
  BY <1>10, <1>12, BlockFacts
<1> DEFINE t == Tries(blocks)
<1>14. blocks \in Seq(Block) /\ t \in Seq(Block) /\ t # << >>
  BY <1>1, TriesFacts, ReceivedByTry DEF TypeOK
<1>15. Open = AsOpen(t) /\ Open' = Structured!Unwound(AsOpen(t))
  BY <1>1, <1>4, <1>13, <1>14, ShowsOf
<1>16. Last(t).phase = "body"
  <2>1. Len(t) \in 1 .. Len(t) /\ Last(t) = t[Len(t)]
    BY <1>14, AsOpenTop
  <2>2. PICK k \in DOMAIN blocks : blocks[k] = Last(t)
    BY <1>14, <2>1, TriesFacts
  <2>3. k < Depth \/ k = Depth
    BY BlockFacts
  <2>4. blocks[k].phase = "body"
    BY <1>1, <1>2, <2>3, BodyBelow
  <2> QED BY <2>2, <2>4
<1>17. Structured!In("body")
  <2>1. AsOpen(t) # << >> /\ Structured!Last(AsOpen(t)) = Shown(Last(t))
    BY <1>14, AsOpenTop
  <2>2. Shown(Last(t)).phase = "body"
    BY <1>16 DEF Shown
  <2> QED BY <1>15, <2>1, <2>2 DEF Structured!In, Structured!Top
<1>18. InFlight' = e
  BY <1>6, InFlightIs, FlightOfFacts
<1> HIDE DEF t
<1>19. Structured!Raise(e)
  BY <1>15, <1>17, <1>18 DEF Structured!Raise
<1> QED BY <1>11, <1>19

\* The innermost block ends: the one around it is in its body.
LEMMA FrontFlight ==
  ASSUME TypeOK, Flight, Depth > 0, blocks' = Front(blocks), Quiet
  PROVE  /\ Begun' /\ RelaysOut' /\ Plain' /\ ~InFinally'
         /\ Depth' = Depth - 1 /\ DOMAIN blocks' = 1 .. Depth - 1 /\ DOMAIN blocks' \subseteq DOMAIN blocks
         /\ \A i \in DOMAIN blocks' : blocks'[i] = blocks[i]
         /\ Depth - 1 \in 0 .. Depth /\ CutTo(Depth - 1) /\ blocks' \in Seq(Block)
<1> Plain
  BY DEF Flight
<1> DEFINE n == Depth - 1
<1>1. Depth \in DOMAIN blocks /\ n \in 0 .. Depth /\ Top = blocks[Depth]
  BY TopFacts
<1>2. CutTo(n) /\ \A i \in 1 .. n : blocks'[i] = blocks[i]
  BY FrontIsCut
<1>3. n > 0 => blocks'[n].phase = "body" /\ ~blocks'[n].handled
  <2> SUFFICES ASSUME n > 0 PROVE blocks'[n].phase = "body" /\ ~blocks'[n].handled
    OBVIOUS
  <2>1. n \in 1 .. n /\ n \in DOMAIN blocks /\ n < Depth
    BY BlockFacts
  <2> HIDE DEF n
  <2> QED BY <1>2, <2>1, BodyBelow
<1> HIDE DEF n
<1>4. Begun' /\ RelaysOut' /\ Plain'
  BY <1>1, <1>2, <1>3, CutFlight
<1>5. /\ n \in Nat /\ Depth' = n /\ DOMAIN blocks' = 1 .. n /\ 1 .. n \subseteq DOMAIN blocks
  BY <1>1, <1>2, CutFacts
<1>6. ~InFinally'
  <2> SUFFICES ASSUME n > 0 PROVE Top'.phase = "body"
    BY <1>5 DEF InFinally
  <2>1. Top' = blocks'[n]
    BY <1>2 DEF Top, Last, CutTo
  <2> QED BY <1>3, <2>1
<1>7. blocks' \in Seq(Block)
  BY <1>2 DEF CutTo
<1> QED BY <1>1, <1>2, <1>4, <1>5, <1>6, <1>7 DEF n

\* The innermost block is no try, and ends.
LEMMA EndsFlight ==
  ASSUME IInv, Flight, jump = NoJump, jump' = NoJump, Depth > 0, Top.kind # "try",
         blocks' = Front(blocks), Quiet, \A c \in Ctxs : ctx'[c].exceptions = ctx[c].exceptions
  PROVE  Flight' /\ Unseen
<1> TypeOK
  BY DEF IInv
<1>1. /\ Begun' /\ RelaysOut' /\ Plain' /\ ~InFinally'
      /\ DOMAIN blocks' \subseteq DOMAIN blocks /\ blocks' \in Seq(Block)
      /\ \A i \in DOMAIN blocks' : blocks'[i] = blocks[i]
  BY FrontFlight
<1>2. ASSUME Calm PROVE Flight'
  <2>1. Calm'
    BY <1>1, <1>2 DEF Calm, Clean, HasExceptions
  <2> QED BY <1>1, <2>1 DEF Flight
<1>3. ASSUME NEW c \in Ctxs, NEW e \in Exc, Flying(c, e) PROVE Flight'
  <2>1. \A i \in DOMAIN blocks : blocks[i].kind = "with"
    BY <1>3 DEF Flying, InFinally
  <2>2. Carries(ctx', c, e)
    BY <1>3 DEF Flying, Carries
  <2>3. Flying(c, e)'
    BY <1>1, <2>1, <2>2 DEF Flying
  <2> QED BY <1>1, <2>3 DEF Flight
<1>4. Flight'
  BY <1>2, <1>3 DEF Flight
<1>5. InFlight' = InFlight
  BY InFlightIs, SameFlight
<1>6. Open' = Open
  <2>1. blocks \in Seq(Block) /\ blocks # << >>
    BY TopFacts DEF TypeOK
  <2>2. Last(blocks) = Top
    BY DEF Top
  <2>3. Tries(blocks') = Tries(blocks)
    BY <2>1, <2>2, TriesTop
  <2>4. Open = AsOpen(Tries(blocks)) /\ Open' = AsOpen(Tries(blocks'))
    BY <1>1, ShowsOf
  <2> QED BY <2>3, <2>4
<1> QED BY <1>4, <1>5, <1>6 DEF Unseen

LEMMA EndWithFlight ==
  ASSUME IInv, Flight, EndWith
  PROVE  Flight' /\ Unseen
<1>1. /\ jump = NoJump /\ jump' = NoJump /\ Depth > 0 /\ Top.kind # "try"
      /\ blocks' = Front(blocks) /\ scope' = Destroyed(scope, {Top.scope}) /\ ctx' = ctx
  BY RunningFacts DEF EndWith, In
<1>2. Quiet
  <2>1. scope \in [JmpBufs -> Scope]
    BY DEF IInv, TypeOK
  <2> QED BY <1>1, <2>1, DestroyedFacts DEF Quiet
<1> QED BY <1>1, <1>2, EndsFlight

LEMMA EndRelayFlight ==
  ASSUME IInv, Flight, EndRelay
  PROVE  Flight' /\ Unseen
<1> TypeOK /\ Scopes /\ Waiting /\ Plain
  BY DEF IInv, Shape, Flight
<1> DEFINE c == Top.ctx
           to == Top.to
           s == Top.scope
           x == [ctx EXCEPT ![c].exceptions = @ \o scope[s].captured]
           popped == [Moved(x, c, to) EXCEPT ![c] = PopFrame(@)]
           r == IF HasExceptions(popped[to]) THEN JumpBecause(popped[to], THROW)
                ELSE [ctx |-> popped[to], to |-> NoJmp, why |-> DONT]
<1>1. jump = NoJump /\ Depth > 0 /\ Top.kind = "relay" /\ Running
  BY RunningFacts, Zenon DEF EndRelay, In
<1>2. Depth \in DOMAIN blocks /\ Top = blocks[Depth] /\ c \in Ctxs /\ to \in Ctxs /\ s \in JmpBufs
  BY <1>1, TopFacts, FieldFacts
<1>3. s = Top.id /\ scope[s].valid
  BY <1>1, <1>2 DEF Scopes, Waiting, Scoped
<1>4. ctx' = [popped EXCEPT ![to] = r.ctx] /\ jump' = Jumping(r) /\ blocks' = Front(blocks)
  BY <1>3, Zenon DEF EndRelay
<1>5. Clean
  <2>1. ASSUME NEW d \in Ctxs, NEW e \in Exc, Flying(d, e) PROVE FALSE
    <3>1. \A i \in DOMAIN blocks : blocks[i].kind = "with"
      BY <1>1, <2>1 DEF Flying, InFinally
    <3> QED BY <1>1, <1>2, <3>1
  <2> QED BY <2>1 DEF Flight, Calm
<1>6. \A d \in Ctxs : ctx[d].exceptions = << >>
  BY <1>5 DEF Clean, HasExceptions
<1>7. PICK u \in [Ctxs -> Context], y \in [JmpBufs -> Scope] :
         MovesOut(ctx, scope, u, y, Top.id, c) /\ Relays(u, y, c, to)
  BY EndRelayMoves
<1>8. c # to
  BY <1>1, <1>2, RelayTo
<1> HIDE DEF c, to, s, x, popped, r
<1>9. \A d \in Ctxs : ctx'[d].exceptions = << >>
  <2>1. scope[Top.id].captured = << >> /\ << >> \o << >> = << >>
    BY <1>2, <1>3 DEF Plain
  <2>2. u[c].exceptions = << >> /\ \A d \in Ctxs : d # c => u[d].exceptions = << >>
    BY <1>2, <1>6, <1>7, <2>1 DEF MovesOut
  <2>3. Transfers(u, ctx', c, to)
    BY <1>7 DEF Relays
  <2> QED BY <1>2, <2>1, <2>2, <2>3 DEF Transfers
<1>10. Quiet
  <2>1. scope \in [JmpBufs -> Scope]
    BY DEF TypeOK
  <2>2. \A q \in JmpBufs : y[q].captured \in {scope[q].captured, << >>}
    BY <1>2, <1>3, <1>7, <2>1 DEF MovesOut
  <2>3. \A q \in JmpBufs : scope'[q].captured = y[q].captured
    BY <1>7, RelaysFacts
  <2> QED BY <2>2, <2>3 DEF Quiet
<1>11. jump' = NoJump
  <2>1. popped[to].exceptions = << >>
    <3>1. scope[s].captured = << >> /\ ctx \in [Ctxs -> Context]
      BY <1>2 DEF Plain, TypeOK
    <3>2. << >> \o << >> = << >> /\ << >> \in Seq(Exc)
      BY EmptySeq
    <3>3. x \in [Ctxs -> Context] /\ x[c].exceptions = << >> /\ x[to].exceptions = << >>
      <4> DEFINE a == [ctx[c] EXCEPT !.exceptions = @ \o scope[s].captured]
      <4>1. ctx[c] \in Context
        BY <1>2, <3>1
      <4>2. a = [frames |-> ctx[c].frames, exceptions |-> << >>]
        BY <1>2, <1>6, <3>1, <3>2, <4>1, ContextExcept, Zenon
      <4>3. a \in Context /\ a.exceptions = << >>
        BY <3>2, <4>1, <4>2, Zenon DEF Context
      <4>4. x = [ctx EXCEPT ![c] = a]
        BY DEF x
      <4> HIDE DEF a
      <4> QED BY <1>2, <1>6, <1>8, <3>1, <4>3, <4>4
    <3>4. Moved(x, c, to)[to].exceptions = << >> /\ Moved(x, c, to) \in [Ctxs -> Context]
      <4>1. /\ Moved(x, c, to) \in [Ctxs -> Context]
            /\ Moved(x, c, to)[to].exceptions = x[to].exceptions \o x[c].exceptions
        BY <1>2, <1>8, <3>3, MovedFacts, Zenon
      <4> QED BY <3>2, <3>3, <4>1
    <3> QED BY <1>2, <1>8, <3>4 DEF popped
  <2>2. ~HasExceptions(popped[to])
    BY <2>1 DEF HasExceptions
  <2> QED BY <1>4, <2>2 DEF r, Jumping
<1>12. \A d \in Ctxs : ctx'[d].exceptions = ctx[d].exceptions
  BY <1>6, <1>9
<1> QED BY <1>1, <1>4, <1>10, <1>11, <1>12, EndsFlight

\* A try that is innermost, before and after it has changed to b
LEMMA TopChanges ==
  ASSUME TypeOK, Depth > 0, Top.kind = "try", jump = NoJump, jump' = NoJump,
         NEW b \in Block, Same(b, Top), blocks' = WithTop(b)
  PROVE  /\ Depth \in 0 .. Depth /\ CutTo(Depth) /\ blocks'[Depth] = b /\ Top' = b
         /\ Depth' = Depth /\ blocks' \in Seq(Block)
         /\ Open # << >> /\ Structured!Top = Shown(Top)
         /\ Open' = Structured!WithTop(Shown(b))
<1> DEFINE f == Front(blocks)
           u == Append(f, b)
           t == Tries(f)
<1>1. blocks \in Seq(Block) /\ Depth = Len(blocks) /\ blocks # << >> /\ Depth \in Nat /\ Top = Last(blocks)
  BY TopFacts, BlockFacts DEF Top
<1>2. /\ Depth \in 0 .. Depth /\ CutTo(Depth) /\ blocks'[Depth] = b /\ b.kind = "try"
  BY WithTopIsCut DEF Same
<1>3. /\ blocks' \in Seq(Block) /\ Len(blocks') = Depth
      /\ \A i \in 1 .. Depth - 1 : blocks'[i] = blocks[i]
  BY <1>2 DEF CutTo
<1>4. Depth' = Depth /\ Top' = b
  BY <1>2, <1>3 DEF Depth, Top, Last
<1>5. f \in Seq(Block) /\ Len(f) = Depth - 1 /\ \A i \in 1 .. Depth - 1 : f[i] = blocks[i]
  BY <1>1, FrontFacts
<1> HIDE DEF f
<1>6. u \in Seq(Block) /\ Len(u) = Depth /\ u[Depth] = b /\ \A i \in 1 .. Depth - 1 : u[i] = f[i]
  <2>1. (Depth - 1) + 1 = Depth
    BY <1>1
  <2>2. u \in Seq(Block) /\ Len(u) = Len(f) + 1 /\ u[Len(f) + 1] = b /\ \A i \in 1 .. Len(f) : u[i] = f[i]
    BY <1>5, AppendProperties
  <2> HIDE DEF u
  <2> QED BY <1>5, <2>1, <2>2
<1> HIDE DEF u
<1>7. \A i \in 1 .. Depth : i = Depth \/ i \in 1 .. Depth - 1
  BY <1>1
<1>8. \A i \in 1 .. Len(u) : blocks'[i] = u[i]
  BY <1>2, <1>3, <1>5, <1>6, <1>7, Zenon
<1>9. blocks' = u
  BY <1>3, <1>6, <1>8, SeqEqual
<1>10. Tries(blocks') = Append(t, b)
  BY <1>2, <1>5, <1>9, TriesAppend DEF u
<1>11. Tries(blocks) = Append(t, Top) /\ Top \in Block
  BY <1>1, TriesTop, TopFacts DEF f
<1>12. t \in Seq(Block)
  BY <1>5, TriesFacts
<1> HIDE DEF t
<1>13. Open = Append(AsOpen(t), Shown(Top)) /\ Open' = Append(AsOpen(t), Shown(b))
  <2>1. Open = AsOpen(Tries(blocks)) /\ Open' = AsOpen(Tries(blocks'))
    BY <1>3, ShowsOf
  <2>2. /\ AsOpen(Append(t, Top)) = Append(AsOpen(t), Shown(Top))
        /\ AsOpen(Append(t, b)) = Append(AsOpen(t), Shown(b))
    BY <1>11, <1>12, AsOpenAppend
  <2> QED BY <1>10, <1>11, <2>1, <2>2, Zenon
<1>14. Front(Open) = AsOpen(t) /\ Last(Open) = Shown(Top) /\ Open # << >>
  <2> DEFINE o == Append(AsOpen(t), Shown(Top))
  <2>1. AsOpen(t) \in Seq(Structured!Block) /\ Shown(Top) \in Structured!Block
    BY <1>11, <1>12, AsOpenFacts, ShownType
  <2>2. Front(o) = AsOpen(t) /\ Last(o) = Shown(Top) /\ o # << >>
    BY <2>1, AppendFrontLast
  <2> QED BY <1>13, <2>2, Zenon
<1>15. Structured!Top = Shown(Top)
  BY <1>14 DEF Structured!Top, Structured!Last, Last
<1>16. Structured!WithTop(Shown(b)) = Append(AsOpen(t), Shown(b))
  BY <1>14 DEF Structured!WithTop, Structured!Front, Front
<1> QED BY <1>2, <1>3, <1>4, <1>13, <1>14, <1>15, <1>16

LEMMA EndBodyFlight ==
  ASSUME IInv, Flight, EndBody
  PROVE  Flight' /\ Structured!LeaveBody
<1> TypeOK /\ Framed /\ Nested /\ Phases /\ Plain
  BY DEF IInv, Shape, Flight
<1> DEFINE b == [Top EXCEPT !.phase = "finally"]
<1>1. jump = NoJump /\ Depth > 0 /\ Top.kind = "try" /\ Top.phase = "body" /\ Clean
  BY RunningFacts DEF EndBody, In
<1>2. Top \in Block /\ ~Top.handled /\ Top = blocks[Depth] /\ Depth \in DOMAIN blocks
  BY <1>1, TopFacts, BodyBelow
<1>3. b \in Block /\ Same(b, Top) /\ b.phase = "finally" /\ b.handled = Top.handled /\ b.var = Top.var /\ b.ctx = Top.ctx
  BY <1>2 DEF Block, Same
<1>4. PICK c \in Ctxs : c = Top.ctx /\ ctx[c] \in Context /\ HasFrame(ctx[c]) /\ ctx \in [Ctxs -> Context]
  <2>1. FramedIn(ctx, Depth + 1) /\ ctx \in [Ctxs -> Context]
    BY <1>1 DEF Framed, TypeOK
  <2> QED BY <1>1, <2>1, TopFrame
<1> DEFINE d == StopTrying(ctx[c])
<1>5. blocks' = WithTop(b) /\ ctx' = [ctx EXCEPT ![c] = d] /\ scope' = scope /\ jump' = NoJump
  BY <1>1, <1>4 DEF EndBody
<1>6. d.exceptions = ctx[c].exceptions /\ CurrentFrame(d).reason = CurrentFrame(ctx[c]).reason
  BY <1>4, StopTryingFacts
<1>7. CurrentFrame(ctx[c]).reason = DONT
  BY <1>1, <1>4, CalmTop
<1> HIDE DEF b, d
<1>8. /\ Depth \in 0 .. Depth /\ CutTo(Depth) /\ blocks'[Depth] = b /\ Top' = b /\ Depth' = Depth
      /\ Open # << >> /\ Structured!Top = Shown(Top) /\ Open' = Structured!WithTop(Shown(b))
  BY <1>1, <1>3, <1>5, TopChanges
<1>9. \A e \in Ctxs : ctx'[e].exceptions = ctx[e].exceptions
  BY <1>4, <1>5, <1>6, SameExceptions
<1>10. Clean'
  BY <1>1, <1>9 DEF Clean, HasExceptions
<1>11. Quiet
  BY <1>5 DEF Quiet
<1>12. Begun' /\ RelaysOut' /\ Plain'
  BY <1>2, <1>3, <1>5, <1>8, <1>10, <1>11, CutFlight
<1>13. Calm'
  <2>1. ctx'[Top'.ctx] = d
    BY <1>3, <1>4, <1>5, <1>8
  <2> QED BY <1>5, <1>6, <1>7, <1>10, <2>1 DEF Calm
<1>14. InFlight' = InFlight
  BY <1>9, InFlightIs, SameFlight
<1>15. Shown(b) = [Shown(Top) EXCEPT !.phase = "finally"] /\ Shown(Top).phase = "body"
  BY <1>1, <1>3 DEF Shown
<1>16. Structured!LeaveBody
  BY <1>8, <1>14, <1>15 DEF Structured!LeaveBody, Structured!In
<1> QED BY <1>12, <1>13, <1>16 DEF Flight

LEMMA CatchDoneFlight ==
  ASSUME IInv, Flight, CatchDone
  PROVE  Flight' /\ Structured!EndHandler
<1> TypeOK /\ Plain
  BY DEF IInv, Flight
<1> DEFINE b == [Top EXCEPT !.phase = "finally", !.var = NoExc]
<1>1. jump = NoJump /\ Depth > 0 /\ Top.kind = "try" /\ Top.phase = "catch"
  BY RunningFacts DEF CatchDone, In
<1>2. Top \in Block /\ Top = blocks[Depth] /\ Depth \in DOMAIN blocks /\ Top.ctx \in Ctxs
  BY <1>1, TopFacts, FieldFacts
<1>3. Top.handled /\ Clean
  BY <1>1, <1>2 DEF Plain
<1>4. b \in Block /\ Same(b, Top) /\ b.phase = "finally" /\ b.handled = Top.handled /\ b.var = NoExc /\ b.ctx = Top.ctx
  BY <1>2, Zenon DEF Block, Same
<1>5. blocks' = WithTop(b) /\ ctx' = ctx /\ scope' = scope /\ jump' = NoJump
  BY <1>1 DEF CatchDone
<1>6. CurrentFrame(ctx[Top.ctx]).reason = DONT
  BY <1>1, CalmTop
<1> HIDE DEF b
<1>7. /\ Depth \in 0 .. Depth /\ CutTo(Depth) /\ blocks'[Depth] = b /\ Top' = b /\ Depth' = Depth
      /\ Open # << >> /\ Structured!Top = Shown(Top) /\ Open' = Structured!WithTop(Shown(b))
  BY <1>1, <1>4, <1>5, TopChanges
<1>8. Clean'
  BY <1>3, <1>5 DEF Clean
<1>9. Quiet
  BY <1>5 DEF Quiet
<1>10. Begun' /\ RelaysOut' /\ Plain'
  BY <1>4, <1>5, <1>7, <1>8, <1>9, CutFlight
<1>11. Calm'
  BY <1>4, <1>5, <1>6, <1>7, <1>8 DEF Calm
<1>12. InFlight' = InFlight
  BY <1>5, InFlightIs
<1>13. Shown(b) = [Shown(Top) EXCEPT !.phase = "finally", !.var = NoExc] /\ Shown(Top).phase = "catch"
  <2> DEFINE x == [Shown(Top) EXCEPT !.phase = "finally", !.var = NoExc]
  <2>1. x \in [phase : {"finally"}, var : {NoExc}, handled : {Top.handled}]
    BY Zenon DEF Shown
  <2> HIDE DEF x
  <2>2. x = [phase |-> "finally", var |-> NoExc, handled |-> Top.handled]
    BY <2>1
  <2> QED BY <1>1, <1>4, <2>2 DEF x, Shown
<1>14. Structured!EndHandler
  BY <1>7, <1>12, <1>13 DEF Structured!EndHandler, Structured!In
<1> QED BY <1>10, <1>11, <1>14 DEF Flight

\* Taking the only exception off a list leaves it empty.
LEMMA OnlyOne ==
  ASSUME NEW e \in Exc, NEW k \in 1 .. Len(<<e>>)
  PROVE  <<e>>[k] = e /\ RemoveAt(<<e>>, k) = << >>
<1> DEFINE s == <<e>>
<1>1. s \in Seq(Exc) /\ Len(s) = 1 /\ s[1] = e
  OBVIOUS
<1>2. k = 1
  BY <1>1
<1> HIDE DEF s
<1>3. Len(RemoveAt(s, 1)) = 0 /\ RemoveAt(s, 1) \in Seq(Exc)
  BY <1>1 DEF RemoveAt
<1>4. RemoveAt(s, 1) = << >>
  BY <1>3, EmptySeq
<1> QED BY <1>1, <1>2, <1>4 DEF s

LEMMA CatchHitFlight ==
  ASSUME IInv, Flight, NEW type, CatchHit(type)
  PROVE  Flight' /\ Structured!Handle
<1> TypeOK /\ Framed /\ Nested /\ Plain
  BY DEF IInv, Shape, Flight
<1>1. jump = NoJump /\ Depth > 0 /\ Top.kind = "try" /\ Top.phase = "finally"
  BY RunningFacts DEF CatchHit, In
<1>2. PICK c \in Ctxs : c = Top.ctx /\ ctx[c] \in Context /\ HasFrame(ctx[c]) /\ ctx \in [Ctxs -> Context]
  <2>1. FramedIn(ctx, Depth + 1) /\ ctx \in [Ctxs -> Context]
    BY <1>1 DEF Framed, TypeOK
  <2> QED BY <1>1, <2>1, TopFrame
<1>3. Top \in Block /\ Depth \in DOMAIN blocks /\ Top = blocks[Depth]
  BY <1>1, TopFacts
<1> DEFINE r == Catch(ctx[c], type)
           b == [Top EXCEPT !.phase = "catch", !.var = r.caught, !.handled = TRUE]
<1>4. /\ r.caught # NoExc /\ ctx' = [ctx EXCEPT ![c] = r.ctx] /\ blocks' = WithTop(b)
      /\ scope' = scope /\ jump' = NoJump
  BY <1>1, <1>2 DEF CatchHit
<1>5. /\ r.ctx \in Context /\ r.caught \in Exc
      /\ \E k \in 1 .. Len(ctx[c].exceptions) :
           r.caught = ctx[c].exceptions[k] /\ r.ctx.exceptions = RemoveAt(ctx[c].exceptions, k)
  BY <1>2, <1>4, CatchFacts
<1> HIDE DEF r
<1>6. PICK k \in 1 .. Len(ctx[c].exceptions) :
        r.caught = ctx[c].exceptions[k] /\ r.ctx.exceptions = RemoveAt(ctx[c].exceptions, k)
  BY <1>5
<1>7. ~Clean
  <2> SUFFICES ASSUME Clean PROVE FALSE
    OBVIOUS
  <2>1. ctx[c].exceptions = << >>
    BY <1>2 DEF Clean, HasExceptions
  <2>2. Len(ctx[c].exceptions) = 0
    BY <2>1
  <2> QED BY <2>2
<1>8. PICK e \in Exc : Carries(ctx, c, e)
  <2>1. PICK d \in Ctxs, e \in Exc : Flying(d, e)
    BY <1>7 DEF Flight, Calm
  <2>2. d = c
    BY <1>1, <1>2, <1>3, <2>1 DEF Flying
  <2> QED BY <2>1, <2>2 DEF Flying
<1>9. r.caught = e /\ r.ctx.exceptions = << >>
  <2>1. ctx[c].exceptions = <<e>>
    BY <1>8 DEF Carries
  <2>2. k \in 1 .. Len(<<e>>)
    BY <2>1
  <2>3. <<e>>[k] = e /\ RemoveAt(<<e>>, k) = << >>
    BY <2>2, OnlyOne
  <2> QED BY <1>6, <2>1, <2>3
<1>10. ~Top.handled
  BY <1>3, <1>7 DEF Plain
<1>11. /\ b \in Block /\ Same(b, Top) /\ b.phase = "catch" /\ b.var = e /\ b.handled = TRUE /\ b.kind = "try"
  BY <1>1, <1>3, <1>9, Zenon DEF Block, Same
<1> HIDE DEF b
<1>12. /\ Depth \in 0 .. Depth /\ CutTo(Depth) /\ blocks'[Depth] = b /\ Top' = b /\ Depth' = Depth
       /\ Open # << >> /\ Structured!Top = Shown(Top) /\ Open' = Structured!WithTop(Shown(b))
  BY <1>1, <1>4, <1>11, TopChanges
<1>13. \A d \in Ctxs : ctx'[d].exceptions = << >>
  BY <1>2, <1>4, <1>8, <1>9 DEF Carries
<1>14. Clean'
  BY <1>13 DEF Clean, HasExceptions
<1>15. Quiet
  BY <1>4 DEF Quiet
<1>16. Begun' /\ RelaysOut' /\ Plain'
  BY <1>4, <1>11, <1>12, <1>14, <1>15, CutFlight
<1>17. Calm'
  BY <1>4, <1>11, <1>12, <1>14 DEF Calm, InFinally
<1>18. InFlight = e /\ InFlight' = NoExc
  BY <1>8, <1>13, InFlightIs, FlightOfFacts
<1>19. Shown(b) = [phase |-> "catch", var |-> InFlight, handled |-> TRUE]
  BY <1>11, <1>18, Zenon DEF Shown
<1>20. Shown(Top).phase = "finally" /\ ~Shown(Top).handled
  BY <1>1, <1>10 DEF Shown
<1>21. InFlight # NoExc
  BY <1>18, ContextAssumption
<1>22. Structured!Handle
  BY <1>12, <1>18, <1>19, <1>20, <1>21 DEF Structured!Handle, Structured!In
<1> QED BY <1>16, <1>17, <1>22 DEF Flight

\* The end of a finally that unwinds is a jump from the context without its frame.
LEMMA FinallyGoesOn ==
  ASSUME NEW d \in Context, HasFrame(d), CurrentFrame(d).reason # DONT
  PROVE  /\ PopFrame(d) \in Context /\ GoesOn(PopFrame(d), FinallyDone(d))
         /\ Len(PopFrame(d).frames) = Len(d.frames) - 1
         /\ SameJmps(PopFrame(d).frames, d.frames, Len(d.frames) - 1)
         /\ FinallyDone(d).ctx.exceptions = d.exceptions
<1> DEFINE p == PopFrame(d)
           reason == IF HasFrame(p) THEN CurrentFrame(p).reason ELSE DONT
<1>1. /\ p \in Context /\ p.exceptions = d.exceptions /\ Len(p.frames) = Len(d.frames) - 1
      /\ SameJmps(p.frames, d.frames, Len(d.frames) - 1)
      /\ HasFrame(p) => CurrentFrame(p).reason = CurrentFrame(d).reason
  BY PopFrameFacts
<1>2. FinallyDone(d) = JumpBecause(p, reason)
  BY DEF FinallyDone, Jump
<1>3. reason \in JumpReason /\ (HasFrame(p) => reason # DONT)
  <2>1. CurrentFrame(d) \in Frame /\ DONT \in JumpReason
    BY CurrentFrameFacts DEF JumpReason
  <2> HIDE DEF p
  <2> QED BY <1>1, <2>1 DEF Frame
<1> HIDE DEF p, reason
<1>4. CASE HasFrame(p)
  BY <1>1, <1>2, <1>3, <1>4, JumpBecauseGoesOn DEF p
<1>5. CASE ~HasFrame(p)
  BY <1>1, <1>2, <1>3, <1>5, JumpBecauseFacts DEF p, GoesOn
<1> QED BY <1>4, <1>5

LEMMA EndFinallyFlight ==
  ASSUME IInv, Flight, EndFinally
  PROVE  Flight' /\ Structured!Finish
<1> TypeOK /\ Framed /\ Nested /\ Plain /\ Begun
  BY DEF IInv, Shape, Flight
<1>1. jump = NoJump /\ Depth > 0 /\ Top.kind = "try" /\ Top.phase = "finally"
  BY RunningFacts DEF EndFinally, In
<1>2. FramedIn(ctx, Depth + 1)
  BY <1>1 DEF Framed
<1>3. PICK c \in Ctxs : /\ c = Top.ctx /\ ctx[c] \in Context /\ HasFrame(ctx[c]) /\ ctx \in [Ctxs -> Context]
                        /\ blocks' = Front(blocks) /\ scope' = scope
                        /\ ctx' = [ctx EXCEPT ![c] = FinallyDone(ctx[c]).ctx]
                        /\ jump' = Jumping(FinallyDone(ctx[c]))
  <2>1. ctx \in [Ctxs -> Context]
    BY DEF TypeOK
  <2> QED BY <1>1, <1>2, <2>1, TopFrame, Zenon DEF EndFinally
<1>4. Top \in Block /\ Depth \in DOMAIN blocks /\ Top = blocks[Depth] /\ blocks # << >> /\ Depth \in Nat
  BY <1>1, TopFacts, BlockFacts
<1>5. Quiet
  BY <1>3 DEF Quiet
<1> DEFINE n == Depth - 1
           t == Tries(Front(blocks))
<1>6. /\ Begun' /\ RelaysOut' /\ Plain' /\ ~InFinally'
      /\ Depth' = n /\ DOMAIN blocks' = 1 .. n /\ DOMAIN blocks' \subseteq DOMAIN blocks
      /\ \A i \in DOMAIN blocks' : blocks'[i] = blocks[i]
      /\ n \in 0 .. Depth /\ CutTo(n) /\ blocks' \in Seq(Block)
  BY <1>1, <1>3, <1>5, FrontFlight
<1>7. blocks \in Seq(Block) /\ Front(blocks) \in Seq(Block) /\ t \in Seq(Block) /\ Tries(blocks) = Append(t, Top)
  <2>1. blocks \in Seq(Block) /\ Top = Last(blocks)
    BY DEF TypeOK, Top
  <2>2. Front(blocks) \in Seq(Block)
    BY <1>4, <2>1, FrontFacts
  <2> QED BY <1>1, <1>4, <2>1, <2>2, TriesTop, TriesFacts
<1>8. Tries(blocks') = t
  BY <1>3
<1> HIDE DEF t
<1>9. Open = AsOpen(Append(t, Top)) /\ Structured!In("finally") /\ Structured!Front(Open) = AsOpen(t)
  <2> DEFINE u == Append(t, Top)
  <2>1. u \in Seq(Block) /\ u # << >> /\ Front(u) = t /\ Last(u) = Top
    BY <1>4, <1>7, AppendFrontLast
  <2>2. Open = AsOpen(u)
    BY <1>1, <1>7, ShowsOf
  <2> HIDE DEF u
  <2>3. AsOpen(u) # << >> /\ Structured!Last(AsOpen(u)) = Shown(Last(u)) /\ Structured!Front(AsOpen(u)) = AsOpen(Front(u))
    BY <2>1, AsOpenTop
  <2>4. Shown(Top).phase = "finally"
    BY <1>1 DEF Shown
  <2> QED BY <2>1, <2>2, <2>3, <2>4 DEF Structured!In, Structured!Top, u
<1>10. /\ jump' = NoJump => Open' = AsOpen(t)
       /\ jump' # NoJump => Open' = Structured!Unwound(AsOpen(t))
  BY <1>6, <1>8, ShowsOf
<1>11. FinallyDone(ctx[c]).ctx.exceptions = ctx[c].exceptions
  BY <1>3, FinallyDoneFacts
<1>12. \A d \in Ctxs : ctx'[d].exceptions = ctx[d].exceptions
  <2> DEFINE f == FinallyDone(ctx[c]).ctx
  <2>1. f.exceptions = ctx[c].exceptions /\ ctx' = [ctx EXCEPT ![c] = f]
    BY <1>3, <1>11
  <2> HIDE DEF f
  <2> QED BY <1>3, <2>1, SameExceptions
<1>13. InFlight' = InFlight
  BY <1>12, InFlightIs, SameFlight
<1>14. ASSUME Calm PROVE Flight' /\ Structured!Finish
  <2>1. CurrentFrame(ctx[c]).reason = DONT
    BY <1>1, <1>3, <1>14 DEF Calm, InFinally
  <2>2. FinallyDone(ctx[c]).to = NoJmp
    BY <1>3, <2>1, FinallyDoneFacts
  <2>3. jump' = NoJump
    BY <1>3, <2>2 DEF Jumping
  <2>4. Calm'
    BY <1>6, <1>12, <1>14, <2>3 DEF Calm, Clean, HasExceptions
  <2>5. InFlight = NoExc
    <3>1. \A d \in Ctxs : ctx[d].exceptions = << >>
      BY <1>14 DEF Calm, Clean, HasExceptions
    <3> QED BY <3>1, InFlightIs, FlightOfFacts
  <2>6. Structured!Finish
    BY <1>9, <1>10, <1>13, <2>3, <2>5 DEF Structured!Finish
  <2> QED BY <1>6, <2>4, <2>6 DEF Flight
<1>15. ASSUME NEW d \in Ctxs, NEW e \in Exc, Flying(d, e) PROVE Flight' /\ Structured!Finish
  <2>1. d = c /\ CurrentFrame(ctx[c]).reason # DONT /\ Carries(ctx, c, e)
    BY <1>1, <1>3, <1>4, <1>15 DEF Flying
  <2>2. PICK r : r = FinallyDone(ctx[c])
    OBVIOUS
  <2>3. PICK p \in Context : /\ p = PopFrame(ctx[c]) /\ GoesOn(p, r)
                             /\ Len(p.frames) = Len(ctx[c].frames) - 1
                             /\ SameJmps(p.frames, ctx[c].frames, Len(ctx[c].frames) - 1)
    BY <1>3, <2>1, <2>2, FinallyGoesOn
  <2>4. PICK x \in [Ctxs -> Context] : x[c] = p /\ \A f \in Ctxs : f # c => x[f] = ctx[f]
    <3> DEFINE y == [ctx EXCEPT ![c] = p]
    <3>1. y \in [Ctxs -> Context] /\ y[c] = p /\ \A f \in Ctxs : f # c => y[f] = ctx[f]
      BY <1>3, <2>3, OneContext
    <3> HIDE DEF y
    <3> QED BY <3>1
  <2>5. FramedIn(x, Depth)
    BY <1>1, <1>2, <1>3, <2>3, <2>4, FramedPop
  <2>6. FramedIn(x, n + 1) /\ n + 1 = Depth
    <3>1. n + 1 = Depth
      BY <1>4
    <3> HIDE DEF n
    <3> QED BY <2>5, <3>1
  <2>7. n > 0 => c = blocks[n].ctx
    <3> SUFFICES ASSUME n > 0, c # blocks[n].ctx PROVE FALSE
      OBVIOUS
    <3>1. n \in DOMAIN blocks /\ n < Depth
      BY <1>4, <1>6
    <3> HIDE DEF n
    <3>2. PICK j \in DOMAIN blocks : n < j /\ j <= Depth /\ blocks[j].kind = "relay"
      BY <1>3, <1>4, <3>1 DEF Begun
    <3>3. j = Depth
      BY <1>4, <2>6, <3>1, <3>2, BlockFacts
    <3> QED BY <1>1, <1>4, <3>2, <3>3
  <2>8. Carries(ctx', c, e)
    BY <1>12, <2>1 DEF Carries
  <2>9. GoesOn(x[c], r) /\ jump' = Jumping(r)
    BY <1>3, <2>2, <2>3, <2>4
  <2> HIDE DEF n
  <2>10. Flying(c, e)' /\ (jump' = NoJump => \A i \in DOMAIN blocks' : blocks'[i].kind = "with")
    BY <1>6, <2>6, <2>7, <2>8, <2>9, GoesOnFlying
  <2>11. Flight'
    BY <1>6, <2>10 DEF Flight
  <2>12. InFlight # NoExc
    BY <2>1, InFlightIs, FlightOfFacts, ContextAssumption
  <2>13. Open' = Structured!Unwound(AsOpen(t))
    <3>1. ASSUME jump' = NoJump PROVE Open' = Structured!Unwound(AsOpen(t))
      <4>1. t = << >>
        <5>1. \A i \in DOMAIN blocks' : blocks'[i].kind # "try"
          BY <2>10, <3>1
        <5>2. PICK s \in Seq(Block) : s = blocks'
          BY <1>6
        <5>3. Tries(s) = << >>
          BY <5>1, <5>2, TriesFacts
        <5> QED BY <1>8, <5>2, <5>3
      <4>2. AsOpen(t) = << >>
        <5>1. AsOpen(<< >>) = << >>
          BY DEF AsOpen
        <5> QED BY <4>1, <5>1
      <4> QED BY <1>10, <3>1, <4>2 DEF Structured!Unwound
    <3> QED BY <1>10, <3>1
  <2>14. Structured!Finish
    BY <1>9, <1>13, <2>12, <2>13 DEF Structured!Finish
  <2> QED BY <2>11, <2>14
<1> QED BY <1>14, <1>15 DEF Flight

\* The last block that may be a try is the innermost of the try blocks, if it is one.
LEMMA TriesUpTo ==
  ASSUME NEW s \in Seq(Block), NEW i \in DOMAIN s, \A k \in DOMAIN s : i < k => s[k].kind # "try"
  PROVE  Tries(s) = IF s[i].kind = "try" THEN Append(Tries(SubSeq(s, 1, i - 1)), s[i])
                    ELSE Tries(SubSeq(s, 1, i - 1))
<1> DEFINE r == SubSeq(s, 1, i)
           q == SubSeq(s, 1, i - 1)
<1>1. i \in Nat /\ 1 <= i /\ i <= Len(s) /\ i \in 0 .. Len(s) /\ i - 1 \in Nat /\ i - 1 <= Len(s)
      /\ i \in 1 .. i
  OBVIOUS
<1>2. r \in Seq(Block) /\ Len(r) = i /\ \A k \in 1 .. i : r[k] = s[k]
  BY <1>1, PrefixFacts
<1>3. q \in Seq(Block) /\ Len(q) = i - 1 /\ \A k \in 1 .. i - 1 : q[k] = s[k]
  BY <1>1, PrefixFacts
<1>4. Tries(r) = Tries(s)
  BY <1>1, TriesBelow
<1> HIDE DEF r, q
<1>5. r # << >> /\ Last(r) = s[i]
  BY <1>1, <1>2, EmptySeq DEF Last
<1>6. Front(r) \in Seq(Block) /\ Len(Front(r)) = i - 1 /\ \A k \in 1 .. i - 1 : Front(r)[k] = r[k]
  BY <1>2, <1>5, FrontFacts, Zenon
<1>7. \A k \in 1 .. i - 1 : k \in 1 .. i
  BY <1>1
<1>8. Front(r) = q
  <2>1. \A k \in 1 .. Len(q) : Front(r)[k] = q[k]
    BY <1>2, <1>3, <1>6, <1>7, Zenon
  <2> QED BY <1>3, <1>6, <2>1, SeqEqual
<1> QED BY <1>2, <1>4, <1>5, <1>8, TriesTop, Zenon DEF q

LEMMA LandInTryFlight ==
  ASSUME IInv, Flight, NEW i \in DOMAIN blocks, LandInTry(i)
  PROVE  Flight' /\ Unseen
<1> TypeOK /\ Distinct /\ Plain
  BY DEF IInv, Shape, Flight
<1> DEFINE b == blocks[i]
           f == [b EXCEPT !.phase = "finally", !.var = NoExc]
           q == SubSeq(blocks, 1, i - 1)
<1>1. /\ jump # NoJump /\ jump.why # DONT /\ jump.why \in JumpReason /\ jump.to = b.id
      /\ b \in Block /\ b.kind = "try" /\ b.id \in JmpBufs /\ i \in Nat /\ 1 <= i /\ i <= Depth /\ Depth \in Nat
      /\ ctx \in [Ctxs -> Context]
      /\ \A k \in DOMAIN blocks : i < k => blocks[k].kind # "try"
  <2>1. Lands("try", i)
    BY DEF LandInTry
  <2>2. /\ jump # NoJump /\ Flies(i) /\ jump.why \in JumpReason /\ b.kind = "try" /\ b \in Block
        /\ i \in Nat /\ 1 <= i /\ i <= Depth /\ Depth \in Nat /\ ctx \in [Ctxs -> Context]
        /\ \A k \in DOMAIN blocks : i < k => blocks[k].kind = "with"
    BY <2>1, LandsFacts
  <2>3. \A k \in DOMAIN blocks : i < k => blocks[k].kind # "try"
    BY <2>2
  <2> QED BY <2>2, <2>3, FieldFacts DEF Flies
<1>2. PICK c \in Ctxs, e \in Exc : Flying(c, e)
  BY <1>1 DEF Flight, Calm
<1>3. Carries(ctx, c, e) /\ b.ctx = c
  BY <1>1, <1>2 DEF Flying, Distinct
<1> DEFINE d == Try(ctx[c], b.id, jump.why)
<1>4. /\ ctx' = [ctx EXCEPT ![c] = d] /\ blocks' = Append(q, f)
      /\ scope' = scope /\ jump' = NoJump
  BY <1>3 DEF LandInTry
<1>5. ~b.handled
  BY <1>1 DEF Plain
<1>6. /\ f \in Block /\ Same(f, b) /\ f.phase = "finally" /\ f.handled = b.handled /\ f.kind = "try"
      /\ f.ctx = c /\ f.var = NoExc
  BY <1>1, <1>3, Zenon DEF Block, Same
<1>7. d.exceptions = <<e>> /\ CurrentFrame(d).reason # DONT
  <2>1. ctx[c] \in Context
    BY <1>1
  <2>2. ctx[c].exceptions = <<e>>
    BY <1>3 DEF Carries
  <2>3. HasExceptions(ctx[c]) /\ ctx[c].exceptions[1] = e
    <3>1. <<e>> # << >> /\ <<e>>[1] = e
      <4>1. Len(<<e>>) = 1 /\ Len(<< >>) = 0
        OBVIOUS
      <4> QED BY <4>1
    <3> QED BY <2>2, <3>1 DEF HasExceptions
  <2>4. CurrentFrame(d).reason = THROW /\ THROW # DONT
    BY <1>1, <2>1, TryEnters DEF THROW, DONT
  <2>5. d.exceptions = <<ctx[c].exceptions[1]>>
    BY <1>1, <2>1, <2>3, TryFacts
  <2> QED BY <2>3, <2>4, <2>5
<1> HIDE DEF d, f
<1>8. i \in 0 .. Depth /\ CutTo(i) /\ blocks'[i] = f
  BY <1>4, <1>6, ReenterIsCut, Zenon
<1>9. Carries(ctx', c, e)
  BY <1>1, <1>2, <1>3, <1>4, <1>7 DEF Carries
<1>10. Quiet
  BY <1>4 DEF Quiet
<1>11. Begun' /\ RelaysOut' /\ Plain'
  BY <1>4, <1>5, <1>6, <1>8, <1>10, CutFlight
<1>12. Flying(c, e)'
  <2>1. Depth' = i /\ Top' = f
    <3>1. Depth' = i
      BY <1>8, CutFacts
    <3> QED BY <1>8, <3>1 DEF CutTo, Top, Last
  <2>2. InFinally' /\ Top'.ctx = c
    BY <1>1, <1>6, <2>1 DEF InFinally
  <2>3. ctx'[c] = d
    BY <1>1, <1>4
  <2> QED BY <1>4, <1>7, <1>9, <2>2, <2>3 DEF Flying
<1>13. Flight'
  BY <1>11, <1>12 DEF Flight
<1>14. InFlight' = InFlight
  BY <1>3, <1>9, InFlightIs, FlightOfFacts
<1>15. blocks \in Seq(Block) /\ q \in Seq(Block)
  <2>1. blocks \in Seq(Block) /\ i - 1 \in Nat /\ i - 1 <= Len(blocks)
    BY <1>1, BlockFacts
  <2> QED BY <2>1, PrefixFacts
<1> HIDE DEF q
<1> DEFINE u == Tries(q)
<1>16. Tries(blocks) = Append(u, b)
  BY <1>1, <1>15, TriesUpTo DEF q
<1>17. Append(q, f) \in Seq(Block) /\ Tries(Append(q, f)) = Append(u, f) /\ u \in Seq(Block)
  BY <1>6, <1>15, TriesAppend, AppendFrontLast, TriesFacts
<1> HIDE DEF u
<1>18. Open = Append(AsOpen(u), Stopped(b))
  <2>1. OpenOf(blocks, TRUE) = Append(AsOpen(u), Stopped(b))
    BY <1>1, <1>15, <1>16, <1>17, OpenOfFacts, Zenon
  <2>2. (jump # NoJump) = TRUE
    BY <1>1
  <2> QED BY <2>1, <2>2, OpenIs, Zenon
<1>19. Open' = Append(AsOpen(u), Shown(f))
  <2>1. OpenOf(blocks', FALSE) = Append(AsOpen(u), Shown(f))
    <3>1. OpenOf(Append(q, f), FALSE) = Append(AsOpen(u), Shown(f))
      BY <1>6, <1>17, OpenOfFacts, Zenon
    <3> QED BY <1>4, <3>1, Zenon
  <2>2. (jump' # NoJump) = FALSE
    BY <1>4
  <2> QED BY <2>1, <2>2, OpenIs, Zenon
<1>20. Shown(f) = Stopped(b)
  BY <1>6 DEF Shown, Stopped
<1> QED BY <1>13, <1>14, <1>18, <1>19, <1>20 DEF Unseen

LEMMA LandInRelayFlight ==
  ASSUME IInv, Flight, NEW i \in DOMAIN blocks, LandInRelay(i)
  PROVE  Flight' /\ Unseen
<1> TypeOK /\ Distinct /\ Plain /\ Begun /\ RelaysOut /\ Nested
  BY DEF IInv, Shape, Flight
<1> DEFINE n == i - 1
           b == blocks[i]
<1>1. /\ jump # NoJump /\ Flies(i) /\ jump.why \in JumpReason /\ jump.to = b.id
      /\ b.kind = "relay" /\ i \in Nat /\ 1 <= i /\ i <= Depth /\ Depth \in Nat /\ n \in 0 .. Depth
      /\ ctx \in [Ctxs -> Context] /\ scope \in [JmpBufs -> Scope]
      /\ \A k \in DOMAIN blocks : i < k => blocks[k].kind # "try"
  <2>1. Lands("relay", i)
    BY DEF LandInRelay
  <2>2. /\ jump # NoJump /\ Flies(i) /\ jump.why \in JumpReason /\ b.kind = "relay"
        /\ i \in Nat /\ 1 <= i /\ i <= Depth /\ Depth \in Nat /\ n \in 0 .. Depth
        /\ ctx \in [Ctxs -> Context] /\ scope \in [JmpBufs -> Scope]
        /\ \A k \in DOMAIN blocks : i < k => blocks[k].kind = "with"
    BY <2>1, LandsFacts
  <2>3. \A k \in DOMAIN blocks : i < k => blocks[k].kind # "try"
    BY <2>2
  <2> QED BY <2>2, <2>3 DEF Flies
<1>2. PICK c \in Ctxs, e \in Exc : Flying(c, e)
  BY <1>1 DEF Flight, Calm
<1>3. Carries(ctx, c, e) /\ b.ctx = c
  BY <1>1, <1>2 DEF Flying, Distinct
<1>4. PICK to \in Ctxs : to = b.to /\ to # c
  BY <1>1, <1>3, RelayTo
<1>5. PICK moved \in [Ctxs -> Context] : /\ moved = Moved(ctx, c, to)
                                         /\ \A d \in Ctxs : moved[d].frames = ctx[d].frames
  <2> DEFINE m == Moved(ctx, c, to)
  <2>1. m \in [Ctxs -> Context] /\ \A d \in Ctxs : m[d].frames = ctx[d].frames
    BY <1>1, <1>4, MovedFacts, Zenon
  <2> HIDE DEF m
  <2> QED BY <2>1 DEF m
<1>6. PICK r : r = JumpBecause(moved[to], jump.why)
  OBVIOUS
<1>7. /\ ctx' = [moved EXCEPT ![to] = r.ctx] /\ scope' = Destroyed(scope, {b.scope, b.toScope} \ {NoScope})
      /\ jump' = Jumping(r) /\ blocks' = SubSeq(blocks, 1, n)
  BY <1>3, <1>4, <1>5, <1>6 DEF LandInRelay, DestroyScopes
<1>8. GoesOn(moved[to], r)
  <2>1. jump.why # DONT /\ moved[to] \in Context
    BY <1>1 DEF Flies
  <2> QED BY <1>1, <1>6, <2>1, JumpBecauseGoesOn
<1>9. Quiet
  BY <1>1, <1>7, DestroyedFacts, Zenon DEF Quiet
<1>10. CutTo(n) /\ (n > 0 => blocks'[n] = blocks[n]) /\ n < Depth /\ n + 1 = i /\ blocks' \in Seq(Block)
  <2>1. CutTo(n) /\ (n > 0 => blocks'[n] = blocks[n]) /\ n < Depth /\ n + 1 = i
    BY <1>1, <1>7, PrefixIsCut
  <2> QED BY <2>1 DEF CutTo
<1>11. FramedIn(moved, n + 1)
  <2>1. FramedIn(ctx, i)
    BY <1>1 DEF Flies
  <2> QED BY <1>5, <1>10, <2>1 DEF FramedIn, Jmps
<1>12. Carries(ctx', to, e)
  <2>1. Transfers(ctx, ctx', c, to)
    BY <1>3, <1>4, LandInRelayMoves DEF Relays
  <2>2. ctx[c].exceptions = <<e>> /\ \A d \in Ctxs : d # c => ctx[d].exceptions = << >>
    BY <1>3 DEF Carries
  <2>3. << >> \o <<e>> = <<e>>
    OBVIOUS
  <2>4. ctx'[to].exceptions = <<e>>
    BY <1>4, <2>1, <2>2, <2>3, Zenon DEF Transfers
  <2>5. ASSUME NEW d \in Ctxs, d # to PROVE ctx'[d].exceptions = << >>
    BY <2>1, <2>2, <2>5 DEF Transfers
  <2> QED BY <2>4, <2>5 DEF Carries
<1>13. n > 0 => to = blocks[n].ctx
  BY <1>1, <1>4 DEF RelaysOut
<1>14. n > 0 => blocks'[n].phase = "body" /\ ~blocks'[n].handled
  <2> SUFFICES ASSUME n > 0 PROVE blocks'[n].phase = "body" /\ ~blocks'[n].handled
    OBVIOUS
  <2>1. n \in DOMAIN blocks
    BY <1>1, BlockFacts
  <2> HIDE DEF n
  <2> QED BY <1>10, <2>1, BodyBelow
<1>15. blocks \in Seq(Block) /\ n \in 0 .. Len(blocks)
  BY <1>1, BlockFacts
<1>16. Tries(blocks') = Tries(blocks)
  BY <1>1, <1>7, <1>15, TriesUpTo
<1> HIDE DEF n
<1>17. Begun' /\ RelaysOut' /\ Plain'
  BY <1>1, <1>9, <1>10, <1>14, CutFlight
<1>18. Flying(to, e)' /\ (jump' = NoJump => \A k \in DOMAIN blocks' : blocks'[k].kind = "with")
  BY <1>1, <1>7, <1>8, <1>10, <1>11, <1>12, <1>13, GoesOnFlying, Zenon
<1>19. Flight'
  BY <1>17, <1>18 DEF Flight
<1>20. InFlight' = InFlight
  BY <1>3, <1>12, InFlightIs, FlightOfFacts
<1>21. Open' = Open
  <2>1. Open = Structured!Unwound(AsOpen(Tries(blocks)))
    BY <1>1, ShowsOf
  <2>2. CASE jump' # NoJump
    BY <1>10, <1>16, <2>1, <2>2, ShowsOf
  <2>3. CASE jump' = NoJump
    <3>1. Open' = AsOpen(Tries(blocks'))
      BY <1>10, <2>3, ShowsOf
    <3>2. PICK s \in Seq(Block) : s = blocks'
      BY <1>10
    <3>3. Tries(s) = << >>
      <4>1. \A k \in DOMAIN s : s[k].kind # "try"
        BY <1>18, <2>3, <3>2
      <4> QED BY <3>2, <4>1, TriesFacts
    <3>4. AsOpen(<< >>) = << >>
      BY DEF AsOpen
    <3> QED BY <1>16, <2>1, <3>1, <3>2, <3>3, <3>4 DEF Structured!Unwound
  <2> QED BY <2>2, <2>3
<1> QED BY <1>19, <1>20, <1>21 DEF Unseen

LEMMA StutterFlight ==
  ASSUME Flight, UNCHANGED vars
  PROVE  Flight' /\ Unseen
<1>1. blocks' = blocks /\ ctx' = ctx /\ scope' = scope /\ jump' = jump
  BY DEF vars
<1>2. Depth' = Depth /\ Top' = Top /\ Clean' = Clean
  BY <1>1 DEF Depth, Top, Clean
<1>3. Begun' /\ RelaysOut' /\ Plain'
  BY <1>1, <1>2 DEF Flight, Begun, RelaysOut, Plain
<1>4. InFinally' = InFinally
  BY <1>2 DEF InFinally
<1>5. Calm => Calm'
  BY <1>1, <1>2, <1>4 DEF Calm
<1>6. \A c \in Ctxs, e \in Exc : Flying(c, e) => Flying(c, e)'
  BY <1>1, <1>2, <1>4 DEF Flying
<1>7. Open' = Open /\ InFlight' = InFlight
  <2>1. Open = OpenOf(blocks, jump # NoJump) /\ Open' = OpenOf(blocks', jump' # NoJump)
    BY OpenIs
  <2>2. InFlight = FlightOf(ctx) /\ InFlight' = FlightOf(ctx')
    BY InFlightIs
  <2> QED BY <1>1, <2>1, <2>2
<1> QED BY <1>3, <1>5, <1>6, <1>7 DEF Flight, Unseen

LEMMA LandFlight ==
  ASSUME IInv, Flight, Land
  PROVE  Flight' /\ Unseen
<1>1. PICK i \in DOMAIN blocks : LandInTry(i) \/ LandInCapture(i) \/ LandInRelay(i)
  BY DEF Land
<1>2. ~LandInCapture(i)
  BY DEF LandInCapture, Lands, Flight, Plain
<1> QED BY <1>1, <1>2, LandInTryFlight, LandInRelayFlight

\* Every step keeps the invariant and is one of the abstract specification, or not seen there.
LEMMA NextFlight ==
  ASSUME Documented, IInv, Flight, [Next]_vars
  PROVE  Flight' /\ [Structured!Next]_(Structured!vars)
<1>0. Unseen => [Structured!Next]_(Structured!vars)
  BY DEF Unseen, Structured!vars
<1>1. ASSUME NEW id \in JmpBufs, OpenTry(id) \/ OpenCapture(id)
      PROVE  Flight' /\ [Structured!Next]_(Structured!vars)
  <2>1. ~OpenCapture(id)
    BY DEF OpenCapture, Documented
  <2> QED BY <1>1, <2>1, OpenTryFlight DEF Structured!Next
<1>2. CASE \E id \in JmpBufs : \E c \in Ctxs : OpenWith(id, c) \/ OpenRelay(id, c)
  BY <1>0, <1>2, OpenWithFlight, OpenRelayFlight
<1>3. CASE \E id \in JmpBufs : \E c, to \in Ctxs : OpenRelayTo(id, c, to)
  BY <1>0, <1>3, OpenRelayToFlight
<1>4. CASE ThrowNew
  BY <1>4, ThrowNewFlight DEF Structured!Next
<1>5. ~ThrowCaptured
  BY DEF ThrowCaptured, Documented
<1>6. CASE Land
  BY <1>0, <1>6, LandFlight
<1>7. CASE EndWith \/ EndRelay
  BY <1>0, <1>7, EndWithFlight, EndRelayFlight
<1>8. ~EndCapture
  <2> SUFFICES ASSUME EndCapture PROVE FALSE
    OBVIOUS
  <2>1. TypeOK /\ Depth > 0 /\ Top.kind = "capture"
    BY DEF EndCapture, In, IInv
  <2>2. Depth \in DOMAIN blocks /\ Top = blocks[Depth]
    BY <2>1, TopFacts
  <2> QED BY <2>1, <2>2 DEF Flight, Plain
<1>9. CASE EndBody
  BY <1>9, EndBodyFlight DEF Structured!Next
<1>10. CASE \E type \in Types : CatchHit(type)
  BY <1>10, CatchHitFlight DEF Structured!Next
<1>11. CASE CatchDone
  BY <1>11, CatchDoneFlight DEF Structured!Next
<1>12. CASE EndFinally
  BY <1>12, EndFinallyFlight DEF Structured!Next
<1>13. CASE UNCHANGED vars
  BY <1>0, <1>13, StutterFlight
<1> QED BY <1>1, <1>2, <1>3, <1>4, <1>5, <1>6, <1>7, <1>8, <1>9, <1>10, <1>11, <1>12, <1>13 DEF Next

LEMMA InitFlight ==
  ASSUME Init
  PROVE  Flight /\ Structured!Init
<1>1. blocks = << >> /\ jump = NoJump /\ DOMAIN blocks = {} /\ Depth = 0
  BY EmptySeq DEF Init, Depth
<1>2. \A c \in Ctxs : ctx[c].exceptions = << >>
  BY DEF Init, EmptyContext
<1>3. \A s \in JmpBufs : scope[s].captured = << >>
  BY DEF Init, ZeroScope
<1>4. Clean
  BY <1>2 DEF Clean, HasExceptions
<1>5. Calm
  BY <1>1, <1>4 DEF Calm, InFinally
<1>6. Flight
  BY <1>1, <1>3, <1>5 DEF Flight, Begun, RelaysOut, Plain
<1>7. Open = << >>
  <2>1. << >> \in Seq(Block) /\ Tries(<< >>) = << >>
    BY TriesEmpty
  <2>2. OpenOf(<< >>, FALSE) = << >>
    BY <2>1, OpenOfFacts, Zenon
  <2>3. (jump # NoJump) = FALSE
    BY <1>1
  <2> QED BY <1>1, <2>2, <2>3, OpenIs, Zenon
<1>8. InFlight = NoExc
  BY <1>2, InFlightIs, FlightOfFacts
<1> QED BY <1>6, <1>7, <1>8 DEF Structured!Init

\* In a program without any liberty contexts and relays do not show: whatever contexts its
\* blocks use, every step of with_exceptions, of both relays and of the try blocks in them
\* (exceptional.h:20-125, exception_scope.c:64-125) is a step of the try, catch and
\* finally of one context, or changes nothing that they see.
THEOREM RelaysImplementStructured == Documented => (Spec => ImplementsStructured)
<1> SUFFICES ASSUME Documented PROVE Spec => ImplementsStructured
  OBVIOUS
<1>1. Proper
  BY DEF Documented, Proper
<1>2. Spec => []IInv
  BY <1>1, Invariant
<1>3. Init => Flight /\ Structured!Init
  BY InitFlight
<1>4. IInv /\ Flight /\ [Next]_vars => Flight' /\ [Structured!Next]_(Structured!vars)
  BY NextFlight
<1> QED BY <1>2, <1>3, <1>4, PTL DEF Spec, ImplementsStructured, Structured!Spec
=============================================================================
