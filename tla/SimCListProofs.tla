--------------------------- MODULE SimCListProofs ---------------------------
(***************************************************************************)
(* Theorems about SimCList, for lists of any length: that every operation  *)
(* leaves a list that can be walked both ways, with mid in its middle,     *)
(* that every position is found from there, that no entry leaks, that      *)
(* quicksort sorts, and that the list is the sequence of ListADT.          *)
(***************************************************************************)
EXTENDS SimCList, StackLemmas, FiniteSetTheorems

-----------------------------------------------------------------------------
(* Numbers *)

LEMMA MinMember ==
  ASSUME NEW T \in SUBSET Nat, T # {}
  PROVE  Min(T) \in T /\ \A m \in T : Min(T) <= m
<1>1. \E n \in T : \A m \in T : n <= m
  BY NatMin
<1> QED BY <1>1 DEF Min

LEMMA MaxMember ==
  ASSUME NEW n \in Nat, NEW T \in SUBSET (1 .. n), T # {}
  PROVE  Max(T) \in T /\ \A m \in T : m <= Max(T)
<1> DEFINE S == {k \in Nat : \E m \in T : k = n - m}
<1>1. S # {}
  <2>1. PICK m \in T : TRUE
    OBVIOUS
  <2>2. n - m \in Nat
    OBVIOUS
  <2> QED BY <2>1, <2>2
<1>2. PICK k \in S : \A l \in S : k <= l
  BY <1>1, NatMin
<1>3. PICK x \in T : k = n - x
  BY <1>2
<1>4. ASSUME NEW m \in T PROVE m <= x
  <2>1. n - m \in S /\ m \in 1 .. n /\ x \in 1 .. n
    OBVIOUS
  <2>2. n - x <= n - m
    BY <1>2, <1>3, <2>1
  <2> QED BY <2>1, <2>2
<1>5. \E y \in T : \A m \in T : y >= m
  BY <1>4
<1>6. Max(T) \in T /\ \A m \in T : Max(T) >= m
  BY <1>5 DEF Max
<1> QED BY <1>6

LEMMA MinOfTwo ==
  ASSUME NEW a \in Int, NEW b \in Int
  PROVE  Min({a, b}) = IF a <= b THEN a ELSE b
<1> DEFINE m == IF a <= b THEN a ELSE b
<1>1. m \in {a, b} /\ \A y \in {a, b} : m <= y
  OBVIOUS
<1>2. \A x, y \in {a, b} : x <= y /\ y <= x => x = y
  OBVIOUS
<1> QED BY <1>1, <1>2 DEF Min

-----------------------------------------------------------------------------
(* Walks *)

\* Follow, in the entries e
Walk(e, field, n, k) ==
  LET f[i \in Int] == IF i <= 0 THEN n ELSE e[f[i - 1]][field] IN f[k]

\* g is the first k steps of such a walk.
Steps(e, field, n, k, g) == g[0] = n /\ \A i \in 1 .. k : g[i] = e[g[i - 1]][field]

\* The first k steps of a walk exist.
LEMMA WalkBegins ==
  ASSUME NEW e, NEW field, NEW n, NEW k \in Nat
  PROVE  \E g : Steps(e, field, n, k, g)
<1> DEFINE T == {j \in Nat : \E g : Steps(e, field, n, j, g)}
<1>1. 0 \in T
  <2> DEFINE g == [i \in 0 .. 0 |-> n]
  <2>1. g[0] = n /\ \A i \in 1 .. 0 : FALSE
    OBVIOUS
  <2>2. Steps(e, field, n, 0, g)
    BY <2>1 DEF Steps
  <2> QED BY <2>2
<1>2. ASSUME NEW j \in Nat, j \in T PROVE j + 1 \in T
  <2>1. PICK h : h[0] = n /\ \A i \in 1 .. j : h[i] = e[h[i - 1]][field]
    BY <1>2 DEF Steps
  <2> DEFINE g == [i \in 0 .. j + 1 |-> IF i = j + 1 THEN e[h[j]][field] ELSE h[i]]
  <2>3. \A i \in 0 .. j : g[i] = h[i]
    BY <1>2
  <2>4. g[j + 1] = e[h[j]][field]
    BY <1>2
  <2>5. g[0] = n /\ \A i \in 1 .. j + 1 : g[i] = e[g[i - 1]][field]
    <3> HIDE DEF g
    <3>1. g[0] = n
      BY <2>1, <2>3, <1>2
    <3>2. ASSUME NEW i \in 1 .. j + 1 PROVE g[i] = e[g[i - 1]][field]
      <4>1. CASE i = j + 1
        <5>1. i - 1 = j /\ j \in 0 .. j
          BY <4>1, <1>2
        <5> QED BY <4>1, <2>3, <2>4, <5>1
      <4>2. CASE i # j + 1
        <5>1. i \in 1 .. j /\ i \in 0 .. j /\ i - 1 \in 0 .. j
          BY <4>2, <1>2, <3>2
        <5> QED BY <2>1, <2>3, <5>1
      <4> QED BY <4>1, <4>2
    <3> QED BY <3>1, <3>2
  <2> HIDE DEF g
  <2>6. Steps(e, field, n, j + 1, g)
    BY <2>5 DEF Steps
  <2> QED BY <2>6, <1>2
<1> HIDE DEF T
<1>3. Nat \subseteq T
  BY <1>1, <1>2, NatSetInduction
<1> QED BY <1>3 DEF T

\* Two such beginnings agree.
LEMMA WalksAgree ==
  ASSUME NEW e, NEW field, NEW n, NEW k \in Nat, NEW g, NEW h,
         Steps(e, field, n, k, g), Steps(e, field, n, k, h)
  PROVE  \A i \in 0 .. k : g[i] = h[i]
<1> DEFINE T == {i \in Nat : i <= k => g[i] = h[i]}
<1>1. 0 \in T
  BY DEF Steps
<1>2. ASSUME NEW i \in Nat, i \in T PROVE i + 1 \in T
  <2>1. ASSUME i + 1 <= k PROVE g[i + 1] = h[i + 1]
    <3>1. i + 1 \in 1 .. k /\ (i + 1) - 1 = i /\ g[i] = h[i]
      BY <2>1, <1>2
    <3>2. g[i + 1] = e[g[(i + 1) - 1]][field] /\ h[i + 1] = e[h[(i + 1) - 1]][field]
      BY <3>1 DEF Steps
    <3> QED BY <3>1, <3>2
  <2> QED BY <2>1, <1>2
<1> HIDE DEF T
<1>3. Nat \subseteq T
  BY <1>1, <1>2, NatSetInduction
<1> QED BY <1>3 DEF T

\* What a walk meets: the definition of Walk has a solution.
LEMMA WalkSteps ==
  ASSUME NEW e, NEW field, NEW n
  PROVE  /\ \A k \in Int : k <= 0 => Walk(e, field, n, k) = n
         /\ \A k \in Int : k > 0 => Walk(e, field, n, k) = e[Walk(e, field, n, k - 1)][field]
<1> DEFINE G(k) == CHOOSE g : Steps(e, field, n, k, g)
           F == [k \in Int |-> IF k <= 0 THEN n ELSE G(k)[k]]
           f == CHOOSE f : f = [i \in Int |-> IF i <= 0 THEN n ELSE e[f[i - 1]][field]]
<1>1. ASSUME NEW k \in Nat PROVE Steps(e, field, n, k, G(k))
  <2>1. \E g : Steps(e, field, n, k, g)
    BY WalkBegins
  <2> QED BY <2>1, Zenon
<1>2. ASSUME NEW k \in Nat, k > 0 PROVE F[k] = e[F[k - 1]][field]
  <2>1. F[k] = G(k)[k]
    BY <1>2
  <2>2. F[k - 1] = G(k)[k - 1]
    <3>1. CASE k = 1
      <4>1. k - 1 = 0 /\ F[0] = n
        BY <3>1
      <4>2. Steps(e, field, n, k, G(k))
        BY <1>1
      <4> HIDE DEF G
      <4> QED BY <4>1, <4>2 DEF Steps
    <3>2. CASE k # 1
      <4> DEFINE l == k - 1
      <4>1. l \in Nat /\ l > 0 /\ l \in 0 .. l
        BY <1>2, <3>2
      <4>2. F[l] = G(l)[l]
        BY <4>1
      <4>3. Steps(e, field, n, k, G(k)) /\ Steps(e, field, n, l, G(l))
        BY <1>1, <4>1
      <4> HIDE DEF G, F
      <4>4. Steps(e, field, n, l, G(k))
        <5>1. \A i \in 1 .. l : i \in 1 .. k
          BY <1>2
        <5> QED BY <4>3, <5>1 DEF Steps
      <4> HIDE DEF l
      <4>5. \A i \in 0 .. l : G(k)[i] = G(l)[i]
        BY <4>1, <4>3, <4>4, WalksAgree
      <4> QED BY <4>1, <4>2, <4>5 DEF l
    <3> QED BY <3>1, <3>2
  <2>3. Steps(e, field, n, k, G(k))
    BY <1>1
  <2> HIDE DEF G, F
  <2>4. k \in 1 .. k
    BY <1>2
  <2>5. G(k)[k] = e[G(k)[k - 1]][field]
    BY <2>3, <2>4 DEF Steps
  <2> QED BY <2>1, <2>2, <2>5
<1>3. F = [i \in Int |-> IF i <= 0 THEN n ELSE e[F[i - 1]][field]]
  <2>1. ASSUME NEW i \in Int PROVE F[i] = IF i <= 0 THEN n ELSE e[F[i - 1]][field]
    <3>1. CASE i <= 0
      BY <3>1
    <3>2. CASE i > 0
      <4>1. i \in Nat /\ ~ (i <= 0)
        BY <3>2
      <4> HIDE DEF F
      <4> QED BY <1>2, <3>2, <4>1
    <3> QED BY <3>1, <3>2
  <2>2. F = [i \in Int |-> F[i]]
    OBVIOUS
  <2> HIDE DEF F
  <2> QED BY <2>1, <2>2
<1> HIDE DEF F, G
<1>4. f = [i \in Int |-> IF i <= 0 THEN n ELSE e[f[i - 1]][field]]
  BY <1>3
<1>5. \A k \in Int : Walk(e, field, n, k) = f[k]
  BY DEF Walk
<1> HIDE DEF f
<1>6. \A i \in Int : f[i] = IF i <= 0 THEN n ELSE e[f[i - 1]][field]
  BY <1>4
<1>7. ASSUME NEW k \in Int, k > 0 PROVE Walk(e, field, n, k) = e[Walk(e, field, n, k - 1)][field]
  <2>1. k - 1 \in Int /\ ~ (k <= 0)
    BY <1>7
  <2> QED BY <1>5, <1>6, <2>1
<1> QED BY <1>5, <1>6, <1>7

\* The first m steps from n go along q.
Along(e, field, n, m, q) == q[0] = n /\ \A i \in 0 .. m - 1 : e[q[i]][field] = q[i + 1]

\* A walk along q meets q.
LEMMA WalkAlong ==
  ASSUME NEW e, NEW field, NEW n, NEW m \in Nat, NEW q, Along(e, field, n, m, q)
  PROVE  \A k \in 0 .. m : Walk(e, field, n, k) = q[k]
<1> DEFINE w == [i \in Int |-> Walk(e, field, n, i)]
<1>1. Steps(e, field, n, m, w)
  <2>1. \A i \in 1 .. m : i \in Int /\ i > 0 /\ i - 1 \in Int
    OBVIOUS
  <2>2. w[0] = q[0] /\ \A i \in 1 .. m : w[i] = e[w[i - 1]][field]
    BY <2>1, WalkSteps DEF Along
  <2> HIDE DEF w
  <2>3. w[0] = n /\ \A i \in 1 .. m : w[i] = e[w[i - 1]][field]
    BY <2>2 DEF Along
  <2> QED BY <2>3 DEF Steps
<1>2. Steps(e, field, n, m, q)
  <2>1. \A i \in 1 .. m : i - 1 \in 0 .. m - 1 /\ (i - 1) + 1 = i
    OBVIOUS
  <2> QED BY <2>1 DEF Steps, Along
<1>3. \A i \in 0 .. m : i \in Int /\ w[i] = Walk(e, field, n, i)
  OBVIOUS
<1> HIDE DEF w
<1>4. \A i \in 0 .. m : w[i] = q[i]
  BY <1>1, <1>2, WalksAgree
<1> QED BY <1>3, <1>4

-----------------------------------------------------------------------------
(* The invariant *)

Nodes == Entries \cup Sentinels

\* p is the way through e from sentinel to sentinel, over n entries, each once.
Way(p, n, e) ==
  /\ p \in [0 .. n + 1 -> Nodes]
  /\ p[0] = HeadSentinel /\ p[n + 1] = TailSentinel
  /\ \A i \in 1 .. n : p[i] \in Entries
  /\ \A i, j \in 0 .. n + 1 : p[i] = p[j] => i = j
  /\ \A i \in 0 .. n : e[p[i]].next = p[i + 1] /\ e[p[i + 1]].prev = p[i]
  /\ e[HeadSentinel].prev = Null /\ e[TailSentinel].next = Null

\* m is in the middle of p.
Central(p, n, m) == m = IF n = 0 THEN Null ELSE p[(n - 1) \div 2 + 1]

Between(p, n) == {p[i] : i \in 1 .. n}

\* The spares sp are entries that p does not pass, each once; and these and those on p
\* are what is allocated, A.
Stock(p, n, sp, A) ==
  /\ sp \in Seq(Entries) /\ Len(sp) <= MaxSpare
  /\ NoRepeat(sp) /\ \A x : Has(sp, x) => x \notin Between(p, n)
  /\ A = Between(p, n) \cup ToSet(sp)

\* Fields of an entry; its data are not looked at.
IsEntry(x) == x = Entry(x.data, x.next, x.prev)
AreEntries(e) == e = [a \in Nodes |-> e[a]] /\ \A a \in Nodes : IsEntry(e[a])

\* The data of the entries on p, and of those that a walk meets
Listing(p, n, e) == [i \in 1 .. n |-> e[p[i]].data]
ContentsOf(n, e) == [i \in 1 .. n |-> e[Walk(e, "next", HeadSentinel, i)].data]

\* Fields have their types.
IsTyped(e) == \A a \in Nodes : /\ e[a].data \in Data \cup {Null}
                               /\ e[a].next \in Nodes \cup {Null} /\ e[a].prev \in Nodes \cup {Null}

\* What a step makes of the data
Becomes(s) == (IsTyped(entry) => IsTyped(entry')) /\ ContentsOf(numels', entry') = s

IInv == /\ stage \in {"raw", "live", "destroyed"} /\ numels \in 0 .. MaxLen
        /\ AreEntries(entry)
        /\ stage = "raw" => allocated = {} /\ spareels = << >> /\ numels = 0
        /\ stage = "destroyed" /\ ~iter_active => numels = 0 /\ allocated = {}
        /\ \E p : /\ Way(p, numels, entry) /\ Central(p, numels, mid)
                  /\ stage # "destroyed" => Stock(p, numels, spareels, allocated)

-----------------------------------------------------------------------------
(* Positions *)

\* Walks along a way, forward and backward
LEMMA Forward ==
  ASSUME NEW n \in Nat, NEW p, NEW e, Way(p, n, e), NEW i \in 0 .. n + 1, NEW k \in Nat, i + k <= n + 1
  PROVE  Walk(e, "next", p[i], k) = p[i + k]
<1> DEFINE q == [j \in 0 .. n + 1 - i |-> p[i + j]]
<1>1. q[0] = p[i] /\ q[k] = p[i + k]
  OBVIOUS
<1>2. ASSUME NEW j \in 0 .. k - 1 PROVE e[q[j]]["next"] = q[j + 1]
  <2>1. i + j \in 0 .. n /\ (i + j) + 1 = i + (j + 1)
    OBVIOUS
  <2>2. q[j] = p[i + j] /\ q[j + 1] = p[(i + j) + 1]
    BY <2>1
  <2>3. e[p[i + j]].next = p[(i + j) + 1]
    BY <2>1 DEF Way
  <2> QED BY <2>2, <2>3
<1> HIDE DEF q
<1>3. Along(e, "next", p[i], k, q)
  BY <1>1, <1>2 DEF Along
<1>4. \A j \in 0 .. k : Walk(e, "next", p[i], j) = q[j]
  BY <1>3, WalkAlong
<1> QED BY <1>1, <1>4

LEMMA Backward ==
  ASSUME NEW n \in Nat, NEW p, NEW e, Way(p, n, e), NEW i \in 0 .. n + 1, NEW k \in Nat, k <= i
  PROVE  Walk(e, "prev", p[i], k) = p[i - k]
<1> DEFINE q == [j \in 0 .. i |-> p[i - j]]
<1>1. q[0] = p[i] /\ q[k] = p[i - k]
  OBVIOUS
<1>2. ASSUME NEW j \in 0 .. k - 1 PROVE e[q[j]]["prev"] = q[j + 1]
  <2>1. i - (j + 1) \in 0 .. n /\ (i - (j + 1)) + 1 = i - j
    OBVIOUS
  <2>2. q[j] = p[i - j] /\ q[j + 1] = p[i - (j + 1)]
    OBVIOUS
  <2>3. e[p[(i - (j + 1)) + 1]].prev = p[i - (j + 1)]
    BY <2>1 DEF Way
  <2> QED BY <2>1, <2>2, <2>3
<1> HIDE DEF q
<1>3. Along(e, "prev", p[i], k, q)
  BY <1>1, <1>2 DEF Along
<1>4. \A j \in 0 .. k : Walk(e, "prev", p[i], j) = q[j]
  BY <1>3, WalkAlong
<1> QED BY <1>1, <1>4

LEMMA FollowIs == \A field, n, k : Follow(field, n, k) = Walk(entry, field, n, k)
BY DEF Follow, Walk

\* Halves and quarters
LEMMA MiddleFacts ==
  ASSUME NEW n \in Nat, n > 0
  PROVE  LET m == (n - 1) \div 2
         IN  m \in Nat /\ (n = 2 * m + 1 \/ n = 2 * m + 2) /\ m + 1 <= n
OBVIOUS

\* list_findpos finds each position, from wherever it starts.
LEMMA Found ==
  ASSUME numels \in Nat, NEW p, Way(p, numels, entry), Central(p, numels, mid),
         NEW pos \in Int, -1 <= pos, pos <= numels
  PROVE  FindPos(pos) = p[pos + 1]
<1> DEFINE n == numels
           m == (n - 1) \div 2
<1>0. p[0] = HeadSentinel /\ p[n + 1] = TailSentinel
  BY DEF Way
<1>1. CASE n > 0 /\ 4 * (pos + 1) <= n
  <2>1. FindPos(pos) = Follow("next", HeadSentinel, pos + 1)
    BY <1>1 DEF FindPos
  <2>2. pos + 1 \in Nat /\ 0 + (pos + 1) <= n + 1 /\ 0 \in 0 .. n + 1 /\ 0 + (pos + 1) = pos + 1
    OBVIOUS
  <2>3. Walk(entry, "next", p[0], pos + 1) = p[0 + (pos + 1)]
    BY <2>2, Forward
  <2> QED BY <1>0, <2>1, <2>2, <2>3, FollowIs
<1>2. CASE n > 0 /\ ~ (4 * (pos + 1) <= n) /\ 2 * (pos + 1) < n
  <2>1. FindPos(pos) = Follow("prev", mid, m - pos)
    BY <1>2 DEF FindPos
  <2>2. m \in Nat /\ (n = 2 * m + 1 \/ n = 2 * m + 2) /\ m + 1 <= n
    BY <1>2, MiddleFacts
  <2>3. mid = p[m + 1]
    BY <1>2 DEF Central
  <2> HIDE DEF m
  <2>4. m - pos \in Nat /\ m - pos <= m + 1 /\ m + 1 \in 0 .. n + 1 /\ (m + 1) - (m - pos) = pos + 1
    BY <1>2, <2>2
  <2>5. Walk(entry, "prev", p[m + 1], m - pos) = p[(m + 1) - (m - pos)]
    BY <2>4, Backward
  <2> QED BY <2>1, <2>3, <2>4, <2>5, FollowIs
<1>3. CASE n > 0 /\ ~ (4 * (pos + 1) <= n) /\ ~ (2 * (pos + 1) < n) /\ 4 * (pos + 1) <= 3 * n
  <2>1. FindPos(pos) = Follow("next", mid, pos - m)
    BY <1>3 DEF FindPos
  <2>2. m \in Nat /\ (n = 2 * m + 1 \/ n = 2 * m + 2) /\ m + 1 <= n
    BY <1>3, MiddleFacts
  <2>3. mid = p[m + 1]
    BY <1>3 DEF Central
  <2> HIDE DEF m
  <2>4. pos - m \in Nat /\ (m + 1) + (pos - m) <= n + 1 /\ m + 1 \in 0 .. n + 1 /\ (m + 1) + (pos - m) = pos + 1
    BY <1>3, <2>2
  <2>5. Walk(entry, "next", p[m + 1], pos - m) = p[(m + 1) + (pos - m)]
    BY <2>4, Forward
  <2> QED BY <2>1, <2>3, <2>4, <2>5, FollowIs
<1>4. CASE ~ (n > 0 /\ 4 * (pos + 1) <= 3 * n)
  <2>1. FindPos(pos) = Follow("prev", TailSentinel, n - pos)
    BY <1>4 DEF FindPos
  <2>2. n - pos \in Nat /\ n - pos <= n + 1 /\ n + 1 \in 0 .. n + 1 /\ (n + 1) - (n - pos) = pos + 1
    OBVIOUS
  <2>3. Walk(entry, "prev", p[n + 1], n - pos) = p[(n + 1) - (n - pos)]
    BY <2>2, Backward
  <2> QED BY <1>0, <2>1, <2>2, <2>3, FollowIs
<1> QED BY <1>1, <1>2, <1>3, <1>4

\* The entries that a walk from the head meets
LEMMA Met ==
  ASSUME numels \in Nat, NEW p, Way(p, numels, entry)
  PROVE  \A i \in 0 .. numels + 1 : Follow("next", HeadSentinel, i) = p[i]
<1>1. p[0] = HeadSentinel
  BY DEF Way
<1>2. ASSUME NEW i \in 0 .. numels + 1 PROVE Follow("next", HeadSentinel, i) = p[i]
  <2>1. i \in Nat /\ 0 + i <= numels + 1 /\ 0 \in 0 .. numels + 1 /\ 0 + i = i
    OBVIOUS
  <2>2. Walk(entry, "next", p[0], i) = p[0 + i]
    BY <2>1, Forward
  <2> QED BY <1>1, <2>1, <2>2, FollowIs
<1> QED BY <1>2

\* The data that a walk meets are those of the entries on the way.
LEMMA ListingIs ==
  ASSUME NEW n \in Nat, NEW p, NEW e, Way(p, n, e)
  PROVE  ContentsOf(n, e) = Listing(p, n, e)
<1>1. p[0] = HeadSentinel
  BY DEF Way
<1>2. ASSUME NEW i \in 1 .. n PROVE Walk(e, "next", HeadSentinel, i) = p[i]
  <2>1. i \in Nat /\ 0 + i <= n + 1 /\ 0 \in 0 .. n + 1 /\ 0 + i = i
    OBVIOUS
  <2>2. Walk(e, "next", p[0], i) = p[0 + i]
    BY <2>1, Forward
  <2> QED BY <1>1, <2>1, <2>2
<1> QED BY <1>2 DEF ContentsOf, Listing

\* The invariant says that list_repOk returns true.
LEMMA InvariantRep == IInv => RepOk
<1> SUFFICES ASSUME IInv, stage = "live" PROVE RepOk
  BY DEF RepOk
<1>1. numels \in Nat
  BY SimCListAssumption DEF IInv
<1>2. PICK p : Way(p, numels, entry) /\ Central(p, numels, mid) /\ Stock(p, numels, spareels, allocated)
  BY DEF IInv
<1>3. \A i \in 0 .. numels + 1 : Follow("next", HeadSentinel, i) = p[i]
  BY <1>1, <1>2, Met
<1>4. entry[HeadSentinel].prev = Null /\ entry[TailSentinel].next = Null
  BY <1>2 DEF Way
<1>5. numels = 0 => mid = Null
  BY <1>2 DEF Central
<1>6. numels > 0 => mid = Follow("next", HeadSentinel, (numels - 1) \div 2 + 1)
  <2>1. numels > 0 => (numels - 1) \div 2 + 1 \in 0 .. numels + 1
    BY <1>1, MiddleFacts
  <2> QED BY <1>1, <1>2, <1>3, <2>1 DEF Central
<1>7. Follow("next", HeadSentinel, numels + 1) = TailSentinel
  BY <1>1, <1>2, <1>3 DEF Way
<1>8. ASSUME NEW i \in 0 .. numels, NEW n, n = Follow("next", HeadSentinel, i)
      PROVE  entry[entry[n].next].prev = n
  <2>1. n = p[i]
    BY <1>1, <1>3, <1>8
  <2> QED BY <1>2, <2>1 DEF Way
<1>9. Len(spareels) <= MaxSpare
  BY <1>2 DEF Stock
<1> QED BY <1>4, <1>5, <1>6, <1>7, <1>8, <1>9 DEF RepOk

-----------------------------------------------------------------------------
(* Ways that get longer and shorter *)

\* The parts of a way's definition, to cite
LEMMA WayFacts ==
  ASSUME NEW n \in Nat, NEW p, NEW e, Way(p, n, e)
  PROVE  /\ \A i \in 0 .. n + 1 : p[i] \in Nodes
         /\ \A i, j \in 0 .. n + 1 : p[i] = p[j] => i = j
         /\ p[0] = HeadSentinel /\ p[n + 1] = TailSentinel
         /\ \A i \in 1 .. n : p[i] \in Entries
         /\ \A i \in 0 .. n : e[p[i]].next = p[i + 1]
         /\ \A i \in 0 .. n : e[p[i + 1]].prev = p[i]
         /\ Between(p, n) \subseteq Entries
BY DEF Way, Between

LEMMA SentinelFacts ==
  /\ HeadSentinel # TailSentinel /\ HeadSentinel \notin Entries /\ TailSentinel \notin Entries
  /\ HeadSentinel \in Nodes /\ TailSentinel \in Nodes
  /\ \A a \in Entries : a \in Nodes
BY SimCListAssumption DEF Nodes, Sentinels

\* p with new behind position pos
Inserted(p, n, pos, new) ==
  [i \in 0 .. n + 2 |-> IF i <= pos THEN p[i] ELSE IF i = pos + 1 THEN new ELSE p[i - 1]]

\* The links after an insertion between prec and succ
LinkedBetween(e, f, new, prec, succ) ==
  /\ AreEntries(f)
  /\ \A a \in Nodes : f[a].next = IF a = new THEN succ ELSE IF a = prec THEN new ELSE e[a].next
  /\ \A a \in Nodes : f[a].prev = IF a = new THEN prec ELSE IF a = succ THEN new ELSE e[a].prev

LEMMA LinkFields ==
  ASSUME NEW e, AreEntries(e), NEW d, NEW new \in Nodes, NEW prec \in Nodes, NEW succ \in Nodes,
         new # prec, new # succ, prec # succ
  PROVE  LinkedBetween(e, [e EXCEPT ![new] = Entry(d, succ, prec), ![prec].next = new, ![succ].prev = new],
                       new, prec, succ)
<1> DEFINE f == [e EXCEPT ![new] = Entry(d, succ, prec), ![prec].next = new, ![succ].prev = new]
<1>1. e = [a \in Nodes |-> e[a]] /\ \A a \in Nodes : e[a] = [data |-> e[a].data, next |-> e[a].next, prev |-> e[a].prev]
  BY DEF AreEntries, IsEntry, Entry
<1>2. f = [a \in Nodes |-> f[a]]
  BY <1>1
<1>3. f[new] = [data |-> d, next |-> succ, prev |-> prec]
  BY <1>1 DEF Entry
<1>4. f[prec] = [data |-> e[prec].data, next |-> new, prev |-> e[prec].prev]
  BY <1>1
<1>5. f[succ] = [data |-> e[succ].data, next |-> e[succ].next, prev |-> new]
  <2>1. f[succ] = [e[succ] EXCEPT !.prev = new]
    BY <1>1
  <2> HIDE DEF f
  <2> QED BY <1>1, <2>1
<1>6. \A a \in Nodes : a \notin {new, prec, succ} => f[a] = e[a]
  BY <1>1
<1> HIDE DEF f
<1>7. \A a \in Nodes : f[a] = [data |-> f[a].data, next |-> f[a].next, prev |-> f[a].prev]
  <2> SUFFICES ASSUME NEW a \in Nodes
               PROVE  f[a] = [data |-> f[a].data, next |-> f[a].next, prev |-> f[a].prev]
    OBVIOUS
  <2>1. CASE a = new
    BY <2>1, <1>3
  <2>2. CASE a = prec
    BY <2>2, <1>4
  <2>3. CASE a = succ
    BY <2>3, <1>5
  <2>4. CASE a \notin {new, prec, succ}
    BY <2>4, <1>1, <1>6
  <2> QED BY <2>1, <2>2, <2>3, <2>4
<1>8. AreEntries(f)
  BY <1>2, <1>7 DEF AreEntries, IsEntry, Entry
<1>9. \A a \in Nodes : /\ f[a].next = IF a = new THEN succ ELSE IF a = prec THEN new ELSE e[a].next
                       /\ f[a].prev = IF a = new THEN prec ELSE IF a = succ THEN new ELSE e[a].prev
  BY <1>3, <1>4, <1>5, <1>6
<1>10. LinkedBetween(e, f, new, prec, succ)
  BY <1>8, <1>9 DEF LinkedBetween
<1> QED BY <1>10 DEF f

\* The data after it
DatumAt(e, f, new, d) == \A a \in Nodes : f[a].data = IF a = new THEN d ELSE e[a].data

LEMMA LinkData ==
  ASSUME NEW e, AreEntries(e), NEW d, NEW new \in Nodes, NEW prec \in Nodes, NEW succ \in Nodes,
         new # prec, new # succ, prec # succ
  PROVE  DatumAt(e, [e EXCEPT ![new] = Entry(d, succ, prec), ![prec].next = new, ![succ].prev = new], new, d)
<1> DEFINE f == [e EXCEPT ![new] = Entry(d, succ, prec), ![prec].next = new, ![succ].prev = new]
<1>1. e = [a \in Nodes |-> e[a]] /\ \A a \in Nodes : e[a] = [data |-> e[a].data, next |-> e[a].next, prev |-> e[a].prev]
  BY DEF AreEntries, IsEntry, Entry
<1>2. f[new] = [data |-> d, next |-> succ, prev |-> prec]
  BY <1>1 DEF Entry
<1>3. f[prec] = [data |-> e[prec].data, next |-> new, prev |-> e[prec].prev]
  BY <1>1
<1>4. f[succ] = [e[succ] EXCEPT !.prev = new]
  BY <1>1
<1>5. \A a \in Nodes : a \notin {new, prec, succ} => f[a] = e[a]
  BY <1>1
<1> HIDE DEF f
<1>6. f[succ].data = e[succ].data
  BY <1>1, <1>4
<1>7. \A a \in Nodes : f[a].data = IF a = new THEN d ELSE e[a].data
  BY <1>2, <1>3, <1>5, <1>6
<1> QED BY <1>7 DEF f, DatumAt

\* s with d behind position pos
WithInserted(s, n, pos, d) ==
  [i \in 1 .. n + 1 |-> IF i <= pos THEN s[i] ELSE IF i = pos + 1 THEN d ELSE s[i - 1]]

\* The data along a way with a new entry
LEMMA InsertData ==
  ASSUME NEW n \in Nat, NEW p, NEW e, NEW f, NEW pos \in 0 .. n, NEW new, NEW d, Way(p, n, e),
         new \notin Between(p, n), \A a \in Nodes : f[a].data = IF a = new THEN d ELSE e[a].data, new \in Nodes
  PROVE  Listing(Inserted(p, n, pos, new), n + 1, f) = WithInserted(Listing(p, n, e), n, pos, d)
<1> DEFINE q == Inserted(p, n, pos, new)
           s == Listing(p, n, e)
<1>1. ASSUME NEW i \in 1 .. n PROVE s[i] = e[p[i]].data /\ f[p[i]].data = e[p[i]].data
  <2>1. p[i] \in Nodes /\ p[i] # new
    BY DEF Way, Between
  <2> QED BY <2>1 DEF Listing
<1>2. f[new].data = d
  OBVIOUS
<1> HIDE DEF s
<1>3. ASSUME NEW i \in 1 .. n + 1
      PROVE  f[q[i]].data = IF i <= pos THEN s[i] ELSE IF i = pos + 1 THEN d ELSE s[i - 1]
  <2>1. q[i] = IF i <= pos THEN p[i] ELSE IF i = pos + 1 THEN new ELSE p[i - 1]
    BY DEF Inserted
  <2> HIDE DEF q
  <2>2. CASE i <= pos
    <3>1. i \in 1 .. n
      BY <2>2
    <3> QED BY <1>1, <2>1, <2>2, <3>1
  <2>3. CASE i = pos + 1
    BY <1>2, <2>1, <2>3
  <2>4. CASE i > pos + 1
    <3>1. i - 1 \in 1 .. n
      BY <2>4
    <3> QED BY <1>1, <2>1, <2>4, <3>1
  <2> QED BY <2>2, <2>3, <2>4
<1> HIDE DEF q
<1>4. Listing(q, n + 1, f) = WithInserted(s, n, pos, d)
  BY <1>3 DEF Listing, WithInserted
<1> QED BY <1>4 DEF q, s

\* An entry new goes into p behind position pos.
Inserting(p, n, e, f, pos, new) ==
  /\ n \in Nat /\ Way(p, n, e) /\ pos \in 0 .. n /\ new \in Entries /\ new \notin Between(p, n)
  /\ LinkedBetween(e, f, new, p[pos], p[pos + 1])

LEMMA InsertWay ==
  ASSUME NEW n, NEW p, NEW e, NEW f, NEW pos, NEW new, Inserting(p, n, e, f, pos, new)
  PROVE  /\ Way(Inserted(p, n, pos, new), n + 1, f)
         /\ Between(Inserted(p, n, pos, new), n + 1) = Between(p, n) \cup {new}
<1> /\ n \in Nat /\ Way(p, n, e) /\ pos \in 0 .. n /\ new \in Entries /\ new \notin Between(p, n)
    /\ LinkedBetween(e, f, new, p[pos], p[pos + 1])
  BY DEF Inserting
<1> DEFINE q == Inserted(p, n, pos, new)
<1>1. /\ \A i \in 0 .. n + 1 : p[i] \in Nodes
      /\ \A i, j \in 0 .. n + 1 : p[i] = p[j] => i = j
      /\ p[0] = HeadSentinel /\ p[n + 1] = TailSentinel
      /\ \A i \in 1 .. n : p[i] \in Entries
      /\ \A i \in 0 .. n : e[p[i]].next = p[i + 1]
      /\ \A i \in 0 .. n : e[p[i + 1]].prev = p[i]
  BY WayFacts
<1>2. \A i \in 0 .. n + 1 : p[i] # new
  <2>1. \A i \in 1 .. n : p[i] # new
    BY DEF Between
  <2>2. \A i \in 0 .. n + 1 : i = 0 \/ i = n + 1 \/ i \in 1 .. n
    OBVIOUS
  <2> QED BY <1>1, <2>1, <2>2, SentinelFacts
<1>3. q = [i \in 0 .. (n + 1) + 1 |-> q[i]]
  BY DEF Inserted
<1>4. /\ \A i \in 0 .. pos : q[i] = p[i]
      /\ q[pos + 1] = new
      /\ \A i \in pos + 2 .. n + 2 : q[i] = p[i - 1]
  BY DEF Inserted
<1> HIDE DEF q
<1>5. \A i \in 0 .. n + 2 : i \in 0 .. pos \/ i = pos + 1 \/ (i \in pos + 2 .. n + 2 /\ i - 1 \in 0 .. n + 1)
  OBVIOUS
<1>6. \A i \in 0 .. n + 2 : q[i] \in Nodes
  <2>1. \A i \in 0 .. pos : i \in 0 .. n + 1
    OBVIOUS
  <2> QED BY <1>1, <1>4, <1>5, <2>1, SentinelFacts
<1>7. q[0] = HeadSentinel /\ q[(n + 1) + 1] = TailSentinel
  <2>1. 0 \in 0 .. pos /\ (n + 1) + 1 \in pos + 2 .. n + 2 /\ ((n + 1) + 1) - 1 = n + 1
    OBVIOUS
  <2> QED BY <1>1, <1>4, <2>1
<1>8. \A i \in 1 .. n + 1 : q[i] \in Entries
  <2> SUFFICES ASSUME NEW i \in 1 .. n + 1 PROVE q[i] \in Entries
    OBVIOUS
  <2>1. CASE i <= pos
    <3>1. i \in 0 .. pos /\ i \in 1 .. n
      BY <2>1
    <3> QED BY <1>1, <1>4, <3>1
  <2>2. CASE i = pos + 1
    BY <1>4, <2>2
  <2>3. CASE i > pos + 1
    <3>1. i \in pos + 2 .. n + 2 /\ i - 1 \in 1 .. n
      BY <2>3
    <3> QED BY <1>1, <1>4, <3>1
  <2> QED BY <2>1, <2>2, <2>3
<1>9. ASSUME NEW i \in 0 .. (n + 1) + 1, NEW j \in 0 .. (n + 1) + 1, q[i] = q[j] PROVE i = j
  <2>1. \A k \in 0 .. (n + 1) + 1 :
          \/ k \in 0 .. n + 1 /\ k <= pos /\ q[k] = p[k]
          \/ k = pos + 1 /\ q[k] = new
          \/ k - 1 \in 0 .. n + 1 /\ k > pos + 1 /\ q[k] = p[k - 1]
    BY <1>4
  <2>2. CASE i = pos + 1 \/ j = pos + 1
    BY <1>2, <1>9, <2>1, <2>2
  <2>3. CASE i # pos + 1 /\ j # pos + 1
    <3>1. /\ \/ i \in 0 .. n + 1 /\ i <= pos /\ q[i] = p[i]
             \/ i - 1 \in 0 .. n + 1 /\ i > pos + 1 /\ q[i] = p[i - 1]
          /\ \/ j \in 0 .. n + 1 /\ j <= pos /\ q[j] = p[j]
             \/ j - 1 \in 0 .. n + 1 /\ j > pos + 1 /\ q[j] = p[j - 1]
      BY <2>1, <2>3
    <3>2. CASE i <= pos /\ j <= pos
      BY <1>1, <1>9, <3>1, <3>2
    <3>3. CASE i <= pos /\ j > pos + 1
      <4>1. i = j - 1
        BY <1>1, <1>9, <3>1, <3>3
      <4> QED BY <3>3, <4>1
    <3>4. CASE i > pos + 1 /\ j <= pos
      <4>1. i - 1 = j
        BY <1>1, <1>9, <3>1, <3>4
      <4> QED BY <3>4, <4>1
    <3>5. CASE i > pos + 1 /\ j > pos + 1
      <4>1. i - 1 = j - 1
        BY <1>1, <1>9, <3>1, <3>5
      <4> QED BY <4>1
    <3> QED BY <2>3, <3>2, <3>3, <3>4, <3>5
  <2> QED BY <2>2, <2>3
<1>10. pos \in 0 .. n + 1 /\ pos + 1 \in 0 .. n + 1 /\ p[pos] \in Nodes /\ p[pos + 1] \in Nodes
  BY <1>1
<1>11. ASSUME NEW i \in 0 .. n + 1 PROVE f[q[i]].next = q[i + 1] /\ f[q[i + 1]].prev = q[i]
  <2>0. /\ \A a \in Nodes : f[a].next = IF a = new THEN p[pos + 1] ELSE IF a = p[pos] THEN new ELSE e[a].next
        /\ \A a \in Nodes : f[a].prev = IF a = new THEN p[pos] ELSE IF a = p[pos + 1] THEN new ELSE e[a].prev
    BY DEF LinkedBetween
  <2>1. CASE i < pos
    <3>1. q[i] = p[i] /\ q[i + 1] = p[i + 1] /\ i \in 0 .. n /\ i \in 0 .. n + 1 /\ i + 1 \in 0 .. n + 1
      BY <1>4, <2>1
    <3>2. p[i] # p[pos] /\ p[i + 1] # p[pos + 1]
      BY <1>1, <1>10, <2>1, <3>1
    <3> QED BY <1>1, <1>2, <2>0, <3>1, <3>2
  <2>2. CASE i = pos
    <3>1. q[i] = p[pos] /\ q[i + 1] = new
      BY <1>4, <2>2
    <3> QED BY <1>2, <1>10, <2>0, <3>1, SentinelFacts
  <2>3. CASE i = pos + 1
    <3>1. q[i] = new /\ q[i + 1] = p[pos + 1]
      <4>1. i + 1 \in pos + 2 .. n + 2 /\ (i + 1) - 1 = pos + 1
        BY <2>3
      <4> QED BY <1>4, <2>3, <4>1
    <3> QED BY <1>2, <1>10, <2>0, <3>1, SentinelFacts
  <2>4. CASE i > pos + 1
    <3>1. i \in pos + 2 .. n + 2 /\ i + 1 \in pos + 2 .. n + 2 /\ (i + 1) - 1 = i /\ (i - 1) + 1 = i
      BY <2>4
    <3>2. q[i] = p[i - 1] /\ q[i + 1] = p[i] /\ i - 1 \in 0 .. n /\ i - 1 \in 0 .. n + 1
      BY <1>4, <2>4, <3>1
    <3>3. p[i - 1] # p[pos] /\ p[i] # p[pos + 1]
      BY <1>1, <1>10, <2>4, <3>2
    <3> QED BY <1>1, <1>2, <2>0, <3>1, <3>2, <3>3
  <2> QED BY <2>1, <2>2, <2>3, <2>4
<1>12. f[HeadSentinel].prev = Null /\ f[TailSentinel].next = Null
  <2>1. e[HeadSentinel].prev = Null /\ e[TailSentinel].next = Null
    BY DEF Way
  <2>2. p[pos + 1] # HeadSentinel /\ p[pos] # TailSentinel
    <3>1. pos + 1 # 0 /\ pos # n + 1 /\ 0 \in 0 .. n + 1 /\ n + 1 \in 0 .. n + 1
      OBVIOUS
    <3> QED BY <1>1, <1>10, <3>1
  <2> QED BY <2>1, <2>2, SentinelFacts DEF LinkedBetween
<1>13. Way(q, n + 1, f)
  <2>1. q \in [0 .. (n + 1) + 1 -> Nodes]
    <3>1. \A i \in 0 .. (n + 1) + 1 : q[i] \in Nodes
      BY <1>6
    <3> QED BY <1>3, <3>1
  <2> QED BY <2>1, <1>7, <1>8, <1>9, <1>11, <1>12 DEF Way
<1>14. Between(q, n + 1) = Between(p, n) \cup {new}
  <2>1. ASSUME NEW i \in 1 .. n + 1 PROVE q[i] \in Between(p, n) \cup {new}
    <3>1. CASE i <= pos
      <4>1. i \in 0 .. pos /\ i \in 1 .. n
        BY <3>1
      <4> QED BY <1>4, <4>1 DEF Between
    <3>2. CASE i = pos + 1
      BY <1>4, <3>2
    <3>3. CASE i > pos + 1
      <4>1. i \in pos + 2 .. n + 2 /\ i - 1 \in 1 .. n
        BY <3>3
      <4> QED BY <1>4, <4>1 DEF Between
    <3> QED BY <3>1, <3>2, <3>3
  <2>2. ASSUME NEW i \in 1 .. n PROVE p[i] \in Between(q, n + 1)
    <3>1. CASE i <= pos
      <4>1. i \in 0 .. pos /\ i \in 1 .. n + 1
        BY <3>1
      <4> QED BY <1>4, <4>1 DEF Between
    <3>2. CASE i > pos
      <4>1. i + 1 \in pos + 2 .. n + 2 /\ i + 1 \in 1 .. n + 1 /\ (i + 1) - 1 = i
        BY <3>2
      <4> QED BY <1>4, <4>1 DEF Between
    <3> QED BY <3>1, <3>2
  <2>3. new \in Between(q, n + 1)
    <3>1. pos + 1 \in 1 .. n + 1
      OBVIOUS
    <3> QED BY <1>4, <3>1 DEF Between
  <2>4. \A x \in Between(q, n + 1) : \E i \in 1 .. n + 1 : x = q[i]
    BY DEF Between
  <2>5. \A x \in Between(p, n) : \E i \in 1 .. n : x = p[i]
    BY DEF Between
  <2> QED BY <2>1, <2>2, <2>3, <2>4, <2>5
<1> QED BY <1>13, <1>14 DEF q

\* The entries at the positions from i to j
Part(p, i, j) == {p[k] : k \in i .. j}

\* p without positions a + 1 to b
Cut(p, n, a, b) == [i \in 0 .. n - (b - a) + 1 |-> IF i <= a THEN p[i] ELSE p[i + (b - a)]]

\* The links after S is taken out between before and after
TakenOut(e, f, before, after, S) ==
  /\ AreEntries(f)
  /\ \A a \in Nodes \ S : f[a].next = IF a = before THEN after ELSE e[a].next
  /\ \A a \in Nodes \ S : f[a].prev = IF a = after THEN before ELSE e[a].prev

LEMMA UnlinkFields ==
  ASSUME AreEntries(entry), NEW first, NEW last, NEW S
  PROVE  TakenOut(entry, Unlinked(first, last, S), entry[first].prev, entry[last].next, S)
<1> DEFINE before == entry[first].prev
           after == entry[last].next
           x(a) == IF a = before THEN [entry[a] EXCEPT !.next = after] ELSE entry[a]
           y(a) == IF a = after THEN [x(a) EXCEPT !.prev = before] ELSE x(a)
           f == Unlinked(first, last, S)
<1>1. /\ DOMAIN entry = Nodes
      /\ \A a \in Nodes : entry[a] = [data |-> entry[a].data, next |-> entry[a].next, prev |-> entry[a].prev]
  BY DEF AreEntries, IsEntry, Entry
<1>2. f = [a \in Nodes |-> IF a \in S THEN NoEntry ELSE y(a)]
  BY <1>1 DEF Unlinked
<1> HIDE DEF before, after, f
<1>3. ASSUME NEW a \in Nodes
      PROVE  x(a) = [data |-> entry[a].data,
                     next |-> IF a = before THEN after ELSE entry[a].next, prev |-> entry[a].prev]
  BY <1>1
<1> HIDE DEF x
<1>4. ASSUME NEW a \in Nodes
      PROVE  y(a) = [data |-> entry[a].data,
                     next |-> IF a = before THEN after ELSE entry[a].next,
                     prev |-> IF a = after THEN before ELSE entry[a].prev]
  BY <1>3
<1> HIDE DEF y
<1>5. NoEntry = [data |-> Null, next |-> Null, prev |-> Null]
  BY DEF NoEntry, Entry
<1>6. f = [a \in Nodes |-> f[a]]
  BY <1>2
<1>7. \A a \in Nodes : f[a] = [data |-> f[a].data, next |-> f[a].next, prev |-> f[a].prev]
  BY <1>2, <1>4, <1>5
<1>8. AreEntries(f)
  BY <1>6, <1>7 DEF AreEntries, IsEntry, Entry
<1>9. TakenOut(entry, f, before, after, S)
  BY <1>2, <1>4, <1>8 DEF TakenOut
<1> QED BY <1>9 DEF f, before, after

\* The data after it
Trimmed(e, f, S) == (IsTyped(e) => IsTyped(f)) /\ \A a \in Nodes \ S : f[a].data = e[a].data

LEMMA UnlinkData ==
  ASSUME AreEntries(entry), NEW first \in Nodes, NEW last \in Nodes, NEW S
  PROVE  Trimmed(entry, Unlinked(first, last, S), S)
<1> DEFINE before == entry[first].prev
           after == entry[last].next
           x(a) == IF a = before THEN [entry[a] EXCEPT !.next = after] ELSE entry[a]
           y(a) == IF a = after THEN [x(a) EXCEPT !.prev = before] ELSE x(a)
           f == Unlinked(first, last, S)
<1>1. /\ DOMAIN entry = Nodes
      /\ \A a \in Nodes : entry[a] = [data |-> entry[a].data, next |-> entry[a].next, prev |-> entry[a].prev]
  BY DEF AreEntries, IsEntry, Entry
<1>2. f = [a \in Nodes |-> IF a \in S THEN NoEntry ELSE y(a)]
  BY <1>1 DEF Unlinked
<1>3. IsTyped(entry) => before \in Nodes \cup {Null} /\ after \in Nodes \cup {Null}
  BY DEF IsTyped
<1> HIDE DEF before, after, f
<1>4. ASSUME NEW a \in Nodes
      PROVE  x(a) = [data |-> entry[a].data,
                     next |-> IF a = before THEN after ELSE entry[a].next, prev |-> entry[a].prev]
  BY <1>1
<1> HIDE DEF x
<1>5. ASSUME NEW a \in Nodes
      PROVE  y(a) = [data |-> entry[a].data,
                     next |-> IF a = before THEN after ELSE entry[a].next,
                     prev |-> IF a = after THEN before ELSE entry[a].prev]
  BY <1>4
<1> HIDE DEF y
<1>6. NoEntry = [data |-> Null, next |-> Null, prev |-> Null]
  BY DEF NoEntry, Entry
<1>7. \A a \in Nodes \ S : f[a].data = entry[a].data
  BY <1>2, <1>5
<1>8. ASSUME IsTyped(entry) PROVE IsTyped(f)
  <2> SUFFICES ASSUME NEW a \in Nodes
               PROVE  /\ f[a].data \in Data \cup {Null}
                      /\ f[a].next \in Nodes \cup {Null} /\ f[a].prev \in Nodes \cup {Null}
    BY DEF IsTyped
  <2>1. /\ entry[a].data \in Data \cup {Null}
        /\ entry[a].next \in Nodes \cup {Null} /\ entry[a].prev \in Nodes \cup {Null}
    BY <1>8 DEF IsTyped
  <2>2. CASE a \in S
    BY <1>2, <1>6, <2>2
  <2>3. CASE a \notin S
    <3>1. f[a] = y(a)
      BY <1>2, <2>3
    <3> QED BY <1>3, <1>5, <1>8, <2>1, <3>1
  <2> QED BY <2>2, <2>3
<1> QED BY <1>7, <1>8 DEF f, Trimmed

\* s without positions a + 1 to b
Without(s, n, a, b) == [i \in 1 .. n - (b - a) |-> IF i <= a THEN s[i] ELSE s[i + (b - a)]]

\* The data along a way from which entries are cut
LEMMA CutData ==
  ASSUME NEW n \in Nat, NEW p, NEW e, NEW f, Way(p, n, e), NEW a \in Nat, NEW b \in Nat, a < b, b <= n,
         Trimmed(e, f, Part(p, a + 1, b))
  PROVE  Listing(Cut(p, n, a, b), n - (b - a), f) = Without(Listing(p, n, e), n, a, b)
<1> DEFINE m == n - (b - a)
           q == Cut(p, n, a, b)
           s == Listing(p, n, e)
           S == Part(p, a + 1, b)
<1>1. ASSUME NEW i \in 1 .. n, i <= a \/ i > b PROVE s[i] = e[p[i]].data /\ f[p[i]].data = e[p[i]].data
  <2>1. p[i] \in Nodes /\ i \in 0 .. n + 1
    BY WayFacts
  <2>2. p[i] \notin S
    <3> SUFFICES ASSUME NEW k \in a + 1 .. b, p[i] = p[k] PROVE FALSE
      BY DEF Part
    <3>1. k \in 0 .. n + 1
      OBVIOUS
    <3>2. i = k
      BY <2>1, <3>1, WayFacts
    <3> QED BY <1>1, <3>2
  <2>3. s[i] = e[p[i]].data
    BY DEF Listing
  <2> QED BY <2>1, <2>2, <2>3 DEF Trimmed
<1> HIDE DEF s, S
<1>2. ASSUME NEW i \in 1 .. m
      PROVE  f[q[i]].data = IF i <= a THEN s[i] ELSE s[i + (b - a)]
  <2>1. q[i] = IF i <= a THEN p[i] ELSE p[i + (b - a)]
    BY DEF Cut
  <2> HIDE DEF q
  <2>2. CASE i <= a
    <3>1. i \in 1 .. n
      BY <2>2
    <3> QED BY <1>1, <2>1, <2>2, <3>1
  <2>3. CASE ~ (i <= a)
    <3> DEFINE k == i + (b - a)
    <3>1. k \in 1 .. n /\ k > b
      BY <2>3
    <3>2. q[i] = p[k]
      BY <2>1, <2>3
    <3> HIDE DEF k
    <3>3. f[q[i]].data = s[k]
      BY <1>1, <3>1, <3>2
    <3> QED BY <2>3, <3>3 DEF k
  <2> QED BY <2>2, <2>3
<1> HIDE DEF q
<1>3. Listing(q, m, f) = Without(s, n, a, b)
  BY <1>2 DEF Listing, Without
<1> QED BY <1>3 DEF q, s

\* Positions a + 1 to b are taken out of p.
Cutting(p, n, e, f, a, b) ==
  /\ n \in Nat /\ Way(p, n, e) /\ a \in Nat /\ b \in Nat /\ a < b /\ b <= n
  /\ TakenOut(e, f, p[a], p[b + 1], Part(p, a + 1, b))

LEMMA CutWay ==
  ASSUME NEW p, NEW n, NEW e, NEW f, NEW a, NEW b, Cutting(p, n, e, f, a, b)
  PROVE  /\ Way(Cut(p, n, a, b), n - (b - a), f)
         /\ Between(Cut(p, n, a, b), n - (b - a)) = Between(p, n) \ Part(p, a + 1, b)
<1> /\ n \in Nat /\ Way(p, n, e) /\ a \in Nat /\ b \in Nat /\ a < b /\ b <= n
    /\ TakenOut(e, f, p[a], p[b + 1], Part(p, a + 1, b))
  BY DEF Cutting
<1> DEFINE q == Cut(p, n, a, b)
           m == n - (b - a)
           S == Part(p, a + 1, b)
<1>1. /\ \A i \in 0 .. n + 1 : p[i] \in Nodes
      /\ \A i, j \in 0 .. n + 1 : p[i] = p[j] => i = j
      /\ p[0] = HeadSentinel /\ p[n + 1] = TailSentinel
      /\ \A i \in 1 .. n : p[i] \in Entries
      /\ \A i \in 0 .. n : e[p[i]].next = p[i + 1]
      /\ \A i \in 0 .. n : e[p[i + 1]].prev = p[i]
  BY WayFacts
<1>2. m \in Nat /\ a <= m /\ q = [i \in 0 .. m + 1 |-> q[i]]
  BY DEF Cut
<1>3. /\ \A i \in 0 .. a : q[i] = p[i] /\ i \in 0 .. m + 1 /\ i \in 0 .. n + 1
      /\ \A i \in a + 1 .. m + 1 : q[i] = p[i + (b - a)] /\ i + (b - a) \in b + 1 .. n + 1
                                     /\ i + (b - a) \in 0 .. n + 1
  BY DEF Cut
<1>4. \A i \in 0 .. n + 1 : i <= a \/ i > b <=> p[i] \notin S
  <2>1. ASSUME NEW i \in 0 .. n + 1, p[i] \in S PROVE i > a /\ i <= b
    <3>1. PICK k \in a + 1 .. b : p[i] = p[k]
      BY <2>1 DEF Part
    <3>2. i = k
      BY <1>1, <3>1
    <3> QED BY <3>2
  <2>2. ASSUME NEW i \in 0 .. n + 1, i > a, i <= b PROVE p[i] \in S
    <3>1. i \in a + 1 .. b
      BY <2>2
    <3> QED BY <3>1 DEF Part
  <2>3. \A i \in 0 .. n + 1 : i <= a \/ i > b <=> ~ (i > a /\ i <= b)
    OBVIOUS
  <2> HIDE DEF S
  <2> QED BY <2>1, <2>2, <2>3
<1> HIDE DEF q
<1>5. \A i \in 0 .. m + 1 : i \in 0 .. a \/ i \in a + 1 .. m + 1
  OBVIOUS
<1>6. \A i \in 0 .. m + 1 : q[i] \in Nodes \ S
  <2>1. ASSUME NEW i \in 0 .. a PROVE q[i] \in Nodes \ S
    BY <1>1, <1>3, <1>4 DEF S
  <2>2. ASSUME NEW i \in a + 1 .. m + 1 PROVE q[i] \in Nodes \ S
    <3> DEFINE k == i + (b - a)
    <3>1. q[i] = p[k] /\ k \in b + 1 .. n + 1 /\ k \in 0 .. n + 1
      BY <1>3
    <3> HIDE DEF k, S, m
    <3> QED BY <1>1, <1>4, <3>1
  <2> QED BY <1>5, <2>1, <2>2
<1>7. q[0] = HeadSentinel /\ q[m + 1] = TailSentinel
  <2>1. 0 \in 0 .. a /\ m + 1 \in a + 1 .. m + 1 /\ (m + 1) + (b - a) = n + 1
    BY ONLY n \in Nat, a \in Nat, b \in Nat, a < b, b <= n
  <2> QED BY <1>1, <1>3, <2>1
<1>8. \A i \in 1 .. m : q[i] \in Entries
  <2>1. \A i \in 1 .. m : \/ i \in 0 .. a /\ i \in 1 .. n
                          \/ i \in a + 1 .. m + 1 /\ i + (b - a) \in 1 .. n
    BY <1>2
  <2> QED BY <1>1, <1>3, <2>1
<1>9. ASSUME NEW i \in 0 .. m + 1, NEW j \in 0 .. m + 1, q[i] = q[j] PROVE i = j
  <2>1. \A k \in 0 .. m + 1 : \E l \in 0 .. n + 1 : /\ q[k] = p[l]
                                                    /\ k <= a => l = k
                                                    /\ k > a => l = k + (b - a)
    <3>1. ASSUME NEW k \in 0 .. a PROVE q[k] = p[k] /\ k \in 0 .. n + 1
      BY <1>3
    <3>2. ASSUME NEW k \in a + 1 .. m + 1
          PROVE  q[k] = p[k + (b - a)] /\ k + (b - a) \in 0 .. n + 1 /\ ~ (k <= a)
      BY <1>3
    <3>3. \A k \in 0 .. a : ~ (k > a)
      OBVIOUS
    <3> QED BY <1>5, <3>1, <3>2, <3>3
  <2>2. PICK k \in 0 .. n + 1 : q[i] = p[k] /\ (i <= a => k = i) /\ (i > a => k = i + (b - a))
    BY <2>1
  <2>3. PICK l \in 0 .. n + 1 : q[j] = p[l] /\ (j <= a => l = j) /\ (j > a => l = j + (b - a))
    BY <2>1
  <2>4. k = l
    BY <1>1, <1>9, <2>2, <2>3
  <2>5. i \in Int /\ j \in Int
    BY <1>2
  <2> HIDE DEF m
  <2> QED BY <2>2, <2>3, <2>4, <2>5
<1>10. ASSUME NEW i \in 0 .. m PROVE f[q[i]].next = q[i + 1] /\ f[q[i + 1]].prev = q[i]
  <2>0. /\ \A c \in Nodes \ S : f[c].next = IF c = p[a] THEN p[b + 1] ELSE e[c].next
        /\ \A c \in Nodes \ S : f[c].prev = IF c = p[b + 1] THEN p[a] ELSE e[c].prev
    BY DEF TakenOut
  <2>1. i \in 0 .. m + 1 /\ i + 1 \in 0 .. m + 1 /\ a \in 0 .. n + 1 /\ b + 1 \in 0 .. n + 1
    BY <1>2
  <2>2. q[i] \in Nodes \ S /\ q[i + 1] \in Nodes \ S
    BY <1>6, <2>1
  <2>3. CASE i < a
    <3>1. i \in 0 .. a /\ i + 1 \in 0 .. a /\ i \in 0 .. n /\ i \in 0 .. n + 1 /\ i + 1 \in 0 .. n + 1
      BY <2>3, <1>2
    <3>2. q[i] = p[i] /\ q[i + 1] = p[i + 1]
      BY <1>3, <3>1
    <3>3. i # a /\ i + 1 # b + 1
      BY <2>3
    <3>4. p[i] # p[a] /\ p[i + 1] # p[b + 1]
      BY <1>1, <2>1, <3>1, <3>3
    <3>5. e[p[i]].next = p[i + 1] /\ e[p[i + 1]].prev = p[i]
      BY <1>1, <3>1
    <3> HIDE DEF S, m
    <3> QED BY <2>0, <2>2, <3>2, <3>4, <3>5
  <2>4. CASE i = a
    <3>1. i \in 0 .. a /\ i + 1 \in a + 1 .. m + 1 /\ (i + 1) + (b - a) = b + 1
      BY ONLY <2>4, n \in Nat, a \in Nat, b \in Nat, a < b, b <= n, i \in 0 .. m
    <3>2. q[i] = p[a] /\ q[i + 1] = p[b + 1]
      BY <1>3, <2>4, <3>1
    <3> HIDE DEF S, m
    <3> QED BY <2>0, <2>2, <3>2
  <2>5. CASE i > a
    <3> DEFINE k == i + (b - a)
    <3>1. i \in a + 1 .. m + 1 /\ i + 1 \in a + 1 .. m + 1 /\ (i + 1) + (b - a) = k + 1
          /\ k \in 0 .. n /\ k \in 0 .. n + 1 /\ k + 1 \in 0 .. n + 1
      BY ONLY <2>5, n \in Nat, a \in Nat, b \in Nat, a < b, b <= n, i \in 0 .. m
    <3>2. q[i] = p[k] /\ q[i + 1] = p[k + 1]
      BY <1>3, <3>1
    <3>3. k # a /\ k + 1 # b + 1
      BY <2>5
    <3> HIDE DEF k
    <3>4. p[k] # p[a] /\ p[k + 1] # p[b + 1]
      BY <1>1, <2>1, <3>1, <3>3
    <3>5. e[p[k]].next = p[k + 1] /\ e[p[k + 1]].prev = p[k]
      BY <1>1, <3>1
    <3> HIDE DEF S, m
    <3> QED BY <2>0, <2>2, <3>2, <3>4, <3>5
  <2> QED BY <2>3, <2>4, <2>5
<1>11. f[HeadSentinel].prev = Null /\ f[TailSentinel].next = Null
  <2>1. e[HeadSentinel].prev = Null /\ e[TailSentinel].next = Null
    BY DEF Way
  <2>2. 0 \in 0 .. n + 1 /\ n + 1 \in 0 .. n + 1 /\ a \in 0 .. n + 1 /\ b + 1 \in 0 .. n + 1
        /\ b + 1 # 0 /\ a # n + 1 /\ 0 \in 0 .. m + 1 /\ m + 1 \in 0 .. m + 1
    BY <1>2
  <2>3. p[b + 1] # HeadSentinel /\ p[a] # TailSentinel
    BY <1>1, <2>2
  <2>4. HeadSentinel \in Nodes \ S /\ TailSentinel \in Nodes \ S
    BY <1>6, <1>7, <2>2
  <2> HIDE DEF S, m
  <2> QED BY <2>1, <2>3, <2>4 DEF TakenOut, S
<1>12. Way(q, m, f)
  <2>1. q \in [0 .. m + 1 -> Nodes]
    <3>1. \A i \in 0 .. m + 1 : q[i] \in Nodes
      BY <1>6
    <3> QED BY <1>2, <3>1
  <2> HIDE DEF m
  <2> QED BY <2>1, <1>7, <1>8, <1>9, <1>10, <1>11 DEF Way
<1>13. Between(q, m) = Between(p, n) \ S
  <2>1. ASSUME NEW i \in 1 .. m PROVE q[i] \in Between(p, n) \ S
    <3>1. i \in 0 .. m + 1
      BY <1>2
    <3>2. q[i] \notin S
      BY <1>6, <3>1
    <3>3. CASE i <= a
      <4>1. i \in 0 .. a /\ i \in 1 .. n
        BY <3>3
      <4> QED BY <1>3, <3>2, <4>1 DEF Between
    <3>4. CASE i > a
      <4>1. i \in a + 1 .. m + 1 /\ i + (b - a) \in 1 .. n
        BY <3>4, <1>2
      <4> QED BY <1>3, <3>2, <4>1 DEF Between
    <3> QED BY <3>3, <3>4
  <2>2. ASSUME NEW i \in 1 .. n, p[i] \notin S PROVE p[i] \in Between(q, m)
    <3>1. i \in 0 .. n + 1
      OBVIOUS
    <3>2. i <= a \/ i > b
      BY <1>4, <2>2, <3>1
    <3>3. CASE i <= a
      <4>1. i \in 0 .. a /\ i \in 1 .. m
        BY <3>3, <1>2
      <4> QED BY <1>3, <4>1 DEF Between
    <3>4. CASE i > b
      <4>1. i - (b - a) \in a + 1 .. m + 1 /\ i - (b - a) \in 1 .. m /\ (i - (b - a)) + (b - a) = i
        BY <3>4, <1>2
      <4>2. q[i - (b - a)] = p[i]
        BY <1>3, <4>1
      <4> QED BY <4>1, <4>2 DEF Between
    <3> QED BY <3>2, <3>3, <3>4
  <2>3. \A x \in Between(q, m) : \E i \in 1 .. m : x = q[i]
    BY DEF Between
  <2>4. \A x \in Between(p, n) : \E i \in 1 .. n : x = p[i]
    BY DEF Between
  <2> HIDE DEF S, m
  <2> QED BY <2>1, <2>2, <2>3, <2>4
<1> QED BY <1>12, <1>13 DEF q

-----------------------------------------------------------------------------
(* Entries in use *)

\* The beginning of a list is in the list.
LEMMA PrefixHas ==
  ASSUME NEW S, NEW s \in Seq(S), NEW k \in Nat, k <= Len(s), NoRepeat(s)
  PROVE  /\ NoRepeat(SubSeq(s, 1, k)) /\ \A x : Has(SubSeq(s, 1, k), x) => Has(s, x)
<1> DEFINE t == SubSeq(s, 1, k)
<1>1. t \in Seq(S) /\ Len(t) = k /\ \A i \in 1 .. k : t[i] = s[i]
  BY PrefixFacts
<1> HIDE DEF t
<1>2. DOMAIN t = 1 .. k /\ DOMAIN s = 1 .. Len(s) /\ \A i \in 1 .. k : i \in 1 .. Len(s)
  BY <1>1
<1>3. NoRepeat(t)
  BY <1>1, <1>2 DEF NoRepeat
<1>4. \A x : Has(t, x) => Has(s, x)
  BY <1>1, <1>2 DEF Has
<1> QED BY <1>3, <1>4 DEF t

\* What Dropped does to spares and allocated entries
LEMMA DroppedFacts ==
  ASSUME NEW seq \in Seq(Entries), NoRepeat(seq), spareels \in Seq(Entries), NoRepeat(spareels),
         Len(spareels) <= MaxSpare, Apart(spareels, seq), Dropped(seq)
  PROVE  \E kept \in Seq(Entries) :
           /\ \A x : Has(kept, x) => Has(seq, x)
           /\ spareels' \in Seq(Entries) /\ NoRepeat(spareels') /\ Len(spareels') <= MaxSpare
           /\ \A x : Has(spareels', x) <=> Has(spareels, x) \/ Has(kept, x)
           /\ \A x : x \in allocated' <=> x \in allocated /\ (Has(seq, x) => Has(kept, x))
<1> DEFINE room == MaxSpare - Len(spareels)
           k == Min({room, Len(seq)})
           kept == SubSeq(seq, 1, k)
<1>1. room \in Nat /\ Len(seq) \in Nat /\ Len(spareels) \in Nat
  BY SimCListAssumption
<1>2. k \in Nat /\ k <= Len(seq) /\ k <= room
  <2>1. Min({room, Len(seq)}) = IF room <= Len(seq) THEN room ELSE Len(seq)
    BY <1>1, MinOfTwo
  <2> QED BY <1>1, <2>1
<1>3. spareels' = spareels \o kept /\ allocated' = allocated \ (ToSet(seq) \ ToSet(kept))
  BY DEF Dropped
<1> HIDE DEF k
<1>4. kept \in Seq(Entries) /\ Len(kept) = k
  BY <1>2, PrefixFacts
<1>5. NoRepeat(kept) /\ \A x : Has(kept, x) => Has(seq, x)
  BY <1>2, PrefixHas
<1> HIDE DEF kept
<1>6. Apart(spareels, kept)
  BY <1>5, ApartHas
<1>7. NoRepeat(spareels') /\ \A x : Has(spareels', x) <=> Has(spareels, x) \/ Has(kept, x)
  BY <1>3, <1>4, <1>5, <1>6, ConcatHas
<1>8. spareels' \in Seq(Entries) /\ Len(spareels') = Len(spareels) + k
  BY <1>2, <1>3, <1>4, ConcatProperties
<1>9. Len(spareels') <= MaxSpare
  BY <1>1, <1>2, <1>8, SimCListAssumption
<1>10. \A x : x \in allocated' <=> x \in allocated /\ (Has(seq, x) => Has(kept, x))
  BY <1>3, ToSetHas
<1> QED BY <1>4, <1>5, <1>7, <1>8, <1>9, <1>10

\* The entries of a part that is taken out of the way go to the spares or are freed.
LEMMA StockDropped ==
  ASSUME NEW p, NEW n, NEW q, NEW m, Stock(p, n, spareels, allocated),
         NEW seq \in Seq(Entries), NoRepeat(seq), ToSet(seq) \subseteq Between(p, n),
         Between(q, m) = Between(p, n) \ ToSet(seq), Dropped(seq)
  PROVE  Stock(q, m, spareels', allocated')
<1>1. /\ spareels \in Seq(Entries) /\ Len(spareels) <= MaxSpare /\ NoRepeat(spareels)
      /\ \A x : Has(spareels, x) => x \notin Between(p, n)
      /\ \A x : x \in allocated <=> x \in Between(p, n) \/ Has(spareels, x)
  BY ToSetHas DEF Stock
<1>2. \A x : Has(seq, x) <=> x \in ToSet(seq)
  BY ToSetHas
<1>3. Apart(spareels, seq)
  BY <1>1, <1>2, ApartHas
<1>4. PICK kept \in Seq(Entries) :
           /\ \A x : Has(kept, x) => Has(seq, x)
           /\ spareels' \in Seq(Entries) /\ NoRepeat(spareels') /\ Len(spareels') <= MaxSpare
           /\ \A x : Has(spareels', x) <=> Has(spareels, x) \/ Has(kept, x)
           /\ \A x : x \in allocated' <=> x \in allocated /\ (Has(seq, x) => Has(kept, x))
  BY <1>1, <1>3, DroppedFacts
<1>5. \A x : x \in Between(q, m) <=> x \in Between(p, n) /\ ~Has(seq, x)
  BY <1>2
<1>6. \A x : Has(spareels', x) => x \notin Between(q, m)
  BY <1>1, <1>4, <1>5
<1>7. \A x : x \in allocated' <=> x \in Between(q, m) \/ Has(spareels', x)
  BY <1>1, <1>2, <1>4, <1>5
<1>8. \A x : x \in allocated' <=> x \in Between(q, m) \/ x \in ToSet(spareels')
  BY <1>7, ToSetHas
<1>9. allocated' = Between(q, m) \cup ToSet(spareels')
  BY <1>8
<1> QED BY <1>4, <1>6, <1>9 DEF Stock

\* Each position of a way has an entry of its own.
LEMMA BetweenCounts ==
  ASSUME NEW n \in Nat, NEW p, NEW e, Way(p, n, e)
  PROVE  IsFiniteSet(Between(p, n)) /\ Cardinality(Between(p, n)) = n
<1> DEFINE B == Between(p, n)
           f == [i \in 1 .. n |-> p[i]]
<1>1. /\ \A i, j \in 0 .. n + 1 : p[i] = p[j] => i = j
  BY WayFacts
<1>2. \A i \in 1 .. n : i \in 0 .. n + 1
  OBVIOUS
<1>3. f \in [1 .. n -> B]
  BY DEF Between
<1>4. \A i, j \in 1 .. n : f[i] = f[j] => i = j
  BY <1>1, <1>2
<1>5. \A x \in B : \E i \in 1 .. n : f[i] = x
  BY DEF Between
<1> HIDE DEF f, B
<1>6. f \in Bijection(1 .. n, B)
  BY <1>3, <1>4, <1>5 DEF Bijection, Injection, Surjection, IsInjective
<1>7. ExistsBijection(1 .. n, B)
  BY <1>6 DEF ExistsBijection
<1>8. Cardinality(B) = n
  BY <1>7, FS_CountingElements
<1>9. IsFiniteSet(B)
  BY <1>7, FS_NatBijection
<1> QED BY <1>8, <1>9 DEF B

\* malloc finds a free entry while the list has room and no spares.
LEMMA FreeEntry ==
  ASSUME NEW n \in Nat, NEW p, NEW e, Way(p, n, e), n < MaxLen
  PROVE  Entries \ Between(p, n) # {}
<1>1. Cardinality(Between(p, n)) = n /\ Between(p, n) \subseteq Entries
  BY BetweenCounts, WayFacts
<1>2. SUFFICES ASSUME Entries \ Between(p, n) = {} PROVE FALSE
  OBVIOUS
<1>3. Entries = Between(p, n)
  BY <1>1, <1>2
<1>4. Cardinality(Entries) = n
  BY <1>1, <1>3
<1> QED BY <1>4, SimCListAssumption

\* The entry for an insertion, a spare one or a free one, is not in the list.
LEMMA TakenIsNew ==
  ASSUME NEW n \in Nat, n < MaxLen, NEW p, NEW e, Way(p, n, e),
         Stock(p, n, spareels, allocated),
         NEW new, new = IF spareels # << >> THEN Last(spareels) ELSE CHOOSE a \in Entries \ allocated : TRUE
  PROVE  new \in Entries /\ new \notin Between(p, n)
<1>1. /\ spareels \in Seq(Entries)
      /\ \A x : Has(spareels, x) => x \notin Between(p, n)
      /\ allocated = Between(p, n) \cup ToSet(spareels)
  BY DEF Stock
<1>2. CASE spareels # << >>
  <2>1. Len(spareels) \in DOMAIN spareels
    <3>1. Len(spareels) \in Nat \ {0} /\ DOMAIN spareels = 1 .. Len(spareels)
      BY <1>1, <1>2, EmptySeq
    <3> QED BY <3>1
  <2>2. new = spareels[Len(spareels)] /\ spareels[Len(spareels)] \in Entries
    BY <1>1, <1>2, <2>1 DEF Last
  <2>3. Has(spareels, spareels[Len(spareels)])
    BY <2>1, Zenon DEF Has
  <2> QED BY <1>1, <2>2, <2>3
<1>3. CASE spareels = << >>
  <2>1. ToSet(spareels) = {}
    BY <1>3, EmptyHas, ToSetHas
  <2>2. Entries \ allocated # {}
    BY <1>1, <2>1, FreeEntry
  <2>3. new \in Entries \ allocated
    BY <1>3, <2>2
  <2> QED BY <1>1, <2>3
<1> QED BY <1>2, <1>3

\* The way p becomes q with this entry, new, and the spares become sp.
Taking(p, n, e, q, m, new, sp) ==
  /\ n \in Nat /\ n < MaxLen /\ Way(p, n, e) /\ Stock(p, n, spareels, allocated)
  /\ new = IF spareels # << >> THEN Last(spareels) ELSE CHOOSE a \in Entries \ allocated : TRUE
  /\ Between(q, m) = Between(p, n) \cup {new}
  /\ sp = IF spareels # << >> THEN Front(spareels) ELSE spareels

LEMMA StockTaken ==
  ASSUME NEW p, NEW n, NEW e, NEW q, NEW m, NEW new, NEW sp, Taking(p, n, e, q, m, new, sp)
  PROVE  Stock(q, m, sp, allocated \cup {new})
<1> /\ n \in Nat /\ n < MaxLen /\ Way(p, n, e) /\ Stock(p, n, spareels, allocated)
    /\ new = IF spareels # << >> THEN Last(spareels) ELSE CHOOSE a \in Entries \ allocated : TRUE
    /\ Between(q, m) = Between(p, n) \cup {new}
    /\ sp = IF spareels # << >> THEN Front(spareels) ELSE spareels
  BY DEF Taking
<1>1. /\ spareels \in Seq(Entries) /\ Len(spareels) <= MaxSpare /\ NoRepeat(spareels)
      /\ \A x : Has(spareels, x) => x \notin Between(p, n)
      /\ allocated = Between(p, n) \cup ToSet(spareels)
  BY DEF Stock
<1>2. CASE spareels # << >>
  <2>1. /\ Len(spareels) \in Nat \ {0} /\ Front(spareels) \in Seq(Entries)
        /\ Len(Front(spareels)) = Len(spareels) - 1
        /\ \A i \in 1 .. Len(spareels) - 1 : Front(spareels)[i] = spareels[i]
    BY <1>1, <1>2, FrontFacts
  <2>2. new = spareels[Len(spareels)] /\ sp = Front(spareels)
    BY <1>2 DEF Last
  <2>3. DOMAIN spareels = 1 .. Len(spareels) /\ DOMAIN sp = 1 .. Len(spareels) - 1
    BY <1>1, <2>1, <2>2
  <2>4. /\ Len(spareels) \in 1 .. Len(spareels)
        /\ \A i \in 1 .. Len(spareels) - 1 : i \in 1 .. Len(spareels) /\ i # Len(spareels)
        /\ \A i \in 1 .. Len(spareels) : i \in 1 .. Len(spareels) - 1 \/ i = Len(spareels)
    BY <2>1
  <2>5. Has(spareels, new) /\ new \in Entries
    <3>1. spareels[Len(spareels)] \in Entries
      BY <1>1, <2>4
    <3>2. \E i \in DOMAIN spareels : spareels[i] = new
      BY <2>2, <2>3, <2>4, Zenon
    <3>3. Has(spareels, new)
      BY <3>2 DEF Has
    <3> QED BY <2>2, <3>1, <3>3
  <2>6. NoRepeat(sp) /\ ~Has(sp, new)
    BY <1>1, <2>1, <2>2, <2>3, <2>4 DEF NoRepeat, Has
  <2>7. \A x : Has(spareels, x) <=> Has(sp, x) \/ x = new
    <3> DEFINE l == Len(spareels)
    <3>1. \A i \in 1 .. l - 1 : sp[i] = spareels[i]
      BY <2>1, <2>2
    <3>2. spareels[l] = new /\ DOMAIN spareels = 1 .. l /\ DOMAIN sp = 1 .. l - 1
      BY <2>2, <2>3
    <3> HIDE DEF l
    <3>3. ASSUME NEW x, Has(spareels, x) PROVE Has(sp, x) \/ x = new
      <4>1. PICK i \in 1 .. l : spareels[i] = x
        BY <3>2, <3>3, Zenon DEF Has
      <4>2. CASE i \in 1 .. l - 1
        BY <3>1, <3>2, <4>1, <4>2, Zenon DEF Has
      <4>3. CASE i = l
        BY <3>2, <4>1, <4>3, Zenon
      <4> QED BY <2>4, <4>2, <4>3 DEF l
    <3>4. ASSUME NEW x, Has(sp, x) PROVE Has(spareels, x)
      <4>1. PICK i \in 1 .. l - 1 : sp[i] = x
        BY <3>2, <3>4, Zenon DEF Has
      <4>2. i \in 1 .. l
        BY <2>4, <4>1 DEF l
      <4> QED BY <3>1, <3>2, <4>1, <4>2, Zenon DEF Has
    <3> QED BY <2>5, <3>3, <3>4, Zenon
  <2>8. \A x : Has(sp, x) => x \notin Between(q, m)
    BY <1>1, <2>6, <2>7
  <2>9. allocated \cup {new} = Between(q, m) \cup ToSet(sp)
    <3>1. \A x : x \in allocated <=> x \in Between(p, n) \/ Has(spareels, x)
      BY <1>1, ToSetHas
    <3>2. \A x : x \in ToSet(sp) <=> Has(sp, x)
      BY ToSetHas
    <3> QED BY <2>7, <3>1, <3>2
  <2>10. Len(sp) <= MaxSpare
    BY <1>1, <2>1, <2>2, SimCListAssumption
  <2> QED BY <1>1, <2>1, <2>2, <2>5, <2>6, <2>8, <2>9, <2>10 DEF Stock
<1>3. CASE spareels = << >>
  <2>1. ToSet(spareels) = {} /\ \A x : ~Has(spareels, x)
    <3>1. \A x : ~Has(spareels, x)
      BY <1>3, EmptyHas
    <3> QED BY <3>1, ToSetHas
  <2>2. Entries \ allocated # {}
    BY <1>1, <2>1, FreeEntry
  <2>3. new \in Entries \ allocated /\ sp = spareels
    BY <1>3, <2>2
  <2>4. new \notin Between(p, n)
    BY <1>1, <2>3
  <2>5. allocated \cup {new} = Between(q, m) \cup ToSet(sp)
    BY <1>1, <2>3
  <2> QED BY <1>1, <2>1, <2>3, <2>4, <2>5 DEF Stock
<1> QED BY <1>2, <1>3

-----------------------------------------------------------------------------
(* Each step keeps the invariant *)

LEMMA LiveFacts ==
  ASSUME IInv, stage # "destroyed"
  PROVE  /\ numels \in Nat /\ numels <= MaxLen /\ AreEntries(entry)
         /\ \E p : Way(p, numels, entry) /\ Central(p, numels, mid) /\ Stock(p, numels, spareels, allocated)
BY SimCListAssumption DEF IInv

LEMMA LiveStep ==
  ASSUME stage' = "live", numels' \in Nat, numels' <= MaxLen, AreEntries(entry'),
         NEW q, Way(q, numels', entry'), Central(q, numels', mid'), Stock(q, numels', spareels', allocated')
  PROVE  IInv'
<1>1. numels' \in 0 .. MaxLen
  BY SimCListAssumption
<1> QED BY <1>1 DEF IInv

\* A list without elements
Short == [i \in 0 .. 1 |-> IF i = 0 THEN HeadSentinel ELSE TailSentinel]

LEMMA ShortWay ==
  ASSUME NEW e, e[HeadSentinel] = Entry(Null, TailSentinel, Null),
         e[TailSentinel] = Entry(Null, Null, HeadSentinel)
  PROVE  Way(Short, 0, e) /\ Between(Short, 0) = {}
<1>1. Short[0] = HeadSentinel /\ Short[1] = TailSentinel /\ Short \in [0 .. 1 -> Nodes]
  BY SentinelFacts DEF Short
<1>2. \A i, j \in 0 .. 1 : Short[i] = Short[j] => i = j
  BY <1>1, SentinelFacts
<1>3. e[HeadSentinel].next = TailSentinel /\ e[HeadSentinel].prev = Null
      /\ e[TailSentinel].next = Null /\ e[TailSentinel].prev = HeadSentinel
  BY DEF Entry
<1>4. \A i \in 0 .. 0 : e[Short[i]].next = Short[i + 1] /\ e[Short[i + 1]].prev = Short[i]
  BY <1>1, <1>3
<1>5. 0 .. 0 + 1 = 0 .. 1 /\ 0 + 1 = 1 /\ 1 .. 0 = {}
  OBVIOUS
<1>6. Way(Short, 0, e)
  BY <1>1, <1>2, <1>3, <1>4, <1>5 DEF Way
<1>7. Between(Short, 0) = {}
  BY <1>5 DEF Between
<1> QED BY <1>6, <1>7

LEMMA EmptyFacts ==
  /\ AreEntries(Empty) /\ Empty[HeadSentinel] = Entry(Null, TailSentinel, Null)
  /\ Empty[TailSentinel] = Entry(Null, Null, HeadSentinel)
<1>1. Empty = [a \in Nodes |-> IF a = HeadSentinel THEN Entry(Null, TailSentinel, Null)
                               ELSE IF a = TailSentinel THEN Entry(Null, Null, HeadSentinel) ELSE NoEntry]
  BY DEF Empty, Nodes
<1>2. Empty[HeadSentinel] = Entry(Null, TailSentinel, Null) /\ Empty[TailSentinel] = Entry(Null, Null, HeadSentinel)
  BY <1>1, SentinelFacts
<1>3. \A x, y, z : IsEntry(Entry(x, y, z))
  BY DEF IsEntry, Entry
<1>4. \A a \in Nodes : IsEntry(Empty[a])
  BY <1>1, <1>3 DEF NoEntry
<1>5. Empty = [a \in Nodes |-> Empty[a]]
  BY <1>1
<1> QED BY <1>2, <1>4, <1>5 DEF AreEntries

LEMMA InitIInv == Init => IInv
<1> SUFFICES ASSUME Init PROVE IInv
  OBVIOUS
<1>1. /\ stage = "raw" /\ entry = Empty /\ allocated = {} /\ mid = Null /\ numels = 0 /\ spareels = << >>
  BY DEF Init
<1>2. AreEntries(entry) /\ Way(Short, numels, entry) /\ Between(Short, numels) = {}
  BY <1>1, EmptyFacts, ShortWay
<1>3. Central(Short, numels, mid)
  BY <1>1 DEF Central
<1>4. Stock(Short, numels, spareels, allocated)
  <2>1. << >> \in Seq(Entries) /\ Len(<< >>) = 0 /\ NoRepeat(<< >>) /\ \A x : ~Has(<< >>, x)
    BY EmptySeq, EmptyHas
  <2>2. ToSet(<< >>) = {}
    BY <2>1, ToSetHas
  <2> QED BY <1>1, <1>2, <2>1, <2>2, SimCListAssumption DEF Stock
<1>5. numels \in 0 .. MaxLen
  BY <1>1, SimCListAssumption
<1> QED BY <1>1, <1>2, <1>3, <1>4, <1>5 DEF IInv

\* Positions around the middle
LEMMA HalfFacts ==
  ASSUME NEW n \in Nat
  PROVE  \/ n = 0
         \/ \E h \in Nat : n = 2 * h + 1 /\ (n - 1) \div 2 = h /\ n \div 2 = h /\ n % 2 = 1
         \/ \E h \in Nat : n = 2 * h + 2 /\ (n - 1) \div 2 = h /\ n \div 2 = h + 1 /\ n % 2 = 0
<1>1. n \div 2 \in Nat /\ (n = 2 * (n \div 2) \/ n = 2 * (n \div 2) + 1)
  OBVIOUS
<1>2. CASE n = 2 * (n \div 2) + 1
  <2>1. (n - 1) \div 2 = n \div 2 /\ n % 2 = 1
    BY <1>2
  <2> QED BY <1>1, <1>2, <2>1
<1>3. CASE n = 2 * (n \div 2) /\ n # 0
  <2> DEFINE h == n \div 2 - 1
  <2>1. h \in Nat /\ n = 2 * h + 2 /\ n \div 2 = h + 1 /\ n % 2 = 0
    BY <1>1, <1>3
  <2>2. (n - 1) \div 2 = h
    BY <2>1
  <2> QED BY <2>1, <2>2
<1> QED BY <1>1, <1>2, <1>3

\* The middle after an insertion
LEMMA InsertCentral ==
  ASSUME NEW p, NEW q, NEW e, NEW f, NEW pos \in 0 .. numels, NEW new, numels \in Nat,
         Central(p, numels, mid), Way(q, numels + 1, f), q = Inserted(p, numels, pos, new)
  PROVE  Central(q, numels + 1, MidAfterInsert(f, new, pos, numels + 1))
<1> DEFINE n == numels
           m == MidAfterInsert(f, new, pos, n + 1)
<1>1. /\ \A i \in 0 .. n + 1 : i <= pos => q[i] = p[i]
      /\ q[pos + 1] = new
      /\ \A i \in 0 .. n + 1 : i > pos => q[i + 1] = p[i]
  BY DEF Inserted
<1>2. \A i \in 0 .. n + 1 : f[q[i]].next = q[i + 1] /\ f[q[i + 1]].prev = q[i]
  BY DEF Way
<1>3. CASE n = 0
  <2>1. pos = 0 /\ (n + 1 - 1) \div 2 + 1 = 1 /\ n + 1 # 0 /\ n + 1 = 1
    BY ONLY <1>3, pos \in 0 .. n
  <2>2. m = new
    BY <2>1 DEF MidAfterInsert
  <2> HIDE DEF m
  <2>3. m = q[1]
    BY <1>1, <2>1, <2>2
  <2>4. Central(q, n + 1, m)
    BY ONLY n \in Nat, <1>3, <2>1, <2>3 DEF Central
  <2> QED BY ONLY <2>4 DEF m
<1>4. ASSUME NEW h \in Nat, n = 2 * h + 1, (n - 1) \div 2 = h PROVE Central(q, n + 1, m)
  <2>1. mid = p[h + 1]
    BY <1>4 DEF Central
  <2>2. (n + 1 - 1) \div 2 = h /\ (n + 1) % 2 = 0 /\ n + 1 # 0 /\ n + 1 # 1
    BY <1>4
  <2>3. m = IF pos <= h THEN f[mid].prev ELSE mid
    BY <2>2 DEF MidAfterInsert
  <2>4. h + 1 \in 0 .. n + 1 /\ (h + 1) + 1 = h + 2
    BY <1>4
  <2>5. CASE pos <= h
    <3>1. q[h + 2] = p[h + 1]
      BY <1>1, <2>4, <2>5
    <3>2. f[q[h + 2]].prev = q[h + 1]
      BY <1>2, <2>4
    <3> QED BY <2>1, <2>2, <2>3, <2>5, <3>1, <3>2 DEF Central
  <2>6. CASE ~ (pos <= h)
    <3>1. q[h + 1] = p[h + 1]
      BY <1>1, <2>4, <2>6
    <3> QED BY <2>1, <2>2, <2>3, <2>6, <3>1 DEF Central
  <2> QED BY <2>5, <2>6
<1>5. ASSUME NEW h \in Nat, n = 2 * h + 2, (n - 1) \div 2 = h PROVE Central(q, n + 1, m)
  <2>1. mid = p[h + 1]
    BY <1>5 DEF Central
  <2>2. (n + 1 - 1) \div 2 = h + 1 /\ (n + 1) % 2 = 1 /\ n + 1 # 0 /\ n + 1 # 1
    BY <1>5
  <2>3. m = IF pos >= h + 1 THEN f[mid].next ELSE mid
    BY <2>2 DEF MidAfterInsert
  <2>4. h + 1 \in 0 .. n + 1 /\ (h + 1) + 1 = h + 2
    BY <1>5
  <2>5. CASE pos >= h + 1
    <3>1. q[h + 1] = p[h + 1]
      BY <1>1, <2>4, <2>5
    <3>2. f[q[h + 1]].next = q[h + 2]
      BY <1>2, <2>4
    <3> QED BY <2>1, <2>2, <2>3, <2>4, <2>5, <3>1, <3>2 DEF Central
  <2>6. CASE ~ (pos >= h + 1)
    <3>1. q[h + 2] = p[h + 1]
      BY <1>1, <2>4, <2>6
    <3> QED BY <2>1, <2>2, <2>3, <2>4, <2>6, <3>1 DEF Central
  <2> QED BY <2>5, <2>6
<1> QED BY <1>3, <1>4, <1>5, HalfFacts

LEMMA InsertKeeps ==
  ASSUME IInv, NEW d \in Data, NEW pos \in 0 .. numels, ListInsertAt(d, pos)
  PROVE  IInv' /\ Becomes(WithInserted(ContentsOf(numels, entry), numels, pos, d))
<1> DEFINE n == numels
           new == IF spareels # << >> THEN Last(spareels) ELSE CHOOSE a \in Entries \ allocated : TRUE
           sp == IF spareels # << >> THEN Front(spareels) ELSE spareels
           prec == FindPos(pos - 1)
           succ == entry[prec].next
           f == [entry EXCEPT ![new] = Entry(d, succ, prec), ![prec].next = new, ![succ].prev = new]
<1>1. stage = "live" /\ n < MaxLen
  BY DEF ListInsertAt, Room
<1>2. /\ entry' = f /\ spareels' = sp /\ allocated' = allocated \cup {new} /\ numels' = n + 1
      /\ mid' = MidAfterInsert(f, new, pos, n + 1) /\ stage' = stage
  BY DEF ListInsertAt
<1>3. n \in Nat /\ AreEntries(entry)
  BY <1>1, LiveFacts
<1>4. PICK p : Way(p, n, entry) /\ Central(p, n, mid) /\ Stock(p, n, spareels, allocated)
  BY <1>1, LiveFacts
<1> DEFINE q == Inserted(p, n, pos, new)
<1>5. prec = p[pos] /\ succ = p[pos + 1]
  <2>1. pos - 1 \in Int /\ -1 <= pos - 1 /\ pos - 1 <= n /\ (pos - 1) + 1 = pos
    BY <1>3
  <2>2. prec = p[pos]
    BY <1>3, <1>4, <2>1, Found
  <2>3. entry[p[pos]].next = p[pos + 1]
    BY <1>3, <1>4, WayFacts
  <2> QED BY <2>2, <2>3
<1> HIDE DEF new, sp, prec, succ
<1>6. new = (IF spareels # << >> THEN Last(spareels) ELSE CHOOSE a \in Entries \ allocated : TRUE)
      /\ sp = (IF spareels # << >> THEN Front(spareels) ELSE spareels)
  BY DEF new, sp
<1>7. new \in Entries /\ new \notin Between(p, n)
  BY <1>1, <1>3, <1>4, <1>6, TakenIsNew
<1>8. pos \in 0 .. n + 1 /\ pos + 1 \in 0 .. n + 1 /\ pos # pos + 1
  BY <1>3
<1>9. LinkedBetween(entry, f, new, p[pos], p[pos + 1]) /\ DatumAt(entry, f, new, d)
  <2>1. /\ p[pos] \in Nodes /\ p[pos + 1] \in Nodes /\ p[pos] # p[pos + 1] /\ new \in Nodes
    BY <1>3, <1>4, <1>7, <1>8, WayFacts, SentinelFacts
  <2>2. \A i \in 0 .. n + 1 : p[i] # new
    <3>1. \A i \in 0 .. n + 1 : i = 0 \/ i = n + 1 \/ i \in 1 .. n
      BY <1>3
    <3>2. \A i \in 1 .. n : p[i] # new
      BY <1>7 DEF Between
    <3> QED BY <1>3, <1>4, <1>7, <3>1, <3>2, WayFacts, SentinelFacts
  <2> QED BY <1>3, <1>5, <1>8, <2>1, <2>2, LinkFields, LinkData
<1>15. \A a \in Nodes : f[a].data = IF a = new THEN d ELSE entry[a].data
  BY <1>9 DEF DatumAt
<1> HIDE DEF f
<1>10. Way(q, n + 1, f) /\ Between(q, n + 1) = Between(p, n) \cup {new}
  <2>1. Inserting(p, n, entry, f, pos, new)
    BY <1>3, <1>4, <1>7, <1>9 DEF Inserting
  <2> HIDE DEF n
  <2> QED BY <2>1, InsertWay
<1>11. Stock(q, n + 1, sp, allocated \cup {new})
  <2> HIDE DEF q
  <2>1. Taking(p, n, entry, q, n + 1, new, sp)
    BY <1>1, <1>3, <1>4, <1>6, <1>10 DEF Taking
  <2> HIDE DEF n
  <2> QED BY <2>1, StockTaken
<1>12. Central(q, n + 1, MidAfterInsert(f, new, pos, n + 1))
  BY <1>3, <1>4, <1>10, InsertCentral
<1>13. AreEntries(f)
  BY <1>9 DEF LinkedBetween
<1>14. n + 1 \in Nat /\ n + 1 <= MaxLen
  BY <1>1, <1>3, SimCListAssumption
<1>16. Listing(q, n + 1, f) = WithInserted(Listing(p, n, entry), n, pos, d)
  <2>1. new \in Nodes
    BY <1>7, SentinelFacts
  <2> HIDE DEF n
  <2> QED BY <1>3, <1>4, <1>7, <1>15, <2>1, InsertData DEF n
<1> HIDE DEF q
<1>17. IInv'
  BY <1>1, <1>2, <1>10, <1>11, <1>12, <1>13, <1>14, LiveStep
<1>18. ContentsOf(numels', entry') = WithInserted(ContentsOf(numels, entry), numels, pos, d)
  <2>1. ContentsOf(n, entry) = Listing(p, n, entry)
    BY <1>3, <1>4, ListingIs
  <2>2. ContentsOf(n + 1, f) = Listing(q, n + 1, f)
    BY <1>10, <1>14, ListingIs
  <2> QED BY <1>2, <1>16, <2>1, <2>2
<1>19. IsTyped(entry) => IsTyped(entry')
  <2>1. p[pos] \in Nodes /\ p[pos + 1] \in Nodes /\ new \in Nodes
    BY <1>3, <1>4, <1>7, <1>8, WayFacts, SentinelFacts
  <2> QED BY <1>2, <1>9, <1>15, <2>1 DEF IsTyped, LinkedBetween
<1> QED BY <1>17, <1>18, <1>19 DEF Becomes

\* Positions a + 1 to b are taken out of the way p.
Removing(p, n, a, b) ==
  /\ n \in Nat /\ AreEntries(entry) /\ Way(p, n, entry) /\ Stock(p, n, spareels, allocated)
  /\ a \in Nat /\ b \in Nat /\ a < b /\ b <= n

\* What a removal does to entries and spares
LEMMA RemoveWay ==
  ASSUME NEW p, NEW n, NEW a, NEW b, Removing(p, n, a, b), NEW seq,
         seq = [i \in 1 .. b - a |-> p[a + i]],
         NEW f, f = Unlinked(p[a + 1], p[b], ToSet(seq)), Dropped(seq)
  PROVE  /\ AreEntries(f) /\ Way(Cut(p, n, a, b), n - (b - a), f)
         /\ Stock(Cut(p, n, a, b), n - (b - a), spareels', allocated')
         /\ IsTyped(entry) => IsTyped(f)
         /\ Listing(Cut(p, n, a, b), n - (b - a), f) = Without(Listing(p, n, entry), n, a, b)
<1> /\ n \in Nat /\ AreEntries(entry) /\ Way(p, n, entry) /\ Stock(p, n, spareels, allocated)
    /\ a \in Nat /\ b \in Nat /\ a < b /\ b <= n
  BY DEF Removing
<1>1. /\ \A i, j \in 0 .. n + 1 : p[i] = p[j] => i = j
      /\ \A i \in 1 .. n : p[i] \in Entries
      /\ \A i \in 0 .. n : entry[p[i]].next = p[i + 1]
      /\ \A i \in 0 .. n : entry[p[i + 1]].prev = p[i]
  BY WayFacts
<1>2. entry[p[a + 1]].prev = p[a] /\ entry[p[b]].next = p[b + 1]
  <2>1. a \in 0 .. n /\ b \in 0 .. n
    OBVIOUS
  <2> QED BY <1>1, <2>1
<1>3. seq \in Seq(Entries) /\ DOMAIN seq = 1 .. b - a /\ \A i \in 1 .. b - a : seq[i] = p[a + i]
  <2>1. \A i \in 1 .. b - a : a + i \in 1 .. n
    OBVIOUS
  <2>2. b - a \in Nat
    OBVIOUS
  <2>3. \A i \in 1 .. b - a : p[a + i] \in Entries
    BY <1>1, <2>1
  <2> QED BY <2>2, <2>3
<1>4. NoRepeat(seq)
  <2>1. ASSUME NEW i \in 1 .. b - a, NEW j \in 1 .. b - a, seq[i] = seq[j] PROVE i = j
    <3>1. a + i \in 0 .. n + 1 /\ a + j \in 0 .. n + 1
      OBVIOUS
    <3>2. a + i = a + j
      BY <1>1, <1>3, <2>1, <3>1
    <3> QED BY <3>2
  <2> QED BY <1>3, <2>1 DEF NoRepeat
<1>5. ToSet(seq) = Part(p, a + 1, b)
  <2>1. ASSUME NEW i \in 1 .. b - a PROVE seq[i] \in Part(p, a + 1, b)
    <3>1. a + i \in a + 1 .. b
      OBVIOUS
    <3> QED BY <1>3, <3>1 DEF Part
  <2>2. ASSUME NEW k \in a + 1 .. b PROVE \E i \in 1 .. b - a : seq[i] = p[k]
    <3>1. k - a \in 1 .. b - a /\ a + (k - a) = k
      OBVIOUS
    <3> QED BY <1>3, <3>1
  <2>3. \A x : x \in ToSet(seq) <=> \E i \in 1 .. b - a : seq[i] = x
    BY <1>3, ToSetHas DEF Has
  <2>4. \A x : x \in Part(p, a + 1, b) <=> \E k \in a + 1 .. b : x = p[k]
    BY DEF Part
  <2>5. ASSUME NEW x \in ToSet(seq) PROVE x \in Part(p, a + 1, b)
    <3>1. PICK i \in 1 .. b - a : seq[i] = x
      BY <2>3
    <3> HIDE DEF Part
    <3> QED BY <2>1, <3>1
  <2>6. ASSUME NEW x \in Part(p, a + 1, b) PROVE x \in ToSet(seq)
    <3>1. PICK k \in a + 1 .. b : x = p[k]
      BY <2>4
    <3>2. PICK i \in 1 .. b - a : seq[i] = p[k]
      BY <2>2
    <3> QED BY <2>3, <3>1, <3>2
  <2> QED BY <2>5, <2>6
<1>6. TakenOut(entry, f, p[a], p[b + 1], Part(p, a + 1, b))
  <2>1. TakenOut(entry, Unlinked(p[a + 1], p[b], ToSet(seq)), entry[p[a + 1]].prev, entry[p[b]].next, ToSet(seq))
    BY UnlinkFields
  <2> QED BY <1>2, <1>5, <2>1
<1>7. /\ Way(Cut(p, n, a, b), n - (b - a), f)
      /\ Between(Cut(p, n, a, b), n - (b - a)) = Between(p, n) \ Part(p, a + 1, b)
  <2>1. Cutting(p, n, entry, f, a, b)
    BY <1>6 DEF Cutting
  <2> QED BY <2>1, CutWay
<1>8. Part(p, a + 1, b) \subseteq Between(p, n)
  <2>1. \A k \in a + 1 .. b : k \in 1 .. n
    OBVIOUS
  <2> QED BY <2>1 DEF Part, Between
<1>9. Stock(Cut(p, n, a, b), n - (b - a), spareels', allocated')
  <2> DEFINE q == Cut(p, n, a, b)
             m == n - (b - a)
  <2> HIDE DEF q, m
  <2>1. Between(q, m) = Between(p, n) \ ToSet(seq)
    BY <1>5, <1>7 DEF q, m
  <2>2. Stock(q, m, spareels', allocated')
    BY <1>3, <1>4, <1>5, <1>8, <2>1, StockDropped
  <2> QED BY <2>2 DEF q, m
<1>10. AreEntries(f)
  BY <1>6 DEF TakenOut
<1>11. Trimmed(entry, f, Part(p, a + 1, b))
  <2>1. a + 1 \in 0 .. n + 1 /\ b \in 0 .. n + 1
    OBVIOUS
  <2>2. p[a + 1] \in Nodes /\ p[b] \in Nodes
    BY <2>1, WayFacts
  <2>3. Trimmed(entry, Unlinked(p[a + 1], p[b], ToSet(seq)), ToSet(seq))
    BY <2>2, UnlinkData
  <2> QED BY <1>5, <2>3
<1>12. Listing(Cut(p, n, a, b), n - (b - a), f) = Without(Listing(p, n, entry), n, a, b)
  BY <1>11, CutData
<1>13. IsTyped(entry) => IsTyped(f)
  BY <1>11 DEF Trimmed
<1> QED BY <1>7, <1>9, <1>10, <1>12, <1>13

\* The middle, when the entry at pos is dropped
LEMMA DropCentral ==
  ASSUME NEW p, NEW pos \in Nat, numels \in Nat, pos < numels,
         Way(p, numels, entry), Central(p, numels, mid)
  PROVE  Central(Cut(p, numels, pos, pos + 1), numels - 1, MidBeforeDrop(pos))
<1> DEFINE n == numels
           q == Cut(p, n, pos, pos + 1)
           m == MidBeforeDrop(pos)
<1>1. /\ \A i \in 0 .. n : i <= pos => q[i] = p[i]
      /\ \A i \in 0 .. n : i > pos => q[i] = p[i + 1]
  BY DEF Cut
<1>2. \A i \in 0 .. n : entry[p[i]].next = p[i + 1] /\ entry[p[i + 1]].prev = p[i]
  BY DEF Way
<1>3. CASE n = 1
  BY <1>3 DEF Central, MidBeforeDrop
<1>4. ASSUME NEW h \in Nat, n = 2 * h + 1, (n - 1) \div 2 = h, n \div 2 = h, n % 2 = 1, n # 1
      PROVE  Central(q, n - 1, m)
  <2>1. mid = p[h + 1]
    BY <1>4 DEF Central
  <2>2. (n - 1 - 1) \div 2 + 1 = h /\ n - 1 # 0
    BY <1>4
  <2>3. m = IF pos >= h THEN entry[mid].prev ELSE mid
    BY <1>4 DEF MidBeforeDrop
  <2>4. h \in 0 .. n /\ h + 1 \in 0 .. n
    BY <1>4
  <2>5. CASE pos >= h
    <3>1. q[h] = p[h]
      BY <1>1, <2>4, <2>5
    <3>2. entry[p[h + 1]].prev = p[h]
      BY <1>2, <2>4
    <3> QED BY <2>1, <2>2, <2>3, <2>5, <3>1, <3>2 DEF Central
  <2>6. CASE ~ (pos >= h)
    <3>1. q[h] = p[h + 1]
      BY <1>1, <2>4, <2>6
    <3> QED BY <2>1, <2>2, <2>3, <2>6, <3>1 DEF Central
  <2> QED BY <2>5, <2>6
<1>5. ASSUME NEW h \in Nat, n = 2 * h + 2, (n - 1) \div 2 = h, n \div 2 = h + 1, n % 2 = 0
      PROVE  Central(q, n - 1, m)
  <2>1. mid = p[h + 1]
    BY <1>5 DEF Central
  <2>2. (n - 1 - 1) \div 2 + 1 = h + 1 /\ n - 1 # 0 /\ n # 1 /\ n % 2 # 1
    BY <1>5
  <2>3. m = IF pos < h + 1 THEN entry[mid].next ELSE mid
    BY <1>5, <2>2 DEF MidBeforeDrop
  <2>4. h + 1 \in 0 .. n /\ (h + 1) + 1 = h + 2
    BY <1>5
  <2>5. CASE pos < h + 1
    <3>1. q[h + 1] = p[h + 2]
      BY <1>1, <2>4, <2>5
    <3>2. entry[p[h + 1]].next = p[h + 2]
      BY <1>2, <2>4
    <3> QED BY <2>1, <2>2, <2>3, <2>5, <3>1, <3>2 DEF Central
  <2>6. CASE ~ (pos < h + 1)
    <3>1. q[h + 1] = p[h + 1]
      BY <1>1, <2>4, <2>6
    <3> QED BY <2>1, <2>2, <2>3, <2>6, <3>1 DEF Central
  <2> QED BY <2>5, <2>6
<1> QED BY <1>3, <1>4, <1>5, HalfFacts

LEMMA DropAtKeeps ==
  ASSUME IInv, NEW pos \in Nat, DropAt(pos)
  PROVE  IInv' /\ Becomes(Without(ContentsOf(numels, entry), numels, pos, pos + 1))
<1> DEFINE n == numels
           x == FindPos(pos)
<1>1. /\ stage = "live" /\ stage' = "live" /\ pos < n /\ mid' = MidBeforeDrop(pos)
      /\ entry' = Unlinked(x, x, {x}) /\ Dropped(<<x>>) /\ numels' = n - 1
  BY DEF DropAt
<1>2. n \in Nat /\ n <= MaxLen /\ AreEntries(entry)
  BY <1>1, LiveFacts
<1>3. PICK p : Way(p, n, entry) /\ Central(p, n, mid) /\ Stock(p, n, spareels, allocated)
  BY <1>1, LiveFacts
<1>4. x = p[pos + 1]
  <2>1. pos \in Int /\ -1 <= pos /\ pos <= n
    BY <1>1, <1>2
  <2> QED BY <1>2, <1>3, <2>1, Found
<1> HIDE DEF x
<1> DEFINE q == Cut(p, n, pos, pos + 1)
           seq == [i \in 1 .. (pos + 1) - pos |-> p[pos + i]]
<1>5. seq = <<x>> /\ ToSet(seq) = {x}
  <2>1. (pos + 1) - pos = 1
    OBVIOUS
  <2>2. seq = [i \in 1 .. 1 |-> p[pos + i]]
    BY <2>1
  <2> HIDE DEF seq
  <2>3. seq = <<x>>
    BY <1>4, <2>2
  <2>4. \A y : y \in ToSet(<<x>>) <=> y = x
    BY SingleHas, ToSetHas
  <2> QED BY <2>3, <2>4
<1>6. Removing(p, n, pos, pos + 1)
  BY <1>1, <1>2, <1>3 DEF Removing
<1>7. /\ AreEntries(entry') /\ Way(q, n - ((pos + 1) - pos), entry')
      /\ Stock(q, n - ((pos + 1) - pos), spareels', allocated') /\ (IsTyped(entry) => IsTyped(entry'))
      /\ Listing(q, n - ((pos + 1) - pos), entry') = Without(Listing(p, n, entry), n, pos, pos + 1)
  <2>1. Dropped(seq) /\ entry' = Unlinked(p[pos + 1], p[pos + 1], ToSet(seq))
    BY <1>1, <1>4, <1>5
  <2> DEFINE b == pos + 1
  <2>2. Removing(p, n, pos, b) /\ Dropped(seq) /\ entry' = Unlinked(p[pos + 1], p[b], ToSet(seq))
        /\ seq = [i \in 1 .. b - pos |-> p[pos + i]]
    BY <1>6, <2>1
  <2> HIDE DEF n, b, seq, q
  <2>3. /\ AreEntries(entry') /\ Way(Cut(p, n, pos, b), n - (b - pos), entry')
        /\ Stock(Cut(p, n, pos, b), n - (b - pos), spareels', allocated') /\ (IsTyped(entry) => IsTyped(entry'))
        /\ Listing(Cut(p, n, pos, b), n - (b - pos), entry') = Without(Listing(p, n, entry), n, pos, b)
    BY <2>2, RemoveWay
  <2> QED BY <2>3 DEF b, q
<1>8. n - ((pos + 1) - pos) = n - 1 /\ n - 1 \in Nat /\ n - 1 <= MaxLen
  BY <1>1, <1>2, SimCListAssumption
<1>9. Central(q, n - 1, mid')
  BY <1>1, <1>2, <1>3, DropCentral
<1> HIDE DEF q
<1>10. IInv'
  BY <1>1, <1>7, <1>8, <1>9, LiveStep
<1>11. ContentsOf(n, entry) = Listing(p, n, entry)
  BY <1>2, <1>3, ListingIs
<1>12. ContentsOf(n - 1, entry') = Listing(q, n - 1, entry')
  BY <1>7, <1>8, ListingIs
<1> QED BY <1>1, <1>7, <1>8, <1>10, <1>11, <1>12 DEF Becomes

\* list_delete drops a position at which there is an element.
LEMMA DeleteKeeps ==
  ASSUME IInv, NEW d, NEW comparator, Delete(d, comparator)
  PROVE  IInv' /\ \E pos \in 0 .. numels - 1 :
                    /\ stage = "live" /\ ~iter_active
                    /\ Becomes(Without(ContentsOf(numels, entry), numels, pos, pos + 1))
<1> DEFINE pos == IF comparator THEN LocateEqual(d) ELSE Locate(d)
<1>1. pos >= 0 /\ DropAt(pos)
  BY DEF Delete, DeleteAt
<1>2. numels \in Nat
  BY SimCListAssumption DEF IInv
<1>3. pos \in Int
  <2>1. DOMAIN Contents = 1 .. numels
    BY DEF Contents
  <2>2. \A T \in SUBSET (1 .. numels) : T # {} => Min(T) \in 1 .. numels
    <3>1. 1 .. numels \subseteq Nat
      BY <1>2
    <3> QED BY <3>1, MinMember
  <2>3. LocateEqual(d) \in Int
    <3> DEFINE T == {i \in DOMAIN Contents : Compare(d, Contents[i]) = 0}
    <3>1. LocateEqual(d) = IF T = {} THEN -1 ELSE Min(T) - 1
      BY DEF LocateEqual, FirstWhere
    <3>2. T \in SUBSET (1 .. numels)
      BY <2>1
    <3> HIDE DEF T
    <3>3. T # {} => Min(T) \in Int
      BY <1>2, <2>2, <3>2
    <3> QED BY <3>1, <3>3
  <2>4. Locate(d) \in Int
    <3> DEFINE T == {i \in DOMAIN Contents : Contents[i] = d}
    <3>1. Locate(d) = IF T = {} THEN -1 ELSE Min(T) - 1
      BY DEF Locate, FirstWhere
    <3>2. T \in SUBSET (1 .. numels)
      BY <2>1
    <3> HIDE DEF T
    <3>3. T # {} => Min(T) \in Int
      BY <1>2, <2>2, <3>2
    <3> QED BY <3>1, <3>3
  <2> QED BY <2>3, <2>4
<1> HIDE DEF pos
<1>4. pos \in Nat
  BY <1>1, <1>3
<1>5. pos \in 0 .. numels - 1 /\ stage = "live" /\ ~iter_active
  BY <1>1, <1>2, <1>4 DEF DropAt
<1>6. IInv' /\ Becomes(Without(ContentsOf(numels, entry), numels, pos, pos + 1))
  BY <1>1, <1>4, DropAtKeeps
<1> QED BY <1>5, <1>6

LEMMA ClearKeeps ==
  ASSUME IInv, stage = "live", Clear
  PROVE  IInv' /\ Becomes(<< >>)
<1> DEFINE n == numels
           all == [i \in 1 .. n |-> Follow("next", HeadSentinel, i)]
           u == Unlinked(HeadSentinel, HeadSentinel, ToSet(all))
<1>1. /\ entry' = [u EXCEPT ![HeadSentinel] = Entry(Null, TailSentinel, Null),
                            ![TailSentinel] = Entry(Null, Null, HeadSentinel)]
      /\ Dropped(all) /\ numels' = 0 /\ mid' = Null /\ stage' = "live"
  BY DEF Clear
<1>2. n \in Nat /\ n <= MaxLen /\ AreEntries(entry)
  BY LiveFacts
<1>3. PICK p : Way(p, n, entry) /\ Central(p, n, mid) /\ Stock(p, n, spareels, allocated)
  BY LiveFacts
<1>4. all = [i \in 1 .. n |-> p[i]]
  <2>1. \A i \in 0 .. n + 1 : Follow("next", HeadSentinel, i) = p[i]
    BY <1>2, <1>3, Met
  <2>2. \A i \in 1 .. n : i \in 0 .. n + 1
    BY <1>2
  <2> QED BY <2>1, <2>2
<1>5. AreEntries(u)
  BY <1>2, UnlinkFields DEF TakenOut
<1>14. IsTyped(entry) => IsTyped(u)
  BY <1>2, SentinelFacts, UnlinkData DEF Trimmed
<1> HIDE DEF all, u
<1>6. AreEntries(entry') /\ (IsTyped(entry) => IsTyped(entry')) /\ entry'[HeadSentinel] = Entry(Null, TailSentinel, Null)
      /\ entry'[TailSentinel] = Entry(Null, Null, HeadSentinel)
  <2>1. \A a \in Nodes : entry'[a] = IF a = TailSentinel THEN Entry(Null, Null, HeadSentinel)
                                     ELSE IF a = HeadSentinel THEN Entry(Null, TailSentinel, Null) ELSE u[a]
    BY <1>1, <1>5 DEF AreEntries
  <2>2. entry' = [a \in Nodes |-> entry'[a]]
    BY <1>1, <1>5 DEF AreEntries
  <2>3. \A x, y, z : IsEntry(Entry(x, y, z))
    BY DEF IsEntry, Entry
  <2>4. \A a \in Nodes : IsEntry(u[a])
    BY <1>5 DEF AreEntries
  <2>5. \A a \in Nodes : IsEntry(entry'[a])
    BY <2>1, <2>3, <2>4
  <2>6. ASSUME IsTyped(entry) PROVE IsTyped(entry')
    <3>1. \A x, y, z : Entry(x, y, z).data = x /\ Entry(x, y, z).next = y /\ Entry(x, y, z).prev = z
      BY DEF Entry
    <3> QED BY <1>14, <2>1, <2>6, <3>1, SentinelFacts DEF IsTyped
  <2> QED BY <2>1, <2>2, <2>5, <2>6, SentinelFacts DEF AreEntries
<1>7. Way(Short, 0, entry') /\ Between(Short, 0) = {}
  BY <1>6, ShortWay
<1>8. all \in Seq(Entries) /\ DOMAIN all = 1 .. n /\ \A i \in 1 .. n : all[i] = p[i]
  <2>1. \A i \in 1 .. n : p[i] \in Entries
    BY <1>2, <1>3, WayFacts
  <2> QED BY <1>2, <1>4, <2>1
<1>9. NoRepeat(all)
  <2>1. \A i, j \in 0 .. n + 1 : p[i] = p[j] => i = j
    BY <1>2, <1>3, WayFacts
  <2>2. \A i \in 1 .. n : i \in 0 .. n + 1
    BY <1>2
  <2> QED BY <1>8, <2>1, <2>2 DEF NoRepeat
<1>10. ToSet(all) = Between(p, n)
  <2>1. \A x : x \in ToSet(all) <=> \E i \in 1 .. n : all[i] = x
    <3>1. DOMAIN all = 1 .. n
      BY <1>8
    <3> QED BY <3>1, ToSetHas DEF Has
  <2>2. \A x : x \in ToSet(all) <=> \E i \in 1 .. n : p[i] = x
    <3>1. \A i \in 1 .. n : all[i] = p[i]
      BY <1>8
    <3> QED BY <2>1, <3>1
  <2> QED BY <2>2 DEF Between
<1>11. Stock(Short, 0, spareels', allocated')
  <2>1. Between(Short, 0) = Between(p, n) \ ToSet(all) /\ ToSet(all) \subseteq Between(p, n)
    BY <1>7, <1>10
  <2> QED BY <1>1, <1>3, <1>8, <1>9, <2>1, StockDropped
<1>12. Central(Short, 0, mid')
  BY <1>1 DEF Central
<1>13. 0 \in Nat /\ 0 <= MaxLen
  BY SimCListAssumption
<1>15. IInv'
  BY <1>1, <1>6, <1>7, <1>11, <1>12, <1>13, LiveStep
<1>16. ContentsOf(numels', entry') = << >>
  BY <1>1 DEF ContentsOf
<1> QED BY <1>6, <1>15, <1>16 DEF Becomes

\* The middle moves from where it is by any number of entries.
LEMMA MidMoves ==
  ASSUME numels \in Nat, numels > 0, NEW p, Way(p, numels, entry), Central(p, numels, mid),
         NEW target \in 0 .. numels - 1, NEW moves, moves = target - (numels - 1) \div 2
  PROVE  (IF moves > 0 THEN Follow("next", mid, moves) ELSE Follow("prev", mid, -moves)) = p[target + 1]
<1> DEFINE h == (numels - 1) \div 2
<1>1. h \in Nat /\ h + 1 <= numels
  BY MiddleFacts
<1>2. mid = p[h + 1]
  BY DEF Central
<1> HIDE DEF h
<1>3. moves = target - h
  BY DEF h
<1>4. CASE moves > 0
  <2>1. moves \in Nat /\ h + 1 \in 0 .. numels + 1 /\ (h + 1) + moves <= numels + 1
        /\ (h + 1) + moves = target + 1
    BY <1>1, <1>3, <1>4
  <2>2. Walk(entry, "next", p[h + 1], moves) = p[(h + 1) + moves]
    BY <2>1, Forward
  <2> QED BY <1>2, <1>4, <2>1, <2>2, FollowIs
<1>5. CASE ~ (moves > 0)
  <2>1. -moves \in Nat /\ h + 1 \in 0 .. numels + 1 /\ -moves <= h + 1 /\ (h + 1) - (-moves) = target + 1
    BY <1>1, <1>3, <1>5
  <2> DEFINE k == -moves
  <2> HIDE DEF k
  <2>2. Walk(entry, "prev", p[h + 1], k) = p[(h + 1) - k]
    BY <2>1, Backward DEF k
  <2> QED BY <1>2, <1>5, <2>1, <2>2, FollowIs DEF k
<1> QED BY <1>4, <1>5

LEMMA DeleteRangeKeeps ==
  ASSUME IInv, NEW posstart \in 0 .. numels - 1, NEW posend \in 0 .. numels - 1,
         DeleteRange(posstart, posend)
  PROVE  IInv' /\ Becomes(Without(ContentsOf(numels, entry), numels, posstart, posend + 1))
<1> DEFINE n == numels
           b == posend + 1
           d == posend - posstart + 1
           first == FindPos(posstart)
           doomed == [i \in 1 .. d |-> Follow("next", first, i - 1)]
           after == (n - 1 - d) \div 2
           target == IF after < posstart THEN after ELSE after + d
           moves == target - (n - 1) \div 2
<1>1. n \in Nat /\ n <= MaxLen
  BY SimCListAssumption DEF IInv
<1>2. stage = "live"
  BY <1>1 DEF IInv, DeleteRange
<1>3. CASE d = n
  <2>1. Clear
    BY <1>3 DEF DeleteRange
  <2>2. IInv' /\ Becomes(<< >>)
    BY <1>2, <2>1, ClearKeeps
  <2>3. n - (b - posstart) = 0
    BY <1>1, <1>3
  <2>4. Without(ContentsOf(n, entry), n, posstart, b) = << >>
    <3> HIDE DEF n, b, d
    <3> QED BY <2>3 DEF Without
  <2> QED BY <2>2, <2>4
<1>4. CASE d # n
  <2>1. /\ posstart <= posend /\ posend < n
        /\ mid' = IF moves > 0 THEN Follow("next", mid, moves) ELSE Follow("prev", mid, -moves)
        /\ entry' = Unlinked(first, doomed[d], ToSet(doomed))
        /\ Dropped(doomed) /\ numels' = n - d /\ stage' = stage
    BY <1>4 DEF DeleteRange
  <2>2. AreEntries(entry)
    BY <1>2, LiveFacts
  <2>3. PICK p : Way(p, n, entry) /\ Central(p, n, mid) /\ Stock(p, n, spareels, allocated)
    BY <1>2, LiveFacts
  <2>4. /\ d \in Nat /\ d >= 1 /\ d < n /\ b - posstart = d /\ b \in Nat /\ posstart \in Nat
        /\ posstart < b /\ b <= n /\ posstart + d = b
    BY <1>1, <1>4, <2>1
  <2>5. first = p[posstart + 1]
    <3>1. posstart \in Int /\ -1 <= posstart /\ posstart <= n
      BY <1>1
    <3> QED BY <1>1, <2>3, <3>1, Found
  <2> HIDE DEF first
  <2>6. \A i \in 1 .. d : Follow("next", first, i - 1) = p[posstart + i]
    <3> SUFFICES ASSUME NEW i \in 1 .. d PROVE Follow("next", first, i - 1) = p[posstart + i]
      OBVIOUS
    <3>1. i - 1 \in Nat /\ posstart + 1 \in 0 .. n + 1 /\ (posstart + 1) + (i - 1) <= n + 1
          /\ (posstart + 1) + (i - 1) = posstart + i
      BY <1>1, <2>4
    <3> DEFINE k == i - 1
    <3> HIDE DEF k
    <3>2. Walk(entry, "next", p[posstart + 1], k) = p[(posstart + 1) + k]
      BY <1>1, <2>3, <3>1, Forward DEF k
    <3> QED BY <2>5, <3>1, <3>2, FollowIs DEF k
  <2>7. doomed = [i \in 1 .. b - posstart |-> p[posstart + i]] /\ doomed[d] = p[b]
    <3>1. doomed = [i \in 1 .. d |-> p[posstart + i]]
      BY <2>6
    <3>2. d \in 1 .. d
      BY <2>4
    <3> HIDE DEF doomed, d, b
    <3>3. doomed[d] = p[posstart + d]
      BY <3>1, <3>2
    <3> QED BY <2>4, <3>1, <3>3
  <2> HIDE DEF doomed
  <2> DEFINE q == Cut(p, n, posstart, b)
  <2>8. Removing(p, n, posstart, b)
    BY <1>1, <2>2, <2>3, <2>4 DEF Removing
  <2>9. /\ AreEntries(entry') /\ Way(q, n - d, entry') /\ Stock(q, n - d, spareels', allocated')
        /\ IsTyped(entry) => IsTyped(entry')
        /\ Listing(q, n - d, entry') = Without(Listing(p, n, entry), n, posstart, b)
    <3>1. entry' = Unlinked(p[posstart + 1], p[b], ToSet(doomed))
      BY <2>1, <2>5, <2>7
    <3> HIDE DEF d, b, n
    <3>2. /\ AreEntries(entry') /\ Way(q, n - (b - posstart), entry')
          /\ Stock(q, n - (b - posstart), spareels', allocated') /\ (IsTyped(entry) => IsTyped(entry'))
          /\ Listing(q, n - (b - posstart), entry') = Without(Listing(p, n, entry), n, posstart, b)
      BY <2>1, <2>7, <2>8, <3>1, RemoveWay
    <3> QED BY <2>4, <3>2
  <2>10. Central(q, n - d, mid')
    <3>1. after \in Nat /\ (n - d - 1) \div 2 = after /\ n - d # 0 /\ after + 1 <= n - d
      <4>1. n - d \in Nat /\ n - d > 0 /\ n - 1 - d = n - d - 1
        BY <1>1, <2>4
      <4> QED BY <4>1, MiddleFacts
    <3> HIDE DEF after
    <3>2. target \in 0 .. n - 1
      BY <1>1, <2>4, <3>1
    <3>3. mid' = p[target + 1]
      <4> HIDE DEF target, d
      <4>1. n > 0
        BY <1>1, <2>4
      <4>2. moves = target - (n - 1) \div 2
        OBVIOUS
      <4> HIDE DEF moves
      <4> QED BY <1>1, <2>1, <2>3, <3>2, <4>1, <4>2, MidMoves
    <3>4. q[after + 1] = p[target + 1]
      <4>1. after + 1 \in 0 .. n - (b - posstart) + 1
        <5>1. after + 1 \in 0 .. n - d + 1
          <6> HIDE DEF d
          <6> QED BY <1>1, <2>4, <3>1
        <5>2. n - (b - posstart) = n - d
          OBVIOUS
        <5> QED BY <5>1, <5>2
      <4>2. q[after + 1] = IF after + 1 <= posstart THEN p[after + 1] ELSE p[after + 1 + (b - posstart)]
        BY <4>1 DEF Cut
      <4>3. CASE after < posstart
        <5>1. after + 1 <= posstart /\ target = after
          BY <3>1, <4>3
        <5> QED BY <4>2, <5>1
      <4>4. CASE ~ (after < posstart)
        <5>1. ~ (after + 1 <= posstart) /\ target + 1 = after + 1 + (b - posstart)
          BY <3>1, <2>4, <4>4
        <5> HIDE DEF q, target, b
        <5> QED BY <4>2, <5>1
      <4> QED BY <4>3, <4>4
    <3> HIDE DEF q, target
    <3> QED BY <3>1, <3>3, <3>4 DEF Central
  <2>11. n - d \in Nat /\ n - d <= MaxLen
    BY <1>1, <2>4, SimCListAssumption
  <2> HIDE DEF q, d
  <2>12. IInv'
    BY <1>2, <2>1, <2>9, <2>10, <2>11, LiveStep
  <2>13. ContentsOf(n, entry) = Listing(p, n, entry)
    BY <1>1, <2>3, ListingIs
  <2>14. ContentsOf(n - d, entry') = Listing(q, n - d, entry')
    BY <2>9, <2>11, ListingIs
  <2> QED BY <2>1, <2>9, <2>12, <2>13, <2>14 DEF Becomes
<1> QED BY <1>3, <1>4

-----------------------------------------------------------------------------
(* Whole lists *)

LEMMA FreshSequence ==
  ASSUME NEW S, IsFiniteSet(S)
  PROVE  /\ Cardinality(S) \in Nat /\ SetToSeq(S) \in [1 .. Cardinality(S) -> S]
         /\ \A i, j \in 1 .. Cardinality(S) : SetToSeq(S)[i] = SetToSeq(S)[j] => i = j
<1>1. Cardinality(S) \in Nat /\ ExistsBijection(1 .. Cardinality(S), S)
  BY FS_CardinalityType
<1>2. \E f \in [1 .. Cardinality(S) -> S] : IsInjective(f)
  BY <1>1 DEF ExistsBijection, Bijection, Injection
<1>3. SetToSeq(S) \in [1 .. Cardinality(S) -> S] /\ IsInjective(SetToSeq(S))
  BY <1>2 DEF SetToSeq
<1> QED BY <1>1, <1>3 DEF IsInjective

\* The one position of an entry
LEMMA ChosenPlace ==
  ASSUME NEW n, NEW p, NEW j \in 1 .. n, \A i, k \in 1 .. n : p[i] = p[k] => i = k
  PROVE  (CHOOSE i \in 1 .. n : p[i] = p[j]) = j
OBVIOUS

LEMMA ConcatKeeps ==
  ASSUME IInv, NEW l1 \in Seq(Data), NEW l2 \in Seq(Data), Concat(l1, l2)
  PROVE  IInv' /\ Becomes(l1 \o l2)
<1> DEFINE s == l1 \o l2
           n == Len(s)
           err == Len(l2) - Len(l1)
           fresh == SetToSeq(Entries \ allocated)
           at == [i \in 0 .. n + 1 |-> IF i = 0 THEN HeadSentinel ELSE IF i > n THEN TailSentinel ELSE fresh[i]]
           used == {at[i] : i \in 1 .. n}
           place(a) == CHOOSE i \in 1 .. n : at[i] = a
           middle == IF err >= 1 THEN Len(l1) + (err + 1) \div 2
                     ELSE IF err <= -2 THEN Len(l1) - (-err) \div 2 ELSE Len(l1)
<1>1. /\ stage = "raw" /\ stage' = "live" /\ n \in 1 .. MaxLen
      /\ entry' = [a \in DOMAIN entry |->
                     IF a \in used THEN Entry(s[place(a)], at[place(a) + 1], at[place(a) - 1])
                     ELSE IF a = HeadSentinel THEN Entry(Null, at[1], Null)
                     ELSE IF a = TailSentinel THEN Entry(Null, Null, at[n]) ELSE entry[a]]
      /\ allocated' = allocated \cup used /\ numels' = n /\ mid' = at[middle] /\ spareels' = spareels
  BY DEF Concat
<1>2. allocated = {} /\ spareels = << >> /\ AreEntries(entry)
  BY <1>1 DEF IInv
<1>3. n \in Nat /\ n >= 1 /\ n <= MaxLen /\ Len(l1) \in Nat /\ Len(l2) \in Nat /\ n = Len(l1) + Len(l2)
  <2>1. Len(l1) \in Nat /\ Len(l2) \in Nat /\ n = Len(l1) + Len(l2)
    OBVIOUS
  <2> QED BY <1>1, <2>1, SimCListAssumption
<1>13. s = [i \in 1 .. n |-> s[i]] /\ \A i \in 1 .. n : s[i] \in Data
  <2>1. s \in Seq(Data)
    OBVIOUS
  <2> HIDE DEF s
  <2> QED BY <2>1
<1> HIDE DEF s, n
<1>4. /\ \A i \in 1 .. n : fresh[i] \in Entries
      /\ \A i, j \in 1 .. n : fresh[i] = fresh[j] => i = j
  <2>1. fresh = SetToSeq(Entries) /\ IsFiniteSet(Entries)
    <3>1. Entries \ allocated = Entries
      BY <1>2
    <3> QED BY <3>1, SimCListAssumption
  <2>2. /\ Cardinality(Entries) \in Nat /\ SetToSeq(Entries) \in [1 .. Cardinality(Entries) -> Entries]
        /\ \A i, j \in 1 .. Cardinality(Entries) : SetToSeq(Entries)[i] = SetToSeq(Entries)[j] => i = j
    BY <2>1, FreshSequence
  <2>3. \A i \in 1 .. n : i \in 1 .. Cardinality(Entries)
    BY <1>3, <2>2, SimCListAssumption
  <2> HIDE DEF fresh
  <2> QED BY <2>1, <2>2, <2>3
<1> HIDE DEF fresh
<1>5. /\ at \in [0 .. n + 1 -> Nodes] /\ at[0] = HeadSentinel /\ at[n + 1] = TailSentinel
      /\ \A i \in 1 .. n : at[i] \in Entries
      /\ \A i, j \in 0 .. n + 1 : at[i] = at[j] => i = j
  <2>1. at[0] = HeadSentinel /\ at[n + 1] = TailSentinel /\ \A i \in 1 .. n : at[i] = fresh[i]
    BY <1>3
  <2>2. \A i \in 0 .. n + 1 : i = 0 \/ i = n + 1 \/ i \in 1 .. n
    BY <1>3
  <2>3. at = [i \in 0 .. n + 1 |-> at[i]]
    OBVIOUS
  <2> HIDE DEF at
  <2>4. \A i \in 0 .. n + 1 : at[i] \in Nodes
    BY <1>4, <2>1, <2>2, SentinelFacts
  <2>5. \A i, j \in 0 .. n + 1 : at[i] = at[j] => i = j
    BY <1>4, <2>1, <2>2, SentinelFacts
  <2> QED BY <1>4, <2>1, <2>3, <2>4, <2>5
<1> HIDE DEF at
<1>6. \A a \in Nodes :
        entry'[a] = IF a \in used THEN Entry(s[place(a)], at[place(a) + 1], at[place(a) - 1])
                    ELSE IF a = HeadSentinel THEN Entry(Null, at[1], Null)
                    ELSE IF a = TailSentinel THEN Entry(Null, Null, at[n]) ELSE entry[a]
  BY <1>1, <1>2 DEF AreEntries
<1>7. \A i \in 1 .. n : entry'[at[i]] = Entry(s[i], at[i + 1], at[i - 1])
  <2> SUFFICES ASSUME NEW i \in 1 .. n PROVE entry'[at[i]] = Entry(s[i], at[i + 1], at[i - 1])
    OBVIOUS
  <2>1. at[i] \in used /\ at[i] \in Nodes
    BY <1>5, SentinelFacts
  <2>2. \A j, k \in 1 .. n : at[j] = at[k] => j = k
    <3>1. \A j \in 1 .. n : j \in 0 .. n + 1
      BY <1>3
    <3> QED BY <1>5, <3>1
  <2>3. place(at[i]) = i
    BY <2>2, ChosenPlace
  <2> HIDE DEF place, used
  <2> QED BY <1>6, <2>1, <2>3
<1>8. entry'[HeadSentinel] = Entry(Null, at[1], Null) /\ entry'[TailSentinel] = Entry(Null, Null, at[n])
  <2>1. HeadSentinel \notin used /\ TailSentinel \notin used
    BY <1>5, SentinelFacts
  <2> HIDE DEF place, used
  <2> QED BY <1>6, <2>1, SentinelFacts
<1>9. AreEntries(entry')
  <2>1. \A x, y, z : IsEntry(Entry(x, y, z))
    BY DEF IsEntry, Entry
  <2>2. entry' = [a \in Nodes |-> entry'[a]]
    BY <1>1, <1>2 DEF AreEntries
  <2> HIDE DEF place, used
  <2>3. \A a \in Nodes : IsEntry(entry'[a])
    BY <1>2, <1>6, <2>1 DEF AreEntries
  <2> QED BY <2>2, <2>3 DEF AreEntries
<1>10. Way(at, n, entry')
  <2>1. \A x, y, z : Entry(x, y, z).next = y /\ Entry(x, y, z).prev = z
    BY DEF Entry
  <2>2. ASSUME NEW i \in 0 .. n PROVE entry'[at[i]].next = at[i + 1] /\ entry'[at[i + 1]].prev = at[i]
    <3>1. entry'[at[i]].next = at[i + 1]
      <4>1. CASE i = 0
        BY <1>5, <1>8, <2>1, <4>1
      <4>2. CASE i # 0
        <5>1. i \in 1 .. n
          BY <1>3, <4>2
        <5> QED BY <1>7, <2>1, <5>1
      <4> QED BY <4>1, <4>2
    <3>2. entry'[at[i + 1]].prev = at[i]
      <4>1. CASE i = n
        BY <1>5, <1>8, <2>1, <4>1
      <4>2. CASE i # n
        <5>1. i + 1 \in 1 .. n /\ (i + 1) - 1 = i
          BY <1>3, <4>2
        <5>2. entry'[at[i + 1]].prev = at[(i + 1) - 1]
          BY <1>7, <2>1, <5>1
        <5> QED BY <5>1, <5>2
      <4> QED BY <4>1, <4>2
    <3> QED BY <3>1, <3>2
  <2>3. entry'[HeadSentinel].prev = Null /\ entry'[TailSentinel].next = Null
    BY <1>8, <2>1
  <2> QED BY <1>5, <2>2, <2>3 DEF Way
<1>11. Central(at, n, mid')
  <2>1. middle = (n - 1) \div 2 + 1
    <3>1. CASE err >= 1
      BY <1>3, <3>1
    <3>2. CASE err <= -2
      BY <1>3, <3>2
    <3>3. CASE ~ (err >= 1) /\ ~ (err <= -2)
      BY <1>3, <3>3
    <3> QED BY <3>1, <3>2, <3>3
  <2> HIDE DEF middle
  <2> QED BY <1>1, <1>3, <2>1 DEF Central
<1>12. Stock(at, n, spareels', allocated')
  <2>1. << >> \in Seq(Entries) /\ Len(<< >>) = 0 /\ NoRepeat(<< >>) /\ \A x : ~Has(<< >>, x)
    BY EmptySeq, EmptyHas
  <2>2. ToSet(<< >>) = {}
    BY <2>1, ToSetHas
  <2>3. allocated' = Between(at, n) \cup ToSet(<< >>)
    BY <1>1, <1>2, <2>2 DEF Between
  <2> QED BY <1>1, <1>2, <2>1, <2>3, SimCListAssumption DEF Stock
<1>14. IInv'
  BY <1>1, <1>3, <1>9, <1>10, <1>11, <1>12, LiveStep
<1>15. \A x, y, z : Entry(x, y, z).data = x /\ Entry(x, y, z).next = y /\ Entry(x, y, z).prev = z
  BY DEF Entry
<1>16. ContentsOf(n, entry') = s
  <2>1. ContentsOf(n, entry') = Listing(at, n, entry')
    BY <1>3, <1>10, ListingIs
  <2>2. \A i \in 1 .. n : entry'[at[i]].data = s[i]
    BY <1>7, <1>15
  <2>3. Listing(at, n, entry') = [i \in 1 .. n |-> s[i]]
    BY <2>2 DEF Listing
  <2> QED BY <1>13, <2>1, <2>3
<1>17. ASSUME IsTyped(entry) PROVE IsTyped(entry')
  <2> SUFFICES ASSUME NEW a \in Nodes
               PROVE  /\ entry'[a].data \in Data \cup {Null}
                      /\ entry'[a].next \in Nodes \cup {Null} /\ entry'[a].prev \in Nodes \cup {Null}
    BY DEF IsTyped
  <2>1. CASE a \in used
    <3>1. PICK i \in 1 .. n : a = at[i]
      BY <2>1
    <3>2. i + 1 \in 0 .. n + 1 /\ i - 1 \in 0 .. n + 1
      BY <1>3
    <3>3. at[i + 1] \in Nodes /\ at[i - 1] \in Nodes
      BY <1>5, <3>2
    <3>4. entry'[a] = Entry(s[i], at[i + 1], at[i - 1])
      BY <1>7, <3>1
    <3> QED BY <1>13, <1>15, <3>3, <3>4
  <2>2. CASE a = HeadSentinel \/ a = TailSentinel
    <3>1. 1 \in 0 .. n + 1 /\ n \in 0 .. n + 1
      BY <1>3
    <3> QED BY <1>5, <1>8, <1>15, <2>2, <3>1
  <2>3. CASE a \notin used /\ a # HeadSentinel /\ a # TailSentinel
    <3>1. entry'[a] = entry[a]
      <4> HIDE DEF used, place
      <4> QED BY <1>6, <2>3
    <3> QED BY <1>17, <3>1 DEF IsTyped
  <2> QED BY <2>1, <2>2, <2>3
<1> QED BY <1>1, <1>14, <1>16, <1>17 DEF s, Becomes

LEMMA DestroyKeeps ==
  ASSUME IInv, Destroy
  PROVE  IInv' /\ (IsTyped(entry) => IsTyped(entry'))
<1> DEFINE linked == {Follow("next", HeadSentinel, i) : i \in 1 .. numels}
<1>1. /\ stage = "live" /\ stage' = "destroyed"
      /\ allocated' = (IF iter_active THEN allocated ELSE allocated \ linked) \ ToSet(spareels)
      /\ numels' = IF iter_active THEN numels ELSE 0
      /\ mid' = IF iter_active THEN mid ELSE Null
      /\ entry' = IF iter_active THEN entry ELSE Empty
      /\ iter_active' = iter_active
  BY DEF Destroy, iteration
<1>2. numels \in Nat /\ numels <= MaxLen /\ AreEntries(entry)
  BY <1>1, LiveFacts
<1>3. PICK p : Way(p, numels, entry) /\ Central(p, numels, mid) /\ Stock(p, numels, spareels, allocated)
  BY <1>1, LiveFacts
<1>4. linked = Between(p, numels)
  <2>1. \A i \in 1 .. numels : i \in 0 .. numels + 1
    BY <1>2
  <2>2. \A i \in 1 .. numels : Follow("next", HeadSentinel, i) = p[i]
    BY <1>2, <1>3, <2>1, Met
  <2> QED BY <2>2 DEF Between
<1> HIDE DEF linked
<1>5. CASE iter_active
  <2>1. entry' = entry /\ numels' = numels /\ mid' = mid /\ iter_active'
    BY <1>1, <1>5
  <2>2. numels' \in 0 .. MaxLen /\ AreEntries(entry') /\ Way(p, numels', entry') /\ Central(p, numels', mid')
    BY <1>2, <1>3, <2>1, SimCListAssumption
  <2>3. IInv'
    BY <1>1, <2>1, <2>2 DEF IInv
  <2> QED BY <2>1, <2>3
<1>6. CASE ~iter_active
  <2>1. entry' = Empty /\ numels' = 0 /\ mid' = Null
    BY <1>1, <1>6
  <2>2. allocated' = {}
    <3>1. allocated = Between(p, numels) \cup ToSet(spareels)
      BY <1>3 DEF Stock
    <3> QED BY <1>1, <1>4, <1>6, <3>1
  <2>3. AreEntries(entry') /\ Way(Short, numels', entry')
    BY <2>1, EmptyFacts, ShortWay
  <2>4. Central(Short, numels', mid')
    BY <2>1 DEF Central
  <2>5. numels' \in 0 .. MaxLen
    BY <2>1, SimCListAssumption
  <2>6. IInv'
    BY <1>1, <2>1, <2>2, <2>3, <2>4, <2>5 DEF IInv
  <2>7. IsTyped(Empty)
    BY SentinelFacts DEF IsTyped, Empty, NoEntry, Entry, Nodes, Sentinels
  <2> QED BY <2>1, <2>6, <2>7
<1> QED BY <1>5, <1>6

\* Sorting moves data only.
LEMMA SortKeeps ==
  ASSUME IInv, NEW versus, Sort(versus)
  PROVE  IInv' /\ numels' = numels /\ stage = "live" /\ \E s \in QuickSorted(Contents, versus) :
           /\ ContentsOf(numels', entry') = [i \in 1 .. numels |-> s[i]]
           /\ IsTyped(entry) /\ (\A i \in 1 .. numels : s[i] \in Data) => IsTyped(entry')
<1> DEFINE order == [i \in 1 .. numels |-> Follow("next", HeadSentinel, i)]
           new(s, a) == IF \E i \in 1 .. numels : order[i] = a
                        THEN [entry[a] EXCEPT !.data = s[CHOOSE i \in 1 .. numels : order[i] = a]]
                        ELSE entry[a]
<1>1. /\ stage = "live" /\ stage' = "live" /\ allocated' = allocated /\ mid' = mid
      /\ numels' = numels /\ spareels' = spareels
      /\ \E s \in QuickSorted(Contents, versus) : entry' = [a \in DOMAIN entry |-> new(s, a)]
  BY DEF Sort
<1>2. numels \in Nat /\ numels <= MaxLen /\ AreEntries(entry)
  BY <1>1, LiveFacts
<1>3. PICK p : Way(p, numels, entry) /\ Central(p, numels, mid) /\ Stock(p, numels, spareels, allocated)
  BY <1>1, LiveFacts
<1>4. PICK s \in QuickSorted(Contents, versus) : entry' = [a \in Nodes |-> new(s, a)]
  BY <1>1, <1>2 DEF AreEntries
<1>5. ASSUME NEW a \in Nodes
      PROVE  IsEntry(new(s, a)) /\ new(s, a).next = entry[a].next /\ new(s, a).prev = entry[a].prev
  <2>1. entry[a] = Entry(entry[a].data, entry[a].next, entry[a].prev)
    BY <1>2 DEF AreEntries, IsEntry
  <2>2. ASSUME NEW x
        PROVE  /\ [entry[a] EXCEPT !.data = x].next = entry[a].next
               /\ [entry[a] EXCEPT !.data = x].prev = entry[a].prev
               /\ IsEntry([entry[a] EXCEPT !.data = x])
    <3>1. [entry[a] EXCEPT !.data = x] = Entry(x, entry[a].next, entry[a].prev)
      BY <2>1 DEF Entry
    <3> QED BY <3>1 DEF Entry, IsEntry
  <2>3. IsEntry(entry[a])
    BY <1>2 DEF AreEntries
  <2> HIDE DEF order
  <2> QED BY <2>2, <2>3
<1>8. \A i \in 1 .. numels : new(s, p[i]).data = s[i]
  <2> SUFFICES ASSUME NEW i \in 1 .. numels PROVE new(s, p[i]).data = s[i]
    OBVIOUS
  <2>1. \A j \in 1 .. numels : order[j] = p[j]
    <3>1. \A j \in 1 .. numels : j \in 0 .. numels + 1
      BY <1>2
    <3> QED BY <1>2, <1>3, <3>1, Met
  <2>2. \A j, k \in 1 .. numels : order[j] = order[k] => j = k
    <3>1. \A j \in 1 .. numels : j \in 0 .. numels + 1
      BY <1>2
    <3> QED BY <1>2, <1>3, <2>1, <3>1, WayFacts
  <2> HIDE DEF order
  <2>3. (CHOOSE j \in 1 .. numels : order[j] = order[i]) = i
    BY <2>2, ChosenPlace
  <2>4. (CHOOSE j \in 1 .. numels : order[j] = p[i]) = i
    BY <2>1, <2>3
  <2>5. new(s, p[i]) = [entry[p[i]] EXCEPT !.data = s[i]]
    BY <2>1, <2>4
  <2>6. p[i] \in Nodes
    <3>1. i \in 0 .. numels + 1
      BY <1>2
    <3> QED BY <1>2, <1>3, <3>1, WayFacts
  <2>7. entry[p[i]] = [data |-> entry[p[i]].data, next |-> entry[p[i]].next, prev |-> entry[p[i]].prev]
    BY <1>2, <2>6 DEF AreEntries, IsEntry, Entry
  <2> HIDE DEF new
  <2> QED BY <2>5, <2>7
<1>9. \A a \in Nodes : new(s, a).data = entry[a].data \/ \E i \in 1 .. numels : p[i] = a
  <2>1. \A j \in 1 .. numels : order[j] = p[j]
    <3>1. \A j \in 1 .. numels : j \in 0 .. numels + 1
      BY <1>2
    <3> QED BY <1>2, <1>3, <3>1, Met
  <2> HIDE DEF order
  <2> QED BY <2>1
<1> HIDE DEF new
<1>6. AreEntries(entry') /\ \A a \in Nodes : entry'[a].next = entry[a].next /\ entry'[a].prev = entry[a].prev
  BY <1>4, <1>5 DEF AreEntries
<1>7. Way(p, numels, entry')
  <2>1. \A i \in 0 .. numels : p[i] \in Nodes /\ p[i + 1] \in Nodes
    <3>1. \A i \in 0 .. numels : i \in 0 .. numels + 1 /\ i + 1 \in 0 .. numels + 1
      BY <1>2
    <3>2. \A i \in 0 .. numels + 1 : p[i] \in Nodes
      BY <1>2, <1>3, WayFacts
    <3> QED BY <3>1, <3>2
  <2>2. \A i \in 0 .. numels : entry'[p[i]].next = p[i + 1] /\ entry'[p[i + 1]].prev = p[i]
    BY <1>3, <1>6, <2>1 DEF Way
  <2> QED BY <1>3, <1>6, <2>2, SentinelFacts DEF Way
<1>10. IInv'
  BY <1>1, <1>2, <1>3, <1>6, <1>7, LiveStep
<1>11. ContentsOf(numels, entry') = [i \in 1 .. numels |-> s[i]]
  <2>1. ContentsOf(numels, entry') = Listing(p, numels, entry')
    BY <1>2, <1>7, ListingIs
  <2>2. ASSUME NEW i \in 1 .. numels PROVE entry'[p[i]].data = s[i]
    <3>1. i \in 0 .. numels + 1
      BY <1>2
    <3>2. p[i] \in Nodes
      BY <1>2, <1>3, <3>1, WayFacts
    <3> QED BY <1>4, <1>8, <3>2
  <2> QED BY <2>1, <2>2 DEF Listing
<1>12. ASSUME IsTyped(entry), \A i \in 1 .. numels : s[i] \in Data PROVE IsTyped(entry')
  <2> SUFFICES ASSUME NEW a \in Nodes PROVE entry'[a].data \in Data \cup {Null}
    BY <1>6, <1>12 DEF IsTyped
  <2>1. entry'[a] = new(s, a)
    BY <1>4
  <2> QED BY <1>8, <1>9, <1>12, <2>1 DEF IsTyped
<1> QED BY <1>1, <1>10, <1>11, <1>12

-----------------------------------------------------------------------------
(* The theorem *)

LEMMA NextKeeps == IInv /\ [Next]_vars => IInv'
<1> SUFFICES ASSUME IInv, [Next]_vars PROVE IInv'
  OBVIOUS
<1>0. numels \in 0 .. MaxLen
  BY DEF IInv
<1>1. CASE ListInit
  <2>1. stage = "raw" /\ stage' = "live" /\ UNCHANGED <<entry, allocated, mid, numels, spareels>>
    BY <1>1 DEF ListInit
  <2>2. /\ numels \in Nat /\ numels <= MaxLen /\ AreEntries(entry)
        /\ \E p : Way(p, numels, entry) /\ Central(p, numels, mid) /\ Stock(p, numels, spareels, allocated)
    BY <2>1, LiveFacts
  <2> QED BY <2>1, <2>2, LiveStep
<1>2. CASE \E l1, l2 \in Sources : Concat(l1, l2)
  <2>1. PICK l1 \in Sources, l2 \in Sources : Concat(l1, l2)
    BY <1>2
  <2>2. l1 \in Seq(Data) /\ l2 \in Seq(Data)
    BY SimCListAssumption
  <2> QED BY <2>1, <2>2, ConcatKeeps
<1>3. CASE \E d \in Data, pos \in 0 .. numels : ListInsertAt(d, pos)
  <2>1. PICK d \in Data, pos \in 0 .. numels : ListInsertAt(d, pos)
    BY <1>3
  <2> QED BY <2>1, InsertKeeps
<1>4. CASE \E pos \in 0 .. numels - 1 : DeleteAt(pos)
  <2>1. PICK pos \in 0 .. numels - 1 : DropAt(pos)
    BY <1>4 DEF DeleteAt
  <2>2. pos \in Nat
    BY <1>0, SimCListAssumption
  <2> QED BY <2>1, <2>2, DropAtKeeps
<1>5. CASE \E d \in Data, comparator \in BOOLEAN : Delete(d, comparator)
  BY <1>5, DeleteKeeps
<1>6. CASE \E posstart, posend \in 0 .. numels - 1 : DeleteRange(posstart, posend)
  <2>1. PICK posstart \in 0 .. numels - 1, posend \in 0 .. numels - 1 : DeleteRange(posstart, posend)
    BY <1>6
  <2> QED BY <2>1, DeleteRangeKeeps
<1>7. CASE stage = "live" /\ Clear
  BY <1>7, ClearKeeps
<1>8. CASE \E versus \in {-1, 1} : Sort(versus)
  <2>1. PICK versus \in {-1, 1} : Sort(versus)
    BY <1>8
  <2> QED BY <2>1, SortKeeps
<1>9. CASE IteratorStart \/ IteratorNext \/ IteratorStop
  <2>1. stage = "live" /\ UNCHANGED <<stage, entry, allocated, mid, numels, spareels>>
    BY <1>9 DEF IteratorStart, IteratorNext, IteratorStop
  <2>2. /\ numels \in Nat /\ numels <= MaxLen /\ AreEntries(entry)
        /\ \E p : Way(p, numels, entry) /\ Central(p, numels, mid) /\ Stock(p, numels, spareels, allocated)
    BY <2>1, LiveFacts
  <2> QED BY <2>1, <2>2, LiveStep
<1>10. CASE Destroy
  BY <1>10, DestroyKeeps
<1>11. CASE UNCHANGED vars
  BY <1>11 DEF IInv, vars, iteration
<1> QED BY <1>1, <1>2, <1>3, <1>4, <1>5, <1>6, <1>7, <1>8, <1>9, <1>10, <1>11 DEF Next

THEOREM Invariant == Spec => []IInv
<1>1. Init => IInv
  BY InitIInv
<1>2. IInv /\ [Next]_vars => IInv'
  BY NextKeeps
<1> QED BY <1>1, <1>2, PTL DEF Spec

\* list_repOk returns true wherever the operations assert it (simclist.c:1486): next and
\* prev lead from either sentinel through all the entries to the other, mid is in the
\* middle, and the spares fit their array; for any contents, comparator and limits.
THEOREM ListAlwaysOk == Spec => []RepOk
<1>1. Spec => []IInv
  BY Invariant
<1>2. IInv => RepOk
  BY InvariantRep
<1> QED BY <1>1, <1>2, PTL

\* A sequence without repetitions has as many elements as positions.
LEMMA SequenceCounts ==
  ASSUME NEW S, NEW s \in Seq(S), NoRepeat(s)
  PROVE  IsFiniteSet(ToSet(s)) /\ Cardinality(ToSet(s)) = Len(s)
<1> DEFINE n == Len(s)
           B == ToSet(s)
<1>1. n \in Nat /\ DOMAIN s = 1 .. n
  OBVIOUS
<1>2. s = [i \in 1 .. n |-> s[i]]
  OBVIOUS
<1>3. \A x : x \in B <=> \E i \in 1 .. n : s[i] = x
  BY <1>1, ToSetHas DEF Has
<1>4. \A i, j \in 1 .. n : s[i] = s[j] => i = j
  BY <1>1 DEF NoRepeat
<1> HIDE DEF n, B
<1>5. s \in [1 .. n -> B]
  BY <1>2, <1>3
<1>6. s \in Bijection(1 .. n, B)
  BY <1>1, <1>3, <1>4, <1>5 DEF Bijection, Injection, Surjection, IsInjective
<1>7. ExistsBijection(1 .. n, B)
  BY <1>6 DEF ExistsBijection
<1>8. Cardinality(B) = n
  BY <1>1, <1>7, FS_CountingElements
<1>9. IsFiniteSet(B)
  BY <1>1, <1>7, FS_NatBijection
<1> QED BY <1>8, <1>9 DEF B, n

LEMMA InvariantLeaks == IInv => NothingLeaks
<1> SUFFICES ASSUME IInv PROVE NothingLeaks
  OBVIOUS
<1>1. stage = "destroyed" /\ ~iter_active => allocated = {}
  BY DEF IInv
<1>2. ASSUME stage = "live"
      PROVE  /\ allocated = Linked \cup ToSet(spareels)
             /\ Cardinality(allocated) = numels + Len(spareels)
  <2>1. numels \in Nat
    BY <1>2, LiveFacts
  <2>2. PICK p : Way(p, numels, entry) /\ Stock(p, numels, spareels, allocated)
    BY <1>2, LiveFacts
  <2> DEFINE B == Between(p, numels)
             T == ToSet(spareels)
  <2>3. /\ spareels \in Seq(Entries) /\ NoRepeat(spareels)
        /\ \A x : Has(spareels, x) => x \notin B
        /\ allocated = B \cup T
    BY <2>2 DEF Stock
  <2>4. Linked = B
    <3>1. \A i \in 1 .. numels : i \in 0 .. numels + 1
      BY <2>1
    <3>2. \A i \in 1 .. numels : Follow("next", HeadSentinel, i) = p[i]
      BY <2>1, <2>2, <3>1, Met
    <3> QED BY <3>2 DEF Between, Linked
  <2>5. B \cap T = {}
    BY <2>3, ToSetHas
  <2>6. IsFiniteSet(B) /\ Cardinality(B) = numels
    BY <2>1, <2>2, BetweenCounts
  <2>7. IsFiniteSet(T) /\ Cardinality(T) = Len(spareels)
    BY <2>3, SequenceCounts
  <2> HIDE DEF B, T
  <2>8. Cardinality(B \cap T) = 0
    BY <2>5, FS_EmptySet
  <2>9. Cardinality(B \cup T) = Cardinality(B) + Cardinality(T) - Cardinality(B \cap T)
    BY <2>6, <2>7, FS_Union
  <2>10. Len(spareels) \in Nat
    BY <2>3
  <2>11. Cardinality(allocated) = numels + Len(spareels)
    BY <2>1, <2>3, <2>6, <2>7, <2>8, <2>9, <2>10
  <2> QED BY <2>3, <2>4, <2>11 DEF T
<1> QED BY <1>1, <1>2 DEF NothingLeaks

\* Each entry that malloc returned is linked or a spare, never both and never twice
\* (simclist.c:594, 635, 1408), and list_destroy frees all of them.
THEOREM NoEntryLeaks == Spec => []NothingLeaks
<1>1. Spec => []IInv
  BY Invariant
<1>2. IInv => NothingLeaks
  BY InvariantLeaks
<1> QED BY <1>1, <1>2, PTL

\* list_findpos finds each position where a walk from the head finds it, whether it starts
\* from head, middle or tail (simclist.c:434).
PositionsFound ==
  stage = "live" => \A pos \in -1 .. numels : FindPos(pos) = Follow("next", HeadSentinel, pos + 1)

LEMMA InvariantPositions == IInv => PositionsFound
<1> SUFFICES ASSUME IInv, stage = "live", NEW pos \in -1 .. numels
             PROVE  FindPos(pos) = Follow("next", HeadSentinel, pos + 1)
  BY DEF PositionsFound
<1>1. numels \in Nat
  BY LiveFacts
<1>2. PICK p : Way(p, numels, entry) /\ Central(p, numels, mid)
  BY LiveFacts
<1>3. pos \in Int /\ -1 <= pos /\ pos <= numels /\ pos + 1 \in 0 .. numels + 1
  BY <1>1
<1>4. FindPos(pos) = p[pos + 1]
  BY <1>1, <1>2, <1>3, Found
<1>5. Follow("next", HeadSentinel, pos + 1) = p[pos + 1]
  BY <1>1, <1>2, <1>3, Met
<1> QED BY <1>4, <1>5

\* After any operations, each position is the same entry from wherever it is looked for.
THEOREM EveryPositionFound == Spec => []PositionsFound
<1>1. Spec => []IInv
  BY Invariant
<1>2. IInv => PositionsFound
  BY InvariantPositions
<1> QED BY <1>1, <1>2, PTL

-----------------------------------------------------------------------------
(* Loops *)

\* The first k passes of a loop
Turns(body, start, k, g) == g[0] = start /\ \A i \in 1 .. k : g[i] = body[g[i - 1]]

LEMMA TurnsBegin ==
  ASSUME NEW body, NEW start, NEW k \in Nat
  PROVE  \E g : Turns(body, start, k, g)
<1> DEFINE T == {j \in Nat : \E g : Turns(body, start, j, g)}
<1>1. 0 \in T
  <2> DEFINE g == [i \in 0 .. 0 |-> start]
  <2>1. g[0] = start /\ \A i \in 1 .. 0 : FALSE
    OBVIOUS
  <2>2. Turns(body, start, 0, g)
    BY <2>1 DEF Turns
  <2> QED BY <2>2
<1>2. ASSUME NEW j \in Nat, j \in T PROVE j + 1 \in T
  <2>1. PICK h : h[0] = start /\ \A i \in 1 .. j : h[i] = body[h[i - 1]]
    BY <1>2 DEF Turns
  <2> DEFINE g == [i \in 0 .. j + 1 |-> IF i = j + 1 THEN body[h[j]] ELSE h[i]]
  <2>3. \A i \in 0 .. j : g[i] = h[i]
    BY <1>2
  <2>4. g[j + 1] = body[h[j]]
    BY <1>2
  <2>5. g[0] = start /\ \A i \in 1 .. j + 1 : g[i] = body[g[i - 1]]
    <3> HIDE DEF g
    <3>1. g[0] = start
      BY <2>1, <2>3, <1>2
    <3>2. ASSUME NEW i \in 1 .. j + 1 PROVE g[i] = body[g[i - 1]]
      <4>1. CASE i = j + 1
        <5>1. i - 1 = j /\ j \in 0 .. j
          BY <4>1, <1>2
        <5> QED BY <4>1, <2>3, <2>4, <5>1
      <4>2. CASE i # j + 1
        <5>1. i \in 1 .. j /\ i \in 0 .. j /\ i - 1 \in 0 .. j
          BY <4>2, <1>2, <3>2
        <5> QED BY <2>1, <2>3, <5>1
      <4> QED BY <4>1, <4>2
    <3> QED BY <3>1, <3>2
  <2> HIDE DEF g
  <2>6. Turns(body, start, j + 1, g)
    BY <2>5 DEF Turns
  <2> QED BY <2>6, <1>2
<1> HIDE DEF T
<1>3. Nat \subseteq T
  BY <1>1, <1>2, NatSetInduction
<1> QED BY <1>3 DEF T

LEMMA TurnsAgree ==
  ASSUME NEW body, NEW start, NEW k \in Nat, NEW g, NEW h,
         Turns(body, start, k, g), Turns(body, start, k, h)
  PROVE  \A i \in 0 .. k : g[i] = h[i]
<1> DEFINE T == {i \in Nat : i <= k => g[i] = h[i]}
<1>1. 0 \in T
  BY DEF Turns
<1>2. ASSUME NEW i \in Nat, i \in T PROVE i + 1 \in T
  <2>1. ASSUME i + 1 <= k PROVE g[i + 1] = h[i + 1]
    <3>1. i + 1 \in 1 .. k /\ (i + 1) - 1 = i /\ g[i] = h[i]
      BY <2>1, <1>2
    <3>2. g[i + 1] = body[g[(i + 1) - 1]] /\ h[i + 1] = body[h[(i + 1) - 1]]
      BY <3>1 DEF Turns
    <3> QED BY <3>1, <3>2
  <2> QED BY <2>1, <1>2
<1> HIDE DEF T
<1>3. Nat \subseteq T
  BY <1>1, <1>2, NatSetInduction
<1> QED BY <1>3 DEF T

\* What each pass of a loop makes: the definition of Passes has a solution.
LEMMA PassByPass ==
  ASSUME NEW body, NEW start
  PROVE  /\ Passes(body, start, 0) = start
         /\ \A k \in Nat : Passes(body, start, k + 1) = body[Passes(body, start, k)]
<1> DEFINE G(k) == CHOOSE g : Turns(body, start, k, g)
           F == [k \in Nat |-> G(k)[k]]
           f == CHOOSE f : f = [k \in Nat |-> IF k = 0 THEN start ELSE body[f[k - 1]]]
<1>1. ASSUME NEW k \in Nat PROVE Turns(body, start, k, G(k))
  <2>1. \E g : Turns(body, start, k, g)
    BY TurnsBegin
  <2> QED BY <2>1, Zenon
<1>2. ASSUME NEW k \in Nat, k > 0 PROVE F[k] = body[F[k - 1]]
  <2> DEFINE l == k - 1
  <2>1. l \in Nat /\ l \in 0 .. l /\ \A i \in 1 .. l : i \in 1 .. k
    BY <1>2
  <2>2. F[k] = G(k)[k] /\ F[l] = G(l)[l]
    BY <2>1
  <2>3. Turns(body, start, k, G(k)) /\ Turns(body, start, l, G(l))
    BY <1>1, <2>1
  <2> HIDE DEF G, F
  <2>4. Turns(body, start, l, G(k))
    BY <2>1, <2>3 DEF Turns
  <2>5. k \in 1 .. k
    BY <1>2
  <2>6. G(k)[k] = body[G(k)[l]]
    BY <2>3, <2>5 DEF Turns
  <2> HIDE DEF l
  <2>7. \A i \in 0 .. l : G(k)[i] = G(l)[i]
    BY <2>1, <2>3, <2>4, TurnsAgree
  <2> QED BY <2>1, <2>2, <2>6, <2>7 DEF l
<1>3. F[0] = start
  <2>1. F[0] = G(0)[0] /\ Turns(body, start, 0, G(0))
    BY <1>1
  <2> HIDE DEF G, F
  <2> QED BY <2>1 DEF Turns
<1>4. F = [k \in Nat |-> IF k = 0 THEN start ELSE body[F[k - 1]]]
  <2>1. F = [k \in Nat |-> F[k]]
    OBVIOUS
  <2> HIDE DEF F
  <2>2. \A k \in Nat : F[k] = IF k = 0 THEN start ELSE body[F[k - 1]]
    BY <1>2, <1>3
  <2> QED BY <2>1, <2>2
<1> HIDE DEF F, G
<1>5. f = [k \in Nat |-> IF k = 0 THEN start ELSE body[f[k - 1]]]
  BY <1>4
<1>6. \A k \in Nat : Passes(body, start, k) = f[k]
  BY DEF Passes
<1> HIDE DEF f
<1>7. \A k \in Nat : f[k] = IF k = 0 THEN start ELSE body[f[k - 1]]
  BY <1>5
<1>8. ASSUME NEW k \in Nat PROVE Passes(body, start, k + 1) = body[Passes(body, start, k)]
  <2>1. k + 1 \in Nat /\ k + 1 # 0 /\ (k + 1) - 1 = k
    OBVIOUS
  <2>2. f[k + 1] = body[f[(k + 1) - 1]]
    BY <1>7, <2>1
  <2> QED BY <1>6, <2>1, <2>2
<1> QED BY <1>6, <1>7, <1>8

\* What each pass keeps, with the number of passes before it, holds after any number.
LEMMA PassesKeep ==
  ASSUME NEW body, NEW start, NEW I, start \in I[0],
         \A k \in Nat : \A x \in I[k] : body[x] \in I[k + 1], NEW n \in Nat
  PROVE  Passes(body, start, n) \in I[n]
<1> DEFINE T == {k \in Nat : Passes(body, start, k) \in I[k]}
<1>1. 0 \in T
  BY PassByPass
<1>2. ASSUME NEW k \in Nat, k \in T PROVE k + 1 \in T
  <2>1. Passes(body, start, k) \in I[k]
    BY <1>2
  <2>2. Passes(body, start, k + 1) = body[Passes(body, start, k)]
    BY ONLY k \in Nat, PassByPass
  <2>3. body[Passes(body, start, k)] \in I[k + 1]
    BY <2>1
  <2> QED BY <2>2, <2>3
<1> HIDE DEF T
<1>3. Nat \subseteq T
  BY <1>1, <1>2, NatSetInduction
<1> QED BY <1>3 DEF T

-----------------------------------------------------------------------------
(* Permutations *)

Onto(n, f) == /\ f \in [1 .. n -> 1 .. n]
              /\ \A i, j \in 1 .. n : f[i] = f[j] => i = j
              /\ \A j \in 1 .. n : \E i \in 1 .. n : f[i] = j

\* t has the elements of s, in another order.
Permuted(n, s, t) == \E f : Onto(n, f) /\ t = [i \in 1 .. n |-> s[f[i]]]

Inverses(n, f, g) ==
  /\ f = [k \in 1 .. n |-> f[k]]
  /\ \A k \in 1 .. n : f[k] \in 1 .. n /\ g[k] \in 1 .. n /\ g[f[k]] = k /\ f[g[k]] = k

\* What has an inverse is a permutation.
LEMMA OntoInverse ==
  ASSUME NEW n \in Nat, NEW f, NEW g, Inverses(n, f, g)
  PROVE  Onto(n, f)
<1> /\ f = [k \in 1 .. n |-> f[k]]
    /\ \A k \in 1 .. n : f[k] \in 1 .. n /\ g[k] \in 1 .. n /\ g[f[k]] = k /\ f[g[k]] = k
  BY DEF Inverses
<1>1. f \in [1 .. n -> 1 .. n]
  OBVIOUS
<1>2. ASSUME NEW i \in 1 .. n, NEW j \in 1 .. n, f[i] = f[j] PROVE i = j
  <2>1. g[f[i]] = i /\ g[f[j]] = j
    OBVIOUS
  <2> QED BY <1>2, <2>1
<1>3. ASSUME NEW j \in 1 .. n PROVE \E i \in 1 .. n : f[i] = j
  OBVIOUS
<1> QED BY <1>1, <1>2, <1>3 DEF Onto

LEMMA PermutedSelf ==
  ASSUME NEW n \in Nat, NEW s \in [1 .. n -> Data]
  PROVE  Permuted(n, s, s)
<1> DEFINE f == [i \in 1 .. n |-> i]
<1>1. Onto(n, f)
  BY DEF Onto
<1>2. s = [i \in 1 .. n |-> s[f[i]]]
  OBVIOUS
<1> HIDE DEF f
<1> QED BY <1>1, <1>2 DEF Permuted

LEMMA PermutedTwice ==
  ASSUME NEW n \in Nat, NEW s, NEW t, NEW u, Permuted(n, s, t), Permuted(n, t, u)
  PROVE  Permuted(n, s, u)
<1>1. PICK f : Onto(n, f) /\ t = [i \in 1 .. n |-> s[f[i]]]
  BY DEF Permuted
<1>2. PICK g : Onto(n, g) /\ u = [i \in 1 .. n |-> t[g[i]]]
  BY DEF Permuted
<1> DEFINE h == [i \in 1 .. n |-> f[g[i]]]
<1>3. h \in [1 .. n -> 1 .. n] /\ \A i \in 1 .. n : h[i] = f[g[i]]
  BY <1>1, <1>2 DEF Onto
<1> HIDE DEF h
<1>4. ASSUME NEW i \in 1 .. n, NEW j \in 1 .. n, h[i] = h[j] PROVE i = j
  <2>1. g[i] \in 1 .. n /\ g[j] \in 1 .. n /\ f[g[i]] = f[g[j]]
    BY <1>2, <1>3, <1>4 DEF Onto
  <2>2. g[i] = g[j]
    BY <1>1, <2>1 DEF Onto
  <2> QED BY <1>2, <2>2 DEF Onto
<1>5. ASSUME NEW j \in 1 .. n PROVE \E i \in 1 .. n : h[i] = j
  <2>1. PICK k \in 1 .. n : f[k] = j
    BY <1>1 DEF Onto
  <2>2. PICK i \in 1 .. n : g[i] = k
    BY <1>2 DEF Onto
  <2> QED BY <1>3, <2>1, <2>2
<1>6. Onto(n, h)
  BY <1>3, <1>4, <1>5 DEF Onto
<1>7. u = [i \in 1 .. n |-> s[h[i]]]
  <2>1. \A i \in 1 .. n : g[i] \in 1 .. n
    BY <1>2 DEF Onto
  <2>2. \A i \in 1 .. n : t[g[i]] = s[h[i]]
    BY <1>1, <1>3, <2>1
  <2> QED BY <1>2, <2>2
<1> QED BY <1>6, <1>7 DEF Permuted

\* A permutation keeps how often each element is there.
Times(n, s, d) == Cardinality({i \in 1 .. n : s[i] = d})

LEMMA PermutedCounts ==
  ASSUME NEW n \in Nat, NEW s, NEW t, Permuted(n, s, t), NEW d
  PROVE  Times(n, s, d) = Times(n, t, d)
<1>1. PICK f : Onto(n, f) /\ t = [i \in 1 .. n |-> s[f[i]]]
  BY DEF Permuted
<1> DEFINE S == {i \in 1 .. n : s[i] = d}
           T == {i \in 1 .. n : t[i] = d}
           g == [i \in T |-> f[i]]
<1>2. \A i \in 1 .. n : f[i] \in 1 .. n /\ t[i] = s[f[i]]
  BY <1>1 DEF Onto
<1>3. g \in [T -> S]
  BY <1>2
<1>4. \A i, j \in T : g[i] = g[j] => i = j
  BY <1>1 DEF Onto
<1>5. ASSUME NEW j \in S PROVE \E i \in T : g[i] = j
  <2>1. PICK i \in 1 .. n : f[i] = j
    BY <1>1 DEF Onto
  <2> QED BY <1>2, <2>1
<1>6. IsFiniteSet(T)
  <2>1. T \subseteq 1 .. n /\ IsFiniteSet(1 .. n)
    BY FS_Interval
  <2> HIDE DEF T
  <2> QED BY <2>1, FS_Subset
<1> HIDE DEF S, T, g
<1>7. g \in Bijection(T, S)
  BY <1>3, <1>4, <1>5 DEF Bijection, Injection, Surjection, IsInjective
<1>8. ExistsBijection(T, S)
  BY <1>7 DEF ExistsBijection
<1>9. Cardinality(S) = Cardinality(T)
  BY <1>6, <1>8, FS_Bijection
<1> QED BY <1>9 DEF S, T, Times

\* Two elements change places.
Swaps(n, s, t, i, j) == /\ t \in [1 .. n -> Data] /\ Permuted(n, s, t)
                        /\ \A k \in 1 .. n : t[k] = IF k = i THEN s[j] ELSE IF k = j THEN s[i] ELSE s[k]

LEMMA SwappedPermutes ==
  ASSUME NEW n \in Nat, NEW s \in [1 .. n -> Data], NEW i \in 1 .. n, NEW j \in 1 .. n
  PROVE  Swaps(n, s, Swapped(s, i, j), i, j)
<1> DEFINE t == Swapped(s, i, j)
           f == [k \in 1 .. n |-> IF k = i THEN j ELSE IF k = j THEN i ELSE k]
<1>1. t = [k \in 1 .. n |-> IF k = i THEN s[j] ELSE IF k = j THEN s[i] ELSE s[k]]
  BY DEF Swapped
<1>2. t = [k \in 1 .. n |-> s[f[k]]]
  BY <1>1
<1>3. Onto(n, f)
  <2>1. \A k \in 1 .. n : f[k] \in 1 .. n /\ f[f[k]] = k
    OBVIOUS
  <2>2. f = [k \in 1 .. n |-> f[k]]
    OBVIOUS
  <2> HIDE DEF f
  <2>3. Inverses(n, f, f)
    BY <2>1, <2>2 DEF Inverses
  <2> QED BY <2>3, OntoInverse
<1> HIDE DEF t, f
<1>4. Permuted(n, s, t)
  BY <1>2, <1>3 DEF Permuted
<1>5. t \in [1 .. n -> Data]
  BY <1>1
<1> QED BY <1>1, <1>4, <1>5 DEF t, Swaps

\* An element goes past the pivot at p, which goes to q.
LEMMA PastPermutes ==
  ASSUME NEW n \in Nat, NEW s \in [1 .. n -> Data], NEW i \in 1 .. n, NEW p \in 1 .. n, NEW q \in 1 .. n,
         i # p, q # p
  PROVE  /\ Past(s, i, p, q) \in [1 .. n -> Data] /\ Permuted(n, s, Past(s, i, p, q))
         /\ \A k \in 1 .. n : Past(s, i, p, q)[k] = IF k = p THEN s[i] ELSE IF k = q THEN s[p]
                                                    ELSE IF k = i THEN s[q] ELSE s[k]
<1> DEFINE t == Past(s, i, p, q)
           f == [k \in 1 .. n |-> IF k = p THEN i ELSE IF k = q THEN p ELSE IF k = i THEN q ELSE k]
           g == [k \in 1 .. n |-> IF k = i THEN p ELSE IF k = p THEN q ELSE IF k = q THEN i ELSE k]
<1>1. t = [k \in 1 .. n |-> IF k = p THEN s[i] ELSE IF k = q THEN s[p] ELSE IF k = i THEN s[q] ELSE s[k]]
  BY DEF Past
<1>2. t = [k \in 1 .. n |-> s[f[k]]]
  BY <1>1
<1>3. Onto(n, f)
  <2>1. \A k \in 1 .. n : f[k] \in 1 .. n /\ g[k] \in 1 .. n /\ g[f[k]] = k /\ f[g[k]] = k
    OBVIOUS
  <2>2. f = [k \in 1 .. n |-> f[k]]
    OBVIOUS
  <2> HIDE DEF f, g
  <2>3. Inverses(n, f, g)
    BY <2>1, <2>2 DEF Inverses
  <2> QED BY <2>3, OntoInverse
<1> HIDE DEF t, f
<1>4. Permuted(n, s, t)
  BY <1>2, <1>3 DEF Permuted
<1>5. t \in [1 .. n -> Data]
  BY <1>1
<1> QED BY <1>1, <1>4, <1>5 DEF t

\* What comes from where it was or from another of the same positions
LEMMA PermutedFrom ==
  ASSUME NEW n \in Nat, NEW s \in [1 .. n -> Data], NEW t, Permuted(n, s, t)
  PROVE  t \in [1 .. n -> Data] /\ \A i \in 1 .. n : \E j \in 1 .. n : t[i] = s[j]
<1>1. PICK f : Onto(n, f) /\ t = [i \in 1 .. n |-> s[f[i]]]
  BY DEF Permuted
<1> QED BY <1>1 DEF Onto

\* Both sides of position p are permuted, each for itself.
LEMMA SidesPermute ==
  ASSUME NEW n \in Nat, NEW p \in 1 .. n, NEW s \in [1 .. n -> Data], NEW t,
         NEW a, NEW b, Permuted(p - 1, [i \in 1 .. p - 1 |-> s[i]], a),
         Permuted(n - p, [i \in 1 .. n - p |-> s[p + i]], b),
         t = [i \in 1 .. n |-> IF i < p THEN a[i] ELSE IF i = p THEN s[p] ELSE b[i - p]]
  PROVE  Permuted(n, s, t)
<1> DEFINE l == p - 1
           m == n - p
           sa == [i \in 1 .. l |-> s[i]]
           sb == [i \in 1 .. m |-> s[p + i]]
<1>1. PICK f : Onto(l, f) /\ a = [i \in 1 .. l |-> sa[f[i]]]
  BY DEF Permuted
<1>2. PICK g : Onto(m, g) /\ b = [i \in 1 .. m |-> sb[g[i]]]
  BY DEF Permuted
<1>3. \A i \in 1 .. l : f[i] \in 1 .. l /\ a[i] = s[f[i]]
  BY <1>1 DEF Onto
<1>4. \A i \in 1 .. m : g[i] \in 1 .. m /\ b[i] = s[p + g[i]]
  BY <1>2 DEF Onto
<1> DEFINE h == [i \in 1 .. n |-> IF i < p THEN f[i] ELSE IF i = p THEN p ELSE p + g[i - p]]
<1>5. /\ \A i \in 1 .. n : i < p => i \in 1 .. l
      /\ \A i \in 1 .. n : i > p => i - p \in 1 .. m
      /\ \A i \in 1 .. l : i \in 1 .. n /\ i < p
      /\ \A i \in 1 .. m : p + i \in 1 .. n /\ p + i > p /\ (p + i) - p = i
  OBVIOUS
<1>6. /\ \A i \in 1 .. n : i < p => h[i] = f[i]
      /\ h[p] = p
      /\ \A i \in 1 .. n : i > p => h[i] = p + g[i - p]
  OBVIOUS
<1>7. h = [i \in 1 .. n |-> h[i]]
  OBVIOUS
<1> HIDE DEF h, l, m, sa, sb
<1>8. \A i \in 1 .. n : /\ i < p => h[i] \in 1 .. n /\ h[i] < p /\ h[i] = f[i] /\ f[i] \in 1 .. l
                        /\ i > p => h[i] \in 1 .. n /\ h[i] > p /\ h[i] = p + g[i - p] /\ g[i - p] \in 1 .. m
  <2>1. ASSUME NEW i \in 1 .. n, i < p
        PROVE  h[i] \in 1 .. n /\ h[i] < p /\ h[i] = f[i] /\ f[i] \in 1 .. l
    <3>1. h[i] = f[i] /\ f[i] \in 1 .. l
      BY <1>3, <1>5, <1>6, <2>1
    <3> QED BY <1>5, <3>1
  <2>2. ASSUME NEW i \in 1 .. n, i > p
        PROVE  h[i] \in 1 .. n /\ h[i] > p /\ h[i] = p + g[i - p] /\ g[i - p] \in 1 .. m
    <3>1. h[i] = p + g[i - p] /\ g[i - p] \in 1 .. m
      BY <1>4, <1>5, <1>6, <2>2
    <3>2. p + g[i - p] \in 1 .. n /\ p + g[i - p] > p
      BY <1>5, <3>1
    <3> QED BY <3>1, <3>2
  <2> QED BY <2>1, <2>2
<1>9. ASSUME NEW i \in 1 .. n, NEW j \in 1 .. n, h[i] = h[j] PROVE i = j
  <2>1. CASE i < p
    <3>1. j < p
      BY <1>6, <1>8, <1>9, <2>1
    <3> QED BY <1>1, <1>5, <1>8, <1>9, <2>1, <3>1 DEF Onto
  <2>2. CASE i = p
    BY <1>6, <1>8, <1>9, <2>2
  <2>3. CASE i > p
    <3>1. j > p
      BY <1>6, <1>8, <1>9, <2>3
    <3>2. g[i - p] \in 1 .. m /\ g[j - p] \in 1 .. m /\ p + g[i - p] = p + g[j - p]
      BY <1>8, <1>9, <2>3, <3>1
    <3>3. \A x, y \in 1 .. m : p + x = p + y => x = y
      BY DEF m
    <3>4. g[i - p] = g[j - p]
      BY <3>2, <3>3
    <3>5. i - p \in 1 .. m /\ j - p \in 1 .. m
      BY <1>5, <2>3, <3>1
    <3>6. i - p = j - p
      BY <1>2, <3>4, <3>5 DEF Onto
    <3> QED BY <3>6
  <2> QED BY <2>1, <2>2, <2>3
<1>10. ASSUME NEW j \in 1 .. n PROVE \E i \in 1 .. n : h[i] = j
  <2>1. CASE j < p
    BY <1>1, <1>5, <1>6, <2>1 DEF Onto
  <2>2. CASE j = p
    BY <1>6, <2>2
  <2>3. CASE j > p
    <3>1. PICK i \in 1 .. m : g[i] = j - p
      BY <1>2, <1>5, <2>3 DEF Onto
    <3>2. p + i \in 1 .. n /\ p + i > p /\ (p + i) - p = i
      BY <1>5
    <3>3. h[p + i] = p + g[(p + i) - p]
      BY <1>6, <3>2
    <3>4. p + (j - p) = j
      OBVIOUS
    <3> QED BY <3>1, <3>2, <3>3, <3>4
  <2> QED BY <2>1, <2>2, <2>3
<1>11. Onto(n, h)
  <2>1. \A i \in 1 .. n : h[i] \in 1 .. n
    BY <1>6, <1>8
  <2>2. h \in [1 .. n -> 1 .. n]
    BY <1>7, <2>1
  <2> QED BY <1>9, <1>10, <2>2 DEF Onto
<1>12. t = [i \in 1 .. n |-> s[h[i]]]
  <2>1. ASSUME NEW i \in 1 .. n PROVE t[i] = s[h[i]]
    <3>1. CASE i < p
      BY <1>3, <1>5, <1>8, <3>1
    <3>2. CASE i = p
      BY <1>6, <3>2
    <3>3. CASE i > p
      BY <1>4, <1>5, <1>8, <3>3
    <3> QED BY <3>1, <3>2, <3>3
  <2>2. t = [i \in 1 .. n |-> t[i]]
    OBVIOUS
  <2> QED BY <2>1, <2>2
<1> QED BY <1>11, <1>12 DEF Permuted

-----------------------------------------------------------------------------
(* The order *)

\* What ascends for versus 1 and descends for -1
Rank(versus) == [d \in Data |-> versus * Key[d]]

LEMMA Ranks ==
  ASSUME NEW versus \in {-1, 1}
  PROVE  /\ Rank(versus) \in [Data -> Int]
         /\ \A a, b \in Data : /\ After(a, b, versus) > 0 <=> Rank(versus)[a] > Rank(versus)[b]
                               /\ After(a, b, versus) < 0 <=> Rank(versus)[a] < Rank(versus)[b]
                               /\ After(a, b, versus) <= 0 <=> Rank(versus)[a] <= Rank(versus)[b]
<1>1. \A d \in Data : Key[d] \in Int
  BY SimCListAssumption
<1>2. CASE versus = 1
  <2>1. \A d \in Data : Rank(versus)[d] = Key[d]
    BY <1>1, <1>2 DEF Rank
  <2>2. \A a, b \in Data : After(a, b, versus) = Key[a] - Key[b]
    BY <1>1, <1>2 DEF After, Compare
  <2>3. Rank(versus) \in [Data -> Int]
    BY <1>1, <1>2 DEF Rank
  <2> QED BY <1>1, <2>1, <2>2, <2>3
<1>3. CASE versus = -1
  <2>1. \A d \in Data : Rank(versus)[d] = -Key[d]
    BY <1>1, <1>3 DEF Rank
  <2>2. \A a, b \in Data : After(a, b, versus) = Key[b] - Key[a]
    BY <1>1, <1>3 DEF After, Compare
  <2>3. Rank(versus) \in [Data -> Int]
    BY <1>1, <1>3 DEF Rank
  <2> QED BY <1>1, <2>1, <2>2, <2>3
<1> QED BY <1>2, <1>3

\* t is s, sorted.
Sorts(n, s, t, versus) ==
  /\ t \in [1 .. n -> Data] /\ Permuted(n, s, t)
  /\ \A i, j \in 1 .. n : i <= j => Rank(versus)[t[i]] <= Rank(versus)[t[j]]

\* There is a least element in the rest of a list.
LEMMA LeastExists ==
  ASSUME NEW n \in Nat, NEW s \in [1 .. n -> Data], NEW a \in 1 .. n, NEW r \in [Data -> Int]
  PROVE  \E i \in a .. n : \A j \in a .. n : r[s[i]] <= r[s[j]]
<1> DEFINE P(m) == \E i \in a .. a + m : \A j \in a .. a + m : r[s[i]] <= r[s[j]]
           T == {m \in Nat : a + m <= n => P(m)}
<1>1. 0 \in T
  BY DEF P
<1>2. ASSUME NEW m \in Nat, m \in T PROVE m + 1 \in T
  <2>1. ASSUME a + (m + 1) <= n PROVE P(m + 1)
    <3>1. PICK i \in a .. a + m : \A j \in a .. a + m : r[s[i]] <= r[s[j]]
      BY <1>2, <2>1
    <3> DEFINE e == a + (m + 1)
    <3>2. /\ e \in 1 .. n /\ e \in a .. e /\ i \in 1 .. n /\ i \in a .. e
          /\ \A j \in a .. e : j \in 1 .. n /\ (j = e \/ j \in a .. a + m)
      BY <2>1
    <3>3. \A j \in 1 .. n : r[s[j]] \in Int
      OBVIOUS
    <3> HIDE DEF e
    <3>4. CASE r[s[i]] <= r[s[e]]
      <4>1. \A j \in a .. e : r[s[i]] <= r[s[j]]
        BY <3>1, <3>2, <3>4
      <4> QED BY <3>2, <4>1 DEF e
    <3>5. CASE ~ (r[s[i]] <= r[s[e]])
      <4>1. ASSUME NEW j \in a .. e PROVE r[s[e]] <= r[s[j]]
        <5>1. r[s[e]] \in Int /\ r[s[i]] \in Int /\ r[s[j]] \in Int
          BY <3>2, <3>3
        <5>2. j = e \/ r[s[i]] <= r[s[j]]
          BY <3>1, <3>2
        <5> QED BY <3>5, <5>1, <5>2
      <4> QED BY <3>2, <4>1 DEF e
    <3> QED BY <3>4, <3>5
  <2> QED BY <1>2, <2>1
<1> HIDE DEF T
<1>3. Nat \subseteq T
  BY <1>1, <1>2, NatSetInduction
<1>4. n - a \in Nat /\ a + (n - a) = n
  OBVIOUS
<1>5. n - a \in T
  BY <1>3, <1>4
<1>6. P(n - a)
  BY <1>4, <1>5 DEF T
<1> QED BY <1>4, <1>6

-----------------------------------------------------------------------------
(* Selection sort *)

LEMMA Selects ==
  ASSUME NEW n \in Nat, n > 0, NEW seq \in [1 .. n -> Data], Len(seq) = n, NEW versus \in {-1, 1}
  PROVE  Sorts(n, seq, SelectionSorted(seq, versus), versus)
<1> DEFINE r == Rank(versus)
           D == [data : [1 .. n -> Data], first : 1 .. n]
           toswap(s, first) == Min({i \in first .. n : \A j \in first .. n : After(s[i], s[j], versus) <= 0})
           pass == [x \in D |->
                      IF x.first = n THEN x
                      ELSE [data |-> Swapped(x.data, x.first, toswap(x.data, x.first)), first |-> x.first + 1]]
           start == [data |-> seq, first |-> 1]
           Ok(x) == /\ Permuted(n, seq, x.data)
                    /\ \A i, j \in 1 .. n : i < x.first /\ i <= j => r[x.data[i]] <= r[x.data[j]]
           I == [k \in Nat |-> {x \in D : Ok(x) /\ (x.first = n \/ x.first > k)}]
<1>1. r \in [Data -> Int]
  BY Ranks
<1>2. SelectionSorted(seq, versus) = Passes(pass, start, n).data
  BY DEF SelectionSorted
<1>3. start \in I[0]
  <2>1. start \in D /\ start.first = 1 /\ start.data = seq
    OBVIOUS
  <2>2. Permuted(n, seq, seq)
    BY PermutedSelf
  <2>3. ~ \E i \in 1 .. n : i < 1
    OBVIOUS
  <2>4. Ok(start)
    BY <2>1, <2>2, <2>3
  <2> HIDE DEF D, Ok, start
  <2> QED BY <2>1, <2>4
<1>4. ASSUME NEW s \in [1 .. n -> Data], NEW first \in 1 .. n
      PROVE  /\ toswap(s, first) \in first .. n
             /\ \A j \in first .. n : r[s[toswap(s, first)]] <= r[s[j]]
  <2> DEFINE T == {i \in first .. n : \A j \in first .. n : After(s[i], s[j], versus) <= 0}
  <2>1. \A i, j \in first .. n : After(s[i], s[j], versus) <= 0 <=> r[s[i]] <= r[s[j]]
    <3>1. \A i \in first .. n : s[i] \in Data
      OBVIOUS
    <3> HIDE DEF r
    <3> QED BY <3>1, Ranks DEF r
  <2>2. \E i \in first .. n : \A j \in first .. n : r[s[i]] <= r[s[j]]
    BY <1>1, LeastExists
  <2>3. T # {} /\ T \in SUBSET Nat
    BY <2>1, <2>2
  <2>4. \A i \in T : i \in first .. n /\ \A j \in first .. n : r[s[i]] <= r[s[j]]
    BY <2>1
  <2> HIDE DEF T
  <2>5. Min(T) \in T
    BY <2>3, MinMember
  <2> QED BY <2>4, <2>5 DEF T
<1> HIDE DEF r, toswap
<1>5. ASSUME NEW k \in Nat, NEW x \in I[k] PROVE pass[x] \in I[k + 1]
  <2> DEFINE s == x.data
             f == x.first
             m == toswap(s, f)
             t == Swapped(s, f, m)
  <2>1. x \in D /\ Ok(x) /\ (f = n \/ f > k)
    OBVIOUS
  <2>2. s \in [1 .. n -> Data] /\ f \in 1 .. n
    BY <2>1
  <2>3. CASE f = n
    BY <2>1, <2>3
  <2>4. CASE f # n
    <3>1. m \in f .. n /\ m \in 1 .. n /\ \A j \in f .. n : r[s[m]] <= r[s[j]]
      BY <1>4, <2>2
    <3> DEFINE y == [data |-> t, first |-> f + 1]
    <3>2. pass[x] = y
      BY <2>1, <2>4
    <3>3. /\ t \in [1 .. n -> Data] /\ Permuted(n, s, t)
          /\ \A k1 \in 1 .. n : t[k1] = IF k1 = f THEN s[m] ELSE IF k1 = m THEN s[f] ELSE s[k1]
      <4> HIDE DEF s, f, m
      <4>1. m \in 1 .. n
        BY <3>1
      <4>2. s \in [1 .. n -> Data] /\ f \in 1 .. n
        BY <2>2
      <4>3. Swaps(n, s, Swapped(s, f, m), f, m)
        BY ONLY n \in Nat, <4>1, <4>2, SwappedPermutes
      <4> QED BY ONLY <4>3 DEF Swaps
    <3>4. f + 1 \in 1 .. n /\ f + 1 > k + 1
      BY <2>1, <2>2, <2>4
    <3>5. Permuted(n, seq, t)
      BY <2>1, <3>3, PermutedTwice
    <3>6. ASSUME NEW i \in 1 .. n, NEW j \in 1 .. n, i < f + 1, i <= j PROVE r[t[i]] <= r[t[j]]
      <4>1. \A l \in 1 .. n : r[s[l]] \in Int
        BY <1>1, <2>2
      <4>2. \E l \in 1 .. n : t[j] = s[l] /\ (j >= f => l >= f) /\ (j < f => l = j)
        <5>1. f \in 1 .. n /\ m \in 1 .. n /\ f <= m
          BY <2>2, <3>1
        <5>2. t[j] = IF j = f THEN s[m] ELSE IF j = m THEN s[f] ELSE s[j]
          BY <3>3
        <5> HIDE DEF t, s, f, m
        <5>3. CASE j = f
          BY <5>1, <5>2, <5>3
        <5>4. CASE j = m /\ j # f
          BY <5>1, <5>2, <5>4
        <5>5. CASE j # f /\ j # m
          BY <5>1, <5>2, <5>5
        <5> QED BY <5>3, <5>4, <5>5
      <4>3. PICK l \in 1 .. n : t[j] = s[l] /\ (j >= f => l >= f) /\ (j < f => l = j)
        BY <4>2
      <4>4. CASE i < f
        <5>1. t[i] = s[i] /\ i <= l
          BY <2>2, <3>1, <3>3, <3>6, <4>3, <4>4
        <5>2. r[s[i]] <= r[s[l]]
          BY <2>1, <4>4, <5>1
        <5> QED BY <4>3, <5>1, <5>2
      <4>5. CASE i = f
        <5>1. t[i] = s[m] /\ l \in f .. n
          BY <2>2, <3>3, <3>6, <4>3, <4>5
        <5> QED BY <3>1, <4>3, <5>1
      <4> QED BY <2>2, <3>6, <4>4, <4>5
    <3> HIDE DEF t, s, f, m
    <3>7. y \in D /\ y.data = t /\ y.first = f + 1
      BY <3>3, <3>4
    <3>8. Ok(y)
      BY <3>5, <3>6, <3>7
    <3> HIDE DEF D, Ok, y, pass
    <3>9. y \in I[k + 1]
      BY <3>4, <3>7, <3>8
    <3> QED BY <3>2, <3>9
  <2> QED BY <2>3, <2>4
<1> DEFINE z == Passes(pass, start, n)
<1> HIDE DEF pass, start
<1>6. z \in I[n]
  <2> HIDE DEF I
  <2> QED BY <1>3, <1>5, PassesKeep
<1>7. z \in D /\ Ok(z) /\ z.first = n
  BY <1>6
<1>8. z.data \in [1 .. n -> Data]
  BY <1>7
<1>9. ASSUME NEW i \in 1 .. n, NEW j \in 1 .. n, i <= j PROVE r[z.data[i]] <= r[z.data[j]]
  <2>1. CASE i < n
    BY <1>7, <1>9, <2>1
  <2>2. CASE i = n
    <3>1. j = i /\ r[z.data[i]] \in Int
      BY <1>1, <1>8, <1>9, <2>2
    <3> QED BY <3>1
  <2> QED BY <2>1, <2>2
<1> HIDE DEF z
<1> QED BY <1>2, <1>7, <1>8, <1>9 DEF Sorts, r, z

-----------------------------------------------------------------------------
(* Partition *)

\* Nothing before position a is greater than what is at p, and nothing behind b is less.
Around(n, s, r, a, p, b) == \A i \in 1 .. n : /\ i < a => r[s[i]] <= r[s[p]]
                                              /\ i > b => r[s[p]] <= r[s[i]]

\* left and right come to the pivot.
LEMMA Scans ==
  ASSUME NEW n \in Nat, NEW seq \in [1 .. n -> Data], Len(seq) = n, NEW pivot \in 1 .. n, NEW versus \in {-1, 1},
         NEW z, z = Scan(seq, pivot, versus)
  PROVE  /\ z.data \in [1 .. n -> Data] /\ z.left \in 1 .. pivot /\ z.right \in pivot .. n
         /\ z.left = pivot \/ z.right = pivot
         /\ Permuted(n, seq, z.data) /\ Around(n, z.data, Rank(versus), z.left, pivot, z.right)
<1> DEFINE q == Rank(versus)
           D == [data : [1 .. n -> Data], left : 1 .. pivot, right : pivot .. n]
           lefts(s, a) == {i \in a .. pivot : i = pivot \/ After(s[i], s[pivot], versus) > 0}
           rights(s, b) == {i \in pivot .. b : i = pivot \/ After(s[i], s[pivot], versus) < 0}
           pass == [x \in D |->
                      IF x.left = pivot \/ x.right = pivot THEN x
                      ELSE LET s == x.data
                               l == Min(lefts(s, x.left))
                               r == Max(rights(s, x.right))
                           IN  IF l = pivot \/ r = pivot THEN [data |-> s, left |-> l, right |-> r]
                               ELSE [data |-> Swapped(s, l, r), left |-> l + 1, right |-> r - 1]]
           start == [data |-> seq, left |-> 1, right |-> n]
           Ok(x) == Permuted(n, seq, x.data) /\ Around(n, x.data, q, x.left, pivot, x.right)
           I == [k \in Nat |-> {x \in D : Ok(x) /\ (x.left = pivot \/ x.right = pivot \/ (x.right - x.left) + k < n)}]
<1>1. q \in [Data -> Int]
  BY Ranks
<1>2. z = Passes(pass, start, n)
  BY DEF Scan
<1>3. start \in I[0]
  <2>1. start \in D /\ start.left = 1 /\ start.right = n /\ start.data = seq
    OBVIOUS
  <2>2. Permuted(n, seq, seq)
    BY PermutedSelf
  <2>3. Around(n, seq, q, 1, pivot, n)
    BY DEF Around
  <2>4. Ok(start)
    BY <2>1, <2>2, <2>3
  <2>5. (n - 1) + 0 < n
    OBVIOUS
  <2> HIDE DEF D, Ok, start
  <2> QED BY <2>1, <2>4, <2>5
<1>4. ASSUME NEW s \in [1 .. n -> Data], NEW a \in 1 .. pivot
      PROVE  LET l == Min(lefts(s, a))
             IN  /\ l \in a .. pivot
                 /\ \A i \in a .. pivot : i < l => q[s[i]] <= q[s[pivot]]
                 /\ l # pivot => q[s[l]] >= q[s[pivot]]
  <2> DEFINE T == lefts(s, a)
             l == Min(T)
  <2>1. \A i \in a .. pivot : /\ s[i] \in Data /\ s[pivot] \in Data /\ q[s[i]] \in Int /\ q[s[pivot]] \in Int
                              /\ After(s[i], s[pivot], versus) > 0 <=> q[s[i]] > q[s[pivot]]
    <3>1. \A i \in a .. pivot : s[i] \in Data /\ s[pivot] \in Data
      OBVIOUS
    <3> HIDE DEF q
    <3>2. \A c, d \in Data : After(c, d, versus) > 0 <=> q[c] > q[d]
      BY Ranks DEF q
    <3> QED BY <1>1, <3>1, <3>2
  <2>2. pivot \in T /\ T \in SUBSET Nat
    OBVIOUS
  <2>3. \A i \in a .. pivot : i \in T <=> i = pivot \/ q[s[i]] > q[s[pivot]]
    BY <2>1
  <2>4. \A i \in T : i \in a .. pivot
    OBVIOUS
  <2> HIDE DEF T, q
  <2>5. l \in T /\ \A i \in T : l <= i
    BY <2>2, MinMember
  <2>6. l \in a .. pivot
    BY <2>4, <2>5
  <2>7. ASSUME NEW i \in a .. pivot, i < l PROVE q[s[i]] <= q[s[pivot]]
    <3>1. i \notin T
      BY <2>5, <2>6, <2>7
    <3> QED BY <2>1, <2>3, <3>1
  <2>8. l # pivot => q[s[l]] >= q[s[pivot]]
    BY <2>1, <2>3, <2>5, <2>6
  <2> QED BY <2>6, <2>7, <2>8 DEF T
<1>5. ASSUME NEW s \in [1 .. n -> Data], NEW b \in pivot .. n
      PROVE  LET r == Max(rights(s, b))
             IN  /\ r \in pivot .. b
                 /\ \A i \in pivot .. b : i > r => q[s[pivot]] <= q[s[i]]
                 /\ r # pivot => q[s[r]] <= q[s[pivot]]
  <2> DEFINE T == rights(s, b)
             r == Max(T)
  <2>1. \A i \in pivot .. b : /\ s[i] \in Data /\ s[pivot] \in Data /\ q[s[i]] \in Int /\ q[s[pivot]] \in Int
                              /\ After(s[i], s[pivot], versus) < 0 <=> q[s[i]] < q[s[pivot]]
    <3>1. \A i \in pivot .. b : s[i] \in Data /\ s[pivot] \in Data
      OBVIOUS
    <3> HIDE DEF q
    <3>2. \A c, d \in Data : After(c, d, versus) < 0 <=> q[c] < q[d]
      BY Ranks DEF q
    <3> QED BY <1>1, <3>1, <3>2
  <2>2. pivot \in T /\ T \in SUBSET (1 .. n)
    OBVIOUS
  <2>3. \A i \in pivot .. b : i \in T <=> i = pivot \/ q[s[i]] < q[s[pivot]]
    BY <2>1
  <2>4. \A i \in T : i \in pivot .. b
    OBVIOUS
  <2> HIDE DEF T, q
  <2>5. r \in T /\ \A i \in T : i <= r
    BY <2>2, MaxMember
  <2>6. r \in pivot .. b
    BY <2>4, <2>5
  <2>7. ASSUME NEW i \in pivot .. b, i > r PROVE q[s[pivot]] <= q[s[i]]
    <3>1. i \notin T
      BY <2>5, <2>6, <2>7
    <3> QED BY <2>1, <2>3, <3>1
  <2>8. r # pivot => q[s[r]] <= q[s[pivot]]
    BY <2>1, <2>3, <2>5, <2>6
  <2> QED BY <2>6, <2>7, <2>8 DEF T
<1> HIDE DEF q, lefts, rights
<1>6. ASSUME NEW k \in Nat, NEW x \in I[k] PROVE pass[x] \in I[k + 1]
  <2> DEFINE s == x.data
             a == x.left
             b == x.right
             l == Min(lefts(s, a))
             r == Max(rights(s, b))
             t == Swapped(s, l, r)
  <2>1. x \in D /\ Ok(x) /\ (a = pivot \/ b = pivot \/ (b - a) + k < n)
    OBVIOUS
  <2>2. s \in [1 .. n -> Data] /\ a \in 1 .. pivot /\ b \in pivot .. n
    BY <2>1
  <2>3. CASE a = pivot \/ b = pivot
    BY <2>1, <2>3
  <2>4. CASE ~ (a = pivot \/ b = pivot)
    <3>1. /\ l \in a .. pivot
          /\ \A i \in a .. pivot : i < l => q[s[i]] <= q[s[pivot]]
          /\ l # pivot => q[s[l]] >= q[s[pivot]]
      BY <1>4, <2>2
    <3>2. /\ r \in pivot .. b
          /\ \A i \in pivot .. b : i > r => q[s[pivot]] <= q[s[i]]
          /\ r # pivot => q[s[r]] <= q[s[pivot]]
      BY <1>5, <2>2
    <3>3. Permuted(n, seq, s) /\ Around(n, s, q, a, pivot, b)
      BY <2>1
    <3>4. pass[x] = IF l = pivot \/ r = pivot THEN [data |-> s, left |-> l, right |-> r]
                    ELSE [data |-> t, left |-> l + 1, right |-> r - 1]
      BY <2>1, <2>4
    <3>5. (b - a) + k < n
      BY <2>1, <2>4
    <3> HIDE DEF s, a, b, l, r, pass
    <3>6. Around(n, s, q, l, pivot, r)
      <4>1. ASSUME NEW i \in 1 .. n, i < l PROVE q[s[i]] <= q[s[pivot]]
        <5>1. CASE i < a
          BY <3>3, <5>1 DEF Around
        <5>2. CASE ~ (i < a)
          <6>1. i \in a .. pivot
            BY <2>2, <3>1, <4>1, <5>2
          <6> QED BY <3>1, <4>1, <6>1
        <5> QED BY <5>1, <5>2
      <4>2. ASSUME NEW i \in 1 .. n, i > r PROVE q[s[pivot]] <= q[s[i]]
        <5>1. CASE i > b
          BY <3>3, <5>1 DEF Around
        <5>2. CASE ~ (i > b)
          <6>1. i \in pivot .. b
            BY <2>2, <3>2, <4>2, <5>2
          <6> QED BY <3>2, <4>2, <6>1
        <5> QED BY <5>1, <5>2
      <4> QED BY <4>1, <4>2 DEF Around
    <3>7. CASE l = pivot \/ r = pivot
      <4> DEFINE y == [data |-> s, left |-> l, right |-> r]
      <4>1. l \in 1 .. pivot /\ r \in pivot .. n
        BY <2>2, <3>1, <3>2
      <4>2. y \in D /\ y.data = s /\ y.left = l /\ y.right = r /\ pass[x] = y
        BY <2>2, <3>4, <3>7, <4>1
      <4>3. Ok(y)
        BY <3>3, <3>6, <4>2
      <4> HIDE DEF D, Ok, y
      <4> QED BY <3>7, <4>2, <4>3
    <3>8. CASE ~ (l = pivot \/ r = pivot)
      <4> DEFINE y == [data |-> t, left |-> l + 1, right |-> r - 1]
      <4>1. /\ l \in 1 .. n /\ r \in 1 .. n /\ l < pivot /\ pivot < r
            /\ l + 1 \in 1 .. pivot /\ r - 1 \in pivot .. n
            /\ ((r - 1) - (l + 1)) + (k + 1) < n
        BY <2>2, <3>1, <3>2, <3>5, <3>8
      <4>2. Swaps(n, s, t, l, r)
        <5>1. s \in [1 .. n -> Data] /\ l \in 1 .. n /\ r \in 1 .. n
          BY <2>2, <4>1
        <5> HIDE DEF s, l, r
        <5> QED BY ONLY n \in Nat, <5>1, SwappedPermutes
      <4>3. t \in [1 .. n -> Data] /\ Permuted(n, s, t)
        BY <4>2 DEF Swaps
      <4>4. \A i \in 1 .. n : t[i] = IF i = l THEN s[r] ELSE IF i = r THEN s[l] ELSE s[i]
        BY <4>2 DEF Swaps
      <4>5. Permuted(n, seq, t)
        BY <3>3, <4>3, PermutedTwice
      <4> HIDE DEF t
      <4>6. t[pivot] = s[pivot]
        <5>1. pivot # l /\ pivot # r
          BY <4>1
        <5> QED BY <4>4, <5>1
      <4>7. Around(n, t, q, l + 1, pivot, r - 1)
        <5>1. ASSUME NEW i \in 1 .. n, i < l + 1 PROVE q[t[i]] <= q[t[pivot]]
          <6>1. CASE i = l
            BY <3>2, <3>8, <4>4, <4>6, <6>1
          <6>2. CASE i # l
            <7>1. i < l /\ t[i] = s[i]
              BY <4>1, <4>4, <5>1, <6>2
            <7> QED BY <3>6, <4>6, <7>1 DEF Around
          <6> QED BY <6>1, <6>2
        <5>2. ASSUME NEW i \in 1 .. n, i > r - 1 PROVE q[t[pivot]] <= q[t[i]]
          <6>1. CASE i = r
            <7>1. t[i] = s[l]
              BY <4>1, <4>4, <6>1
            <7>2. q[s[l]] \in Int /\ q[s[pivot]] \in Int
              BY <1>1, <2>2, <4>1
            <7> QED BY <3>1, <3>8, <4>6, <7>1, <7>2
          <6>2. CASE i # r
            <7>1. i > r /\ t[i] = s[i]
              BY <4>1, <4>4, <5>2, <6>2
            <7> QED BY <3>6, <4>6, <7>1 DEF Around
          <6> QED BY <6>1, <6>2
        <5> QED BY <5>1, <5>2 DEF Around
      <4>8. y \in D /\ y.data = t /\ y.left = l + 1 /\ y.right = r - 1 /\ pass[x] = y
        BY <3>4, <3>8, <4>1, <4>3 DEF t
      <4>9. Ok(y)
        BY <4>5, <4>7, <4>8
      <4> HIDE DEF D, Ok, y
      <4> QED BY <4>1, <4>8, <4>9
    <3> QED BY <3>7, <3>8
  <2> QED BY <2>3, <2>4
<1> HIDE DEF pass, start
<1>7. z \in I[n]
  <2> HIDE DEF I
  <2> QED BY <1>2, <1>3, <1>6, PassesKeep
<1>8. z \in D /\ Ok(z) /\ (z.left = pivot \/ z.right = pivot \/ (z.right - z.left) + n < n)
  BY <1>7
<1>9. z.data \in [1 .. n -> Data] /\ z.left \in 1 .. pivot /\ z.right \in pivot .. n
  BY <1>8
<1>10. z.left = pivot \/ z.right = pivot
  BY <1>8, <1>9
<1> QED BY <1>8, <1>9, <1>10 DEF q

\* Data of seq, where nothing before the pivot is greater and nothing behind it is less
Parted(n, seq, x, r) == /\ x.data \in [1 .. n -> Data] /\ x.pivot \in 1 .. n
                        /\ Permuted(n, seq, x.data) /\ Around(n, x.data, r, x.pivot, x.pivot, x.pivot)

PartStates(n) == [data : [1 .. n -> Data], at : 1 .. n, pivot : 1 .. n]

\* The loops of Partition
FromLeft(n, versus) ==
  [x \in PartStates(n) |->
     IF x.at = x.pivot THEN x
     ELSE IF After(x.data[x.at], x.data[x.pivot], versus) > 0
          THEN [data |-> Past(x.data, x.at, x.pivot, x.pivot - 1), at |-> x.at, pivot |-> x.pivot - 1]
          ELSE [x EXCEPT !.at = @ + 1]]
FromRight(n, versus) ==
  [x \in PartStates(n) |->
     IF x.at = x.pivot THEN x
     ELSE IF After(x.data[x.at], x.data[x.pivot], versus) < 0
          THEN [data |-> Past(x.data, x.at, x.pivot, x.pivot + 1), at |-> x.at, pivot |-> x.pivot + 1]
          ELSE [x EXCEPT !.at = @ - 1]]

\* What goes past the pivot at p, which goes to q, next to it
WentPast(n, seq, s, t, i, p, q) ==
  /\ t \in [1 .. n -> Data] /\ Permuted(n, seq, t)
  /\ t[p] = s[i] /\ t[q] = s[p] /\ (i # q => t[i] = s[q])
  /\ \A k \in 1 .. n : k \notin {i, p, q} => t[k] = s[k]

LEMMA GoesPast ==
  ASSUME NEW n \in Nat, NEW seq, NEW s \in [1 .. n -> Data], NEW i \in 1 .. n, NEW p \in 1 .. n, NEW q \in 1 .. n,
         i # p, q # p, Permuted(n, seq, s), NEW t, t = Past(s, i, p, q)
  PROVE  WentPast(n, seq, s, t, i, p, q)
<1>1. t \in [1 .. n -> Data]
  BY PastPermutes
<1>2. Permuted(n, s, t)
  BY PastPermutes
<1>3. \A k \in 1 .. n : t[k] = IF k = p THEN s[i] ELSE IF k = q THEN s[p] ELSE IF k = i THEN s[q] ELSE s[k]
  BY PastPermutes
<1>4. Permuted(n, seq, t)
  BY <1>2, PermutedTwice
<1> QED BY <1>1, <1>3, <1>4 DEF WentPast

LEMMA PartsLeft ==
  ASSUME NEW n \in Nat, NEW seq, NEW versus \in {-1, 1},
         NEW s0 \in [1 .. n -> Data], NEW a0 \in 1 .. n, NEW p0 \in 1 .. n, a0 <= p0,
         Permuted(n, seq, s0), Around(n, s0, Rank(versus), a0, p0, p0),
         NEW z, z = Passes(FromLeft(n, versus), [data |-> s0, at |-> a0, pivot |-> p0], n)
  PROVE  Parted(n, seq, z, Rank(versus))
<1> DEFINE r == Rank(versus)
           D == PartStates(n)
           start == [data |-> s0, at |-> a0, pivot |-> p0]
           Ok(x) == Permuted(n, seq, x.data) /\ Around(n, x.data, r, x.at, x.pivot, x.pivot) /\ x.at <= x.pivot
           I == [k \in Nat |-> {x \in D : Ok(x) /\ (x.at = x.pivot \/ (x.pivot - x.at) + k < n)}]
           pass == FromLeft(n, versus)
<1>1. r \in [Data -> Int]
  BY Ranks
<1>2. start \in I[0]
  <2>1. start \in D /\ start.at = a0 /\ start.pivot = p0 /\ start.data = s0
    BY DEF PartStates
  <2>2. Ok(start)
    BY <2>1
  <2>3. (p0 - a0) + 0 < n
    OBVIOUS
  <2> HIDE DEF D, Ok, start
  <2> QED BY <2>1, <2>2, <2>3
<1>3. ASSUME NEW k \in Nat, NEW x \in I[k] PROVE pass[x] \in I[k + 1]
  <2> DEFINE s == x.data
             a == x.at
             p == x.pivot
             t == Past(s, a, p, p - 1)
  <2>1. x \in D /\ Ok(x) /\ (a = p \/ (p - a) + k < n)
    OBVIOUS
  <2>2. s \in [1 .. n -> Data] /\ a \in 1 .. n /\ p \in 1 .. n /\ a <= p /\ x = [data |-> s, at |-> a, pivot |-> p]
    BY <2>1 DEF PartStates
  <2>3. Permuted(n, seq, s) /\ Around(n, s, r, a, p, p)
    BY <2>1
  <2>4. /\ a = p => pass[x] = x
        /\ a # p /\ After(s[a], s[p], versus) > 0 => pass[x] = [data |-> t, at |-> a, pivot |-> p - 1]
        /\ a # p /\ ~ (After(s[a], s[p], versus) > 0) => pass[x] = [data |-> s, at |-> a + 1, pivot |-> p]
    BY <2>1, <2>2 DEF FromLeft
  <2>5. /\ s[a] \in Data /\ s[p] \in Data /\ r[s[a]] \in Int /\ r[s[p]] \in Int
        /\ After(s[a], s[p], versus) > 0 <=> r[s[a]] > r[s[p]]
    <3>1. s[a] \in Data /\ s[p] \in Data
      BY <2>2
    <3> HIDE DEF s, a, p
    <3>2. \A c, d \in Data : After(c, d, versus) > 0 <=> Rank(versus)[c] > Rank(versus)[d]
      BY Ranks
    <3> QED BY <1>1, <3>1, <3>2
  <2> HIDE DEF r
  <2>6. CASE a = p
    BY <2>1, <2>4, <2>6
  <2> HIDE DEF s, a, p, pass
  <2>7. CASE a # p /\ After(s[a], s[p], versus) > 0
    <3> DEFINE y == [data |-> t, at |-> a, pivot |-> p - 1]
    <3>1. p - 1 \in 1 .. n /\ p - 1 # p /\ a <= p - 1 /\ ((p - 1) - a) + (k + 1) < n
      BY <2>1, <2>2, <2>7
    <3>2. /\ t \in [1 .. n -> Data] /\ Permuted(n, seq, t)
          /\ t[p] = s[a] /\ t[p - 1] = s[p] /\ (a # p - 1 => t[a] = s[p - 1])
          /\ \A l \in 1 .. n : l \notin {a, p, p - 1} => t[l] = s[l]
      <4> DEFINE q == p - 1
      <4> HIDE DEF q
      <4>1. q \in 1 .. n /\ q # p
        BY <3>1 DEF q
      <4>2. t = Past(s, a, p, q)
        BY DEF q
      <4> HIDE DEF t
      <4>3. s \in [1 .. n -> Data] /\ a \in 1 .. n /\ p \in 1 .. n /\ a # p /\ Permuted(n, seq, s)
        BY <2>2, <2>3, <2>7
      <4>4. WentPast(n, seq, s, t, a, p, q)
        BY ONLY n \in Nat, <4>1, <4>2, <4>3, GoesPast
      <4>5. t \in [1 .. n -> Data] /\ Permuted(n, seq, t)
        BY ONLY <4>4 DEF WentPast
      <4>6. t[p] = s[a] /\ t[q] = s[p] /\ (a # q => t[a] = s[q])
        BY ONLY <4>4 DEF WentPast
      <4>7. \A l \in 1 .. n : l \notin {a, p, q} => t[l] = s[l]
        BY ONLY <4>4 DEF WentPast
      <4> QED BY <4>5, <4>6, <4>7 DEF q
    <3> HIDE DEF t
    <3>3. Around(n, t, r, a, p - 1, p - 1)
      <4>1. ASSUME NEW i \in 1 .. n, i < a PROVE r[t[i]] <= r[t[p - 1]]
        <5>1. i \notin {a, p, p - 1}
          BY <2>2, <3>1, <4>1
        <5>2. t[i] = s[i]
          BY <3>2, <5>1
        <5> QED BY <2>3, <3>2, <4>1, <5>2 DEF Around
      <4>2. ASSUME NEW i \in 1 .. n, i > p - 1 PROVE r[t[p - 1]] <= r[t[i]]
        <5>1. CASE i = p
          BY <2>5, <2>7, <3>2, <5>1
        <5>2. CASE i # p
          <6>1. i > p /\ i \notin {a, p, p - 1}
            BY <2>2, <4>2, <5>2
          <6>2. t[i] = s[i]
            BY <3>2, <6>1
          <6> QED BY <2>3, <3>2, <6>1, <6>2 DEF Around
        <5> QED BY <5>1, <5>2
      <4> QED BY <4>1, <4>2 DEF Around
    <3>4. y \in D /\ y.data = t /\ y.at = a /\ y.pivot = p - 1 /\ pass[x] = y
      BY <2>2, <2>4, <2>7, <3>1, <3>2 DEF PartStates
    <3>5. Ok(y)
      BY <3>1, <3>2, <3>3, <3>4
    <3> HIDE DEF D, Ok, y
    <3> QED BY <3>1, <3>4, <3>5
  <2>8. CASE a # p /\ ~ (After(s[a], s[p], versus) > 0)
    <3> DEFINE y == [data |-> s, at |-> a + 1, pivot |-> p]
    <3>1. a + 1 \in 1 .. n /\ a + 1 <= p /\ (p - (a + 1)) + (k + 1) < n
      BY <2>1, <2>2, <2>8
    <3>2. Around(n, s, r, a + 1, p, p)
      <4>1. ASSUME NEW i \in 1 .. n, i < a + 1 PROVE r[s[i]] <= r[s[p]]
        <5>1. CASE i = a
          BY <2>5, <2>8, <5>1
        <5>2. CASE i # a
          <6>1. i < a
            BY <2>2, <4>1, <5>2
          <6> QED BY <2>3, <6>1 DEF Around
        <5> QED BY <5>1, <5>2
      <4>2. \A i \in 1 .. n : i > p => r[s[p]] <= r[s[i]]
        BY <2>3 DEF Around
      <4> QED BY <4>1, <4>2 DEF Around
    <3>3. y \in D /\ y.data = s /\ y.at = a + 1 /\ y.pivot = p /\ pass[x] = y
      BY <2>2, <2>4, <2>8, <3>1 DEF PartStates
    <3>4. Ok(y)
      BY <2>3, <3>1, <3>2, <3>3
    <3> HIDE DEF D, Ok, y
    <3> QED BY <3>1, <3>3, <3>4
  <2> QED BY <2>6, <2>7, <2>8
<1> HIDE DEF pass, start
<1>4. z \in I[n]
  <2> HIDE DEF I
  <2>1. z = Passes(pass, start, n)
    BY DEF pass, start
  <2> QED BY <1>2, <1>3, <2>1, PassesKeep
<1>5. z \in D /\ Ok(z) /\ (z.at = z.pivot \/ (z.pivot - z.at) + n < n)
  BY <1>4
<1>6. z.data \in [1 .. n -> Data] /\ z.at \in 1 .. n /\ z.pivot \in 1 .. n
  BY <1>5 DEF PartStates
<1>7. z.at = z.pivot
  BY <1>5, <1>6
<1>8. Permuted(n, seq, z.data) /\ Around(n, z.data, r, z.pivot, z.pivot, z.pivot)
  BY <1>5, <1>7
<1> QED BY <1>6, <1>8 DEF Parted
LEMMA PartsRight ==
  ASSUME NEW n \in Nat, NEW seq, NEW versus \in {-1, 1},
         NEW s0 \in [1 .. n -> Data], NEW a0 \in 1 .. n, NEW p0 \in 1 .. n, p0 <= a0,
         Permuted(n, seq, s0), Around(n, s0, Rank(versus), p0, p0, a0),
         NEW z, z = Passes(FromRight(n, versus), [data |-> s0, at |-> a0, pivot |-> p0], n)
  PROVE  Parted(n, seq, z, Rank(versus))
<1> DEFINE r == Rank(versus)
           D == PartStates(n)
           start == [data |-> s0, at |-> a0, pivot |-> p0]
           Ok(x) == Permuted(n, seq, x.data) /\ Around(n, x.data, r, x.pivot, x.pivot, x.at) /\ x.pivot <= x.at
           I == [k \in Nat |-> {x \in D : Ok(x) /\ (x.at = x.pivot \/ (x.at - x.pivot) + k < n)}]
           pass == FromRight(n, versus)
<1>1. r \in [Data -> Int]
  BY Ranks
<1>2. start \in I[0]
  <2>1. start \in D /\ start.at = a0 /\ start.pivot = p0 /\ start.data = s0
    BY DEF PartStates
  <2>2. Ok(start)
    BY <2>1
  <2>3. (a0 - p0) + 0 < n
    OBVIOUS
  <2> HIDE DEF D, Ok, start
  <2> QED BY <2>1, <2>2, <2>3
<1>3. ASSUME NEW k \in Nat, NEW x \in I[k] PROVE pass[x] \in I[k + 1]
  <2> DEFINE s == x.data
             a == x.at
             p == x.pivot
             t == Past(s, a, p, p + 1)
  <2>1. x \in D /\ Ok(x) /\ (a = p \/ (a - p) + k < n)
    OBVIOUS
  <2>2. s \in [1 .. n -> Data] /\ a \in 1 .. n /\ p \in 1 .. n /\ p <= a /\ x = [data |-> s, at |-> a, pivot |-> p]
    BY <2>1 DEF PartStates
  <2>3. Permuted(n, seq, s) /\ Around(n, s, r, p, p, a)
    BY <2>1
  <2>4. /\ a = p => pass[x] = x
        /\ a # p /\ After(s[a], s[p], versus) < 0 => pass[x] = [data |-> t, at |-> a, pivot |-> p + 1]
        /\ a # p /\ ~ (After(s[a], s[p], versus) < 0) => pass[x] = [data |-> s, at |-> a - 1, pivot |-> p]
    BY <2>1, <2>2 DEF FromRight
  <2>5. /\ s[a] \in Data /\ s[p] \in Data /\ r[s[a]] \in Int /\ r[s[p]] \in Int
        /\ After(s[a], s[p], versus) < 0 <=> r[s[a]] < r[s[p]]
    <3>1. s[a] \in Data /\ s[p] \in Data
      BY <2>2
    <3> HIDE DEF s, a, p
    <3>2. \A c, d \in Data : After(c, d, versus) < 0 <=> Rank(versus)[c] < Rank(versus)[d]
      BY Ranks
    <3> QED BY <1>1, <3>1, <3>2
  <2> HIDE DEF r
  <2>6. CASE a = p
    BY <2>1, <2>4, <2>6
  <2> HIDE DEF s, a, p, pass
  <2>7. CASE a # p /\ After(s[a], s[p], versus) < 0
    <3> DEFINE y == [data |-> t, at |-> a, pivot |-> p + 1]
    <3>1. p + 1 \in 1 .. n /\ p + 1 # p /\ p + 1 <= a /\ (a - (p + 1)) + (k + 1) < n
      BY <2>1, <2>2, <2>7
    <3>2. /\ t \in [1 .. n -> Data] /\ Permuted(n, seq, t)
          /\ t[p] = s[a] /\ t[p + 1] = s[p] /\ (a # p + 1 => t[a] = s[p + 1])
          /\ \A l \in 1 .. n : l \notin {a, p, p + 1} => t[l] = s[l]
      <4> DEFINE q == p + 1
      <4> HIDE DEF q
      <4>1. q \in 1 .. n /\ q # p
        BY <3>1 DEF q
      <4>2. t = Past(s, a, p, q)
        BY DEF q
      <4> HIDE DEF t
      <4>3. s \in [1 .. n -> Data] /\ a \in 1 .. n /\ p \in 1 .. n /\ a # p /\ Permuted(n, seq, s)
        BY <2>2, <2>3, <2>7
      <4>4. WentPast(n, seq, s, t, a, p, q)
        BY ONLY n \in Nat, <4>1, <4>2, <4>3, GoesPast
      <4>5. t \in [1 .. n -> Data] /\ Permuted(n, seq, t)
        BY ONLY <4>4 DEF WentPast
      <4>6. t[p] = s[a] /\ t[q] = s[p] /\ (a # q => t[a] = s[q])
        BY ONLY <4>4 DEF WentPast
      <4>7. \A l \in 1 .. n : l \notin {a, p, q} => t[l] = s[l]
        BY ONLY <4>4 DEF WentPast
      <4> QED BY <4>5, <4>6, <4>7 DEF q
    <3> HIDE DEF t
    <3>3. Around(n, t, r, p + 1, p + 1, a)
      <4>1. ASSUME NEW i \in 1 .. n, i > a PROVE r[t[p + 1]] <= r[t[i]]
        <5>1. i \notin {a, p, p + 1}
          BY <2>2, <3>1, <4>1
        <5>2. t[i] = s[i]
          BY <3>2, <5>1
        <5> QED BY <2>3, <3>2, <4>1, <5>2 DEF Around
      <4>2. ASSUME NEW i \in 1 .. n, i < p + 1 PROVE r[t[i]] <= r[t[p + 1]]
        <5>1. CASE i = p
          BY <2>5, <2>7, <3>2, <5>1
        <5>2. CASE i # p
          <6>1. i < p /\ i \notin {a, p, p + 1}
            BY <2>2, <4>2, <5>2
          <6>2. t[i] = s[i]
            BY <3>2, <6>1
          <6> QED BY <2>3, <3>2, <6>1, <6>2 DEF Around
        <5> QED BY <5>1, <5>2
      <4> QED BY <4>1, <4>2 DEF Around
    <3>4. y \in D /\ y.data = t /\ y.at = a /\ y.pivot = p + 1 /\ pass[x] = y
      BY <2>2, <2>4, <2>7, <3>1, <3>2 DEF PartStates
    <3>5. Ok(y)
      BY <3>1, <3>2, <3>3, <3>4
    <3> HIDE DEF D, Ok, y
    <3> QED BY <3>1, <3>4, <3>5
  <2>8. CASE a # p /\ ~ (After(s[a], s[p], versus) < 0)
    <3> DEFINE y == [data |-> s, at |-> a - 1, pivot |-> p]
    <3>1. a - 1 \in 1 .. n /\ p <= a - 1 /\ ((a - 1) - p) + (k + 1) < n
      BY <2>1, <2>2, <2>8
    <3>2. Around(n, s, r, p, p, a - 1)
      <4>1. ASSUME NEW i \in 1 .. n, i > a - 1 PROVE r[s[p]] <= r[s[i]]
        <5>1. CASE i = a
          BY <2>5, <2>8, <5>1
        <5>2. CASE i # a
          <6>1. i > a
            BY <2>2, <4>1, <5>2
          <6> QED BY <2>3, <6>1 DEF Around
        <5> QED BY <5>1, <5>2
      <4>2. \A i \in 1 .. n : i < p => r[s[i]] <= r[s[p]]
        BY <2>3 DEF Around
      <4> QED BY <4>1, <4>2 DEF Around
    <3>3. y \in D /\ y.data = s /\ y.at = a - 1 /\ y.pivot = p /\ pass[x] = y
      BY <2>2, <2>4, <2>8, <3>1 DEF PartStates
    <3>4. Ok(y)
      BY <2>3, <3>1, <3>2, <3>3
    <3> HIDE DEF D, Ok, y
    <3> QED BY <3>1, <3>3, <3>4
  <2> QED BY <2>6, <2>7, <2>8
<1> HIDE DEF pass, start
<1>4. z \in I[n]
  <2> HIDE DEF I
  <2>1. z = Passes(pass, start, n)
    BY DEF pass, start
  <2> QED BY <1>2, <1>3, <2>1, PassesKeep
<1>5. z \in D /\ Ok(z) /\ (z.at = z.pivot \/ (z.at - z.pivot) + n < n)
  BY <1>4
<1>6. z.data \in [1 .. n -> Data] /\ z.at \in 1 .. n /\ z.pivot \in 1 .. n
  BY <1>5 DEF PartStates
<1>7. z.at = z.pivot
  BY <1>5, <1>6
<1>8. Permuted(n, seq, z.data) /\ Around(n, z.data, r, z.pivot, z.pivot, z.pivot)
  BY <1>5, <1>7
<1> QED BY <1>6, <1>8 DEF Parted
\* Partition leaves the pivot where nothing before it is greater and nothing behind it less.
LEMMA Partitions ==
  ASSUME NEW n \in Nat, NEW seq \in [1 .. n -> Data], Len(seq) = n, NEW pivot \in 1 .. n, NEW versus \in {-1, 1}
  PROVE  Parted(n, seq, Partition(seq, pivot, versus), Rank(versus))
<1> DEFINE z == Scan(seq, pivot, versus)
           left == Passes(FromLeft(n, versus), [data |-> z.data, at |-> z.left, pivot |-> pivot], n)
           right == Passes(FromRight(n, versus), [data |-> z.data, at |-> z.right, pivot |-> pivot], n)
<1>1. Partition(seq, pivot, versus) = IF z.right = pivot THEN left ELSE right
  BY DEF Partition, FromLeft, FromRight, PartStates
<1> HIDE DEF z
<1>2. /\ z.data \in [1 .. n -> Data] /\ z.left \in 1 .. pivot /\ z.right \in pivot .. n
      /\ z.left = pivot \/ z.right = pivot
      /\ Permuted(n, seq, z.data) /\ Around(n, z.data, Rank(versus), z.left, pivot, z.right)
  <2>1. z = Scan(seq, pivot, versus)
    BY DEF z
  <2>2. z.data \in [1 .. n -> Data] /\ z.left \in 1 .. pivot /\ z.right \in pivot .. n
    BY <2>1, Scans
  <2>3. z.left = pivot \/ z.right = pivot
    BY <2>1, Scans
  <2>4. Permuted(n, seq, z.data) /\ Around(n, z.data, Rank(versus), z.left, pivot, z.right)
    BY <2>1, Scans
  <2> QED BY <2>2, <2>3, <2>4
<1>3. z.left \in 1 .. n /\ z.left <= pivot /\ z.right \in 1 .. n /\ pivot <= z.right
  BY <1>2
<1>4. CASE z.right = pivot
  <2>1. Around(n, z.data, Rank(versus), z.left, pivot, pivot)
    BY <1>2, <1>4
  <2> HIDE DEF left
  <2>2. Parted(n, seq, left, Rank(versus))
    BY <1>2, <1>3, <2>1, PartsLeft DEF left
  <2> QED BY <1>1, <1>4, <2>2
<1>5. CASE z.right # pivot
  <2>1. Around(n, z.data, Rank(versus), pivot, pivot, z.right)
    BY <1>2, <1>5
  <2> HIDE DEF right
  <2>2. Parted(n, seq, right, Rank(versus))
    BY <1>2, <1>3, <2>1, PartsRight DEF right
  <2> QED BY <1>1, <1>5, <2>2
<1> QED BY <1>4, <1>5

-----------------------------------------------------------------------------
(* Quicksort *)

\* What becomes of s after a partition x, if g has what becomes of its sides
Joins(g, x, n) == {a \o <<x.data[x.pivot]>> \o b : a \in g[SubSeq(x.data, 1, x.pivot - 1)],
                                                   b \in g[SubSeq(x.data, x.pivot + 1, n)]}

\* One level of the recursion
Level(g, s, versus) ==
  IF Len(s) <= 1 THEN {s}
  ELSE IF Len(s) <= MinQuick THEN {SelectionSorted(s, versus)}
  ELSE UNION {LET part == Partition(s, pivot, versus)
                  t == part.data
                  p == part.pivot
              IN  {a \o <<t[p]>> \o b : a \in g[SubSeq(t, 1, p - 1)],
                                        b \in g[SubSeq(t, p + 1, Len(t))]}
              : pivot \in DOMAIN s}

\* Each of the lists that Joins makes comes from one of each side.
Joined(g, x, n, z) == \E a \in g[SubSeq(x.data, 1, x.pivot - 1)], b \in g[SubSeq(x.data, x.pivot + 1, n)] :
                         z = a \o <<x.data[x.pivot]>> \o b

LEMMA JoinsOf ==
  ASSUME NEW g, NEW x, NEW n, NEW z \in Joins(g, x, n)
  PROVE  Joined(g, x, n, z)
<1> DEFINE A == g[SubSeq(x.data, 1, x.pivot - 1)]
           B == g[SubSeq(x.data, x.pivot + 1, n)]
           y == x.data[x.pivot]
<1>1. z \in Joins(g, x, n)
  OBVIOUS
<1>2. z \in {a \o <<y>> \o b : a \in A, b \in B}
  BY <1>1 DEF Joins
<1> HIDE DEF A, B, y
<1>3. \E a \in A, b \in B : z = a \o <<y>> \o b
  BY <1>2
<1> QED BY <1>3 DEF A, B, y, Joined

LEMMA LevelCases ==
  ASSUME NEW g, NEW s \in Seq(Data), NEW versus \in {-1, 1}
  PROVE  /\ Len(s) <= 1 => Level(g, s, versus) = {s}
         /\ Len(s) > 1 /\ Len(s) <= MinQuick => Level(g, s, versus) = {SelectionSorted(s, versus)}
         /\ Len(s) > 1 /\ ~ (Len(s) <= MinQuick) =>
              Level(g, s, versus) = UNION {Joins(g, Partition(s, pivot, versus), Len(s)) : pivot \in 1 .. Len(s)}
<1> DEFINE n == Len(s)
<1>1. n \in Nat /\ DOMAIN s = 1 .. n /\ s \in [1 .. n -> Data]
  OBVIOUS
<1>2. MinQuick \in Nat
  BY SimCListAssumption
<1>3. \A pivot \in 1 .. n : Len(Partition(s, pivot, versus).data) = n
  <2>1. ASSUME NEW pivot \in 1 .. n PROVE Len(Partition(s, pivot, versus).data) = n
    <3>1. Parted(n, s, Partition(s, pivot, versus), Rank(versus))
      BY <1>1, Partitions
    <3>2. Partition(s, pivot, versus).data \in [1 .. n -> Data]
      BY <3>1 DEF Parted
    <3> QED BY <1>1, <3>2
  <2> QED BY <2>1
<1>4. CASE n <= 1
  BY <1>1, <1>4 DEF Level
<1>5. CASE n > 1 /\ n <= MinQuick
  <2>1. ~ (n <= 1)
    BY <1>1, <1>5
  <2>2. Level(g, s, versus) = {SelectionSorted(s, versus)}
    BY <1>5, <2>1 DEF Level
  <2> QED BY <1>5, <2>1, <2>2
<1>6. CASE n > 1 /\ ~ (n <= MinQuick)
  <2> DEFINE J(pivot) == LET part == Partition(s, pivot, versus)
                             t == part.data
                             p == part.pivot
                         IN  {a \o <<t[p]>> \o b : a \in g[SubSeq(t, 1, p - 1)],
                                                   b \in g[SubSeq(t, p + 1, Len(t))]}
  <2>1. ~ (n <= 1)
    BY <1>1, <1>6
  <2>2. Level(g, s, versus) = UNION {J(pivot) : pivot \in DOMAIN s}
    BY <1>6, <2>1 DEF Level
  <2>3. ASSUME NEW pivot \in 1 .. n PROVE J(pivot) = Joins(g, Partition(s, pivot, versus), n)
    <3>1. Len(Partition(s, pivot, versus).data) = n
      BY <1>3
    <3> HIDE DEF n
    <3> QED BY <3>1 DEF Joins
  <2> HIDE DEF J
  <2>4. {J(pivot) : pivot \in 1 .. n} = {Joins(g, Partition(s, pivot, versus), n) : pivot \in 1 .. n}
    BY <2>3
  <2> QED BY <1>1, <1>6, <2>1, <2>2, <2>4
<1>7. n <= 1 \/ (n > 1 /\ n <= MinQuick) \/ (n > 1 /\ ~ (n <= MinQuick))
  BY <1>1
<1> QED BY <1>1, <1>2, <1>4, <1>5, <1>6, <1>7

\* What a partition leaves: two sides that are shorter, and what is between them.
Sides(n, s, x, versus) ==
  /\ x.data \in [1 .. n -> Data] /\ x.pivot \in 1 .. n
  /\ Permuted(n, s, x.data) /\ Around(n, x.data, Rank(versus), x.pivot, x.pivot, x.pivot)
  /\ SubSeq(x.data, 1, x.pivot - 1) = [i \in 1 .. x.pivot - 1 |-> x.data[i]]
  /\ SubSeq(x.data, x.pivot + 1, n) = [i \in 1 .. n - x.pivot |-> x.data[x.pivot + i]]
  /\ SubSeq(x.data, 1, x.pivot - 1) \in Seq(Data) /\ Len(SubSeq(x.data, 1, x.pivot - 1)) = x.pivot - 1
  /\ SubSeq(x.data, x.pivot + 1, n) \in Seq(Data) /\ Len(SubSeq(x.data, x.pivot + 1, n)) = n - x.pivot

LEMMA SidesOf ==
  ASSUME NEW n \in Nat, NEW s \in Seq(Data), Len(s) = n, NEW pivot \in 1 .. n, NEW versus \in {-1, 1},
         NEW x, x = Partition(s, pivot, versus)
  PROVE  Sides(n, s, x, versus)
<1>1. s \in [1 .. n -> Data]
  OBVIOUS
<1>2. Parted(n, s, x, Rank(versus))
  BY <1>1, Partitions
<1> DEFINE t == x.data
           p == x.pivot
<1>3. t \in [1 .. n -> Data] /\ p \in 1 .. n
  BY <1>2 DEF Parted
<1>4. Permuted(n, s, t) /\ Around(n, t, Rank(versus), p, p, p)
  BY <1>2 DEF Parted
<1> HIDE DEF t, p
<1>5. t \in Seq(Data) /\ Len(t) = n
  BY <1>3
<1>6. SubSeq(t, 1, p - 1) = [i \in 1 .. p - 1 |-> t[i]]
  <2>1. p - 1 \in Nat /\ (p - 1) - 1 + 1 = p - 1 /\ \A i \in 1 .. p - 1 : 1 + i - 1 = i
    BY <1>3
  <2> QED BY <1>3, <1>5, <2>1
<1>7. SubSeq(t, p + 1, n) = [i \in 1 .. n - p |-> t[p + i]]
  <2>1. n - p \in Nat /\ n - (p + 1) + 1 = n - p /\ \A i \in 1 .. n - p : (p + 1) + i - 1 = p + i
    BY <1>3
  <2> QED BY <1>3, <1>5, <2>1
<1>8. SubSeq(t, 1, p - 1) \in Seq(Data) /\ Len(SubSeq(t, 1, p - 1)) = p - 1
  <2>1. p - 1 \in Nat /\ [i \in 1 .. p - 1 |-> t[i]] \in [1 .. p - 1 -> Data]
    BY <1>3
  <2> QED BY <1>6, <2>1
<1>9. SubSeq(t, p + 1, n) \in Seq(Data) /\ Len(SubSeq(t, p + 1, n)) = n - p
  <2>1. n - p \in Nat /\ \A i \in 1 .. n - p : p + i \in 1 .. n
    BY <1>3
  <2>2. [i \in 1 .. n - p |-> t[p + i]] \in [1 .. n - p -> Data]
    BY <1>3, <2>1
  <2> DEFINE m == n - p
             u == SubSeq(t, p + 1, n)
  <2>3. m \in Nat /\ u \in [1 .. m -> Data]
    BY <1>7, <2>1, <2>2
  <2> HIDE DEF m, u
  <2>4. u \in Seq(Data) /\ Len(u) = m
    BY <2>3
  <2> QED BY <2>4 DEF m, u
<1> QED BY <1>3, <1>4, <1>6, <1>7, <1>8, <1>9 DEF t, p, Sides

\* What the recursion makes of shorter lists is all that a level depends on.
LEMMA LevelAgrees ==
  ASSUME NEW s \in Seq(Data), NEW versus \in {-1, 1}, NEW g, NEW h,
         \A u \in Seq(Data) : Len(u) < Len(s) => g[u] = h[u]
  PROVE  Level(g, s, versus) = Level(h, s, versus)
<1> DEFINE n == Len(s)
<1>1. n \in Nat
  OBVIOUS
<1>2. CASE n <= 1
  <2>1. Level(g, s, versus) = {s}
    BY <1>2, LevelCases
  <2>2. Level(h, s, versus) = {s}
    BY <1>2, LevelCases
  <2> QED BY <2>1, <2>2
<1>3. CASE n > 1 /\ n <= MinQuick
  <2>1. Level(g, s, versus) = {SelectionSorted(s, versus)}
    BY <1>3, LevelCases
  <2>2. Level(h, s, versus) = {SelectionSorted(s, versus)}
    BY <1>3, LevelCases
  <2> QED BY <2>1, <2>2
<1>4. CASE n > 1 /\ ~ (n <= MinQuick)
  <2>1. /\ Level(g, s, versus) = UNION {Joins(g, Partition(s, pivot, versus), n) : pivot \in 1 .. n}
        /\ Level(h, s, versus) = UNION {Joins(h, Partition(s, pivot, versus), n) : pivot \in 1 .. n}
    BY <1>4, LevelCases
  <2>2. ASSUME NEW pivot \in 1 .. n
        PROVE  Joins(g, Partition(s, pivot, versus), n) = Joins(h, Partition(s, pivot, versus), n)
    <3> DEFINE x == Partition(s, pivot, versus)
               u == SubSeq(x.data, 1, x.pivot - 1)
               v == SubSeq(x.data, x.pivot + 1, n)
    <3>0. x = Partition(s, pivot, versus)
      OBVIOUS
    <3> HIDE DEF x
    <3>s. Sides(n, s, x, versus)
      BY <1>1, <3>0, SidesOf
    <3> HIDE DEF n
    <3>1. x.pivot \in 1 .. n
      BY <3>s DEF Sides
    <3>2. u \in Seq(Data) /\ Len(u) = x.pivot - 1
      <4>1. u \in Seq(Data)
        BY <3>s DEF Sides
      <4>2. Len(u) = x.pivot - 1
        BY <3>s DEF Sides
      <4> QED BY <4>1, <4>2
    <3>3. v \in Seq(Data) /\ Len(v) = n - x.pivot
      <4>1. v \in Seq(Data)
        BY <3>s DEF Sides
      <4>2. Len(v) = n - x.pivot
        BY <3>s DEF Sides
      <4> QED BY <4>1, <4>2
    <3>4. Len(u) < n /\ Len(v) < n
      <4> HIDE DEF u, v, n
      <4> QED BY <1>1, <3>1, <3>2, <3>3
    <3>5. g[u] = h[u] /\ g[v] = h[v]
      <4> HIDE DEF u, v
      <4> QED BY <3>2, <3>3, <3>4 DEF n
    <3>6. Joins(g, x, n) = {a \o <<x.data[x.pivot]>> \o b : a \in g[u], b \in g[v]}
      BY DEF Joins
    <3>7. Joins(h, x, n) = {a \o <<x.data[x.pivot]>> \o b : a \in h[u], b \in h[v]}
      BY DEF Joins
    <3> HIDE DEF u, v
    <3> QED BY <3>0, <3>5, <3>6, <3>7
  <2>3. {Joins(g, Partition(s, pivot, versus), n) : pivot \in 1 .. n}
          = {Joins(h, Partition(s, pivot, versus), n) : pivot \in 1 .. n}
    BY <2>2
  <2> QED BY <2>1, <2>3
<1> QED BY <1>1, <1>2, <1>3, <1>4

\* A level makes lists of lists.
LEMMA LevelTyped ==
  ASSUME NEW s \in Seq(Data), NEW versus \in {-1, 1}, NEW g \in [Seq(Data) -> SUBSET Seq(Data)]
  PROVE  Level(g, s, versus) \subseteq Seq(Data)
<1> DEFINE n == Len(s)
<1>1. n \in Nat /\ s \in [1 .. n -> Data]
  OBVIOUS
<1>2. CASE n <= 1
  BY <1>2, LevelCases
<1>3. CASE n > 1 /\ n <= MinQuick
  <2>1. Level(g, s, versus) = {SelectionSorted(s, versus)}
    BY <1>3, LevelCases
  <2>2. n > 0
    BY <1>1, <1>3
  <2>3. Sorts(n, s, SelectionSorted(s, versus), versus)
    BY <1>1, <2>2, Selects
  <2> DEFINE z == SelectionSorted(s, versus)
  <2> HIDE DEF z, n
  <2>4. z \in [1 .. n -> Data]
    BY <2>3 DEF Sorts, z
  <2>5. z \in Seq(Data)
    BY <1>1, <2>4
  <2> QED BY <2>1, <2>5 DEF z
<1>4. CASE n > 1 /\ ~ (n <= MinQuick)
  <2>1. Level(g, s, versus) = UNION {Joins(g, Partition(s, pivot, versus), n) : pivot \in 1 .. n}
    BY <1>4, LevelCases
  <2>2. ASSUME NEW pivot \in 1 .. n PROVE Joins(g, Partition(s, pivot, versus), n) \subseteq Seq(Data)
    <3> DEFINE x == Partition(s, pivot, versus)
               u == SubSeq(x.data, 1, x.pivot - 1)
               v == SubSeq(x.data, x.pivot + 1, n)
               y == x.data[x.pivot]
    <3>0. x = Partition(s, pivot, versus)
      OBVIOUS
    <3> HIDE DEF x
    <3>s. Sides(n, s, x, versus)
      BY <1>1, <3>0, SidesOf
    <3> HIDE DEF n
    <3>1. x.pivot \in 1 .. n /\ x.data \in [1 .. n -> Data]
      BY <3>s DEF Sides
    <3>2. u \in Seq(Data)
      BY <3>s DEF Sides
    <3>3. v \in Seq(Data)
      BY <3>s DEF Sides
    <3>4. y \in Data
      BY <3>1
    <3> HIDE DEF u, v, y
    <3>6. g[u] \subseteq Seq(Data) /\ g[v] \subseteq Seq(Data)
      BY <3>2, <3>3
    <3>7. ASSUME NEW a \in Seq(Data), NEW b \in Seq(Data) PROVE a \o <<y>> \o b \in Seq(Data)
      BY <3>4
    <3>8. ASSUME NEW z \in Joins(g, x, n) PROVE z \in Seq(Data)
      <4>0. z \in Joins(g, x, n)
        OBVIOUS
      <4>1. PICK a \in g[SubSeq(x.data, 1, x.pivot - 1)], b \in g[SubSeq(x.data, x.pivot + 1, n)] :
                    z = a \o <<x.data[x.pivot]>> \o b
        <5>1. Joined(g, x, n, z)
          BY <4>0, JoinsOf
        <5> QED BY <5>1 DEF Joined
      <4>2. a \in Seq(Data) /\ b \in Seq(Data)
        BY <3>6 DEF u, v
      <4>3. a \o <<y>> \o b \in Seq(Data)
        BY <3>7, <4>2
      <4> QED BY <4>1, <4>3 DEF y
    <3> QED BY <3>0, <3>8
  <2> QED BY <2>1, <2>2
<1> QED BY <1>1, <1>2, <1>3, <1>4

\* The recursion of QuickSorted has a solution.
LEMMA QuickByLevel ==
  ASSUME NEW versus \in {-1, 1}
  PROVE  \E g : \A s \in Seq(Data) : QuickSorted(s, versus) = g[s] /\ g[s] = Level(g, s, versus)
<1> DEFINE D == [Seq(Data) -> SUBSET Seq(Data)]
           body == [g \in D |-> [s \in Seq(Data) |-> Level(g, s, versus)]]
           start == [s \in Seq(Data) |-> {}]
           L(k) == Passes(body, start, k)
           I == [k \in Nat |-> D]
           F == [s \in Seq(Data) |-> L(Len(s) + 1)[s]]
           f == CHOOSE f : f = [s \in Seq(Data) |-> Level(f, s, versus)]
<1>1. ASSUME NEW g \in D PROVE body[g] \in D /\ \A s \in Seq(Data) : body[g][s] = Level(g, s, versus)
  <2>1. body[g] = [s \in Seq(Data) |-> Level(g, s, versus)]
    OBVIOUS
  <2>2. \A s \in Seq(Data) : Level(g, s, versus) \in SUBSET Seq(Data)
    BY LevelTyped
  <2> HIDE DEF body
  <2> QED BY <2>1, <2>2
<1>2. start \in D
  OBVIOUS
<1> HIDE DEF D, body, start
<1>3. \A k \in Nat : L(k) \in D
  <2>1. \A k \in Nat : \A x \in I[k] : body[x] \in I[k + 1]
    BY <1>1
  <2>2. start \in I[0]
    BY <1>2
  <2> HIDE DEF I
  <2>3. ASSUME NEW k \in Nat PROVE Passes(body, start, k) \in I[k]
    BY <2>1, <2>2, PassesKeep
  <2> QED BY <2>3 DEF I
<1>4. ASSUME NEW k \in Nat, NEW s \in Seq(Data) PROVE L(k + 1)[s] = Level(L(k), s, versus)
  <2>1. L(k + 1) = body[L(k)]
    BY PassByPass
  <2>2. L(k) \in D
    BY <1>3
  <2> HIDE DEF L
  <2> QED BY <1>1, <2>1, <2>2
<1> HIDE DEF L
\* After k passes, what becomes of the lists that are shorter than k does not change.
<1>5. \A k \in Nat : \A s \in Seq(Data) : Len(s) < k => L(k + 1)[s] = L(k)[s]
  <2> DEFINE T == {k \in Nat : \A s \in Seq(Data) : Len(s) < k => L(k + 1)[s] = L(k)[s]}
  <2>1. 0 \in T
    OBVIOUS
  <2>2. ASSUME NEW k \in Nat, k \in T PROVE k + 1 \in T
    <3>1. ASSUME NEW s \in Seq(Data), Len(s) < k + 1 PROVE L((k + 1) + 1)[s] = L(k + 1)[s]
      <4>1. L((k + 1) + 1)[s] = Level(L(k + 1), s, versus) /\ L(k + 1)[s] = Level(L(k), s, versus)
        BY <1>4
      <4>2. ASSUME NEW u \in Seq(Data), Len(u) < Len(s) PROVE L(k + 1)[u] = L(k)[u]
        <5>1. Len(u) < k
          BY <3>1, <4>2
        <5> QED BY <2>2, <5>1
      <4>3. Level(L(k + 1), s, versus) = Level(L(k), s, versus)
        BY <4>2, LevelAgrees
      <4> QED BY <4>1, <4>3
    <3> QED BY <3>1
  <2> HIDE DEF T
  <2>3. Nat \subseteq T
    BY <2>1, <2>2, NatSetInduction
  <2> QED BY <2>3 DEF T
<1>6. ASSUME NEW u \in Seq(Data) PROVE \A d \in Nat : L(Len(u) + 1 + d)[u] = L(Len(u) + 1)[u]
  <2> DEFINE T == {d \in Nat : L(Len(u) + 1 + d)[u] = L(Len(u) + 1)[u]}
             n == Len(u)
  <2>0. n \in Nat
    OBVIOUS
  <2> HIDE DEF n
  <2>1. 0 \in T
    <3>1. n + 1 + 0 = n + 1
      BY <2>0
    <3> QED BY <3>1 DEF n
  <2>2. ASSUME NEW d \in Nat, d \in T PROVE d + 1 \in T
    <3>1. n + 1 + d \in Nat /\ n < n + 1 + d /\ n + 1 + (d + 1) = (n + 1 + d) + 1
      BY <2>0
    <3>2. L((n + 1 + d) + 1)[u] = L(n + 1 + d)[u]
      BY <1>5, <3>1 DEF n
    <3>3. L(n + 1 + d)[u] = L(n + 1)[u]
      BY <2>2 DEF n
    <3> QED BY <3>1, <3>2, <3>3 DEF n
  <2> HIDE DEF T
  <2>3. Nat \subseteq T
    BY <2>1, <2>2, NatSetInduction
  <2> QED BY <2>3 DEF T
<1>7. ASSUME NEW s \in Seq(Data) PROVE F[s] = Level(F, s, versus)
  <2>1. Len(s) \in Nat
    OBVIOUS
  <2>2. F[s] = Level(L(Len(s)), s, versus)
    BY <1>4, <2>1
  <2>3. ASSUME NEW u \in Seq(Data), Len(u) < Len(s) PROVE L(Len(s))[u] = F[u]
    <3> DEFINE d == Len(s) - (Len(u) + 1)
    <3>1. d \in Nat /\ Len(s) = Len(u) + 1 + d
      BY <2>3
    <3>2. F[u] = L(Len(u) + 1)[u]
      OBVIOUS
    <3> HIDE DEF d, F
    <3> QED BY <1>6, <3>1, <3>2
  <2> HIDE DEF F
  <2>4. Level(L(Len(s)), s, versus) = Level(F, s, versus)
    BY <2>3, LevelAgrees
  <2> QED BY <2>2, <2>4
<1>8. F = [s \in Seq(Data) |-> Level(F, s, versus)]
  <2>1. F = [s \in Seq(Data) |-> F[s]]
    OBVIOUS
  <2> HIDE DEF F
  <2> QED BY <1>7, <2>1
<1> HIDE DEF F
<1>9. f = [s \in Seq(Data) |-> Level(f, s, versus)]
  BY <1>8
<1>10. \A s \in Seq(Data) : QuickSorted(s, versus) = f[s]
  BY DEF QuickSorted, Level
<1> HIDE DEF f
<1>11. \A s \in Seq(Data) : f[s] = Level(f, s, versus)
  BY <1>9
<1> QED BY <1>10, <1>11

\* y at p, between a and b
Joint(n, p, a, y, b) == [i \in 1 .. n |-> IF i < p THEN a[i] ELSE IF i = p THEN y ELSE b[i - p]]

LEMMA TableIsSequence ==
  ASSUME NEW m \in Nat, NEW c \in [1 .. m -> Data]
  PROVE  c \in Seq(Data) /\ Len(c) = m
OBVIOUS

\* A list between two others, each of its length
LEMMA Joining ==
  ASSUME NEW n \in Nat, NEW p \in 1 .. n, NEW y \in Data,
         NEW a \in Seq(Data), Len(a) = p - 1, NEW b \in Seq(Data), Len(b) = n - p
  PROVE  a \o <<y>> \o b = Joint(n, p, a, y, b)
<1> DEFINE l == p - 1
           m == n - p
           c == a \o <<y>>
<1>1. l \in Nat /\ m \in Nat /\ l + 1 = p /\ p + m = n
  OBVIOUS
<1>3. a \in Seq(Data) /\ Len(a) = l /\ b \in Seq(Data) /\ Len(b) = m
  OBVIOUS
<1> HIDE DEF l, m
<1>4. c \in Seq(Data) /\ Len(c) = p /\ \A i \in 1 .. p : c[i] = IF i < p THEN a[i] ELSE y
  <2>1. c \in Seq(Data) /\ Len(c) = l + 1
    BY <1>3
  <2>2. \A i \in 1 .. l + 1 : c[i] = IF i <= l THEN a[i] ELSE y
    BY <1>3
  <2> HIDE DEF c
  <2>3. \A i \in 1 .. p : i <= l <=> i < p
    BY <1>1
  <2> QED BY <1>1, <2>1, <2>2, <2>3
<1> DEFINE z == c \o b
<1> HIDE DEF c
<1>5. z \in Seq(Data) /\ Len(z) = p + m
  BY <1>1, <1>3, <1>4
<1>6. ASSUME NEW i \in 1 .. p + m PROVE z[i] = IF i <= p THEN c[i] ELSE b[i - p]
  <2>1. i \in 1 .. Len(c) + Len(b)
    BY <1>3, <1>4
  <2>2. z[i] = IF i <= Len(c) THEN c[i] ELSE b[i - Len(c)]
    <3>1. c \in Seq(Data) /\ b \in Seq(Data)
      BY <1>4
    <3> QED BY ONLY <2>1, <3>1
  <2> QED BY <1>4, <2>2
<1> HIDE DEF z
<1>7. ASSUME NEW i \in 1 .. n PROVE z[i] = IF i < p THEN a[i] ELSE IF i = p THEN y ELSE b[i - p]
  <2>0. i \in 1 .. p + m
    BY <1>1
  <2>1. CASE i <= p
    <3>1. z[i] = c[i] /\ i \in 1 .. p
      BY <1>6, <2>0, <2>1
    <3> QED BY <1>4, <3>1
  <2>2. CASE ~ (i <= p)
    <3>1. z[i] = b[i - p]
      BY <1>6, <2>0, <2>2
    <3> QED BY <2>2, <3>1
  <2> QED BY <2>1, <2>2
<1>8. z = [i \in 1 .. n |-> z[i]]
  BY <1>1, <1>5
<1>9. z = [i \in 1 .. n |-> IF i < p THEN a[i] ELSE IF i = p THEN y ELSE b[i - p]]
  BY <1>7, <1>8
<1> QED BY <1>9 DEF z, c, Joint

\* Both sides of a position sorted, and what is between them: the whole is sorted.
LEMMA SidesSort ==
  ASSUME NEW n \in Nat, NEW s \in [1 .. n -> Data], NEW versus \in {-1, 1}, NEW t \in [1 .. n -> Data], NEW p \in 1 .. n,
         Permuted(n, s, t), Around(n, t, Rank(versus), p, p, p),
         NEW a, Sorts(p - 1, [i \in 1 .. p - 1 |-> t[i]], a, versus),
         NEW b, Sorts(n - p, [i \in 1 .. n - p |-> t[p + i]], b, versus),
         NEW z, z = [i \in 1 .. n |-> IF i < p THEN a[i] ELSE IF i = p THEN t[p] ELSE b[i - p]]
  PROVE  Sorts(n, s, z, versus)
<1> DEFINE l == p - 1
           m == n - p
           r == Rank(versus)
           sa == [i \in 1 .. l |-> t[i]]
           sb == [i \in 1 .. m |-> t[p + i]]
<1>2. Permuted(n, s, t) /\ Around(n, t, r, p, p, p)
  OBVIOUS
<1>4. Sorts(l, sa, a, versus) /\ Sorts(m, sb, b, versus)
  OBVIOUS
<1>6. r \in [Data -> Int]
  BY Ranks
<1>1. t \in [1 .. n -> Data] /\ p \in 1 .. n
  OBVIOUS
<1> HIDE DEF r
<1>7. /\ l \in Nat /\ m \in Nat
      /\ \A i \in 1 .. n : /\ i < p <=> i \in 1 .. l
                           /\ i > p <=> i - p \in 1 .. m
      /\ \A i \in 1 .. l : i \in 1 .. n /\ i < p
      /\ \A i \in 1 .. m : p + i \in 1 .. n /\ p + i > p
  BY <1>1
<1>8. sa \in [1 .. l -> Data] /\ sb \in [1 .. m -> Data]
  BY <1>1, <1>7
<1>9. /\ a \in [1 .. l -> Data] /\ Permuted(l, sa, a)
      /\ \A i, j \in 1 .. l : i <= j => r[a[i]] <= r[a[j]]
  BY <1>4 DEF Sorts, r
<1>10. /\ b \in [1 .. m -> Data] /\ Permuted(m, sb, b)
       /\ \A i, j \in 1 .. m : i <= j => r[b[i]] <= r[b[j]]
  BY <1>4 DEF Sorts, r
<1>12. Permuted(n, s, z)
  <2>1. Permuted(n, t, z)
    BY <1>1, <1>9, <1>10, SidesPermute
  <2> QED BY <1>2, <2>1, PermutedTwice
<1>13. /\ \A i \in 1 .. n : i < p => z[i] = a[i] /\ i \in 1 .. l
       /\ z[p] = t[p]
       /\ \A i \in 1 .. n : i > p => z[i] = b[i - p] /\ i - p \in 1 .. m
  BY <1>1, <1>7
<1>14. \A i \in 1 .. l : r[a[i]] <= r[t[p]]
  <2>0. \A i \in 1 .. l : \E k \in 1 .. l : a[i] = sa[k]
    <3> HIDE DEF l, sa
    <3>1. l \in Nat /\ sa \in [1 .. l -> Data] /\ Permuted(l, sa, a)
      BY <1>7, <1>8, <1>9
    <3>2. PICK f : Onto(l, f) /\ a = [i \in 1 .. l |-> sa[f[i]]]
      BY <3>1 DEF Permuted
    <3> QED BY <3>1, <3>2 DEF Onto
  <2>1. ASSUME NEW i \in 1 .. l PROVE r[a[i]] <= r[t[p]]
    <3>1. PICK k \in 1 .. l : a[i] = sa[k]
      BY <2>0
    <3>2. sa[k] = t[k] /\ k \in 1 .. n /\ k < p
      BY <1>7
    <3> QED BY <1>2, <3>1, <3>2 DEF Around
  <2> QED BY <2>1
<1>15. \A i \in 1 .. m : r[t[p]] <= r[b[i]]
  <2>0. \A i \in 1 .. m : \E k \in 1 .. m : b[i] = sb[k]
    <3> HIDE DEF m, sb
    <3>1. m \in Nat /\ sb \in [1 .. m -> Data] /\ Permuted(m, sb, b)
      BY <1>7, <1>8, <1>10
    <3>2. PICK f : Onto(m, f) /\ b = [i \in 1 .. m |-> sb[f[i]]]
      BY <3>1 DEF Permuted
    <3> QED BY <3>1, <3>2 DEF Onto
  <2>1. ASSUME NEW i \in 1 .. m PROVE r[t[p]] <= r[b[i]]
    <3>1. PICK k \in 1 .. m : b[i] = sb[k]
      BY <2>0
    <3>2. sb[k] = t[p + k] /\ p + k \in 1 .. n /\ p + k > p
      BY <1>7
    <3> QED BY <1>2, <3>1, <3>2 DEF Around
  <2> QED BY <2>1
<1>16. t[p] \in Data /\ (\A i \in 1 .. l : a[i] \in Data) /\ (\A i \in 1 .. m : b[i] \in Data)
  BY <1>1, <1>9, <1>10
<1>17. z \in [1 .. n -> Data]
  <2>1. \A i \in 1 .. n : z[i] \in Data
    BY <1>1, <1>13, <1>16
  <2> QED BY <2>1
<1> HIDE DEF l, m, sa, sb
<1>18. ASSUME NEW i \in 1 .. n, NEW j \in 1 .. n, i <= j PROVE r[z[i]] <= r[z[j]]
  <2>1. r[z[i]] \in Int /\ r[z[j]] \in Int /\ r[t[p]] \in Int
    BY <1>6, <1>16, <1>17
  <2>2. CASE j < p
    <3>1. z[i] = a[i] /\ z[j] = a[j] /\ i \in 1 .. l /\ j \in 1 .. l
      BY <1>1, <1>13, <1>18, <2>2
    <3> QED BY <1>9, <1>18, <3>1
  <2>3. CASE i > p
    <3>1. z[i] = b[i - p] /\ z[j] = b[j - p] /\ i - p \in 1 .. m /\ j - p \in 1 .. m /\ i - p <= j - p
      BY <1>1, <1>13, <1>18, <2>3
    <3> QED BY <1>10, <3>1
  <2>4. CASE i <= p /\ p <= j
    <3>1. r[z[i]] <= r[t[p]]
      BY <1>1, <1>13, <1>14, <2>1, <2>4
    <3>2. r[t[p]] <= r[z[j]]
      BY <1>1, <1>13, <1>15, <2>1, <2>4
    <3> QED BY <2>1, <3>1, <3>2
  <2> QED BY <1>1, <2>2, <2>3, <2>4
<1> QED BY <1>12, <1>17, <1>18 DEF Sorts, r

\* The same of what quicksort joins
LEMMA JoinSorts ==
  ASSUME NEW n \in Nat, NEW s \in [1 .. n -> Data], NEW versus \in {-1, 1}, NEW x, Sides(n, s, x, versus),
         NEW a, Sorts(x.pivot - 1, SubSeq(x.data, 1, x.pivot - 1), a, versus),
         NEW b, Sorts(n - x.pivot, SubSeq(x.data, x.pivot + 1, n), b, versus),
         NEW z, z = a \o <<x.data[x.pivot]>> \o b
  PROVE  Sorts(n, s, z, versus)
<1> DEFINE t == x.data
           p == x.pivot
           l == p - 1
           m == n - p
           r == Rank(versus)
           sa == [i \in 1 .. l |-> t[i]]
           sb == [i \in 1 .. m |-> t[p + i]]
<1>1. t \in [1 .. n -> Data] /\ p \in 1 .. n
  BY DEF Sides
<1>2. Permuted(n, s, t) /\ Around(n, t, r, p, p, p)
  BY DEF Sides
<1>3. SubSeq(t, 1, p - 1) = sa /\ SubSeq(t, p + 1, n) = sb
  BY DEF Sides
<1>4. Sorts(l, sa, a, versus) /\ Sorts(m, sb, b, versus)
  BY <1>3
<1>5. z = a \o <<t[p]>> \o b
  OBVIOUS
<1> HIDE DEF t, p, r
<1>6. t[p] \in Data /\ a \in [1 .. p - 1 -> Data] /\ b \in [1 .. n - p -> Data]
  BY <1>1, <1>4 DEF Sorts
<1>7. z = [i \in 1 .. n |-> IF i < p THEN a[i] ELSE IF i = p THEN t[p] ELSE b[i - p]]
  <2> DEFINE y == t[p]
  <2> HIDE DEF y
  <2>1. y \in Data
    BY <1>6 DEF y
  <2>2. a \o <<y>> \o b = Joint(n, p, a, y, b)
    <3>1. p - 1 \in Nat /\ n - p \in Nat
      BY <1>1
    <3>2. a \in Seq(Data) /\ Len(a) = p - 1
      BY ONLY <1>6, <3>1, TableIsSequence
    <3>3. b \in Seq(Data) /\ Len(b) = n - p
      BY ONLY <1>6, <3>1, TableIsSequence
    <3> QED BY ONLY n \in Nat, <1>1, <2>1, <3>2, <3>3, Joining
  <2> QED BY <1>5, <2>2 DEF y, Joint
<1>8. Sorts(p - 1, [i \in 1 .. p - 1 |-> t[i]], a, versus) /\ Sorts(n - p, [i \in 1 .. n - p |-> t[p + i]], b, versus)
  BY <1>4
<1> QED BY ONLY n \in Nat, s \in [1 .. n -> Data], versus \in {-1, 1}, <1>1, <1>2, <1>7, <1>8, SidesSort DEF r

\* Whatever pivots it takes, what list_sort_quicksort (simclist.c:816) makes of a list of any
\* length is a permutation of it, in the order that list_sort asks for.
THEOREM QuickSorts ==
  ASSUME NEW versus \in {-1, 1}
  PROVE  \A s \in Seq(Data) : \A z \in QuickSorted(s, versus) : Sorts(Len(s), s, z, versus)
<1>1. PICK g : \A s \in Seq(Data) : QuickSorted(s, versus) = g[s] /\ g[s] = Level(g, s, versus)
  BY QuickByLevel
<1> DEFINE T == {k \in Nat : \A s \in Seq(Data) : Len(s) < k => \A z \in g[s] : Sorts(Len(s), s, z, versus)}
<1>2. 0 \in T
  OBVIOUS
<1>3. ASSUME NEW k \in Nat, k \in T PROVE k + 1 \in T
  <2>1. ASSUME NEW s \in Seq(Data), Len(s) < k + 1, NEW z \in g[s] PROVE Sorts(Len(s), s, z, versus)
    <3> DEFINE n == Len(s)
    <3>1. n \in Nat /\ s \in [1 .. n -> Data]
      OBVIOUS
    <3>2. z \in Level(g, s, versus)
      BY <1>1
    <3>3. CASE n <= 1
      <4>1. z = s
        BY <3>2, <3>3, LevelCases
      <4>2. Permuted(n, s, s)
        BY <3>1, PermutedSelf
      <4>3. \A i, j \in 1 .. n : i = j
        BY <3>1, <3>3
      <4>4. \A i \in 1 .. n : Rank(versus)[s[i]] \in Int
        BY <3>1, Ranks
      <4> HIDE DEF n
      <4>5. \A i, j \in 1 .. n : Rank(versus)[s[i]] <= Rank(versus)[s[j]]
        BY <4>3, <4>4
      <4>6. Sorts(n, s, z, versus)
        BY <3>1, <4>1, <4>2, <4>5 DEF Sorts
      <4> QED BY <4>6 DEF n
    <3>4. CASE n > 1 /\ n <= MinQuick
      <4>1. z = SelectionSorted(s, versus)
        BY <3>2, <3>4, LevelCases
      <4>2. n > 0
        BY <3>1, <3>4
      <4> QED BY <3>1, <4>1, <4>2, Selects
    <3>5. CASE n > 1 /\ ~ (n <= MinQuick)
      <4>1. Level(g, s, versus) = UNION {Joins(g, Partition(s, pivot, versus), n) : pivot \in 1 .. n}
        BY <3>5, LevelCases
      <4>2. PICK pivot \in 1 .. n : z \in Joins(g, Partition(s, pivot, versus), n)
        BY <3>2, <4>1
      <4>3. PICK x : x = Partition(s, pivot, versus)
        OBVIOUS
      <4>4. Sides(n, s, x, versus)
        BY <3>1, <4>3, SidesOf
      <4>5. Joined(g, x, n, z)
        BY <4>2, <4>3, JoinsOf
      <4> DEFINE u == SubSeq(x.data, 1, x.pivot - 1)
                 v == SubSeq(x.data, x.pivot + 1, n)
      <4>6. PICK a \in g[u], b \in g[v] : z = a \o <<x.data[x.pivot]>> \o b
        BY <4>5 DEF Joined
      <4>7. x.pivot \in 1 .. n
        BY <4>4 DEF Sides
      <4>8. u \in Seq(Data) /\ Len(u) = x.pivot - 1
        BY <4>4 DEF Sides
      <4>9. v \in Seq(Data) /\ Len(v) = n - x.pivot
        <5> HIDE DEF n
        <5> QED BY <4>4 DEF Sides
      <4>10. Len(u) < k /\ Len(v) < k
        <5> HIDE DEF u, v
        <5> QED BY <2>1, <3>1, <4>7, <4>8, <4>9
      <4>11. Sorts(Len(u), u, a, versus) /\ Sorts(Len(v), v, b, versus)
        <5> HIDE DEF u, v
        <5> QED BY <1>3, <4>8, <4>9, <4>10
      <4>12. Sorts(x.pivot - 1, u, a, versus) /\ Sorts(n - x.pivot, v, b, versus)
        BY <4>8, <4>9, <4>11
      <4> HIDE DEF n
      <4>13. Sorts(n, s, z, versus)
        BY <3>1, <4>4, <4>6, <4>12, JoinSorts
      <4> QED BY <4>13 DEF n
    <3> QED BY <3>1, <3>3, <3>4, <3>5, SimCListAssumption
  <2> QED BY <2>1
<1> HIDE DEF T
<1>4. Nat \subseteq T
  BY <1>2, <1>3, NatSetInduction
<1>5. ASSUME NEW s \in Seq(Data), NEW z \in QuickSorted(s, versus) PROVE Sorts(Len(s), s, z, versus)
  <2>1. Len(s) + 1 \in T /\ Len(s) < Len(s) + 1
    BY <1>4
  <2>2. z \in g[s]
    BY <1>1, <1>5
  <2> QED BY <2>1, <2>2 DEF T
<1> QED BY <1>5

-----------------------------------------------------------------------------
(* Steps of a sequence *)

\* Part of a sequence, element by element
LEMMA PartOf ==
  ASSUME NEW s \in Seq(Data), NEW a \in Nat, NEW b \in Nat, a <= b, b <= Len(s)
  PROVE  /\ SubSeq(s, a + 1, b) \in Seq(Data) /\ Len(SubSeq(s, a + 1, b)) = b - a
         /\ \A i \in 1 .. b - a : SubSeq(s, a + 1, b)[i] = s[a + i]
<1> DEFINE n == Len(s)
           c == SubSeq(s, a + 1, b)
<1>1. n \in Nat /\ b <= n /\ \A i \in 1 .. n : s[i] \in Data
  OBVIOUS
<1> HIDE DEF n
<1>2. c = [i \in 1 .. b - a |-> s[a + i]]
  <2>1. (b - (a + 1)) + 1 = b - a /\ \A i \in 1 .. b - a : ((a + 1) + i) - 1 = a + i
    OBVIOUS
  <2>2. SubSeq(s, a + 1, b) = [i \in 1 .. (b - (a + 1)) + 1 |-> s[((a + 1) + i) - 1]]
    OBVIOUS
  <2> QED BY <2>1, <2>2
<1> HIDE DEF c
<1>3. \A i \in 1 .. b - a : c[i] = s[a + i] /\ a + i \in 1 .. n
  BY <1>1, <1>2
<1>4. b - a \in Nat
  OBVIOUS
<1>5. c \in Seq(Data) /\ Len(c) = b - a
  BY <1>1, <1>2, <1>3, <1>4
<1> QED BY <1>3, <1>5 DEF c

\* An insertion behind pos
LEMMA InsertedIs ==
  ASSUME NEW s \in Seq(Data), NEW pos \in 0 .. Len(s), NEW d \in Data
  PROVE  /\ WithInserted(s, Len(s), pos, d) = InsertAt(s, pos + 1, d)
         /\ WithInserted(s, Len(s), pos, d) \in Seq(Data)
<1> DEFINE n == Len(s)
           a == SubSeq(s, 1, pos)
           b == SubSeq(s, pos + 1, n)
           z == WithInserted(s, n, pos, d)
<1>1. n \in Nat /\ pos \in Nat /\ pos <= n /\ \A i \in 1 .. n : s[i] \in Data
  OBVIOUS
<1>2. a \in Seq(Data) /\ Len(a) = pos /\ \A i \in 1 .. pos : a[i] = s[i]
  <2>1. 0 + 1 = 1 /\ pos - 0 = pos /\ \A i \in 1 .. pos : 0 + i = i
    BY <1>1
  <2>2. /\ SubSeq(s, 0 + 1, pos) \in Seq(Data) /\ Len(SubSeq(s, 0 + 1, pos)) = pos - 0
        /\ \A i \in 1 .. pos - 0 : SubSeq(s, 0 + 1, pos)[i] = s[0 + i]
    BY <1>1, PartOf
  <2> QED BY <2>1, <2>2
<1>3. b \in Seq(Data) /\ Len(b) = n - pos /\ \A i \in 1 .. n - pos : b[i] = s[pos + i]
  BY <1>1, PartOf
<1>4. InsertAt(s, pos + 1, d) = a \o <<d>> \o b
  <2>1. (pos + 1) - 1 = pos
    BY <1>1
  <2> QED BY <2>1 DEF InsertAt
<1> HIDE DEF n, a, b
<1>5. a \o <<d>> \o b = Joint(n + 1, pos + 1, a, d, b)
  <2>1. n + 1 \in Nat /\ pos + 1 \in 1 .. n + 1 /\ Len(a) = (pos + 1) - 1 /\ Len(b) = (n + 1) - (pos + 1)
    BY <1>1, <1>2, <1>3
  <2> QED BY <1>2, <1>3, <2>1, Joining
<1>6. ASSUME NEW i \in 1 .. n + 1
      PROVE  (IF i < pos + 1 THEN a[i] ELSE IF i = pos + 1 THEN d ELSE b[i - (pos + 1)])
               = IF i <= pos THEN s[i] ELSE IF i = pos + 1 THEN d ELSE s[i - 1]
  <2>1. CASE i <= pos
    <3>1. i < pos + 1 /\ i \in 1 .. pos
      BY <1>1, <2>1
    <3> QED BY <1>2, <2>1, <3>1
  <2>2. CASE i = pos + 1
    BY <1>1, <2>2
  <2>3. CASE i > pos + 1
    <3> DEFINE k == i - (pos + 1)
    <3>1. k \in 1 .. n - pos /\ pos + k = i - 1 /\ ~ (i < pos + 1) /\ i # pos + 1 /\ ~ (i <= pos)
      BY <1>1, <2>3
    <3> HIDE DEF k
    <3>2. b[k] = s[pos + k]
      BY <1>3, <3>1
    <3> QED BY <3>1, <3>2 DEF k
  <2> QED BY <1>1, <2>1, <2>2, <2>3
<1>7. Joint(n + 1, pos + 1, a, d, b) = z
  BY <1>6 DEF Joint, WithInserted
<1>8. z \in Seq(Data)
  <2>1. ASSUME NEW i \in 1 .. n + 1
        PROVE  (IF i <= pos THEN s[i] ELSE IF i = pos + 1 THEN d ELSE s[i - 1]) \in Data
    <3>1. i <= pos => i \in 1 .. n
      BY <1>1
    <3>2. i > pos + 1 => i - 1 \in 1 .. n
      BY <1>1
    <3>3. i <= pos \/ i = pos + 1 \/ i > pos + 1
      BY <1>1
    <3> QED BY <1>1, <3>1, <3>2, <3>3
  <2>2. n + 1 \in Nat
    BY <1>1
  <2> QED BY <2>1, <2>2 DEF WithInserted
<1> QED BY <1>4, <1>5, <1>7, <1>8 DEF n

\* A range that is left out
LEMMA WithoutIs ==
  ASSUME NEW s \in Seq(Data), NEW a \in Nat, NEW b \in Nat, a < b, b <= Len(s)
  PROVE  /\ Without(s, Len(s), a, b) = SubSeq(s, 1, a) \o SubSeq(s, b + 1, Len(s))
         /\ Without(s, Len(s), a, b) \in Seq(Data)
<1> DEFINE n == Len(s)
           m == n - (b - a)
           t == SubSeq(s, 1, a)
           u == SubSeq(s, b + 1, n)
           z == t \o u
<1>1. n \in Nat /\ b <= n /\ m \in Nat /\ \A i \in 1 .. n : s[i] \in Data
  OBVIOUS
<1>2. t \in Seq(Data) /\ Len(t) = a /\ \A i \in 1 .. a : t[i] = s[i]
  <2>1. 0 + 1 = 1 /\ a - 0 = a /\ \A i \in 1 .. a : 0 + i = i
    BY <1>1
  <2>2. /\ SubSeq(s, 0 + 1, a) \in Seq(Data) /\ Len(SubSeq(s, 0 + 1, a)) = a - 0
        /\ \A i \in 1 .. a - 0 : SubSeq(s, 0 + 1, a)[i] = s[0 + i]
    BY <1>1, PartOf
  <2> QED BY <2>1, <2>2
<1>3. u \in Seq(Data) /\ Len(u) = n - b /\ \A i \in 1 .. n - b : u[i] = s[b + i]
  BY <1>1, PartOf
<1> HIDE DEF n, t, u
<1> DEFINE k == n - b
<1>9. k \in Nat /\ t \in Seq(Data) /\ Len(t) = a /\ u \in Seq(Data) /\ Len(u) = k
  BY <1>1, <1>2, <1>3
<1> HIDE DEF k
<1>10. z \in Seq(Data) /\ Len(z) = a + k
  BY <1>9
<1>11. \A i \in 1 .. a + k : z[i] = IF i <= a THEN t[i] ELSE u[i - a]
  BY <1>9
<1>4. z \in Seq(Data) /\ Len(z) = a + (n - b)
  BY <1>10 DEF k
<1>5. \A i \in 1 .. a + (n - b) : z[i] = IF i <= a THEN t[i] ELSE u[i - a]
  BY <1>11 DEF k
<1> HIDE DEF z
<1>6. ASSUME NEW i \in 1 .. m PROVE z[i] = IF i <= a THEN s[i] ELSE s[i + (b - a)]
  <2>1. i \in 1 .. a + (n - b)
    BY <1>1
  <2>2. CASE i <= a
    <3>1. i \in 1 .. a
      BY <2>2
    <3> QED BY <1>2, <1>5, <2>1, <2>2, <3>1
  <2>3. CASE ~ (i <= a)
    <3> DEFINE j == i - a
    <3>1. j \in 1 .. n - b /\ b + j = i + (b - a)
      BY <1>1, <2>3
    <3>2. z[i] = u[j]
      BY <1>5, <2>1, <2>3
    <3> HIDE DEF j
    <3>3. u[j] = s[b + j]
      BY <1>3, <3>1
    <3> QED BY <2>3, <3>1, <3>2, <3>3
  <2> QED BY <2>2, <2>3
<1>7. z = [i \in 1 .. m |-> z[i]]
  <2>1. a + (n - b) = m
    BY <1>1
  <2> QED BY <1>1, <1>4, <2>1
<1>8. Without(s, n, a, b) = z
  BY <1>6, <1>7 DEF Without
<1> QED BY <1>4, <1>8 DEF n, z, t, u

\* What ListADT lets an operation make of a sequence
Ascends(t, versus) == \A i, j \in DOMAIN t : i < j => (Key[t[i]] - Key[t[j]]) * versus <= 0
SameCounts(s, t) ==
  \A d \in Data : Quantify(DOMAIN s, LAMBDA i : s[i] = d) = Quantify(DOMAIN t, LAMBDA i : t[i] = d)

AlteredTo(s, t) ==
  \/ \E pos \in 1 .. Len(s) + 1, d \in Data : t = InsertAt(s, pos, d)
  \/ \E first, last \in DOMAIN s : first <= last /\ t = SubSeq(s, 1, first - 1) \o SubSeq(s, last + 1, Len(s))
  \/ \E versus \in {-1, 1} : Len(t) = Len(s) /\ Ascends(t, versus) /\ SameCounts(s, t)
  \/ \E l1, l2 \in Sources : s = << >> /\ t = l1 \o l2

LEMMA SortedIs ==
  ASSUME NEW s \in Seq(Data), NEW versus \in {-1, 1}, NEW t \in QuickSorted(s, versus)
  PROVE  /\ [i \in 1 .. Len(s) |-> t[i]] \in Seq(Data)
         /\ AlteredTo(s, [i \in 1 .. Len(s) |-> t[i]])
<1> DEFINE n == Len(s)
           u == [i \in 1 .. n |-> t[i]]
<1>1. Sorts(n, s, t, versus)
  BY QuickSorts
<1>2. n \in Nat /\ DOMAIN s = 1 .. n
  OBVIOUS
<1> HIDE DEF n
<1>3. t \in [1 .. n -> Data] /\ Permuted(n, s, t)
      /\ \A i, j \in 1 .. n : i <= j => Rank(versus)[t[i]] <= Rank(versus)[t[j]]
  BY <1>1 DEF Sorts
<1>4. u = t /\ u \in Seq(Data) /\ Len(u) = n /\ DOMAIN u = 1 .. n
  BY <1>2, <1>3
<1> HIDE DEF u
<1>5. Ascends(u, versus)
  <2> SUFFICES ASSUME NEW i \in 1 .. n, NEW j \in 1 .. n, i < j
               PROVE  (Key[u[i]] - Key[u[j]]) * versus <= 0
    BY <1>4 DEF Ascends
  <2>1. Rank(versus)[u[i]] <= Rank(versus)[u[j]]
    BY <1>2, <1>3, <1>4
  <2>2. u[i] \in Data /\ u[j] \in Data
    BY <1>3, <1>4
  <2>3. Key[u[i]] \in Int /\ Key[u[j]] \in Int
    BY <2>2, SimCListAssumption
  <2>4. versus * Key[u[i]] <= versus * Key[u[j]]
    <3>1. \A x \in Data : Rank(versus)[x] = versus * Key[x]
      BY DEF Rank
    <3> QED BY <2>1, <2>2, <3>1
  <2>5. CASE versus = 1
    BY <2>3, <2>4, <2>5
  <2>6. CASE versus = -1
    BY <2>3, <2>4, <2>6
  <2> QED BY <2>5, <2>6
<1>6. SameCounts(s, u)
  <2> SUFFICES ASSUME NEW d \in Data
               PROVE  Quantify(DOMAIN s, LAMBDA i : s[i] = d) = Quantify(DOMAIN u, LAMBDA i : u[i] = d)
    BY DEF SameCounts
  <2>1. Times(n, s, d) = Times(n, t, d)
    <3>1. n \in Nat /\ Permuted(n, s, t)
      BY <1>2, <1>3
    <3> HIDE DEF n
    <3> QED BY ONLY <3>1, PermutedCounts
  <2>2. Quantify(DOMAIN s, LAMBDA i : s[i] = d) = Times(n, s, d)
    BY <1>2 DEF Quantify, Times
  <2>3. Quantify(DOMAIN u, LAMBDA i : u[i] = d) = Times(n, u, d)
    BY <1>4 DEF Quantify, Times
  <2> QED BY <1>4, <2>1, <2>2, <2>3
<1>7. AlteredTo(s, u)
  BY <1>4, <1>5, <1>6 DEF AlteredTo, n
<1> QED BY <1>4, <1>7 DEF n, u

-----------------------------------------------------------------------------
(* What is in a list *)

\* The data are data, and an iteration is at its entry.
DataInv ==
  /\ IsTyped(entry) /\ ContentsOf(numels, entry) \in Seq(Data)
  /\ stage = "raw" => ~iter_active
  /\ stage = "destroyed" => spareels = << >> /\ allocated \subseteq Entries
  /\ iter_active \in BOOLEAN /\ iter_pos \in 0 .. MaxLen
  /\ iter_curentry \in Entries \cup {TailSentinel, Null}
  /\ stage = "live" /\ iter_active =>
       iter_pos <= numels /\ iter_curentry = Walk(entry, "next", HeadSentinel, iter_pos + 1)

\* A step that leaves t in the list, and the list without an iteration
Leaves(t) == /\ stage \in {"raw", "live"} /\ stage' = "live" /\ ~iter_active /\ UNCHANGED iteration
             /\ IsTyped(entry') /\ t \in Seq(Data) /\ ContentsOf(numels', entry') = t

\* Such a step changes the list as it may, or not at all.
Alters(s) == \E t : Leaves(t) /\ (t = s \/ AlteredTo(s, t))

LEMMA RangeIs ==
  ASSUME NEW s \in Seq(Data), NEW a \in Nat, NEW b \in Nat, a < b, b <= Len(s)
  PROVE  Without(s, Len(s), a, b) \in Seq(Data) /\ AlteredTo(s, Without(s, Len(s), a, b))
<1> DEFINE t == Without(s, Len(s), a, b)
<1>1. t = SubSeq(s, 1, a) \o SubSeq(s, b + 1, Len(s)) /\ t \in Seq(Data)
  BY WithoutIs
<1>2. a + 1 \in DOMAIN s /\ b \in DOMAIN s /\ a + 1 <= b /\ (a + 1) - 1 = a
  OBVIOUS
<1> HIDE DEF t
<1>3. t = SubSeq(s, 1, (a + 1) - 1) \o SubSeq(s, b + 1, Len(s))
  BY <1>1, <1>2
<1>4. AlteredTo(s, t)
  BY <1>2, <1>3 DEF AlteredTo
<1> QED BY <1>1, <1>4 DEF t

\* The steps that change a list
ListChange == \/ ListInit
              \/ \E l1, l2 \in Sources : Concat(l1, l2)
              \/ \E d \in Data, pos \in 0 .. numels : ListInsertAt(d, pos)
              \/ \E pos \in 0 .. numels - 1 : DeleteAt(pos)
              \/ \E d \in Data, comparator \in BOOLEAN : Delete(d, comparator)
              \/ \E posstart, posend \in 0 .. numels - 1 : DeleteRange(posstart, posend)
              \/ stage = "live" /\ Clear
              \/ \E versus \in {-1, 1} : Sort(versus)

LEMMA ChangesAlter ==
  ASSUME IInv, DataInv, ListChange
  PROVE  Alters(ContentsOf(numels, entry))
<1> DEFINE C == ContentsOf(numels, entry)
<1>1. IInv /\ numels \in Nat
  BY SimCListAssumption DEF IInv
<1>2. C \in Seq(Data) /\ IsTyped(entry)
  BY DEF DataInv
<1>3. Len(C) = numels /\ DOMAIN C = 1 .. numels
  <2>1. DOMAIN C = 1 .. numels
    BY DEF ContentsOf
  <2> HIDE DEF C
  <2> QED BY <1>1, <1>2, <2>1
<1> HIDE DEF C
<1>4. CASE ListInit
  <2>1. stage = "raw" /\ stage' = "live" /\ UNCHANGED <<entry, numels>> /\ UNCHANGED iteration
    BY <1>4 DEF ListInit
  <2>2. Leaves(C)
    <3>1. ~iter_active
      BY <2>1 DEF DataInv
    <3> QED BY <1>2, <2>1, <3>1 DEF Leaves, C
  <2> QED BY <2>2 DEF Alters, C
<1>5. CASE \E l1, l2 \in Sources : Concat(l1, l2)
  <2>1. PICK l1 \in Sources, l2 \in Sources : Concat(l1, l2)
    BY <1>5
  <2>2. l1 \in Seq(Data) /\ l2 \in Seq(Data)
    BY SimCListAssumption
  <2>3. Becomes(l1 \o l2)
    BY <1>1, <2>1, <2>2, ConcatKeeps
  <2>4. stage = "raw" /\ stage' = "live" /\ UNCHANGED iteration
    BY <2>1 DEF Concat
  <2>5. ~iter_active /\ numels = 0
    BY <2>4 DEF DataInv, IInv
  <2>6. C = << >>
    BY <1>2, <1>3, <2>5
  <2>7. l1 \o l2 \in Seq(Data)
    BY <2>2
  <2> DEFINE t == l1 \o l2
  <2>8. AlteredTo(C, t)
    BY <2>6 DEF AlteredTo
  <2> HIDE DEF t
  <2>9. Leaves(t)
    BY <1>2, <2>3, <2>4, <2>5, <2>7 DEF Leaves, Becomes, t
  <2> QED BY <2>8, <2>9 DEF Alters, C
<1>6. CASE \E d \in Data, pos \in 0 .. numels : ListInsertAt(d, pos)
  <2>1. PICK d \in Data, pos \in 0 .. numels : ListInsertAt(d, pos)
    BY <1>6
  <2> DEFINE t == WithInserted(C, Len(C), pos, d)
  <2>2. Becomes(t)
    BY <1>1, <1>3, <2>1, InsertKeeps DEF C
  <2>3. stage = "live" /\ stage' = "live" /\ ~iter_active /\ UNCHANGED iteration
    BY <2>1 DEF ListInsertAt, Room
  <2>4. t = InsertAt(C, pos + 1, d) /\ t \in Seq(Data)
    BY <1>2, <1>3, InsertedIs
  <2>5. pos + 1 \in 1 .. Len(C) + 1
    BY <1>1, <1>3
  <2> HIDE DEF t
  <2>6. AlteredTo(C, t)
    BY <2>4, <2>5 DEF AlteredTo
  <2>7. Leaves(t)
    BY <1>2, <2>2, <2>3, <2>4 DEF Leaves, Becomes
  <2> QED BY <2>6, <2>7 DEF Alters, C
<1>7. ASSUME NEW a \in Nat, NEW b \in Nat, a < b, b <= numels, Becomes(Without(C, numels, a, b)),
             stage = "live", stage' = "live", ~iter_active, UNCHANGED iteration
      PROVE  Alters(C)
  <2> DEFINE t == Without(C, Len(C), a, b)
  <2>1. t \in Seq(Data) /\ AlteredTo(C, t)
    BY <1>2, <1>3, <1>7, RangeIs
  <2>2. Becomes(t)
    BY <1>3, <1>7
  <2> HIDE DEF t
  <2>3. Leaves(t)
    BY <1>2, <1>7, <2>1, <2>2 DEF Leaves, Becomes
  <2> QED BY <2>1, <2>3 DEF Alters
<1>8. CASE \E pos \in 0 .. numels - 1 : DeleteAt(pos)
  <2>1. PICK pos \in 0 .. numels - 1 : DropAt(pos)
    BY <1>8 DEF DeleteAt
  <2>2. pos \in Nat /\ pos + 1 \in Nat /\ pos < pos + 1 /\ pos + 1 <= numels
    BY <1>1
  <2>3. Becomes(Without(C, numels, pos, pos + 1))
    BY <1>1, <2>1, <2>2, DropAtKeeps DEF C
  <2>4. stage = "live" /\ stage' = "live" /\ ~iter_active /\ UNCHANGED iteration
    BY <2>1 DEF DropAt
  <2> QED BY <1>7, <2>2, <2>3, <2>4 DEF C
<1>9. CASE \E d \in Data, comparator \in BOOLEAN : Delete(d, comparator)
  <2>1. PICK d \in Data, comparator \in BOOLEAN : Delete(d, comparator)
    BY <1>9
  <2>2. PICK pos \in 0 .. numels - 1 : /\ stage = "live" /\ ~iter_active
                                       /\ Becomes(Without(ContentsOf(numels, entry), numels, pos, pos + 1))
    BY <1>1, <2>1, DeleteKeeps
  <2>3. pos \in Nat /\ pos + 1 \in Nat /\ pos < pos + 1 /\ pos + 1 <= numels
    BY <1>1
  <2>4. stage' = "live" /\ UNCHANGED iteration
    BY <2>1, <2>2 DEF Delete, DeleteAt, DropAt
  <2> QED BY <1>7, <2>2, <2>3, <2>4 DEF C
<1>10. CASE \E posstart, posend \in 0 .. numels - 1 : DeleteRange(posstart, posend)
  <2>1. PICK posstart \in 0 .. numels - 1, posend \in 0 .. numels - 1 : DeleteRange(posstart, posend)
    BY <1>10
  <2>2. Becomes(Without(C, numels, posstart, posend + 1))
    BY <1>1, <2>1, DeleteRangeKeeps DEF C
  <2>3. ~iter_active /\ posstart <= posend /\ stage' = stage /\ UNCHANGED iteration
    BY <2>1 DEF DeleteRange, Clear
  <2>4. posstart \in Nat /\ posend + 1 \in Nat /\ posstart < posend + 1 /\ posend + 1 <= numels
    BY <1>1, <2>3
  <2>5. stage = "live"
    BY <1>1, <2>3, <2>4 DEF IInv
  <2> QED BY <1>7, <2>2, <2>3, <2>4, <2>5 DEF C
<1>11. CASE stage = "live" /\ Clear
  <2>1. Becomes(<< >>)
    BY <1>1, <1>11, ClearKeeps
  <2>2. stage = "live" /\ stage' = "live" /\ ~iter_active /\ UNCHANGED iteration
    BY <1>11 DEF Clear
  <2>3. CASE numels = 0
    <3>1. C = << >>
      BY <1>2, <1>3, <2>3
    <3>2. Leaves(C)
      BY <1>2, <2>1, <2>2, <3>1 DEF Leaves, Becomes
    <3> QED BY <3>2 DEF Alters, C
  <2>4. CASE numels # 0
    <3>1. 0 \in Nat /\ 0 < numels /\ numels <= numels /\ numels - (numels - 0) = 0
      BY <1>1, <2>4
    <3>2. Without(C, numels, 0, numels) = << >>
      BY <3>1 DEF Without
    <3>3. Becomes(Without(C, numels, 0, numels))
      BY <2>1, <3>2
    <3> QED BY <1>1, <1>7, <2>2, <3>1, <3>3 DEF C
  <2> QED BY <2>3, <2>4
<1>12. CASE \E versus \in {-1, 1} : Sort(versus)
  <2>1. PICK versus \in {-1, 1} : Sort(versus)
    BY <1>12
  <2>2. Contents = C
    BY FollowIs DEF Contents, ContentsOf, C
  <2>3. PICK s \in QuickSorted(Contents, versus) :
           /\ ContentsOf(numels', entry') = [i \in 1 .. numels |-> s[i]]
           /\ IsTyped(entry) /\ (\A i \in 1 .. numels : s[i] \in Data) => IsTyped(entry')
    BY <1>1, <2>1, SortKeeps
  <2> DEFINE t == [i \in 1 .. Len(C) |-> s[i]]
  <2>4. t \in Seq(Data) /\ AlteredTo(C, t)
    BY <1>2, <2>2, SortedIs
  <2>5. stage = "live" /\ stage' = "live" /\ ~iter_active /\ UNCHANGED iteration
    BY <2>1 DEF Sort
  <2>6. ContentsOf(numels', entry') = t
    BY <1>3, <2>3
  <2>7. \A i \in 1 .. numels : s[i] \in Data
    <3>1. \A i \in 1 .. numels : t[i] = s[i]
      BY <1>3
    <3>2. DOMAIN t = 1 .. numels
      BY <1>3
    <3> HIDE DEF t
    <3>3. \A i \in DOMAIN t : t[i] \in Data
      BY <2>4
    <3> QED BY <3>1, <3>2, <3>3
  <2> HIDE DEF t
  <2>8. Leaves(t)
    BY <1>2, <2>3, <2>4, <2>5, <2>6, <2>7 DEF Leaves
  <2> QED BY <2>4, <2>8 DEF Alters, C
<1> QED BY <1>4, <1>5, <1>6, <1>8, <1>9, <1>10, <1>11, <1>12 DEF ListChange, C

\* Behind the head, a walk of a list meets entries, and then the tail.
LEMMA WalkTyped ==
  ASSUME IInv, stage = "live", NEW i \in 0 .. numels
  PROVE  /\ Walk(entry, "next", HeadSentinel, i + 1) \in Entries \cup {TailSentinel}
         /\ Walk(entry, "next", HeadSentinel, i + 1) = entry[Walk(entry, "next", HeadSentinel, i)].next
         /\ i < numels => Walk(entry, "next", HeadSentinel, i + 1) \in Entries
<1>1. numels \in Nat
  BY LiveFacts
<1>2. PICK p : Way(p, numels, entry)
  BY LiveFacts
<1>3. i + 1 \in 0 .. numels + 1 /\ i + 1 \in Int /\ i + 1 > 0 /\ (i + 1) - 1 = i
  BY <1>1
<1>4. Walk(entry, "next", HeadSentinel, i + 1) = p[i + 1]
  BY <1>1, <1>2, <1>3, Met, FollowIs
<1>5. i < numels => p[i + 1] \in Entries
  <2>1. i < numels => i + 1 \in 1 .. numels
    BY <1>1
  <2> QED BY <1>1, <1>2, <2>1, WayFacts
<1>6. i = numels => p[i + 1] = TailSentinel
  BY <1>1, <1>2, WayFacts
<1>7. Walk(entry, "next", HeadSentinel, i + 1) = entry[Walk(entry, "next", HeadSentinel, (i + 1) - 1)].next
  <2> DEFINE k == i + 1
  <2>1. k \in Int /\ k > 0
    BY <1>3
  <2> HIDE DEF k
  <2>2. Walk(entry, "next", HeadSentinel, k) = entry[Walk(entry, "next", HeadSentinel, k - 1)]["next"]
    BY ONLY <2>1, WalkSteps
  <2> QED BY <2>2 DEF k
<1>8. i < numels \/ i = numels
  BY <1>1
<1> QED BY <1>3, <1>4, <1>5, <1>6, <1>7, <1>8

LEMMA InitData == Init => DataInv
<1> SUFFICES ASSUME Init PROVE DataInv
  OBVIOUS
<1>1. /\ stage = "raw" /\ entry = Empty /\ numels = 0
      /\ iter_active = FALSE /\ iter_pos = 0 /\ iter_curentry = Null
  BY DEF Init
<1>2. IsTyped(Empty)
  BY SentinelFacts DEF IsTyped, Empty, NoEntry, Entry, Nodes, Sentinels
<1>3. ContentsOf(0, entry) = << >>
  BY DEF ContentsOf
<1>4. 0 \in 0 .. MaxLen /\ << >> \in Seq(Data)
  BY SimCListAssumption
<1> QED BY <1>1, <1>2, <1>3, <1>4 DEF DataInv

LEMMA NextData == IInv /\ DataInv /\ [Next]_vars => DataInv'
<1> SUFFICES ASSUME IInv, DataInv, [Next]_vars PROVE DataInv'
  OBVIOUS
<1>1. /\ IsTyped(entry) /\ ContentsOf(numels, entry) \in Seq(Data)
      /\ stage = "raw" => ~iter_active
      /\ stage = "destroyed" => spareels = << >> /\ allocated \subseteq Entries
      /\ iter_active \in BOOLEAN /\ iter_pos \in 0 .. MaxLen
      /\ iter_curentry \in Entries \cup {TailSentinel, Null}
  BY DEF DataInv
<1>2. stage = "live" /\ iter_active =>
       iter_pos <= numels /\ iter_curentry = Walk(entry, "next", HeadSentinel, iter_pos + 1)
  BY DEF DataInv
<1>3. numels \in Nat /\ numels <= MaxLen /\ MaxLen \in Nat
  BY SimCListAssumption DEF IInv
<1>4. CASE ListChange
  <2>1. Alters(ContentsOf(numels, entry))
    BY <1>4, ChangesAlter
  <2>2. PICK t : Leaves(t)
    BY <2>1 DEF Alters
  <2>3. /\ stage' = "live" /\ ~iter_active /\ IsTyped(entry') /\ t \in Seq(Data) /\ ContentsOf(numels', entry') = t
        /\ iter_active' = iter_active /\ iter_pos' = iter_pos /\ iter_curentry' = iter_curentry
    BY <2>2 DEF Leaves, iteration
  <2> QED BY <1>1, <2>3 DEF DataInv
<1>5. CASE IteratorStart
  <2>1. /\ stage = "live" /\ iter_active' = TRUE /\ iter_pos' = 0 /\ iter_curentry' = entry[HeadSentinel].next
        /\ UNCHANGED <<stage, entry, numels>>
    BY <1>5 DEF IteratorStart
  <2>2. Walk(entry, "next", HeadSentinel, 0) = HeadSentinel
    BY WalkSteps
  <2>3. 0 \in 0 .. numels /\ 0 + 1 = 1 /\ 0 \in 0 .. MaxLen /\ 0 <= numels
    BY <1>3
  <2>4. /\ Walk(entry, "next", HeadSentinel, 1) \in Entries \cup {TailSentinel}
        /\ Walk(entry, "next", HeadSentinel, 1) = entry[HeadSentinel].next
    <3>1. /\ Walk(entry, "next", HeadSentinel, 0 + 1) \in Entries \cup {TailSentinel}
          /\ Walk(entry, "next", HeadSentinel, 0 + 1) = entry[Walk(entry, "next", HeadSentinel, 0)].next
      BY <2>1, <2>3, WalkTyped
    <3> QED BY <2>2, <2>3, <3>1
  <2> QED BY <1>1, <2>1, <2>3, <2>4 DEF DataInv
<1>6. CASE IteratorNext
  <2>1. /\ stage = "live" /\ iter_active /\ iter_pos < numels
        /\ iter_curentry' = entry[iter_curentry].next /\ iter_pos' = iter_pos + 1
        /\ UNCHANGED <<stage, entry, numels, iter_active>>
    BY <1>6 DEF IteratorNext, HasNext
  <2>2. iter_curentry = Walk(entry, "next", HeadSentinel, iter_pos + 1)
    BY <1>2, <2>1
  <2>3. iter_pos + 1 \in 0 .. numels /\ iter_pos + 1 \in 0 .. MaxLen
    BY <1>1, <1>3, <2>1
  <2> DEFINE k == iter_pos + 1
  <2> HIDE DEF k
  <2>4. /\ Walk(entry, "next", HeadSentinel, k + 1) \in Entries \cup {TailSentinel}
        /\ Walk(entry, "next", HeadSentinel, k + 1) = entry[Walk(entry, "next", HeadSentinel, k)].next
    BY <2>1, <2>3, WalkTyped DEF k
  <2>5. iter_pos' = k /\ iter_curentry' = Walk(entry, "next", HeadSentinel, k + 1)
        /\ k <= numels /\ k \in 0 .. MaxLen
    BY <1>3, <2>1, <2>2, <2>3, <2>4 DEF k
  <2> QED BY <1>1, <2>1, <2>4, <2>5 DEF DataInv
<1>7. CASE IteratorStop
  <2>1. /\ stage = "live" /\ iter_active' = FALSE /\ iter_pos' = 0
        /\ UNCHANGED <<stage, entry, numels, iter_curentry>>
    BY <1>7 DEF IteratorStop
  <2>2. 0 \in 0 .. MaxLen
    BY <1>3
  <2> QED BY <1>1, <2>1, <2>2 DEF DataInv
<1>8. CASE Destroy
  <2>1. /\ stage = "live" /\ stage' = "destroyed" /\ spareels' = << >> /\ allocated' \subseteq allocated
        /\ numels' = IF iter_active THEN numels ELSE 0
        /\ entry' = IF iter_active THEN entry ELSE Empty
        /\ iter_active' = iter_active /\ iter_pos' = iter_pos /\ iter_curentry' = iter_curentry
    BY <1>8 DEF Destroy, iteration
  <2>2. PICK p : Way(p, numels, entry) /\ Stock(p, numels, spareels, allocated)
    BY <2>1, LiveFacts
  <2>3. allocated \subseteq Entries
    <3>1. Between(p, numels) \subseteq Entries
      BY <1>3, <2>2, WayFacts
    <3>2. spareels \in Seq(Entries) /\ allocated = Between(p, numels) \cup ToSet(spareels)
      BY <2>2 DEF Stock
    <3>3. ToSet(spareels) \subseteq Entries
      BY <3>2 DEF ToSet
    <3> QED BY <3>1, <3>2, <3>3
  <2>4. IsTyped(entry')
    BY <1>1, <1>8, DestroyKeeps
  <2>5. ContentsOf(numels', entry') \in Seq(Data)
    <3>1. CASE iter_active
      BY <1>1, <2>1, <3>1
    <3>2. CASE ~iter_active
      <4>1. ContentsOf(numels', entry') = << >>
        BY <2>1, <3>2 DEF ContentsOf
      <4> QED BY <4>1
    <3> QED BY <3>1, <3>2
  <2> QED BY <1>1, <2>1, <2>3, <2>4, <2>5 DEF DataInv
<1>9. CASE UNCHANGED vars
  BY <1>9 DEF DataInv, vars, iteration
<1> QED BY <1>4, <1>5, <1>6, <1>7, <1>8, <1>9 DEF Next, ListChange

LEMMA DataAlways == Spec => [](IInv /\ DataInv)
<1>1. Init => IInv /\ DataInv
  BY InitIInv, InitData
<1>2. IInv /\ DataInv /\ [Next]_vars => (IInv /\ DataInv)'
  BY NextKeeps, NextData
<1> QED BY <1>1, <1>2, PTL DEF Spec

-----------------------------------------------------------------------------
(* Queries *)

\* b is extreme among the first k of s.
Extreme(s, versus, k, b) == b \in Data /\ \A j \in 1 .. k : versus * Key[s[j]] <= versus * Key[b]

\* One more element
LEMMA ExtremeNext ==
  ASSUME NEW n \in Nat, NEW s \in [1 .. n -> Data], NEW versus \in {-1, 1}, NEW k \in Nat, k < n,
         NEW b, Extreme(s, versus, k, b)
  PROVE  Extreme(s, versus, k + 1, IF Compare(b, s[k + 1]) * versus > 0 THEN s[k + 1] ELSE b)
<1> DEFINE x == s[k + 1]
           r(d) == versus * Key[d]
<1>1. b \in Data /\ x \in Data
  BY DEF Extreme
<1>2. \A d \in Data : r(d) \in Int
  BY SimCListAssumption
<1>3. Compare(b, x) * versus > 0 <=> r(x) > r(b)
  <2>1. Key[x] \in Int /\ Key[b] \in Int
    BY <1>1, SimCListAssumption
  <2> HIDE DEF x
  <2>2. CASE versus = 1
    BY <2>1, <2>2 DEF Compare
  <2>3. CASE versus = -1
    BY <2>1, <2>3 DEF Compare
  <2> QED BY <2>2, <2>3
<1>4. \A j \in 1 .. k : r(s[j]) <= r(b) /\ s[j] \in Data
  BY DEF Extreme
<1>5. \A j \in 1 .. k + 1 : j \in 1 .. k \/ s[j] = x
  OBVIOUS
<1> DEFINE c == IF Compare(b, x) * versus > 0 THEN x ELSE b
<1> HIDE DEF r, x
<1>6. c \in Data /\ r(b) <= r(c) /\ r(x) <= r(c)
  BY <1>1, <1>2, <1>3
<1> HIDE DEF c
<1>7. \A j \in 1 .. k + 1 : r(s[j]) <= r(c)
  <2> SUFFICES ASSUME NEW j \in 1 .. k + 1 PROVE r(s[j]) <= r(c)
    OBVIOUS
  <2>1. CASE j \in 1 .. k
    <3>1. r(s[j]) <= r(b) /\ r(s[j]) \in Int /\ r(b) \in Int /\ r(c) \in Int
      BY <1>1, <1>2, <1>4, <1>6, <2>1
    <3> QED BY <1>6, <3>1
  <2>2. CASE s[j] = x
    BY <1>6, <2>2
  <2> QED BY <1>5, <2>1, <2>2
<1> QED BY <1>6, <1>7 DEF Extreme, c, r, x

\* list_get_minmax keeps the extreme of what it has seen: its definition has a solution.
LEMMA MinMaxIs ==
  ASSUME numels \in Nat, numels > 0, Contents \in [1 .. numels -> Data], NEW versus \in {-1, 1}
  PROVE  Extreme(Contents, versus, numels, MinMax(versus))
<1> DEFINE n == numels
           s == Contents
           next(i, b) == IF Compare(b, s[i]) * versus > 0 THEN s[i] ELSE b
           X == [at : 1 .. n, best : Data]
           body == [x \in X |-> IF x.at = n THEN x ELSE [at |-> x.at + 1, best |-> next(x.at + 1, x.best)]]
           start == [at |-> 1, best |-> s[1]]
           place(k) == IF k < n THEN k + 1 ELSE n
           I == [k \in Nat |-> {x \in X : x.at = place(k) /\ Extreme(s, versus, x.at, x.best)}]
           y(k) == Passes(body, start, k)
           F == [i \in 1 .. n |-> y(i - 1).best]
           f == CHOOSE f : f = [i \in 1 .. n |-> IF i = 1 THEN s[1] ELSE next(i, f[i - 1])]
<1>0. n \in Nat /\ n > 0 /\ s \in [1 .. n -> Data]
  OBVIOUS
<1>1. MinMax(versus) = f[n]
  BY <1>0 DEF MinMax
<1> HIDE DEF f, n, s
<1>2. start \in I[0]
  <2>1. 1 \in 1 .. n /\ s[1] \in Data /\ place(0) = 1
    BY <1>0
  <2>2. Extreme(s, versus, 1, s[1])
    <3>1. Key[s[1]] \in Int
      BY <2>1, SimCListAssumption
    <3>2. \A j \in 1 .. 1 : j = 1
      OBVIOUS
    <3>3. versus * Key[s[1]] <= versus * Key[s[1]]
      BY <3>1
    <3> QED BY <2>1, <3>2, <3>3 DEF Extreme
  <2> HIDE DEF place
  <2> QED BY <2>1, <2>2
<1>3. ASSUME NEW k \in Nat, NEW x \in I[k]
      PROVE  body[x] \in I[k + 1] /\ (k + 1 < n => body[x].best = next(k + 2, x.best))
  <2>1. x \in X /\ x.at = place(k) /\ Extreme(s, versus, x.at, x.best) /\ x.at \in 1 .. n /\ x.best \in Data
    BY <1>3
  <2>2. body[x] = IF x.at = n THEN x ELSE [at |-> x.at + 1, best |-> next(x.at + 1, x.best)]
    BY <2>1
  <2>3. CASE x.at = n
    <3>1. place(k + 1) = n /\ ~ (k + 1 < n)
      BY <1>0, <2>1, <2>3
    <3>2. k + 1 \in Nat /\ body[x] = x
      BY <2>2, <2>3
    <3> HIDE DEF place, body
    <3> QED BY <2>1, <2>3, <3>1, <3>2
  <2>4. CASE x.at # n
    <3>1. x.at = k + 1 /\ k + 1 < n /\ place(k + 1) = (k + 1) + 1 /\ k + 1 \in Nat /\ (k + 1) + 1 \in 1 .. n
          /\ (k + 1) + 1 = k + 2
      BY <1>0, <2>1, <2>4
    <3> DEFINE l == k + 1
               b == next(l + 1, x.best)
    <3>2. Extreme(s, versus, l + 1, b)
      BY <1>0, <2>1, <3>1, ExtremeNext
    <3>3. body[x] = [at |-> l + 1, best |-> b]
      BY <2>2, <2>4, <3>1
    <3>4. b \in Data /\ l + 1 \in 1 .. n /\ place(l) = l + 1 /\ l \in Nat
      BY <3>1, <3>2 DEF Extreme
    <3>5. b = next(k + 2, x.best)
      BY <3>1
    <3> HIDE DEF b, l, place, body, next
    <3>6. body[x] \in I[l] /\ body[x].best = b
      BY <3>2, <3>3, <3>4
    <3> QED BY <3>5, <3>6 DEF l
  <2> QED BY <2>3, <2>4
<1> HIDE DEF body, start
<1>4. \A k \in Nat : y(k) \in I[k]
  <2> HIDE DEF I
  <2> QED BY <1>2, <1>3, PassesKeep
<1>5. \A k \in Nat : y(k + 1) = body[y(k)]
  BY ONLY PassByPass
<1>6. y(0) = start
  BY ONLY PassByPass
<1> HIDE DEF y
<1>7. ASSUME NEW i \in 1 .. n PROVE F[i] = IF i = 1 THEN s[1] ELSE next(i, F[i - 1])
  <2>1. CASE i = 1
    <3>1. F[i] = y(0).best
      BY <2>1
    <3> QED BY <1>6, <2>1, <3>1 DEF start
  <2>2. CASE i # 1
    <3> DEFINE k == i - 2
    <3>1. k \in Nat /\ k + 1 < n /\ k + 1 = i - 1 /\ k + 2 = i /\ i - 1 \in 1 .. n /\ (i - 1) - 1 = k
      BY <1>0, <2>2
    <3>2. F[i] = y(k + 1).best /\ F[i - 1] = y(k).best
      BY <3>1
    <3> HIDE DEF k, F, next, I
    <3>3. y(k + 1).best = next(k + 2, y(k).best)
      BY <1>3, <1>4, <1>5, <3>1
    <3> QED BY <2>2, <3>1, <3>2, <3>3
  <2> QED BY <2>1, <2>2
<1>8. F = [i \in 1 .. n |-> IF i = 1 THEN s[1] ELSE next(i, F[i - 1])]
  <2>1. F = [i \in 1 .. n |-> F[i]]
    OBVIOUS
  <2> HIDE DEF F, next
  <2> QED BY <1>7, <2>1
<1>9. Extreme(s, versus, n, F[n])
  <2> DEFINE k == n - 1
  <2>1. k \in Nat /\ n \in 1 .. n /\ place(k) = n /\ F[n] = y(k).best
    BY <1>0
  <2> HIDE DEF k, F, place
  <2>2. y(k) \in I[k]
    BY <1>4, <2>1
  <2>3. y(k).at = n /\ Extreme(s, versus, y(k).at, y(k).best)
    BY <2>1, <2>2
  <2> QED BY <2>1, <2>3
<1> DEFINE G(g) == [i \in 1 .. n |-> IF i = 1 THEN s[1] ELSE next(i, g[i - 1])]
<1>10. f = G(f)
  <2>1. F = G(F)
    BY <1>8
  <2> HIDE DEF F, next
  <2> QED BY <2>1 DEF f
<1> HIDE DEF F
<1>11. ASSUME NEW i \in 1 .. n PROVE f[i] = IF i = 1 THEN s[1] ELSE next(i, f[i - 1])
  <2> HIDE DEF next
  <2> QED BY <1>10
<1>12. \A i \in Nat : i \in 1 .. n => f[i] = F[i]
  <2> DEFINE T == {i \in Nat : i \in 1 .. n => f[i] = F[i]}
  <2>1. 0 \in T
    OBVIOUS
  <2>2. ASSUME NEW i \in Nat, i \in T PROVE i + 1 \in T
    <3> SUFFICES ASSUME i + 1 \in 1 .. n PROVE f[i + 1] = F[i + 1]
      OBVIOUS
    <3> DEFINE k == i + 1
    <3>1. k \in 1 .. n /\ k - 1 = i /\ (k # 1 => f[i] = F[i])
      <4>1. k \in 1 .. n /\ k - 1 = i /\ (k # 1 => i \in 1 .. n)
        BY <1>0
      <4> HIDE DEF k
      <4> QED BY <2>2, <4>1
    <3> HIDE DEF k, next, T
    <3>2. f[k] = F[k]
      BY <1>7, <1>11, <3>1
    <3> QED BY <3>2 DEF k
  <2> HIDE DEF T
  <2>3. Nat \subseteq T
    BY <2>1, <2>2, NatSetInduction
  <2> QED BY <2>3 DEF T
<1>13. f[n] = F[n]
  BY <1>0, <1>12
<1> QED BY <1>1, <1>9, <1>13 DEF n, s

LEMMA InvariantTypes == IInv /\ DataInv => TypeOK
<1> SUFFICES ASSUME IInv, DataInv PROVE TypeOK
  OBVIOUS
<1>1. AreEntries(entry) /\ IsTyped(entry) /\ numels \in Nat /\ numels \in 0 .. MaxLen
  BY SimCListAssumption DEF IInv, DataInv
<1>2. entry \in [Nodes -> [data : Data \cup {Null}, next : Nodes \cup {Null}, prev : Nodes \cup {Null}]]
  <2>1. entry = [a \in Nodes |-> entry[a]]
    BY <1>1 DEF AreEntries
  <2>2. ASSUME NEW a \in Nodes
        PROVE  entry[a] \in [data : Data \cup {Null}, next : Nodes \cup {Null}, prev : Nodes \cup {Null}]
    <3>1. entry[a] = [data |-> entry[a].data, next |-> entry[a].next, prev |-> entry[a].prev]
      BY <1>1 DEF AreEntries, IsEntry, Entry
    <3>2. /\ entry[a].data \in Data \cup {Null}
          /\ entry[a].next \in Nodes \cup {Null} /\ entry[a].prev \in Nodes \cup {Null}
      BY <1>1 DEF IsTyped
    <3> QED BY <3>1, <3>2
  <2> QED BY <2>1, <2>2
<1>3. PICK p : /\ Way(p, numels, entry) /\ Central(p, numels, mid)
               /\ stage # "destroyed" => Stock(p, numels, spareels, allocated)
  BY DEF IInv
<1>4. mid \in Entries \cup {Null}
  <2>1. CASE numels = 0
    BY <1>3, <2>1 DEF Central
  <2>2. CASE numels # 0
    <3>1. (numels - 1) \div 2 + 1 \in 1 .. numels
      BY <1>1, <2>2, MiddleFacts
    <3> QED BY <1>3, <2>2, <3>1 DEF Central, Way
  <2> QED BY <2>1, <2>2
<1>5. allocated \subseteq Entries /\ spareels \in Seq(allocated) /\ Len(spareels) <= MaxSpare
  <2>1. CASE stage = "destroyed"
    <3>1. spareels = << >> /\ allocated \subseteq Entries
      BY <2>1 DEF DataInv
    <3> QED BY <3>1, SimCListAssumption
  <2>2. CASE stage # "destroyed"
    <3>1. Stock(p, numels, spareels, allocated)
      BY <1>3, <2>2
    <3>2. /\ spareels \in Seq(Entries) /\ Len(spareels) <= MaxSpare
          /\ allocated = Between(p, numels) \cup ToSet(spareels)
      BY <3>1 DEF Stock
    <3>3. Between(p, numels) \subseteq Entries
      BY <1>1, <1>3, WayFacts
    <3>4. ToSet(spareels) \subseteq Entries /\ \A i \in 1 .. Len(spareels) : spareels[i] \in ToSet(spareels)
      BY <3>2 DEF ToSet
    <3>5. spareels \in Seq(allocated)
      BY <3>2, <3>4
    <3> QED BY <3>2, <3>3, <3>4, <3>5
  <2> QED BY <2>1, <2>2
<1>6. /\ stage \in {"raw", "live", "destroyed"} /\ iter_active \in BOOLEAN /\ iter_pos \in 0 .. MaxLen
      /\ iter_curentry \in Entries \cup {TailSentinel, Null}
  BY DEF IInv, DataInv
<1> QED BY <1>1, <1>2, <1>4, <1>5, <1>6 DEF TypeOK, Nodes

\* Where something is first, by a test that is a set of positions
LEMMA FirstHit ==
  ASSUME NEW n \in Nat, NEW T \in SUBSET (1 .. n), NEW pos, pos = IF T = {} THEN -1 ELSE Min(T) - 1
  PROVE  /\ pos \in Int /\ (pos >= 0 <=> T # {})
         /\ pos >= 0 => pos \in 0 .. n - 1 /\ pos + 1 \in T
<1>1. CASE T = {}
  BY <1>1
<1>2. CASE T # {}
  <2>1. T \in SUBSET Nat
    OBVIOUS
  <2>2. Min(T) \in T
    BY <1>2, <2>1, MinMember
  <2> DEFINE m == Min(T)
  <2>3. m \in T /\ pos = m - 1
    BY <1>2, <2>2
  <2> HIDE DEF m
  <2>4. m \in 1 .. n
    BY <2>3
  <2>5. pos + 1 = m /\ pos \in 0 .. n - 1
    BY <2>3, <2>4
  <2> QED BY <1>2, <2>3, <2>5
<1> QED BY <1>1, <1>2

LEMMA InvariantQueries == IInv /\ DataInv => QueriesAgree
<1> SUFFICES ASSUME IInv, DataInv, stage = "live"
             PROVE  /\ \A pos \in -1 .. numels : FindPos(pos) = Follow("next", HeadSentinel, pos + 1)
                    /\ \A d \in Data : /\ (Locate(d) >= 0) = (\E i \in DOMAIN Contents : Contents[i] = d)
                                       /\ Locate(d) >= 0 => GetAt(Locate(d)) = d
                                       /\ LocateEqual(d) >= 0 => Key[GetAt(LocateEqual(d))] = Key[d]
                    /\ \A i \in DOMAIN Contents : /\ Key[MinMax(1)] >= Key[Contents[i]]
                                                  /\ Key[MinMax(-1)] <= Key[Contents[i]]
  BY InvariantTypes DEF QueriesAgree
<1>1. numels \in Nat
  BY LiveFacts
<1>2. \A pos \in -1 .. numels : FindPos(pos) = Follow("next", HeadSentinel, pos + 1)
  BY InvariantPositions DEF PositionsFound
<1>3. Contents = ContentsOf(numels, entry)
  BY FollowIs DEF Contents, ContentsOf
<1>4. DOMAIN Contents = 1 .. numels /\ Contents \in [1 .. numels -> Data]
  <2>1. DOMAIN Contents = 1 .. numels
    BY DEF Contents
  <2>2. Contents \in Seq(Data)
    BY <1>3 DEF DataInv
  <2> QED BY <1>1, <2>1, <2>2
<1>5. ASSUME NEW pos \in 0 .. numels - 1 PROVE GetAt(pos) = Contents[pos + 1]
  <2>1. pos \in -1 .. numels /\ pos + 1 \in 1 .. numels /\ pos \in 0 .. numels
    BY <1>1
  <2>2. FindPos(pos) = Follow("next", HeadSentinel, pos + 1)
    BY <1>2, <2>1
  <2>3. Walk(entry, "next", HeadSentinel, pos + 1) \in Entries
    BY <1>1, <2>1, WalkTyped
  <2>4. FindPos(pos) # Null
    BY <2>2, <2>3, FollowIs, SimCListAssumption
  <2> QED BY <2>1, <2>2, <2>4 DEF GetAt, Contents
<1>6. ASSUME NEW d \in Data
      PROVE  /\ (Locate(d) >= 0) = (\E i \in DOMAIN Contents : Contents[i] = d)
             /\ Locate(d) >= 0 => GetAt(Locate(d)) = d
  <2> DEFINE T == {i \in DOMAIN Contents : Contents[i] = d}
             pos == Locate(d)
  <2>1. pos = IF T = {} THEN -1 ELSE Min(T) - 1
    BY DEF Locate, FirstWhere
  <2>2. T \in SUBSET (1 .. numels) /\ \A i \in T : Contents[i] = d
    BY <1>4
  <2>3. T # {} <=> \E i \in DOMAIN Contents : Contents[i] = d
    OBVIOUS
  <2> HIDE DEF T, pos
  <2>4. (pos >= 0 <=> T # {}) /\ (pos >= 0 => pos \in 0 .. numels - 1 /\ pos + 1 \in T)
    BY <1>1, <2>1, <2>2, FirstHit
  <2>5. pos >= 0 => GetAt(pos) = d
    BY <1>5, <2>2, <2>4
  <2>6. (pos >= 0) = (\E i \in DOMAIN Contents : Contents[i] = d)
    <3>1. pos >= 0 <=> \E i \in DOMAIN Contents : Contents[i] = d
      BY <2>3, <2>4
    <3>2. (pos >= 0) \in BOOLEAN /\ (\E i \in DOMAIN Contents : Contents[i] = d) \in BOOLEAN
      OBVIOUS
    <3> QED BY <3>1, <3>2, Zenon
  <2> QED BY <2>5, <2>6 DEF pos
<1>7. ASSUME NEW d \in Data, LocateEqual(d) >= 0 PROVE Key[GetAt(LocateEqual(d))] = Key[d]
  <2> DEFINE T == {i \in DOMAIN Contents : Compare(d, Contents[i]) = 0}
             pos == LocateEqual(d)
  <2>1. pos = IF T = {} THEN -1 ELSE Min(T) - 1
    BY DEF LocateEqual, FirstWhere
  <2>2. T \in SUBSET (1 .. numels) /\ \A i \in T : Compare(d, Contents[i]) = 0 /\ i \in 1 .. numels
    BY <1>4
  <2> HIDE DEF T, pos
  <2>3. pos \in 0 .. numels - 1 /\ pos + 1 \in T
    BY <1>1, <1>7, <2>1, <2>2, FirstHit DEF pos
  <2>4. GetAt(pos) = Contents[pos + 1] /\ Contents[pos + 1] \in Data
    BY <1>4, <1>5, <2>2, <2>3
  <2>5. Compare(d, Contents[pos + 1]) = 0
    BY <2>2, <2>3
  <2>6. Key[Contents[pos + 1]] \in Int /\ Key[d] \in Int
    BY <2>4, SimCListAssumption
  <2> QED BY <2>4, <2>5, <2>6 DEF pos, Compare
<1>8. ASSUME NEW i \in DOMAIN Contents
      PROVE  Key[MinMax(1)] >= Key[Contents[i]] /\ Key[MinMax(-1)] <= Key[Contents[i]]
  <2>1. i \in 1 .. numels /\ numels > 0 /\ Contents[i] \in Data
    BY <1>1, <1>4
  <2>2. Extreme(Contents, 1, numels, MinMax(1)) /\ Extreme(Contents, -1, numels, MinMax(-1))
    BY <1>1, <1>4, <2>1, MinMaxIs
  <2>3. /\ MinMax(1) \in Data /\ 1 * Key[Contents[i]] <= 1 * Key[MinMax(1)]
        /\ MinMax(-1) \in Data /\ (-1) * Key[Contents[i]] <= (-1) * Key[MinMax(-1)]
    BY <2>1, <2>2 DEF Extreme
  <2>4. Key[MinMax(1)] \in Int /\ Key[MinMax(-1)] \in Int /\ Key[Contents[i]] \in Int
    BY <2>1, <2>3, SimCListAssumption
  <2> QED BY <2>3, <2>4
<1> QED BY <1>2, <1>6, <1>7, <1>8

\* Whatever operations came before, everything has its type, and the queries (list_get_at,
\* list_locate, list_get_minmax) answer of the list as a walk from its head meets it.
THEOREM QueriesAlwaysAgree == Spec => []QueriesAgree
<1>1. Spec => [](IInv /\ DataInv)
  BY DataAlways
<1>2. IInv /\ DataInv => QueriesAgree
  BY InvariantQueries
<1> QED BY <1>1, <1>2, PTL

-----------------------------------------------------------------------------
(* The abstract list *)

\* What is left of a list for an iteration at entry c, of which k elements were before
RestOf(n, e, k, c) == [i \in 1 .. n - k |-> e[Walk(e, "next", c, i - 1)].data]
DropFirst(n, s, k) == [i \in 1 .. n - k |-> s[k + i]]

LEMMA RestIs ==
  ASSUME NEW n \in Nat, NEW p, NEW e, Way(p, n, e), NEW k \in 0 .. n
  PROVE  RestOf(n, e, k, Walk(e, "next", HeadSentinel, k + 1)) = DropFirst(n, ContentsOf(n, e), k)
<1> DEFINE c == Walk(e, "next", HeadSentinel, k + 1)
<1>1. p[0] = HeadSentinel
  BY WayFacts
<1>2. c = p[k + 1]
  <2> DEFINE l == k + 1
  <2>1. l \in Nat /\ 0 \in 0 .. n + 1 /\ 0 + l <= n + 1 /\ 0 + l = l
    OBVIOUS
  <2> HIDE DEF l
  <2>2. Walk(e, "next", p[0], l) = p[0 + l]
    BY <2>1, Forward
  <2> QED BY <1>1, <2>1, <2>2 DEF l
<1> HIDE DEF c
<1>3. ContentsOf(n, e) = Listing(p, n, e)
  BY ListingIs
<1>4. ASSUME NEW i \in 1 .. n - k PROVE e[Walk(e, "next", c, i - 1)].data = ContentsOf(n, e)[k + i]
  <2> DEFINE l == k + 1
             m == i - 1
  <2>1. l \in 0 .. n + 1 /\ m \in Nat /\ l + m <= n + 1 /\ l + m = k + i /\ k + i \in 1 .. n
    OBVIOUS
  <2> HIDE DEF l, m
  <2>2. Walk(e, "next", p[l], m) = p[l + m]
    BY <2>1, Forward
  <2>3. Listing(p, n, e)[k + i] = e[p[k + i]].data
    BY <2>1 DEF Listing
  <2> QED BY <1>2, <1>3, <2>1, <2>2, <2>3 DEF l, m
<1> QED BY <1>4 DEF RestOf, DropFirst, c

\* What is left after one more element
LEMMA DropOneMore ==
  ASSUME NEW s \in Seq(Data), NEW k \in Nat, k < Len(s)
  PROVE  /\ DropFirst(Len(s), s, k) # << >>
         /\ DropFirst(Len(s), s, k + 1) = Tail(DropFirst(Len(s), s, k))
<1> DEFINE n == Len(s)
           m == n - k
           t == DropFirst(n, s, k)
<1>1. n \in Nat /\ m \in Nat /\ m > 0 /\ n - (k + 1) = m - 1 /\ \A i \in 1 .. m : k + i \in 1 .. n /\ s[k + i] \in Data
  OBVIOUS
<1>2. t = [i \in 1 .. m |-> s[k + i]]
  BY DEF DropFirst
<1> HIDE DEF n, t, m
<1>3. t \in Seq(Data) /\ Len(t) = m /\ \A i \in 1 .. m : t[i] = s[k + i]
  BY <1>1, <1>2
<1>4. Tail(t) = [i \in 1 .. m - 1 |-> t[i + 1]]
  <2>1. t # << >> /\ t \in Seq(Data) /\ Len(t) = m
    BY <1>1, <1>3
  <2>2. Tail(t) \in Seq(Data) /\ Len(Tail(t)) = m - 1 /\ \A i \in 1 .. m - 1 : Tail(t)[i] = t[i + 1]
    BY <2>1
  <2> DEFINE u == Tail(t)
  <2>3. u \in Seq(Data) /\ Len(u) = m - 1 /\ \A i \in 1 .. m - 1 : u[i] = t[i + 1]
    BY <2>2
  <2> HIDE DEF u
  <2>4. u = [i \in 1 .. m - 1 |-> u[i]]
    BY <2>3
  <2>5. u = [i \in 1 .. m - 1 |-> t[i + 1]]
    BY <2>3, <2>4
  <2> QED BY <2>5 DEF u
<1>5. \A i \in 1 .. m - 1 : t[i + 1] = s[(k + 1) + i]
  <2> SUFFICES ASSUME NEW i \in 1 .. m - 1 PROVE t[i + 1] = s[(k + 1) + i]
    OBVIOUS
  <2>1. i + 1 \in 1 .. m /\ k + (i + 1) = (k + 1) + i
    BY <1>1
  <2>2. t[i + 1] = s[k + (i + 1)]
    BY <1>3, <2>1
  <2> QED BY <2>1, <2>2
<1>6. DropFirst(n, s, k + 1) = Tail(t)
  BY <1>1, <1>4, <1>5 DEF DropFirst
<1>7. t # << >>
  BY <1>1, <1>3
<1> QED BY <1>6, <1>7 DEF n, t

LEMMA DropNone ==
  ASSUME NEW s \in Seq(Data)
  PROVE  DropFirst(Len(s), s, 0) = s
<1> DEFINE n == Len(s)
<1>1. n \in Nat /\ s = [i \in 1 .. n |-> s[i]] /\ n - 0 = n /\ \A i \in 1 .. n : 0 + i = i
  OBVIOUS
<1> HIDE DEF n
<1>2. DropFirst(n, s, 0) = s
  BY <1>1 DEF DropFirst
<1> QED BY <1>2 DEF n

LEMMA ContentsAre == Contents = ContentsOf(numels, entry) /\ Rest = RestOf(numels, entry, iter_pos, iter_curentry)
BY FollowIs DEF Contents, ContentsOf, Rest, RestOf

LEMMA SameCardinality == \A S : Abstract!Cardinality(S) = Cardinality(S)
BY DEF Abstract!Cardinality, Cardinality

AbsList == IF stage = "live" THEN Contents ELSE << >>
AbsIterating == stage = "live" /\ iter_active
AbsLeft == IF stage = "live" /\ iter_active THEN Rest ELSE << >>

\* A change of the sequence is one of the abstract list.
LEMMA AlteredImplements ==
  ASSUME AlteredTo(AbsList, AbsList'), ~AbsIterating, UNCHANGED <<AbsIterating, AbsLeft>>
  PROVE  Abstract!Change
<1>1. CASE \E pos \in 1 .. Len(AbsList) + 1, d \in Data : AbsList' = InsertAt(AbsList, pos, d)
  BY <1>1 DEF Abstract!Change, Abstract!Insert, Abstract!InsertAt, InsertAt, AbsList, AbsIterating, AbsLeft
<1>2. CASE \E first, last \in DOMAIN AbsList :
             first <= last /\ AbsList' = SubSeq(AbsList, 1, first - 1) \o SubSeq(AbsList, last + 1, Len(AbsList))
  BY <1>2 DEF Abstract!Change, Abstract!DeleteRange, AbsList, AbsIterating, AbsLeft
<1>3. CASE \E versus \in {-1, 1} : Len(AbsList') = Len(AbsList) /\ Ascends(AbsList', versus) /\ SameCounts(AbsList, AbsList')
  <2>1. PICK versus \in {-1, 1} : Len(AbsList') = Len(AbsList) /\ Ascends(AbsList', versus) /\ SameCounts(AbsList, AbsList')
    BY <1>3
  <2>2. Abstract!SortBy(versus)
    <3> DEFINE s == AbsList
               t == AbsList'
    <3>1. Len(t) = Len(s) /\ \A i, j \in DOMAIN t : i < j => (Key[t[i]] - Key[t[j]]) * versus <= 0
      BY <2>1 DEF Ascends
    <3>2. \A d \in Data : Abstract!Quantify(DOMAIN s, LAMBDA i : s[i] = d)
                            = Abstract!Quantify(DOMAIN t, LAMBDA i : t[i] = d)
      BY <2>1, SameCardinality DEF SameCounts, Quantify, Abstract!Quantify
    <3> QED BY <3>1, <3>2 DEF Abstract!SortBy, AbsList
  <2> QED BY <2>2 DEF Abstract!Change, AbsList, AbsIterating, AbsLeft
<1>4. CASE \E l1, l2 \in Sources : AbsList = << >> /\ AbsList' = l1 \o l2
  BY <1>4 DEF Abstract!Change, Abstract!Concatenate, AbsList, AbsIterating, AbsLeft
<1> QED BY <1>1, <1>2, <1>3, <1>4 DEF AlteredTo

\* What is in the list, and what is left of it, in each state
LEMMA AbstractIs ==
  ASSUME IInv, DataInv
  PROVE  /\ numels \in Nat /\ ContentsOf(numels, entry) \in Seq(Data) /\ Len(ContentsOf(numels, entry)) = numels
         /\ stage \in {"raw", "live"} => AbsList = ContentsOf(numels, entry)
         /\ stage = "live" /\ iter_active => iter_pos \in 0 .. numels
                                             /\ AbsLeft = DropFirst(numels, ContentsOf(numels, entry), iter_pos)
<1> DEFINE C == ContentsOf(numels, entry)
<1>1. numels \in Nat
  BY SimCListAssumption DEF IInv
<1>2. C \in Seq(Data) /\ DOMAIN C = 1 .. numels
  BY DEF DataInv, ContentsOf
<1> HIDE DEF C
<1>3. Len(C) = numels
  BY <1>1, <1>2
<1>4. CASE stage = "live"
  <2>1. AbsList = C
    BY <1>4, ContentsAre DEF AbsList, C
  <2>2. ASSUME iter_active PROVE iter_pos \in 0 .. numels /\ AbsLeft = DropFirst(numels, C, iter_pos)
    <3>1. /\ iter_pos \in 0 .. MaxLen /\ iter_pos <= numels
          /\ iter_curentry = Walk(entry, "next", HeadSentinel, iter_pos + 1)
      BY <1>4, <2>2 DEF DataInv
    <3>2. iter_pos \in 0 .. numels
      BY <1>1, <3>1, SimCListAssumption
    <3>3. PICK p : Way(p, numels, entry)
      BY <1>4, LiveFacts
    <3>4. RestOf(numels, entry, iter_pos, iter_curentry) = DropFirst(numels, C, iter_pos)
      BY <1>1, <3>1, <3>2, <3>3, RestIs DEF C
    <3>5. AbsLeft = Rest
      BY <1>4, <2>2 DEF AbsLeft
    <3> QED BY <3>2, <3>4, <3>5, ContentsAre
  <2> QED BY <1>1, <1>2, <1>3, <2>1, <2>2 DEF C
<1>5. CASE stage = "raw"
  <2>1. numels = 0
    BY <1>5 DEF IInv
  <2>2. C = << >>
    BY <1>2, <1>3, <2>1
  <2> QED BY <1>1, <1>2, <1>3, <1>5, <2>2 DEF AbsList, C
<1>6. CASE stage = "destroyed"
  BY <1>1, <1>2, <1>3, <1>6 DEF C
<1>7. stage \in {"raw", "live", "destroyed"}
  BY DEF IInv
<1> QED BY <1>4, <1>5, <1>6, <1>7

\* The same of the next state, which a change leaves
LEMMA LeavesIs ==
  ASSUME IInv, DataInv, NEW t, Leaves(t)
  PROVE  /\ AbsList = ContentsOf(numels, entry) /\ AbsList' = t
         /\ ~AbsIterating /\ UNCHANGED <<AbsIterating, AbsLeft>>
<1>1. /\ stage \in {"raw", "live"} /\ stage' = "live" /\ ~iter_active /\ ~iter_active'
      /\ ContentsOf(numels', entry') = t
  BY DEF Leaves, iteration
<1>2. AbsList = ContentsOf(numels, entry)
  BY <1>1, AbstractIs
<1>3. Contents' = ContentsOf(numels', entry')
  BY DEF Contents, ContentsOf, Follow, Walk
<1>4. AbsList' = t
  BY <1>1, <1>3 DEF AbsList
<1>5. ~AbsIterating /\ ~AbsIterating' /\ AbsLeft = << >> /\ AbsLeft' = << >>
  BY <1>1 DEF AbsIterating, AbsLeft
<1>6. AbsIterating' = AbsIterating
  BY <1>1 DEF AbsIterating
<1> QED BY <1>2, <1>4, <1>5, <1>6

\* And of the next state of an iteration
LEMMA IterationIs ==
  ASSUME IInv, DataInv', stage = "live", iter_active', UNCHANGED <<stage, entry, numels>>
  PROVE  /\ AbsList' = AbsList /\ AbsIterating' /\ iter_pos' \in 0 .. numels
         /\ AbsLeft' = DropFirst(numels, ContentsOf(numels, entry), iter_pos')
<1>1. stage' = "live" /\ entry' = entry /\ numels' = numels /\ numels \in Nat
  BY LiveFacts
<1>2. PICK p : Way(p, numels, entry)
  BY LiveFacts
<1>3. /\ iter_pos' \in 0 .. MaxLen /\ iter_pos' <= numels
      /\ iter_curentry' = Walk(entry, "next", HeadSentinel, iter_pos' + 1)
  BY <1>1 DEF DataInv
<1>4. iter_pos' \in 0 .. numels
  BY <1>1, <1>3, SimCListAssumption
<1>5. Rest' = RestOf(numels, entry, iter_pos', iter_curentry')
  BY <1>1 DEF Rest, RestOf, Follow, Walk
<1>6. RestOf(numels, entry, iter_pos', iter_curentry') = DropFirst(numels, ContentsOf(numels, entry), iter_pos')
  BY <1>1, <1>2, <1>3, <1>4, RestIs
<1>7. AbsLeft' = Rest'
  BY <1>1 DEF AbsLeft
<1>8. AbsList' = AbsList
  BY <1>1 DEF AbsList, Contents, Follow
<1>9. AbsIterating'
  BY <1>1 DEF AbsIterating
<1> QED BY <1>4, <1>5, <1>6, <1>7, <1>8, <1>9

\* Each step is one of the abstract list, or none.
LEMMA StepImplements ==
  ASSUME IInv, DataInv, DataInv', [Next]_vars
  PROVE  Abstract!ListNext \/ UNCHANGED <<AbsList, AbsIterating, AbsLeft>>
<1> DEFINE C == ContentsOf(numels, entry)
<1>1. /\ numels \in Nat /\ C \in Seq(Data) /\ Len(C) = numels
      /\ stage \in {"raw", "live"} => AbsList = C
      /\ stage = "live" /\ iter_active => iter_pos \in 0 .. numels /\ AbsLeft = DropFirst(numels, C, iter_pos)
  BY AbstractIs
<1> HIDE DEF C
<1>2. CASE ListChange
  <2>1. PICK t : Leaves(t) /\ (t = C \/ AlteredTo(C, t))
    BY <1>2, ChangesAlter DEF Alters, C
  <2>2. AbsList = C /\ AbsList' = t /\ ~AbsIterating /\ UNCHANGED <<AbsIterating, AbsLeft>>
    BY <2>1, LeavesIs DEF C
  <2>3. CASE t = C
    BY <2>2, <2>3
  <2>4. CASE AlteredTo(C, t)
    <3>1. AlteredTo(AbsList, AbsList')
      BY <2>2, <2>4
    <3>2. Abstract!Change
      BY <2>2, <3>1, AlteredImplements
    <3> QED BY <3>2 DEF Abstract!ListNext
  <2> QED BY <2>1, <2>3, <2>4
<1>3. CASE IteratorStart
  <2>1. stage = "live" /\ ~iter_active /\ iter_active' /\ iter_pos' = 0 /\ UNCHANGED <<stage, entry, numels>>
    BY <1>3 DEF IteratorStart
  <2>2. AbsList' = AbsList /\ AbsIterating' /\ AbsLeft' = DropFirst(numels, C, 0)
    BY <2>1, IterationIs DEF C
  <2>3. AbsLeft' = AbsList
    BY <1>1, <2>1, <2>2, DropNone
  <2>4. ~AbsIterating
    BY <2>1 DEF AbsIterating
  <2>5. Abstract!StartIteration
    BY <2>2, <2>3, <2>4 DEF Abstract!StartIteration, AbsList, AbsIterating, AbsLeft
  <2> QED BY <2>5 DEF Abstract!ListNext
<1>4. CASE IteratorNext
  <2>1. /\ stage = "live" /\ iter_active /\ iter_active' /\ iter_pos < numels /\ iter_pos' = iter_pos + 1
        /\ UNCHANGED <<stage, entry, numels>>
    BY <1>4 DEF IteratorNext, HasNext
  <2>2. AbsList' = AbsList /\ AbsIterating' /\ AbsLeft' = DropFirst(numels, C, iter_pos + 1)
    BY <2>1, IterationIs DEF C
  <2>3. iter_pos \in Nat /\ AbsLeft = DropFirst(numels, C, iter_pos)
    BY <1>1, <2>1
  <2>4. AbsLeft # << >> /\ AbsLeft' = Tail(AbsLeft)
    BY <1>1, <2>1, <2>2, <2>3, DropOneMore
  <2>5. AbsIterating /\ UNCHANGED AbsIterating
    <3>1. AbsIterating
      BY <2>1 DEF AbsIterating
    <3>2. AbsIterating \in BOOLEAN /\ AbsIterating' \in BOOLEAN
      BY DEF AbsIterating
    <3> QED BY <2>2, <3>1, <3>2
  <2>6. Abstract!NextOf
    BY <2>2, <2>4, <2>5 DEF Abstract!NextOf, AbsList, AbsIterating, AbsLeft
  <2> QED BY <2>6 DEF Abstract!ListNext
<1>5. CASE IteratorStop
  <2>1. /\ stage = "live" /\ iter_active /\ ~iter_active' /\ stage' = "live" /\ entry' = entry /\ numels' = numels
    BY <1>5 DEF IteratorStop
  <2>2. AbsIterating /\ ~AbsIterating' /\ AbsLeft' = << >>
    BY <2>1 DEF AbsIterating, AbsLeft
  <2>3. AbsList' = AbsList
    BY <2>1 DEF AbsList, Contents, Follow
  <2>4. Abstract!StopIteration
    BY <2>2, <2>3 DEF Abstract!StopIteration, AbsList, AbsIterating, AbsLeft
  <2> QED BY <2>4 DEF Abstract!ListNext
<1>6. CASE Destroy
  <2>1. stage' = "destroyed"
    BY <1>6 DEF Destroy
  <2>2. AbsList' = << >> /\ ~AbsIterating' /\ AbsLeft' = << >>
    BY <2>1 DEF AbsList, AbsIterating, AbsLeft
  <2>3. Abstract!Destroy
    BY <2>2 DEF Abstract!Destroy, AbsList, AbsIterating, AbsLeft
  <2> QED BY <2>3 DEF Abstract!ListNext
<1>7. CASE UNCHANGED vars
  <2>1. UNCHANGED <<stage, entry, numels, iter_active, iter_pos, iter_curentry>>
    BY <1>7 DEF vars, iteration
  <2> QED BY <2>1 DEF AbsList, AbsIterating, AbsLeft, Contents, Rest, Follow
<1> QED BY <1>2, <1>3, <1>4, <1>5, <1>6, <1>7 DEF Next, ListChange

LEMMA InitImplements == Init => Abstract!ListInit
BY DEF Init, Abstract!ListInit

\* Whatever happens to entries, spares and the middle, a list is a sequence: an insertion
\* inserts, a range is deleted, sorting permutes into order, a concatenation concatenates,
\* and an iteration returns all that was there at its start (simclist.c:478, 561, 714, 767, 947);
\* for lists of any length, any comparator, and whichever pivots quicksort takes.
THEOREM ListImplementsADT == Spec => ImplementsList
<1>1. Init => Abstract!ListInit
  BY InitImplements
<1>2. /\ IInv /\ DataInv /\ (IInv /\ DataInv)' /\ [Next]_vars
      => Abstract!ListNext \/ UNCHANGED <<AbsList, AbsIterating, AbsLeft>>
  BY StepImplements
<1>3. Spec => [](IInv /\ DataInv)
  BY DataAlways
<1>4. /\ IInv /\ DataInv /\ (IInv /\ DataInv)' /\ [Next]_vars
      => [Abstract!ListNext]_<<IF stage = "live" THEN Contents ELSE << >>, stage = "live" /\ iter_active,
                               IF stage = "live" /\ iter_active THEN Rest ELSE << >>>>
  BY <1>2 DEF AbsList, AbsIterating, AbsLeft
<1> QED BY <1>1, <1>3, <1>4, PTL DEF Spec, ImplementsList, Abstract!ListSpec
=============================================================================
