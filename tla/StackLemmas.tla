----------------------------- MODULE StackLemmas -----------------------------
(***************************************************************************)
(* Lemmas for every module with proofs: induction over sets of numbers,    *)
(* and sequences used as stacks, namely prefixes, a replaced top, and one  *)
(* stack that lists some elements of another in order, as the frames of a  *)
(* context do with the open blocks.                                        *)
(***************************************************************************)
EXTENDS SequencesExt, SequenceTheorems, TLAPS, NaturalsInduction, WellFoundedInduction

-----------------------------------------------------------------------------
(* Numbers *)

\* A set of numbers that is not empty has a least one.
LEMMA NatMin ==
  ASSUME NEW T \in SUBSET Nat, T # {}
  PROVE  \E n \in T : \A m \in T : n <= m
<1> DEFINE R == OpToRel(<, Nat)
<1>1. IsWellFoundedOn(R, Nat)
  BY NatLessThanWellFounded
<1>2. \E x \in T : \A y \in T : ~ (<<y, x>> \in R)
  <2> HIDE DEF R
  <2> QED BY <1>1, WFMin, Zenon
<1>3. \A x, y \in Nat : x < y => <<x, y>> \in R
  BY DEF OpToRel
<1> HIDE DEF R
<1>4. PICK n \in T : \A m \in T : ~ (<<m, n>> \in R)
  BY <1>2
<1>5. \A m \in T : ~ (m < n)
  BY <1>3, <1>4, Zenon
<1>6. \A m \in Nat : ~ (m < n) => n <= m
  OBVIOUS
<1> QED BY <1>5, <1>6

\* Induction, for a set of numbers
LEMMA NatSetInduction ==
  ASSUME NEW T, 0 \in T, \A n \in Nat : n \in T => n + 1 \in T
  PROVE  Nat \subseteq T
<1> SUFFICES ASSUME Nat \ T # {} PROVE FALSE
  OBVIOUS
<1>1. PICK n \in Nat \ T : \A m \in Nat \ T : n <= m
  BY NatMin
<1>2. n # 0 /\ n - 1 \in Nat
  BY <1>1
<1>3. n - 1 \in T
  BY <1>1, <1>2
<1> QED BY <1>1, <1>2, <1>3

-----------------------------------------------------------------------------
(* Sequences *)

\* The length of a prefix, and its elements.
LEMMA PrefixFacts ==
  ASSUME NEW S, NEW s \in Seq(S), NEW n \in Nat, n <= Len(s)
  PROVE  /\ SubSeq(s, 1, n) \in Seq(S)
         /\ Len(SubSeq(s, 1, n)) = n
         /\ \A i \in 1 .. n : SubSeq(s, 1, n)[i] = s[i]
OBVIOUS

\* A sequence without its last element keeps the others.
LEMMA FrontFacts ==
  ASSUME NEW S, NEW s \in Seq(S), s # << >>
  PROVE  /\ Len(s) \in Nat \ {0}
         /\ Front(s) \in Seq(S)
         /\ Len(Front(s)) = Len(s) - 1
         /\ \A i \in 1 .. Len(s) - 1 : Front(s)[i] = s[i]
         /\ Last(s) = s[Len(s)] /\ Last(s) \in S
<1>1. Len(s) \in Nat \ {0}
  BY EmptySeq, LenProperties
<1>2. PICK n \in Nat : n = Len(s) - 1
  BY <1>1
<1>3. /\ Front(s) \in Seq(S)
      /\ Len(Front(s)) = n
      /\ \A i \in 1 .. n : Front(s)[i] = s[i]
  <2>1. n <= Len(s)
    BY <1>1, <1>2
  <2>2. Front(s) = SubSeq(s, 1, n)
    BY <1>2 DEF Front
  <2> QED BY <2>1, <2>2, PrefixFacts
<1>4. Last(s) = s[Len(s)] /\ Last(s) \in S
  BY <1>1, ElementOfSeq DEF Last
<1> QED BY <1>1, <1>2, <1>3, <1>4

\* A stack that is not empty is what is below its top, and its top.
LEMMA FrontAndLast ==
  ASSUME NEW S, NEW s \in Seq(S), s # << >>
  PROVE  Front(s) \in Seq(S) /\ Last(s) \in S /\ s = Append(Front(s), Last(s))
<1> DEFINE f == Front(s)
           r == Append(f, Last(s))
<1>1. /\ f \in Seq(S) /\ Len(f) = Len(s) - 1 /\ Len(s) \in Nat \ {0}
      /\ Last(s) = s[Len(s)] /\ Last(s) \in S
      /\ \A i \in 1 .. Len(s) - 1 : f[i] = s[i]
  BY FrontFacts
<1> HIDE DEF f
<1>2. r \in Seq(S) /\ Len(r) = Len(s) /\ r[Len(s)] = Last(s) /\ \A i \in 1 .. Len(s) - 1 : r[i] = f[i]
  BY <1>1
<1> HIDE DEF r
<1>3. \A i \in 1 .. Len(s) : i = Len(s) \/ i \in 1 .. Len(s) - 1
  BY <1>1
<1>4. r = s
  BY <1>1, <1>2, <1>3, SeqEqual
<1> QED BY <1>1, <1>4 DEF r, f

\* A stack with b on top, and what is below b
LEMMA AppendFrontLast ==
  ASSUME NEW S, NEW s \in Seq(S), NEW b \in S
  PROVE  /\ Front(Append(s, b)) = s /\ Last(Append(s, b)) = b
         /\ Append(s, b) # << >> /\ Append(s, b) \in Seq(S) /\ Len(Append(s, b)) = Len(s) + 1
<1> DEFINE r == Append(s, b)
<1>1. r \in Seq(S) /\ Len(r) = Len(s) + 1 /\ r[Len(s) + 1] = b /\ Len(s) \in Nat /\ \A i \in 1 .. Len(s) : r[i] = s[i]
  BY AppendProperties
<1> HIDE DEF r
<1>2. r # << >>
  BY <1>1, EmptySeq
<1>3. Front(r) \in Seq(S) /\ Len(Front(r)) = Len(r) - 1 /\ Last(r) = r[Len(r)] /\ \A i \in 1 .. Len(r) - 1 : Front(r)[i] = r[i]
  BY <1>1, <1>2, FrontFacts
<1>4. Last(r) = b
  BY <1>1, <1>3
<1>5. Len(Front(r)) = Len(s) /\ \A i \in 1 .. Len(s) : Front(r)[i] = s[i]
  BY <1>1, <1>3
<1>6. Front(r) = s
  BY <1>3, <1>5, SeqEqual
<1> QED BY <1>1, <1>2, <1>4, <1>6 DEF r

\* Replacing the last element keeps the others.
LEMMA ReplaceLastFacts ==
  ASSUME NEW S, NEW s \in Seq(S), s # << >>, NEW x \in S
  PROVE  /\ [s EXCEPT ![Len(s)] = x] \in Seq(S)
         /\ Len([s EXCEPT ![Len(s)] = x]) = Len(s)
         /\ [s EXCEPT ![Len(s)] = x] # << >>
         /\ Last([s EXCEPT ![Len(s)] = x]) = x
         /\ \A i \in 1 .. Len(s) - 1 : [s EXCEPT ![Len(s)] = x][i] = s[i]
<1>1. Len(s) \in Nat \ {0} /\ Len(s) \in 1 .. Len(s)
  BY FrontFacts
<1>2. /\ [s EXCEPT ![Len(s)] = x] \in Seq(S)
      /\ Len([s EXCEPT ![Len(s)] = x]) = Len(s)
  BY <1>1, ExceptSeq
<1>3. \A i \in 1 .. Len(s) : [s EXCEPT ![Len(s)] = x][i] = IF i = Len(s) THEN x ELSE s[i]
  BY <1>1, ExceptSeq
<1>4. [s EXCEPT ![Len(s)] = x] # << >>
  BY <1>1, <1>2
<1>5. \A i \in 1 .. Len(s) - 1 : i \in 1 .. Len(s) /\ i # Len(s)
  BY <1>1
<1>6. Last([s EXCEPT ![Len(s)] = x]) = x
  BY <1>1, <1>2, <1>3 DEF Last
<1> QED BY <1>2, <1>3, <1>4, <1>5, <1>6, Zenon
-----------------------------------------------------------------------------
(* Enumerations *)

\* f lists the names that the positions in S have, in ascending order of position.
InOrder(f, S, name) ==
  \E at \in [DOMAIN f -> S] :
    /\ \A k, l \in DOMAIN f : k < l => at[k] < at[l]
    /\ \A i \in S : \E k \in DOMAIN f : at[k] = i
    /\ \A k \in DOMAIN f : f[k] = name[at[k]]

\* Nothing is listed exactly if there is nothing to list.
LEMMA InOrderEmpty ==
  ASSUME NEW T, NEW f \in Seq(T), NEW S, NEW name, InOrder(f, S, name)
  PROVE  f = << >> <=> S = {}
<1>1. DOMAIN f = 1 .. Len(f) /\ Len(f) \in Nat
  OBVIOUS
<1>2. f = << >> <=> Len(f) = 0
  BY EmptySeq, Zenon
<1>3. DOMAIN f = {} <=> Len(f) = 0
  <2>1. \A n \in Nat : n # 0 => 1 \in 1 .. n
    OBVIOUS
  <2>2. 1 .. 0 = {}
    OBVIOUS
  <2> QED BY <1>1, <2>1, <2>2
<1> QED BY <1>2, <1>3 DEF InOrder

\* The empty sequence lists no positions.
LEMMA EmptyInOrder ==
  ASSUME NEW name
  PROVE  InOrder(<< >>, {}, name)
<1>1. DOMAIN << >> = {}
  OBVIOUS
<1>2. [k \in {} |-> k] \in [{} -> {}]
  OBVIOUS
<1> QED BY <1>1, <1>2 DEF InOrder

\* Only the names of the listed positions count.
LEMMA InOrderSame ==
  ASSUME NEW f, NEW S, NEW name, NEW other,
         InOrder(f, S, name), \A i \in S : name[i] = other[i]
  PROVE  InOrder(f, S, other)
<1>1. PICK at \in [DOMAIN f -> S] :
           /\ \A k, l \in DOMAIN f : k < l => at[k] < at[l]
           /\ \A i \in S : \E k \in DOMAIN f : at[k] = i
           /\ \A k \in DOMAIN f : f[k] = name[at[k]]
  BY DEF InOrder
<1>2. \A k \in DOMAIN f : f[k] = other[at[k]]
  BY <1>1
<1> QED BY <1>1, <1>2, Zenon DEF InOrder

\* A position above all others is listed last.
LEMMA InOrderAppend ==
  ASSUME NEW T, NEW f \in Seq(T), NEW S \in SUBSET Nat, NEW name, NEW n \in Nat, NEW x \in T,
         InOrder(f, S, name), \A i \in S : i < n, name[n] = x
  PROVE  InOrder(Append(f, x), S \cup {n}, name)
<1>1. PICK at \in [DOMAIN f -> S] :
           /\ \A k, l \in DOMAIN f : k < l => at[k] < at[l]
           /\ \A i \in S : \E k \in DOMAIN f : at[k] = i
           /\ \A k \in DOMAIN f : f[k] = name[at[k]]
  BY DEF InOrder
<1> DEFINE g == Append(f, x)
           m == Len(f) + 1
           to == [k \in DOMAIN g |-> IF k = m THEN n ELSE at[k]]
<1>2. /\ Len(f) \in Nat /\ DOMAIN f = 1 .. Len(f) /\ m \in Nat
      /\ DOMAIN g = 1 .. m
      /\ g[m] = x /\ \A k \in 1 .. Len(f) : g[k] = f[k]
  OBVIOUS
<1>3. /\ \A k \in DOMAIN g : k = m \/ k \in DOMAIN f
      /\ \A k \in DOMAIN f : k \in DOMAIN g /\ k # m /\ k < m /\ g[k] = f[k]
      /\ m \in DOMAIN g /\ \A k \in DOMAIN g : ~ m < k
  BY <1>2
<1> HIDE DEF g, m
<1>4. to \in [DOMAIN g -> S \cup {n}]
  BY <1>1, <1>3
<1>5. ASSUME NEW k \in DOMAIN g, NEW l \in DOMAIN g, k < l
      PROVE  to[k] < to[l]
  <2>1. k \in DOMAIN f /\ to[k] = at[k] /\ at[k] \in S
    BY <1>1, <1>3, <1>5
  <2>2. CASE l = m
    BY <2>1, <2>2
  <2>3. CASE l # m
    BY <1>1, <1>3, <1>5, <2>1, <2>3
  <2> QED BY <2>2, <2>3
<1>6. \A i \in S \cup {n} : \E k \in DOMAIN g : to[k] = i
  BY <1>1, <1>3
<1>7. \A k \in DOMAIN g : g[k] = name[to[k]]
  BY <1>1, <1>2, <1>3
<1> HIDE DEF to
<1> QED BY <1>4, <1>5, <1>6, <1>7, Zenon DEF InOrder, g

Below(S, i) == {j \in S : j < i}

\* The k-th name is that of position i, and only what is below i is listed below it.
NamedAt(f, S, name, k, i) == /\ f[k] = name[i]
                             /\ InOrder(SubSeq(f, 1, k - 1), Below(S, i), name)
                             /\ k = Len(f) => \A j \in S : j <= i

\* Every name is that of a listed position.
LEMMA InOrderBelow ==
  ASSUME NEW T, NEW f \in Seq(T), NEW S \in SUBSET Nat, NEW name, NEW k \in DOMAIN f,
         InOrder(f, S, name)
  PROVE  /\ k \in Nat /\ k - 1 \in Nat /\ SubSeq(f, 1, k - 1) \in Seq(T)
         /\ \E i \in S : NamedAt(f, S, name, k, i)
<1>1. PICK at \in [DOMAIN f -> S] :
           /\ \A m, l \in DOMAIN f : m < l => at[m] < at[l]
           /\ \A i \in S : \E l \in DOMAIN f : at[l] = i
           /\ \A l \in DOMAIN f : f[l] = name[at[l]]
  BY DEF InOrder
<1> DEFINE n == k - 1
           g == SubSeq(f, 1, n)
           below == Below(S, at[k])
           to == [l \in DOMAIN g |-> at[l]]
<1>2. /\ Len(f) \in Nat /\ DOMAIN f = 1 .. Len(f) /\ k \in Nat /\ n \in Nat
      /\ n <= Len(f)
  OBVIOUS
<1>3. g \in Seq(T) /\ DOMAIN g = 1 .. n /\ \A l \in 1 .. n : g[l] = f[l]
  BY <1>2, PrefixFacts
<1>4. \A l \in DOMAIN g : l \in DOMAIN f /\ l < k /\ g[l] = f[l]
  BY <1>2, <1>3
<1>5. \A l \in DOMAIN f : l < k \/ l = k \/ k < l
  BY <1>2
<1>6. \A l \in DOMAIN f : l < k => l \in DOMAIN g
  BY <1>2, <1>3
<1> HIDE DEF g
<1>7. to \in [DOMAIN g -> below]
  BY <1>1, <1>4 DEF Below
<1>8. \A m, l \in DOMAIN g : m < l => to[m] < to[l]
  BY <1>1, <1>4
<1>9. ASSUME NEW i \in below PROVE \E l \in DOMAIN g : to[l] = i
  <2>1. PICK l \in DOMAIN f : at[l] = i
    BY <1>1 DEF Below
  <2>2. at[k] \in Nat /\ i \in Nat /\ i < at[k] /\ i \in S
    BY <1>1 DEF Below
  <2>3. ~ k < l /\ l # k
    BY <1>1, <2>1, <2>2
  <2> QED BY <1>5, <1>6, <2>1, <2>3
<1>10. \A l \in DOMAIN g : g[l] = name[to[l]]
  BY <1>1, <1>4
<1>11. InOrder(g, below, name)
  <2> HIDE DEF to, below
  <2> QED BY <1>7, <1>8, <1>9, <1>10, Zenon DEF InOrder
<1>12. ASSUME k = Len(f), NEW j \in S PROVE j <= at[k]
  <2>1. PICK l \in DOMAIN f : at[l] = j
    BY <1>1
  <2>2. at[k] \in Nat /\ j \in Nat
    BY <1>1
  <2>3. l = k \/ l < k
    BY <1>2, <1>12
  <2> QED BY <1>1, <2>1, <2>2, <2>3
<1>13. NamedAt(f, S, name, k, at[k])
  BY <1>1, <1>11, <1>12 DEF NamedAt, g
<1> QED BY <1>1, <1>2, <1>3, <1>13 DEF g

-----------------------------------------------------------------------------
(* Lists: what they hold *)

Has(s, e) == \E i \in DOMAIN s : s[i] = e
NoRepeat(s) == \A i, j \in DOMAIN s : s[i] = s[j] => i = j
Apart(s, r) == \A i \in DOMAIN s, j \in DOMAIN r : s[i] # r[j]

LEMMA ApartHas ==
  ASSUME NEW s, NEW r
  PROVE  Apart(s, r) <=> \A e : ~(Has(s, e) /\ Has(r, e))
BY DEF Apart, Has

LEMMA ToSetHas ==
  ASSUME NEW s, NEW e
  PROVE  e \in ToSet(s) <=> Has(s, e)
BY DEF ToSet, Has

LEMMA EmptyHas == /\ NoRepeat(<< >>) /\ \A e : ~Has(<< >>, e)
BY DEF NoRepeat, Has

LEMMA SingleHas ==
  ASSUME NEW x
  PROVE  NoRepeat(<<x>>) /\ \A e : Has(<<x>>, e) <=> e = x
BY DEF NoRepeat, Has

LEMMA AppendHas ==
  ASSUME NEW S, NEW s \in Seq(S), NEW x \in S
  PROVE  /\ \A e : Has(Append(s, x), e) <=> Has(s, e) \/ e = x
         /\ NoRepeat(s) /\ ~Has(s, x) => NoRepeat(Append(s, x))
<1>1. /\ DOMAIN Append(s, x) = 1 .. Len(s) + 1 /\ DOMAIN s = 1 .. Len(s) /\ Len(s) \in Nat
      /\ \A i \in 1 .. Len(s) : Append(s, x)[i] = s[i]
      /\ Append(s, x)[Len(s) + 1] = x
  BY AppendProperties, LenProperties
<1>2. \A i \in 1 .. Len(s) + 1 : i \in 1 .. Len(s) \/ i = Len(s) + 1
  BY <1>1
<1>3. \A i \in 1 .. Len(s) : i \in 1 .. Len(s) + 1
  BY <1>1
<1>4. Len(s) + 1 \in 1 .. Len(s) + 1
  BY <1>1
<1> QED BY <1>1, <1>2, <1>3, <1>4, Zenon DEF Has, NoRepeat

LEMMA HeadTailHas ==
  ASSUME NEW S, NEW s \in Seq(S), s # << >>
  PROVE  /\ \A e : Has(s, e) <=> Has(Tail(s), e) \/ e = Head(s)
         /\ NoRepeat(s) => NoRepeat(Tail(s)) /\ ~Has(Tail(s), Head(s))
<1>1. /\ Len(s) \in Nat \ {0} /\ DOMAIN s = 1 .. Len(s) /\ Head(s) = s[1]
      /\ DOMAIN Tail(s) = 1 .. Len(s) - 1
      /\ \A i \in 1 .. Len(s) - 1 : Tail(s)[i] = s[i + 1]
  <2>1. Len(s) \in Nat \ {0} /\ DOMAIN s = 1 .. Len(s)
    BY EmptySeq, LenProperties
  <2>2. Tail(s) \in Seq(S) /\ Len(Tail(s)) = Len(s) - 1 /\ \A i \in 1 .. Len(Tail(s)) : Tail(s)[i] = s[i + 1]
    BY HeadTailProperties
  <2> QED BY <2>1, <2>2, LenProperties
<1>2. \A i \in 1 .. Len(s) : i = 1 \/ (i - 1 \in 1 .. Len(s) - 1 /\ (i - 1) + 1 = i)
  BY <1>1
<1>3. \A i \in 1 .. Len(s) - 1 : i + 1 \in 1 .. Len(s) /\ i + 1 # 1
  BY <1>1
<1>4. 1 \in 1 .. Len(s)
  BY <1>1
<1>5. \A e : Has(s, e) <=> Has(Tail(s), e) \/ e = Head(s)
  <2> TAKE e
  <2>1. ASSUME Has(s, e) PROVE Has(Tail(s), e) \/ e = Head(s)
    <3>1. PICK i \in 1 .. Len(s) : s[i] = e
      BY <1>1, <2>1 DEF Has
    <3>2. CASE i = 1
      BY <1>1, <3>1, <3>2
    <3>3. CASE i - 1 \in 1 .. Len(s) - 1 /\ (i - 1) + 1 = i
      <4>1. Tail(s)[i - 1] = e
        BY <1>1, <3>1, <3>3
      <4> QED BY <1>1, <3>3, <4>1 DEF Has
    <3> QED BY <1>2, <3>1, <3>2, <3>3
  <2>2. Has(Tail(s), e) \/ e = Head(s) => Has(s, e)
    BY <1>1, <1>3, <1>4 DEF Has
  <2> QED BY <2>1, <2>2
<1>6. NoRepeat(s) => NoRepeat(Tail(s)) /\ ~Has(Tail(s), Head(s))
  BY <1>1, <1>3, <1>4 DEF Has, NoRepeat
<1> QED BY <1>5, <1>6

LEMMA ConcatHas ==
  ASSUME NEW S, NEW s \in Seq(S), NEW r \in Seq(S)
  PROVE  /\ \A e : Has(s \o r, e) <=> Has(s, e) \/ Has(r, e)
         /\ NoRepeat(s) /\ NoRepeat(r) /\ Apart(s, r) => NoRepeat(s \o r)
<1> DEFINE n == Len(s)
           m == Len(r)
           c == s \o r
<1>1. /\ n \in Nat /\ m \in Nat /\ DOMAIN s = 1 .. n /\ DOMAIN r = 1 .. m /\ DOMAIN c = 1 .. n + m
      /\ \A i \in 1 .. n + m : c[i] = IF i <= n THEN s[i] ELSE r[i - n]
  BY ConcatProperties, LenProperties
<1> HIDE DEF n, m, c
<1>2. \A i \in 1 .. n + m : \/ i \in 1 .. n /\ c[i] = s[i]
                            \/ i - n \in 1 .. m /\ c[i] = r[i - n]
  BY <1>1
<1>3. \A i \in 1 .. n : i \in 1 .. n + m /\ c[i] = s[i]
  BY <1>1
<1>4. \A i \in 1 .. m : n + i \in 1 .. n + m /\ c[n + i] = r[i]
  BY <1>1
<1>5. \A e : Has(c, e) <=> Has(s, e) \/ Has(r, e)
  <2> TAKE e
  <2>1. Has(c, e) => Has(s, e) \/ Has(r, e)
    BY <1>1, <1>2 DEF Has
  <2>2. Has(s, e) \/ Has(r, e) => Has(c, e)
    BY <1>1, <1>3, <1>4 DEF Has
  <2> QED BY <2>1, <2>2
<1>6. ASSUME NoRepeat(s), NoRepeat(r), Apart(s, r), NEW i \in 1 .. n + m, NEW j \in 1 .. n + m, c[i] = c[j]
      PROVE  i = j
  <2>1. CASE i \in 1 .. n /\ c[i] = s[i] /\ j \in 1 .. n /\ c[j] = s[j]
    BY <1>1, <1>6, <2>1 DEF NoRepeat
  <2>2. CASE i - n \in 1 .. m /\ c[i] = r[i - n] /\ j - n \in 1 .. m /\ c[j] = r[j - n]
    <3>1. i - n = j - n
      BY <1>1, <1>6, <2>2 DEF NoRepeat
    <3> QED BY <1>1, <3>1
  <2>3. CASE i \in 1 .. n /\ c[i] = s[i] /\ j - n \in 1 .. m /\ c[j] = r[j - n]
    BY <1>1, <1>6, <2>3 DEF Apart
  <2>4. CASE j \in 1 .. n /\ c[j] = s[j] /\ i - n \in 1 .. m /\ c[i] = r[i - n]
    BY <1>1, <1>6, <2>4 DEF Apart
  <2> QED BY <1>2, <2>1, <2>2, <2>3, <2>4
<1> QED BY <1>1, <1>5, <1>6 DEF NoRepeat, c

LEMMA RemoveAtHas ==
  ASSUME NEW S, NEW s \in Seq(S), NEW k \in 1 .. Len(s)
  PROVE  /\ \A e : Has(RemoveAt(s, k), e) => Has(s, e)
         /\ \A e : Has(s, e) /\ e # s[k] => Has(RemoveAt(s, k), e)
         /\ NoRepeat(s) => NoRepeat(RemoveAt(s, k)) /\ ~Has(RemoveAt(s, k), s[k])
<1> DEFINE n == Len(s)
           c == RemoveAt(s, k)
           before == SubSeq(s, 1, k - 1)
           after == SubSeq(s, k + 1, n)
<1>1. n \in Nat /\ DOMAIN s = 1 .. n /\ k \in 1 .. n
  BY LenProperties
<1>2. /\ before \in Seq(S) /\ Len(before) = k - 1 /\ \A i \in 1 .. k - 1 : before[i] = s[i]
  BY <1>1
<1>3. /\ after \in Seq(S) /\ Len(after) = n - k /\ \A i \in 1 .. n - k : after[i] = s[k + i]
  <2>1. \A i \in k + 1 .. n : s[i] \in S
    BY <1>1, ElementOfSeq
  <2>2. after = [i \in 1 .. n - k |-> s[i + k]]
    <3>1. \A i \in 1 .. n - k : i + (k + 1) - 1 = i + k
      BY <1>1
    <3>2. (1 + n) - (k + 1) = n - k
      BY <1>1
    <3> QED BY <1>1, <3>1, <3>2
  <2>3. \A i \in 1 .. n - k : i + k \in k + 1 .. n /\ i + k = k + i
    BY <1>1
  <2>4. n - k \in Nat
    BY <1>1
  <2> HIDE DEF after, n
  <2>5. after \in [1 .. n - k -> S]
    BY <2>1, <2>2, <2>3
  <2>6. after \in Seq(S) /\ Len(after) = n - k
    BY <2>4, <2>5
  <2> QED BY <2>2, <2>3, <2>6
<1>4. c = before \o after
  BY DEF RemoveAt
<1> HIDE DEF before, after, c
<1>5. /\ DOMAIN c = 1 .. n - 1
      /\ \A i \in 1 .. n - 1 : c[i] = IF i < k THEN s[i] ELSE s[i + 1]
  <2>1. /\ c \in Seq(S) /\ Len(c) = (k - 1) + (n - k)
        /\ \A i \in 1 .. (k - 1) + (n - k) : c[i] = IF i <= k - 1 THEN before[i] ELSE after[i - (k - 1)]
    <3>1. /\ c \in Seq(S) /\ Len(c) = Len(before) + Len(after)
          /\ \A i \in 1 .. Len(before) + Len(after) :
               c[i] = IF i <= Len(before) THEN before[i] ELSE after[i - Len(before)]
      BY <1>2, <1>3, <1>4, ConcatProperties
    <3> QED BY <1>2, <1>3, <3>1
  <2>2. DOMAIN c = 1 .. n - 1
    BY <1>1, <2>1, LenProperties
  <2>3. ASSUME NEW i \in 1 .. n - 1 PROVE c[i] = IF i < k THEN s[i] ELSE s[i + 1]
    <3>1. CASE i < k
      BY <1>1, <1>2, <2>1, <3>1
    <3>2. CASE ~(i < k)
      <4>1. i - (k - 1) \in 1 .. n - k /\ k + (i - (k - 1)) = i + 1
        BY <1>1, <3>2
      <4>2. c[i] = after[i - (k - 1)]
        BY <1>1, <2>1, <3>2
      <4> QED BY <1>3, <3>2, <4>1, <4>2
    <3> QED BY <3>1, <3>2
  <2> QED BY <2>2, <2>3
<1> HIDE DEF n
<1>6. \A e : Has(c, e) => Has(s, e)
  BY <1>1, <1>5 DEF Has
<1>7. \A i \in 1 .. n : i = k \/ (i < k /\ i \in 1 .. n - 1 /\ c[i] = s[i])
                              \/ (i > k /\ i - 1 \in 1 .. n - 1 /\ c[i - 1] = s[i])
  BY <1>1, <1>5
<1>8. \A e : Has(s, e) /\ e # s[k] => Has(c, e)
  BY <1>1, <1>5, <1>7 DEF Has
<1>9. NoRepeat(s) => NoRepeat(c) /\ ~Has(c, s[k])
  <2> SUFFICES ASSUME NoRepeat(s) PROVE NoRepeat(c) /\ ~Has(c, s[k])
    OBVIOUS
  <2> DEFINE old(i) == IF i < k THEN i ELSE i + 1
  <2>1. \A i \in 1 .. n - 1 : old(i) \in 1 .. n /\ old(i) # k /\ c[i] = s[old(i)]
    BY <1>1, <1>5
  <2>2. \A i, j \in 1 .. n - 1 : old(i) = old(j) => i = j
    BY <1>1
  <2> HIDE DEF old
  <2>3. NoRepeat(c)
    BY <1>1, <1>5, <2>1, <2>2 DEF NoRepeat
  <2>4. ~Has(c, s[k])
    BY <1>1, <1>5, <2>1 DEF NoRepeat, Has
  <2> QED BY <2>3, <2>4
<1> QED BY <1>6, <1>8, <1>9 DEF c

-----------------------------------------------------------------------------
(* Lists that share nothing *)

\* No element is twice in a list or in two of them, and those in some list are the live ones.
OneHolder(E, hold, live) ==
  /\ \A h \in DOMAIN hold : NoRepeat(hold[h])
  /\ \A h, k \in DOMAIN hold : h # k => Apart(hold[h], hold[k])
  /\ \A e \in E : e \in live <=> \E h \in DOMAIN hold : Has(hold[h], e)

\* Only the lists of S have changed.
SameBut(f, g, S) == \A h \in DOMAIN f : h \notin S => g[h] = f[h]

\* Two lists change, or one: they keep what they had, but for what they free, and add what
\* was not live.
Exchange(E, f, g, L, M, a, b) ==
  /\ a \in DOMAIN f /\ b \in DOMAIN f
  /\ \A h \in DOMAIN f : h # a /\ h # b => g[h] = f[h]
  /\ NoRepeat(g[a]) /\ NoRepeat(g[b]) /\ (a # b => Apart(g[a], g[b]))
  /\ \A e \in E : Has(g[a], e) \/ Has(g[b], e) => Has(f[a], e) \/ Has(f[b], e) \/ e \notin L
  /\ \A e \in E : e \in M <=> Has(g[a], e) \/ Has(g[b], e)
                              \/ (e \in L /\ ~Has(f[a], e) /\ ~Has(f[b], e))

LEMMA HolderStep ==
  ASSUME NEW E, NEW H, NEW f \in [H -> Seq(E)], NEW g \in [H -> Seq(E)], NEW L, NEW M,
         NEW a, NEW b, OneHolder(E, f, L), Exchange(E, f, g, L, M, a, b)
  PROVE  OneHolder(E, g, M)
<1> /\ a \in H /\ b \in H
    /\ \A h \in H : h # a /\ h # b => g[h] = f[h]
    /\ NoRepeat(g[a]) /\ NoRepeat(g[b]) /\ (a # b => Apart(g[a], g[b]))
    /\ \A e \in E : Has(g[a], e) \/ Has(g[b], e) => Has(f[a], e) \/ Has(f[b], e) \/ e \notin L
    /\ \A e \in E : e \in M <=> Has(g[a], e) \/ Has(g[b], e)
                                \/ (e \in L /\ ~Has(f[a], e) /\ ~Has(f[b], e))
  BY DEF Exchange
<1>1. /\ \A h \in H : NoRepeat(f[h])
      /\ \A h, k \in H : \A e : h # k => ~(Has(f[h], e) /\ Has(f[k], e))
      /\ \A e \in E : e \in L <=> \E h \in H : Has(f[h], e)
  BY ApartHas DEF OneHolder
<1>2. \A h \in H : \A e : Has(f[h], e) \/ Has(g[h], e) => e \in E
  <2> SUFFICES ASSUME NEW h \in H, NEW e PROVE Has(f[h], e) \/ Has(g[h], e) => e \in E
    OBVIOUS
  <2>1. f[h] \in Seq(E) /\ g[h] \in Seq(E)
    OBVIOUS
  <2> QED BY <2>1, ElementOfSeq, LenProperties DEF Has
<1>3. ASSUME NEW h \in H, h # a, h # b, NEW e, Has(f[h], e)
      PROVE  e \in E /\ e \in L /\ ~Has(f[a], e) /\ ~Has(f[b], e) /\ ~Has(g[a], e) /\ ~Has(g[b], e)
  BY <1>1, <1>2, <1>3
<1>4. \A h \in H : NoRepeat(g[h])
  BY <1>1
<1>5. ASSUME NEW h \in H, NEW k \in H, h # k PROVE Apart(g[h], g[k])
  <2>1. \A e : ~(Has(g[h], e) /\ Has(g[k], e))
    <3>1. CASE h \notin {a, b} /\ k \notin {a, b}
      BY <1>1, <1>5, <3>1
    <3>2. CASE h \in {a, b} /\ k \notin {a, b}
      BY <1>3, <3>2
    <3>3. CASE h \notin {a, b} /\ k \in {a, b}
      BY <1>3, <3>3
    <3>4. CASE h \in {a, b} /\ k \in {a, b}
      BY <1>5, <3>4, ApartHas DEF Apart
    <3> QED BY <3>1, <3>2, <3>3, <3>4
  <2> QED BY <2>1, ApartHas
<1>6. ASSUME NEW e \in E PROVE e \in M <=> \E h \in H : Has(g[h], e)
  <2>1. ASSUME NEW h \in H, Has(g[h], e) PROVE e \in M
    <3>1. CASE h \in {a, b}
      BY <2>1, <3>1
    <3>2. CASE h \notin {a, b}
      BY <1>3, <2>1, <3>2
    <3> QED BY <3>1, <3>2
  <2>2. ASSUME e \in L, ~Has(f[a], e), ~Has(f[b], e) PROVE \E h \in H : Has(g[h], e)
    <3>1. PICK h \in H : Has(f[h], e)
      BY <1>1, <2>2
    <3>2. h # a /\ h # b
      BY <2>2, <3>1
    <3> QED BY <3>1, <3>2
  <2> QED BY <2>1, <2>2
<1> QED BY <1>4, <1>5, <1>6 DEF OneHolder

\* One list is moved to the end of another.
LEMMA HolderMove ==
  ASSUME NEW E, NEW H, NEW f \in [H -> Seq(E)], NEW g \in [H -> Seq(E)], NEW L,
         NEW a \in H, NEW b \in H, a # b, OneHolder(E, f, L),
         SameBut(f, g, {a, b}),
         g[a] = << >>, g[b] = f[b] \o f[a]
  PROVE  OneHolder(E, g, L)
<1>1. f[a] \in Seq(E) /\ f[b] \in Seq(E) /\ NoRepeat(f[a]) /\ NoRepeat(f[b]) /\ Apart(f[b], f[a])
      /\ \A e \in E : Has(f[a], e) \/ Has(f[b], e) => e \in L
  BY DEF OneHolder
<1>2. NoRepeat(g[b]) /\ \A e : Has(g[b], e) <=> Has(f[b], e) \/ Has(f[a], e)
  BY <1>1, ConcatHas
<1>3. NoRepeat(g[a]) /\ \A e : ~Has(g[a], e)
  BY EmptyHas
<1>4. Apart(g[a], g[b])
  BY <1>3, ApartHas
<1>5. Exchange(E, f, g, L, L, a, b)
  BY <1>1, <1>2, <1>3, <1>4 DEF Exchange, SameBut
<1> QED BY <1>5, HolderStep

\* An element that was not live is added.
LEMMA HolderAdd ==
  ASSUME NEW E, NEW H, NEW f \in [H -> Seq(E)], NEW g \in [H -> Seq(E)], NEW L,
         NEW a \in H, NEW x \in E \ L, OneHolder(E, f, L),
         SameBut(f, g, {a}), g[a] = Append(f[a], x)
  PROVE  OneHolder(E, g, L \cup {x})
<1>1. f[a] \in Seq(E) /\ NoRepeat(f[a]) /\ \A e \in E : Has(f[a], e) => e \in L
  BY DEF OneHolder
<1>2. ~Has(f[a], x)
  BY <1>1
<1>3. NoRepeat(g[a]) /\ \A e : Has(g[a], e) <=> Has(f[a], e) \/ e = x
  BY <1>1, <1>2, AppendHas
<1>4. Exchange(E, f, g, L, L \cup {x}, a, a)
  BY <1>1, <1>3 DEF Exchange, SameBut
<1> QED BY <1>4, HolderStep

\* Elements of a list are freed and taken out of it.
LEMMA HolderDrop ==
  ASSUME NEW E, NEW H, NEW f \in [H -> Seq(E)], NEW g \in [H -> Seq(E)], NEW L,
         NEW a \in H, OneHolder(E, f, L),
         SameBut(f, g, {a}),
         NoRepeat(g[a]), \A e : Has(g[a], e) => Has(f[a], e)
  PROVE  OneHolder(E, g, L \ (ToSet(f[a]) \ ToSet(g[a])))
<1>1. \A e \in E : Has(f[a], e) => e \in L
  BY DEF OneHolder
<1>2. \A e : (e \in ToSet(f[a]) <=> Has(f[a], e)) /\ (e \in ToSet(g[a]) <=> Has(g[a], e))
  BY ToSetHas
<1> DEFINE M == L \ (ToSet(f[a]) \ ToSet(g[a]))
<1>3. \A e : e \in M <=> e \in L /\ (~Has(f[a], e) \/ Has(g[a], e))
  BY <1>2
<1> HIDE DEF M
<1>4. Exchange(E, f, g, L, M, a, a)
  BY <1>1, <1>3 DEF Exchange, SameBut
<1>5. OneHolder(E, g, M)
  BY <1>4, HolderStep
<1> QED BY <1>5 DEF M

\* One element is taken out of a list and becomes another, which was empty.
LEMMA HolderTake ==
  ASSUME NEW E, NEW H, NEW f \in [H -> Seq(E)], NEW g \in [H -> Seq(E)], NEW L,
         NEW a \in H, NEW b \in H, a # b, NEW k \in 1 .. Len(f[a]), OneHolder(E, f, L),
         SameBut(f, g, {a, b}),
         f[b] = << >>, g[a] = RemoveAt(f[a], k), g[b] = <<f[a][k]>>
  PROVE  OneHolder(E, g, L)
<1> DEFINE x == f[a][k]
<1>1. /\ f[a] \in Seq(E) /\ DOMAIN f[a] = 1 .. Len(f[a]) /\ NoRepeat(f[a])
      /\ \A e \in E : Has(f[a], e) => e \in L
  BY LenProperties DEF OneHolder
<1>2. Has(f[a], x)
  BY <1>1 DEF Has
<1>3. /\ \A e : Has(g[a], e) => Has(f[a], e)
      /\ \A e : Has(f[a], e) /\ e # x => Has(g[a], e)
      /\ NoRepeat(g[a]) /\ ~Has(g[a], x)
  BY <1>1, RemoveAtHas
<1>4. NoRepeat(g[b]) /\ (\A e : Has(g[b], e) <=> e = x) /\ \A e : ~Has(f[b], e)
  BY SingleHas, EmptyHas
<1> HIDE DEF x
<1>5. Apart(g[a], g[b])
  BY <1>3, <1>4, ApartHas
<1>6. \A e \in E : Has(g[a], e) \/ Has(g[b], e) <=> Has(f[a], e)
  BY <1>2, <1>3, <1>4
<1>7. Exchange(E, f, g, L, L, a, b)
  BY <1>1, <1>3, <1>4, <1>5, <1>6 DEF Exchange, SameBut
<1> QED BY <1>7, HolderStep
=============================================================================
