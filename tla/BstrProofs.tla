----------------------------- MODULE BstrProofs -----------------------------
(***************************************************************************)
(* Theorems about BstrStream and Messages, for any texts, sizes of a       *)
(* buffer and bounds: that what is written to a bwriteStream and what is   *)
(* left in its buffer are what was given to it, and that the texts which   *)
(* exceptions carry are whole, copied, formatted or escaped.               *)
(***************************************************************************)
EXTENDS Messages, BstrStream, StackLemmas

-----------------------------------------------------------------------------
(* Numbers *)

LEMMA MinMaxOfTwo ==
  ASSUME NEW a \in Int, NEW c \in Int
  PROVE  /\ Max({a, c}) = IF a <= c THEN c ELSE a
         /\ Min({a, c}) = IF a <= c THEN a ELSE c
<1>1. Max({a, c}) = CHOOSE x \in {a, c} : \A y \in {a, c} : x >= y
  BY DEF Max
<1>2. Min({a, c}) = CHOOSE x \in {a, c} : \A y \in {a, c} : x =< y
  BY DEF Min
<1>3. CASE a <= c
  <2>1. \A x \in {a, c} : (\A y \in {a, c} : x >= y) <=> x = c
    BY <1>3
  <2>2. \A x \in {a, c} : (\A y \in {a, c} : x =< y) <=> x = a
    BY <1>3
  <2> QED BY <1>1, <1>2, <1>3, <2>1, <2>2
<1>4. CASE ~ (a <= c)
  <2>1. \A x \in {a, c} : (\A y \in {a, c} : x >= y) <=> x = a
    BY <1>4
  <2>2. \A x \in {a, c} : (\A y \in {a, c} : x =< y) <=> x = c
    BY <1>4
  <2> QED BY <1>1, <1>2, <1>4, <2>1, <2>2
<1> QED BY <1>3, <1>4

\* The first n + 1 powers of two
Powers(n, f) == f \in [0 .. n -> Nat] /\ f[0] = 1 /\ \A k \in 1 .. n : f[k] = 2 * f[k - 1]

LEMMA PowersExist == ASSUME NEW n \in Nat PROVE \E f : Powers(n, f)
<1> DEFINE T == {m \in Nat : \E f : Powers(m, f)}
<1>1. 0 \in T
  <2>1. Powers(0, [k \in 0 .. 0 |-> 1])
    BY DEF Powers
  <2> QED BY <2>1
<1>2. ASSUME NEW m \in Nat, m \in T PROVE m + 1 \in T
  <2>1. PICK f : Powers(m, f)
    BY <1>2
  <2> DEFINE g == [k \in 0 .. m + 1 |-> IF k <= m THEN f[k] ELSE 2 * f[m]]
  <2>2. /\ \A k \in 0 .. m : k \in 0 .. m + 1 /\ g[k] = f[k]
        /\ g[m + 1] = 2 * f[m]
    OBVIOUS
  <2>3. f[m] \in Nat /\ \A k \in 0 .. m : f[k] \in Nat
    BY <2>1 DEF Powers
  <2>4. g \in [0 .. m + 1 -> Nat]
    BY <2>3
  <2> HIDE DEF g
  <2>5. \A k \in 1 .. m + 1 : g[k] = 2 * g[k - 1]
    <3> TAKE k \in 1 .. m + 1
    <3>1. CASE k = m + 1
      BY <2>2, <3>1
    <3>2. CASE k # m + 1
      <4>1. k \in 1 .. m /\ k \in 0 .. m /\ k - 1 \in 0 .. m
        BY <3>2
      <4> QED BY <2>1, <2>2, <4>1 DEF Powers
    <3> QED BY <3>1, <3>2
  <2>6. g[0] = 1
    BY <2>1, <2>2 DEF Powers
  <2>7. Powers(m + 1, g)
    BY <2>4, <2>5, <2>6 DEF Powers
  <2> QED BY <2>7
<1> HIDE DEF T
<1>3. Nat \subseteq T
  BY <1>1, <1>2, NatSetInduction
<1> QED BY <1>3 DEF T

LEMMA PowersOf2 == PowerOf2 \in [0 .. 30 -> Nat]
<1>1. PICK f : Powers(30, f)
  BY PowersExist
<1>2. f = [n \in 0 .. 30 |-> IF n = 0 THEN 1 ELSE 2 * f[n - 1]]
  <2>1. \A n \in 0 .. 30 : f[n] = IF n = 0 THEN 1 ELSE 2 * f[n - 1]
    BY <1>1 DEF Powers
  <2>2. f \in [0 .. 30 -> Nat]
    BY <1>1 DEF Powers
  <2> QED BY <2>1, <2>2
<1> DEFINE P == CHOOSE h : h = [n \in 0 .. 30 |-> IF n = 0 THEN 1 ELSE 2 * h[n - 1]]
<1>3. PowerOf2 = [n \in 0 .. 30 |-> P[n]]
  BY Zenon DEF PowerOf2
<1>4. P = [n \in 0 .. 30 |-> IF n = 0 THEN 1 ELSE 2 * P[n - 1]]
  BY <1>2, Zenon
<1> HIDE DEF P
<1>5. P[0] = 1 /\ \A n \in 1 .. 30 : P[n] = 2 * P[n - 1]
  BY <1>4
<1> DEFINE T == {n \in Nat : n <= 30 => P[n] \in Nat}
<1>6. 0 \in T
  BY <1>5
<1>7. ASSUME NEW n \in Nat, n \in T PROVE n + 1 \in T
  <2>1. CASE n + 1 <= 30
    <3>1. n + 1 \in 1 .. 30 /\ (n + 1) - 1 = n /\ n <= 30
      BY <2>1
    <3>2. P[n + 1] = 2 * P[n]
      BY <1>5, <3>1
    <3> QED BY <1>7, <3>1, <3>2
  <2> QED BY <2>1
<1> HIDE DEF T
<1>8. Nat \subseteq T
  BY <1>6, <1>7, NatSetInduction
<1>9. \A n \in 0 .. 30 : P[n] \in Nat
  BY <1>8 DEF T
<1> QED BY <1>3, <1>9

\* snapUpSize returns more than it is given, as long as there is a power of two above it.
LEMMA SnapsUp ==
  ASSUME NEW i \in Nat, i < PowerOf2[30]
  PROVE  SnapUpSize(i) \in Nat /\ SnapUpSize(i) > i
<1> DEFINE S == {n \in 0 .. 30 : PowerOf2[n] > i}
           n == Least(S)
<1>1. 30 \in S /\ S \in SUBSET Nat
  OBVIOUS
<1>2. n \in S
  <2>1. PICK m \in S : \A k \in S : m <= k
    BY <1>1, NatMin
  <2>2. Min(S) \in S
    BY <2>1 DEF Min
  <2> QED BY <1>1, <2>2 DEF Least
<1>3. PowerOf2[n] \in Nat /\ PowerOf2[n] > i
  BY <1>2, PowersOf2
<1>4. Smallest \in Nat
  BY BstringAssumption, PowersOf2
<1>5. SnapUpSize(i) = Max({Smallest, PowerOf2[n]})
  BY DEF SnapUpSize
<1> HIDE DEF n
<1> QED BY <1>3, <1>4, <1>5, MinMaxOfTwo

-----------------------------------------------------------------------------
(* Texts *)

LEMMA MadeSeq ==
  ASSUME NEW S, NEW n \in Nat, NEW f \in [1 .. n -> S]
  PROVE  f \in Seq(S) /\ Len(f) = n
OBVIOUS

\* A text is what is up to a position and what is from there.
LEMMA Divided ==
  ASSUME NEW S, NEW t \in Seq(S), NEW n \in Nat
  PROVE  /\ Upto(t, n) \in Seq(S) /\ From(t, n) \in Seq(S)
         /\ Len(Upto(t, n)) = (IF n <= Len(t) THEN n ELSE Len(t))
         /\ Len(From(t, n)) = (IF n <= Len(t) THEN Len(t) - n ELSE 0)
         /\ n <= Len(t) => Upto(t, n) \o From(t, n) = t
         /\ n = 0 => Upto(t, n) = << >> /\ From(t, n) = t
<1> DEFINE m == IF n <= Len(t) THEN n ELSE Len(t)
<1>1. Upto(t, n) = SubSeq(t, 1, m) /\ m \in 0 .. Len(t) /\ Len(t) \in Nat
  <2>1. Len(t) \in Nat
    BY LenProperties
  <2>2. Min({n, Len(t)}) = m
    <3> DEFINE k == Len(t)
    <3>1. n \in Int /\ k \in Int
      BY <2>1
    <3> HIDE DEF k
    <3>2. Min({n, k}) = IF n <= k THEN n ELSE k
      BY <3>1, MinMaxOfTwo
    <3> QED BY <3>2 DEF k
  <2>3. Upto(t, n) = SubSeq(t, 1, m)
    BY <2>2, Zenon DEF Upto
  <2> QED BY <2>1, <2>3
<1>2. SubSeq(t, 1, m) \in Seq(S) /\ Len(SubSeq(t, 1, m)) = m
  BY <1>1, PrefixFacts
<1>3. From(t, n) = SubSeq(t, n + 1, Len(t))
  BY DEF From
<1>4. /\ SubSeq(t, n + 1, Len(t)) \in Seq(S)
      /\ Len(SubSeq(t, n + 1, Len(t))) = (IF n <= Len(t) THEN Len(t) - n ELSE 0)
  <2>1. \A i \in n + 1 .. Len(t) : t[i] \in S
    BY ElementOfSeq
  <2> QED BY <1>1, <2>1, SubSeqProperties
<1>5. ASSUME n <= Len(t) PROVE SubSeq(t, 1, n) \o SubSeq(t, n + 1, Len(t)) = t
  <2> DEFINE a == SubSeq(t, 1, n)
             c == SubSeq(t, n + 1, Len(t))
  <2>1. /\ a \in Seq(S) /\ Len(a) = n /\ c \in Seq(S) /\ Len(c) = Len(t) - n
        /\ \A i \in 1 .. n : a[i] = t[i]
    BY <1>2, <1>4, <1>5, PrefixFacts
  <2>2. \A i \in 1 .. Len(t) - n : c[i] = t[i + n]
    BY <1>5
  <2> HIDE DEF a, c
  <2>3. a \o c \in Seq(S) /\ Len(a \o c) = Len(t)
    BY <2>1, ConcatProperties
  <2>4. \A i \in 1 .. Len(t) : (a \o c)[i] = t[i]
    <3> TAKE i \in 1 .. Len(t)
    <3>1. (a \o c)[i] = IF i <= n THEN a[i] ELSE c[i - n]
      BY <1>5, <2>1, ConcatProperties
    <3>2. CASE i <= n
      BY <2>1, <3>1, <3>2
    <3>3. CASE ~ (i <= n)
      <4>1. i - n \in 1 .. Len(t) - n /\ (i - n) + n = i
        BY <3>3
      <4> QED BY <2>2, <3>1, <3>3, <4>1
    <3> QED BY <3>2, <3>3
  <2> QED BY <2>3, <2>4, SeqEqual DEF a, c
<1>6. n = 0 => SubSeq(t, 1, m) = << >> /\ SubSeq(t, n + 1, Len(t)) = t
  <2>1. n = 0 => Len(SubSeq(t, 1, m)) = 0
    BY <1>1, <1>2
  <2> HIDE DEF m
  <2>2. n = 0 => SubSeq(t, 1, m) = << >>
    BY <1>2, <2>1, EmptySeq
  <2>3. n = 0 => n + 1 = 1
    OBVIOUS
  <2>4. SubSeq(t, 1, Len(t)) = t
    BY SubSeqFull
  <2> QED BY <2>2, <2>3, <2>4
<1> HIDE DEF m
<1>7. n <= Len(t) => m = n
  BY DEF m
<1>8. m = IF n <= Len(t) THEN n ELSE Len(t)
  BY DEF m
<1>9. n <= Len(t) => Upto(t, n) \o From(t, n) = t
  BY <1>1, <1>3, <1>5, <1>7
<1>10. n = 0 => Upto(t, n) = << >> /\ From(t, n) = t
  BY <1>1, <1>3, <1>6
<1> QED BY <1>1, <1>2, <1>3, <1>4, <1>8, <1>9, <1>10

LEMMA PrefixOfConcat ==
  ASSUME NEW S, NEW s \in Seq(S), NEW t \in Seq(S)
  PROVE  IsPrefix(s, s \o t)
<1>1. s \o t \in Seq(S) /\ Len(s \o t) = Len(s) + Len(t) /\ Len(s) \in Nat /\ Len(t) \in Nat
  BY ConcatProperties, LenProperties
<1> DEFINE r == s \o t
<1>2. \A i \in 1 .. Len(s) : r[i] = s[i]
  BY <1>1, ConcatProperties
<1> HIDE DEF r
<1>3. r \in Seq(S) /\ Len(s) <= Len(r)
  BY <1>1 DEF r
<1>4. /\ SubSeq(s, 1, Len(s)) = s
      /\ SubSeq(r, 1, Len(s)) \in Seq(S) /\ Len(SubSeq(r, 1, Len(s))) = Len(s)
      /\ \A i \in 1 .. Len(s) : SubSeq(r, 1, Len(s))[i] = r[i]
  BY <1>1, <1>3, PrefixFacts, SubSeqFull
<1>5. SubSeq(r, 1, Len(s)) = s
  BY <1>2, <1>4, SeqEqual
<1> QED BY <1>3, <1>4, <1>5 DEF IsPrefix, r

LEMMA PrefixSelf ==
  ASSUME NEW S, NEW s \in Seq(S)
  PROVE  IsPrefix(s, s) /\ IsPrefix(<< >>, s)
<1>1. << >> \in Seq(S) /\ s \o << >> = s /\ << >> \o s = s
  BY EmptySeq, ConcatEmptySeq
<1>2. IsPrefix(s, s \o << >>) /\ IsPrefix(<< >>, << >> \o s)
  BY <1>1, PrefixOfConcat
<1> QED BY <1>1, <1>2

LEMMA PrefixUpto ==
  ASSUME NEW S, NEW t \in Seq(S), NEW n \in Nat, n <= Len(t)
  PROVE  IsPrefix(Upto(t, n), t)
<1>1. Upto(t, n) \in Seq(S) /\ From(t, n) \in Seq(S) /\ Upto(t, n) \o From(t, n) = t
  BY Divided
<1> QED BY <1>1, PrefixOfConcat

\* What is a prefix of s is one of s and what follows.
LEMMA PrefixLonger ==
  ASSUME NEW S, NEW s \in Seq(S), NEW t \in Seq(S), NEW n \in Nat, n <= Len(s)
  PROVE  IsPrefix(Upto(s, n), s \o t)
<1> DEFINE a == Upto(s, n)
           c == From(s, n)
<1>1. a \in Seq(S) /\ c \in Seq(S) /\ a \o c = s
  BY Divided
<1> HIDE DEF a, c
<1>2. s \o t = a \o (c \o t) /\ c \o t \in Seq(S)
  <2>1. (a \o c) \o t = a \o (c \o t)
    <3>1. \A x, y, z \in Seq(S) : (x \o y) \o z = x \o (y \o z)
      BY ConcatAssociative
    <3>2. a \in Seq(S) /\ c \in Seq(S)
      BY <1>1
    <3> QED BY <3>1, <3>2, Zenon
  <2> QED BY <1>1, <2>1, ConcatProperties
<1>3. IsPrefix(a, a \o (c \o t))
  BY <1>1, <1>2, PrefixOfConcat
<1> QED BY <1>2, <1>3 DEF a

-----------------------------------------------------------------------------
(* Buffers *)

\* A buffer that has room for its string and the terminator, and was not written past.
Sound(u) == u \in Bstrings /\ u.slen < Mlen(u) /\ u.over = 0

LEMMA ValueFacts ==
  ASSUME NEW u, Sound(u)
  PROVE  /\ Value(u) \in Seq(Int) /\ Len(Value(u)) = u.slen
         /\ \A i \in 1 .. u.slen : Value(u)[i] = u.data[i]
<1>1. u.data \in Seq(Int) /\ u.slen \in Nat /\ u.slen <= Len(u.data) /\ Len(u.data) \in Nat
  BY LenProperties DEF Sound, Bstrings, Mlen
<1>2. Value(u) = SubSeq(u.data, 1, u.slen)
  BY <1>1 DEF Value, Mid
<1> DEFINE d == u.data
           n == u.slen
<1> HIDE DEF d, n
<1>3. d \in Seq(Int) /\ n \in Nat /\ n <= Len(d)
  BY <1>1 DEF d, n
<1>4. /\ SubSeq(d, 1, n) \in Seq(Int) /\ Len(SubSeq(d, 1, n)) = n
      /\ \A i \in 1 .. n : SubSeq(d, 1, n)[i] = d[i]
  BY <1>3, PrefixFacts
<1> QED BY <1>2, <1>4 DEF d, n

LEMMA ValueIs ==
  ASSUME NEW u, Sound(u), NEW t \in Seq(Int), Len(t) = u.slen, \A i \in 1 .. Len(t) : u.data[i] = t[i]
  PROVE  Value(u) = t
<1>1. /\ Value(u) \in Seq(Int) /\ Len(Value(u)) = Len(t)
      /\ \A i \in 1 .. Len(t) : Value(u)[i] = t[i]
  BY ValueFacts
<1> HIDE DEF Value
<1> QED BY <1>1, SeqEqual

LEMMA WriteFacts ==
  ASSUME NEW u \in Bstrings, NEW at \in Nat, NEW text \in Seq(Int)
  PROVE  /\ Write(u, at, text) \in Bstrings
         /\ Write(u, at, text).slen = u.slen
         /\ Mlen(Write(u, at, text)) = Mlen(u)
         /\ u.over = 0 /\ at + Len(text) <= Mlen(u) => Write(u, at, text).over = 0
         /\ \A i \in 1 .. Mlen(u) :
              Write(u, at, text).data[i] = IF i - at \in 1 .. Len(text) THEN text[i - at] ELSE u.data[i]
<1> DEFINE d == [i \in DOMAIN u.data |-> IF i - at \in DOMAIN text THEN text[i - at] ELSE u.data[i]]
           over == Max({u.over, at + Len(text) - Mlen(u)})
<1>1. /\ u.data \in Seq(Int) /\ u.over \in Nat /\ Len(u.data) \in Nat /\ Len(text) \in Nat
      /\ DOMAIN u.data = 1 .. Len(u.data) /\ DOMAIN text = 1 .. Len(text)
  BY LenProperties DEF Bstrings
<1>2. /\ d \in [1 .. Len(u.data) -> Int]
      /\ \A i \in 1 .. Len(u.data) : d[i] = IF i - at \in 1 .. Len(text) THEN text[i - at] ELSE u.data[i]
  <2>1. \A i \in 1 .. Len(u.data) : u.data[i] \in Int
    BY <1>1, ElementOfSeq
  <2>2. \A k \in 1 .. Len(text) : text[k] \in Int
    BY ElementOfSeq
  <2> QED BY <1>1, <2>1, <2>2
<1>3. Write(u, at, text) = [u EXCEPT !.data = d, !.over = over]
  BY DEF Write
<1> HIDE DEF d
<1>4. d \in Seq(Int) /\ Len(d) = Len(u.data)
  BY <1>1, <1>2, MadeSeq
<1>5. /\ over \in Nat
      /\ u.over = 0 /\ at + Len(text) <= Mlen(u) => over = 0
  <2> DEFINE x == at + Len(text) - Mlen(u)
  <2>1. x \in Int /\ u.over \in Int
    BY <1>1 DEF Mlen
  <2>2. at + Len(text) <= Mlen(u) => x <= 0
    BY <1>1 DEF Mlen
  <2> HIDE DEF x
  <2>3. Max({u.over, x}) = IF u.over <= x THEN x ELSE u.over
    BY <2>1, MinMaxOfTwo
  <2>4. /\ Max({u.over, x}) \in Nat
        /\ u.over = 0 /\ x <= 0 => Max({u.over, x}) = 0
    BY <1>1, <2>1, <2>3
  <2> QED BY <2>2, <2>4 DEF x
<1> HIDE DEF over
<1>6. [u EXCEPT !.data = d, !.over = over] \in Bstrings
  BY <1>4, <1>5 DEF Bstrings
<1>7. /\ [u EXCEPT !.data = d, !.over = over].data = d
      /\ [u EXCEPT !.data = d, !.over = over].slen = u.slen
      /\ [u EXCEPT !.data = d, !.over = over].over = over
  BY DEF Bstrings
<1> QED BY <1>2, <1>3, <1>4, <1>5, <1>6, <1>7 DEF Mlen

\* A text written at a position that is not behind the end, and ended.
LEMMA EndedFacts ==
  ASSUME NEW u, Sound(u), NEW at \in Nat, at <= u.slen, NEW text \in Seq(Int), at + Len(text) < Mlen(u)
  PROVE  /\ Sound(Ended(Write(u, at, text), at + Len(text)))
         /\ Mlen(Ended(Write(u, at, text), at + Len(text))) = Mlen(u)
         /\ Value(Ended(Write(u, at, text), at + Len(text))) = Upto(Value(u), at) \o text
<1> DEFINE n == at + Len(text)
           w == Write(u, at, text)
           v == Write(w, n, <<Nul>>)
           z == [v EXCEPT !.slen = n]
<1>1. /\ n \in Nat /\ Len(text) \in Nat /\ Mlen(u) \in Nat /\ u \in Bstrings /\ u.over = 0 /\ n < Mlen(u)
  BY LenProperties DEF Sound, Bstrings, Mlen
<1>2. /\ w \in Bstrings /\ Mlen(w) = Mlen(u) /\ w.over = 0
      /\ \A i \in 1 .. Mlen(u) : w.data[i] = IF i - at \in 1 .. Len(text) THEN text[i - at] ELSE u.data[i]
  <2>1. w \in Bstrings /\ Mlen(w) = Mlen(u)
    BY <1>1, WriteFacts
  <2>2. w.over = 0
    <3>1. at + Len(text) <= Mlen(u)
      BY <1>1
    <3> HIDE DEF n
    <3> QED BY <1>1, <3>1, WriteFacts
  <2>3. \A i \in 1 .. Mlen(u) : w.data[i] = IF i - at \in 1 .. Len(text) THEN text[i - at] ELSE u.data[i]
    BY <1>1, WriteFacts
  <2> QED BY <2>1, <2>2, <2>3
<1> HIDE DEF w, n
<1>3. <<Nul>> \in Seq(Int) /\ Len(<<Nul>>) = 1 /\ n + 1 <= Mlen(w)
  BY <1>1, <1>2 DEF Nul
<1>4. /\ v \in Bstrings /\ Mlen(v) = Mlen(u) /\ v.over = 0
      /\ \A i \in 1 .. Mlen(u) : i <= n => v.data[i] = w.data[i]
  <2>1. /\ v \in Bstrings /\ Mlen(v) = Mlen(w) /\ v.over = 0
        /\ \A i \in 1 .. Mlen(w) : v.data[i] = IF i - n \in 1 .. 1 THEN <<Nul>>[i - n] ELSE w.data[i]
    <3> DEFINE x == <<Nul>>
    <3>1. x \in Seq(Int) /\ Len(x) = 1
      BY <1>3
    <3> HIDE DEF x
    <3>2. /\ Write(w, n, x) \in Bstrings /\ Mlen(Write(w, n, x)) = Mlen(w) /\ Write(w, n, x).over = 0
          /\ \A i \in 1 .. Mlen(w) : Write(w, n, x).data[i] = IF i - n \in 1 .. 1 THEN x[i - n] ELSE w.data[i]
      <4>1. Write(w, n, x) \in Bstrings /\ Mlen(Write(w, n, x)) = Mlen(w)
        BY <1>1, <1>2, <3>1, WriteFacts
      <4>2. Write(w, n, x).over = 0
        BY <1>1, <1>2, <1>3, <3>1, WriteFacts
      <4>3. \A i \in 1 .. Mlen(w) :
              Write(w, n, x).data[i] = IF i - n \in 1 .. Len(x) THEN x[i - n] ELSE w.data[i]
        BY <1>1, <1>2, <3>1, WriteFacts
      <4> QED BY <3>1, <4>1, <4>2, <4>3
    <3> QED BY <3>2 DEF x
  <2>2. \A i \in 1 .. Mlen(u) : i <= n => i - n \notin 1 .. 1
    BY <1>1
  <2> QED BY <1>2, <2>1, <2>2
<1> HIDE DEF v
<1>5. z \in Bstrings /\ z.slen = n /\ z.over = 0 /\ z.data = v.data
  BY <1>1, <1>4 DEF Bstrings
<1> HIDE DEF z
<1>6. Mlen(z) = Mlen(u) /\ Sound(z)
  BY <1>1, <1>4, <1>5 DEF Sound, Mlen
<1>7. Ended(w, n) = z
  BY DEF Ended, z, v
<1>8. Value(z) = Upto(Value(u), at) \o text
  <2> DEFINE val == Value(u)
             a == Upto(val, at)
             r == a \o text
  <2>1. val \in Seq(Int) /\ Len(val) = u.slen /\ \A i \in 1 .. u.slen : val[i] = u.data[i]
    BY ValueFacts
  <2>2. u.slen \in Nat
    BY <1>1 DEF Bstrings
  <2> HIDE DEF val
  <2>3. a \in Seq(Int) /\ Len(a) = at /\ \A i \in 1 .. at : a[i] = u.data[i]
    <3>1. a = SubSeq(val, 1, at)
      <4>1. Min({at, Len(val)}) = at
        <5> DEFINE k == Len(val)
        <5>1. k \in Int /\ at \in Int /\ at <= k
          BY <2>1, <2>2
        <5> HIDE DEF k
        <5>2. Min({at, k}) = at
          BY <5>1, MinMaxOfTwo
        <5> QED BY <5>2 DEF k
      <4> QED BY <4>1, Zenon DEF Upto
    <3>2. /\ SubSeq(val, 1, at) \in Seq(Int) /\ Len(SubSeq(val, 1, at)) = at
          /\ \A i \in 1 .. at : SubSeq(val, 1, at)[i] = val[i]
      BY <2>1, <2>2, PrefixFacts
    <3>3. \A i \in 1 .. at : i \in 1 .. u.slen
      BY <2>2
    <3> QED BY <2>1, <3>1, <3>2, <3>3
  <2> HIDE DEF a
  <2>4. r \in Seq(Int) /\ Len(r) = n /\ \A i \in 1 .. n : r[i] = IF i <= at THEN a[i] ELSE text[i - at]
    BY <2>3, ConcatProperties DEF n
  <2> HIDE DEF r
  <2>5. \A i \in 1 .. n : z.data[i] = r[i]
    <3> TAKE i \in 1 .. n
    <3>1. i \in 1 .. Mlen(u) /\ i <= n /\ i \in Nat
      BY <1>1
    <3>2. z.data[i] = IF i - at \in 1 .. Len(text) THEN text[i - at] ELSE u.data[i]
      BY <1>2, <1>4, <1>5, <3>1
    <3>3. CASE i <= at
      <4>1. i - at \notin 1 .. Len(text) /\ i \in 1 .. at
        BY <3>1, <3>3
      <4> QED BY <2>3, <2>4, <3>2, <3>3, <4>1
    <3>4. CASE ~ (i <= at)
      <4>1. i - at \in 1 .. Len(text)
        BY <1>1, <3>1, <3>4 DEF n
      <4> QED BY <2>4, <3>2, <3>4, <4>1
    <3> QED BY <3>3, <3>4
  <2>6. Value(z) = r
    BY <1>5, <1>6, <2>4, <2>5, ValueIs
  <2> QED BY <2>6 DEF r, a, val
<1> QED BY <1>6, <1>7, <1>8 DEF n, w

\* The two ways to write behind the string and over it
LEMMA EndedBehind ==
  ASSUME NEW u, Sound(u), NEW text \in Seq(Int), u.slen + Len(text) < Mlen(u)
  PROVE  /\ Sound(Ended(Write(u, u.slen, text), u.slen + Len(text)))
         /\ Mlen(Ended(Write(u, u.slen, text), u.slen + Len(text))) = Mlen(u)
         /\ Value(Ended(Write(u, u.slen, text), u.slen + Len(text))) = Value(u) \o text
<1>1. u.slen \in Nat /\ u.slen <= u.slen
  BY DEF Sound, Bstrings
<1> DEFINE v == Value(u)
<1>2. v \in Seq(Int) /\ Len(v) = u.slen
  BY ValueFacts
<1> HIDE DEF v
<1>3. Upto(v, u.slen) = v
  <2>1. Min({Len(v), Len(v)}) = Len(v)
    <3> DEFINE k == Len(v)
    <3>1. k \in Int
      BY <1>1, <1>2
    <3> HIDE DEF k
    <3>2. Min({k, k}) = k
      BY <3>1, MinMaxOfTwo
    <3> QED BY <3>2 DEF k
  <2>2. SubSeq(v, 1, Len(v)) = v
    BY <1>2, SubSeqFull
  <2> QED BY <1>2, <2>1, <2>2, Zenon DEF Upto
<1> QED BY <1>1, <1>3, EndedFacts DEF v

LEMMA EndedOver ==
  ASSUME NEW u, Sound(u), NEW text \in Seq(Int), Len(text) < Mlen(u)
  PROVE  /\ Sound(Ended(Write(u, 0, text), Len(text)))
         /\ Mlen(Ended(Write(u, 0, text), Len(text))) = Mlen(u)
         /\ Value(Ended(Write(u, 0, text), Len(text))) = text
<1>1. u.slen \in Nat /\ 0 <= u.slen /\ 0 + Len(text) = Len(text)
  BY LenProperties DEF Sound, Bstrings
<1> DEFINE v == Value(u)
<1>2. v \in Seq(Int) /\ Len(v) = u.slen
  BY ValueFacts
<1> HIDE DEF v
<1>3. Upto(v, 0) = << >>
  BY <1>2, Divided
<1>4. << >> \o text = text
  BY ConcatEmptySeq
<1>5. /\ Sound(Ended(Write(u, 0, text), 0 + Len(text)))
      /\ Mlen(Ended(Write(u, 0, text), 0 + Len(text))) = Mlen(u)
      /\ Value(Ended(Write(u, 0, text), 0 + Len(text))) = Upto(v, 0) \o text
  BY <1>1, EndedFacts DEF v
<1> QED BY <1>1, <1>3, <1>4, <1>5

LEMMA ReallocatedFacts ==
  ASSUME NEW s, Sound(s), NEW len \in Nat, len > s.slen, NEW tight \in BOOLEAN
  PROVE  /\ Sound(Reallocated(s, len, tight))
         /\ Mlen(Reallocated(s, len, tight)) = len
         /\ Reallocated(s, len, tight).slen = s.slen
         /\ Value(Reallocated(s, len, tight)) = Value(s)
<1> DEFINE d == [i \in 1 .. len |-> IF i <= s.slen THEN s.data[i] ELSE IF i = s.slen + 1 THEN Nul ELSE Junk]
           over == Max({s.over, s.slen + 1 - len})
           r == [s EXCEPT !.data = d, !.tight = tight, !.moved = TRUE, !.over = over]
<1>1. s \in Bstrings /\ s.slen \in Nat /\ s.over = 0 /\ s.slen < Len(s.data) /\ Len(s.data) \in Nat
  BY LenProperties DEF Sound, Bstrings, Mlen
<1>2. d \in [1 .. len -> Int] /\ \A i \in 1 .. s.slen : d[i] = s.data[i]
  <2>1. \A i \in 1 .. Len(s.data) : s.data[i] \in Int
    BY <1>1, ElementOfSeq DEF Bstrings
  <2>2. \A i \in 1 .. len : i <= s.slen => i \in 1 .. Len(s.data)
    BY <1>1
  <2>3. Nul \in Int /\ Junk \in Int
    BY DEF Nul, Junk
  <2>4. \A i \in 1 .. s.slen : i \in 1 .. len /\ i <= s.slen
    BY <1>1
  <2> QED BY <2>1, <2>2, <2>3, <2>4
<1> HIDE DEF d
<1>3. d \in Seq(Int) /\ Len(d) = len
  BY <1>2, MadeSeq
<1>4. over = 0
  <2> DEFINE x == s.slen + 1 - len
  <2>1. x \in Int /\ x <= 0
    BY <1>1
  <2> HIDE DEF x
  <2>2. Max({0, x}) = 0
    BY <2>1, MinMaxOfTwo
  <2> QED BY <1>1, <2>2 DEF x
<1> HIDE DEF over
<1>5. r \in Bstrings /\ r.data = d /\ r.slen = s.slen /\ r.over = 0
  BY <1>1, <1>3, <1>4 DEF Bstrings
<1> HIDE DEF r
<1>6. Sound(r) /\ Mlen(r) = len
  BY <1>1, <1>3, <1>5 DEF Sound, Mlen
<1>7. Value(r) = Value(s)
  <2> DEFINE v == Value(s)
  <2>1. v \in Seq(Int) /\ Len(v) = s.slen /\ \A i \in 1 .. s.slen : v[i] = s.data[i]
    BY ValueFacts
  <2> HIDE DEF v
  <2>2. Value(r) = v
    BY <1>2, <1>5, <1>6, <2>1, ValueIs
  <2> QED BY <2>2 DEF v
<1>8. Reallocated(s, len, tight) = r
  BY DEF Reallocated, r, d, over
<1> QED BY <1>5, <1>6, <1>7, <1>8

\* What a call may return for a request of room for n bytes.
Given(o, s, n) ==
  /\ o.ret \in {OK, ERR} /\ Sound(o.b) /\ Value(o.b) = Value(s) /\ o.b.slen = s.slen
  /\ Mlen(o.b) >= Mlen(s)
  /\ o.ret = OK => Mlen(o.b) >= n
  /\ o.ret = ERR => o.b = s

LEMMA BallocFacts ==
  ASSUME NEW s, Sound(s), NEW n \in Nat, n > 0, n < PowerOf2[30], NEW o \in Balloc(s, n)
  PROVE  Given(o, s, n)
<1>1. s.slen \in Nat /\ Mlen(s) \in Nat /\ s.slen < Mlen(s)
  BY LenProperties DEF Sound, Bstrings, Mlen
<1>2. CASE n < Mlen(s)
  <2>1. o = Ok(s)
    BY <1>1, <1>2 DEF Balloc
  <2> QED BY <1>1, <1>2, <2>1 DEF Ok, Given, OK, ERR
<1>3. CASE ~ (n < Mlen(s))
  <2> DEFINE up == SnapUpSize(n)
             a == Reallocated(s, up, FALSE)
             c == Reallocated(s, n, TRUE)
  <2>1. o = Ok(a) \/ o = Ok(c) \/ o = Err(s)
    BY <1>1, <1>3 DEF Balloc
  <2>2. up \in Nat /\ up > n
    BY SnapsUp
  <2> HIDE DEF up
  <2>3. up > s.slen /\ n > s.slen /\ up >= n /\ n >= Mlen(s) /\ up >= Mlen(s)
    BY <1>1, <1>3, <2>2
  <2>4. Sound(a) /\ Mlen(a) = up /\ a.slen = s.slen /\ Value(a) = Value(s)
    BY <2>2, <2>3, ReallocatedFacts
  <2>5. Sound(c) /\ Mlen(c) = n /\ c.slen = s.slen /\ Value(c) = Value(s)
    BY <2>3, ReallocatedFacts
  <2> HIDE DEF a, c
  <2>6. OK # ERR
    BY DEF OK, ERR
  <2>7. CASE o = Ok(a)
    BY <2>3, <2>4, <2>6, <2>7 DEF Ok, Given
  <2>8. CASE o = Ok(c)
    BY <2>3, <2>5, <2>6, <2>8 DEF Ok, Given
  <2>9. CASE o = Err(s)
    BY <1>1, <2>6, <2>9 DEF Err, Given
  <2> QED BY <2>1, <2>7, <2>8, <2>9
<1> QED BY <1>2, <1>3

\* What a call that makes t of s may return: t, or s unchanged.
Made(o, s, t) ==
  /\ o.ret \in {OK, ERR} /\ Sound(o.b) /\ Mlen(o.b) >= Mlen(s)
  /\ o.ret = OK => Value(o.b) = t
  /\ o.ret = ERR => o.b = s

\* Room is asked for if there may be none, and then the text is written.
LEMMA ThenWritten ==
  ASSUME NEW s, Sound(s), NEW text \in Seq(Int), NEW S, NEW o,
         \A g \in S : Given(g, s, s.slen + Len(text) + 1),
         o \in UNION {IF g.ret = OK THEN {Ok(Ended(Write(g.b, s.slen, text), s.slen + Len(text)))} ELSE {g} : g \in S}
  PROVE  Made(o, s, Value(s) \o text)
<1>1. PICK g \in S : o \in IF g.ret = OK THEN {Ok(Ended(Write(g.b, s.slen, text), s.slen + Len(text)))} ELSE {g}
  OBVIOUS
<1>2. Given(g, s, s.slen + Len(text) + 1)
  BY <1>1
<1>3. OK # ERR
  BY DEF OK, ERR
<1>4. CASE g.ret = OK
  <2> DEFINE u == g.b
             w == Ended(Write(u, u.slen, text), u.slen + Len(text))
  <2>1. Sound(u) /\ Value(u) = Value(s) /\ u.slen = s.slen /\ Mlen(u) >= s.slen + Len(text) + 1 /\ Mlen(u) >= Mlen(s)
    BY <1>2, <1>4 DEF Given
  <2>2. o = Ok(w)
    BY <1>1, <1>4, <2>1
  <2> HIDE DEF u
  <2>3. u.slen + Len(text) < Mlen(u)
    <3>1. u.slen \in Nat /\ Len(text) \in Nat /\ Mlen(u) \in Nat
      BY <2>1, LenProperties DEF Sound, Bstrings, Mlen
    <3> QED BY <2>1, <3>1
  <2>4. Sound(w) /\ Mlen(w) = Mlen(u) /\ Value(w) = Value(u) \o text
    BY <2>1, <2>3, EndedBehind
  <2> HIDE DEF w
  <2> QED BY <1>3, <2>1, <2>2, <2>4 DEF Made, Ok
<1>5. CASE g.ret # OK
  BY <1>1, <1>2, <1>3, <1>5 DEF Given, Made
<1> QED BY <1>4, <1>5

LEMMA OwnFacts ==
  ASSUME NEW text
  PROVE  /\ ~ Own(text).view /\ ArgLen(Own(text)) = Len(text)
         /\ \A u : ArgText(u, Own(text)) = text
BY DEF Own, ArgLen, ArgText

LEMMA BconcatFacts ==
  ASSUME NEW s, Sound(s), NEW text \in Seq(Int), s.slen + Len(text) + 1 < PowerOf2[30], NEW o \in Bconcat(s, Own(text))
  PROVE  Made(o, s, Value(s) \o text)
<1> DEFINE n == s.slen + Len(text) + 1
           S == IF Mlen(s) <= n THEN Balloc(s, n) ELSE {Ok(s)}
<1>1. s.slen \in Nat /\ Mlen(s) \in Nat /\ Len(text) \in Nat /\ n \in Nat /\ n > 0
  BY LenProperties DEF Sound, Bstrings, Mlen
<1> DEFINE arg == Own(text)
<1>2. ~ arg.view /\ ArgLen(arg) = Len(text) /\ \A u : ArgText(u, arg) = text
  BY OwnFacts
<1> HIDE DEF arg
<1>3. o \in UNION {IF g.ret = OK THEN {Ok(Ended(Write(g.b, s.slen, text), s.slen + Len(text)))} ELSE {g} : g \in S}
  <2>1. o \in Bconcat(s, arg)
    BY DEF arg
  <2>2. o \in UNION {IF g.ret = OK
                     THEN {Ok(Ended(Write(g.b, s.slen, ArgText(g.b, arg)), s.slen + ArgLen(arg)))} ELSE {g} :
                       g \in IF Mlen(s) <= s.slen + ArgLen(arg) + 1
                             THEN Balloc(s, s.slen + ArgLen(arg) + 1) ELSE {Ok(s)}}
    BY <1>2, <2>1, Zenon DEF Bconcat, WithCopy, Then
  <2> QED BY <1>2, <2>2
<1>4. \A g \in S : Given(g, s, n)
  <2> TAKE g \in S
  <2>1. CASE Mlen(s) <= n
    BY <1>1, <2>1, BallocFacts
  <2>2. CASE ~ (Mlen(s) <= n)
    <3>1. g = Ok(s)
      BY <2>2
    <3>2. Mlen(s) >= n
      BY <1>1, <2>2
    <3> HIDE DEF n
    <3> QED BY <1>1, <3>1, <3>2 DEF Ok, Given, OK, ERR
  <2> QED BY <2>1, <2>2
<1> HIDE DEF S
<1> QED BY <1>3, <1>4, ThenWritten

LEMMA BcatblkFacts ==
  ASSUME NEW s, Sound(s), NEW text \in Seq(Int), s.slen + Len(text) + 1 < PowerOf2[30], NEW o \in Bcatblk(s, text)
  PROVE  Made(o, s, Value(s) \o text)
<1> DEFINE n == s.slen + Len(text) + 1
           S == IF Mlen(s) <= s.slen + Len(text) THEN Balloc(s, n) ELSE {Ok(s)}
<1>1. s.slen \in Nat /\ Mlen(s) \in Nat /\ Len(text) \in Nat /\ n \in Nat /\ n > 0
  BY LenProperties DEF Sound, Bstrings, Mlen
<1>2. \A g \in S : Given(g, s, n)
  <2> TAKE g \in S
  <2>1. CASE Mlen(s) <= s.slen + Len(text)
    BY <1>1, <2>1, BallocFacts
  <2>2. CASE ~ (Mlen(s) <= s.slen + Len(text))
    <3>1. g = Ok(s)
      BY <2>2
    <3>2. Mlen(s) >= n
      BY <1>1, <2>2
    <3> HIDE DEF n
    <3> QED BY <1>1, <3>1, <3>2 DEF Ok, Given, OK, ERR
  <2> QED BY <2>1, <2>2
<1>3. o \in UNION {IF g.ret = OK THEN {Ok(Ended(Write(g.b, g.b.slen, text), s.slen + Len(text)))} ELSE {g} : g \in S}
  BY DEF Bcatblk, Then
<1> HIDE DEF S
<1>4. o \in UNION {IF g.ret = OK THEN {Ok(Ended(Write(g.b, s.slen, text), s.slen + Len(text)))} ELSE {g} : g \in S}
  <2>1. \A g \in S : g.b.slen = s.slen
    BY <1>2 DEF Given
  <2> QED BY <1>3, <2>1
<1> QED BY <1>2, <1>4, ThenWritten

\* An assignment of what fits
LEMMA BassignFacts ==
  ASSUME NEW s, Sound(s), NEW text \in Seq(Int), Len(text) < Mlen(s), NEW o \in Bassign(s, Own(text))
  PROVE  o.ret = OK /\ Sound(o.b) /\ Mlen(o.b) = Mlen(s) /\ Value(o.b) = text
<1>1. Len(text) \in Nat /\ Mlen(s) \in Nat
  BY LenProperties DEF Sound, Bstrings, Mlen
<1> DEFINE arg == Own(text)
<1>2. ArgLen(arg) = Len(text) /\ \A u : ArgText(u, arg) = text
  BY OwnFacts
<1> HIDE DEF arg
<1>3. (IF ArgLen(arg) # 0 THEN Balloc(s, ArgLen(arg)) ELSE {Ok(s)}) = {Ok(s)}
  BY <1>1, <1>2 DEF Balloc
<1>4. o \in UNION {IF g.ret = OK THEN {Ok(Ended(Write(g.b, 0, ArgText(g.b, arg)), ArgLen(arg)))} ELSE {g} :
                   g \in {Ok(s)}}
  <2>1. o \in Bassign(s, arg)
    BY DEF arg
  <2> QED BY <1>3, <2>1, Zenon DEF Bassign, Then
<1>5. o = Ok(Ended(Write(s, 0, text), Len(text)))
  BY <1>2, <1>4 DEF Ok
<1> QED BY <1>5, EndedOver DEF Ok

\* A prefix is continued by what follows it.
LEMMA PrefixRest ==
  ASSUME NEW S, NEW s \in Seq(S), NEW t \in Seq(S), IsPrefix(s, t)
  PROVE  \E r \in Seq(S) : t = s \o r
<1>1. Len(s) \in Nat /\ Len(s) <= Len(t) /\ SubSeq(s, 1, Len(s)) = SubSeq(t, 1, Len(s)) /\ Len(t) \in Nat
  BY LenProperties DEF IsPrefix
<1>2. SubSeq(s, 1, Len(s)) = s
  BY SubSeqFull
<1> DEFINE n == Len(s)
<1>3. n \in Nat /\ n <= Len(t) /\ SubSeq(t, 1, n) = s
  BY <1>1, <1>2
<1> HIDE DEF n
<1>4. Upto(t, n) = s
  <2>1. Min({n, Len(t)}) = n
    <3> DEFINE k == Len(t)
    <3>1. k \in Int /\ n \in Int /\ n <= k
      BY <1>1, <1>3
    <3> HIDE DEF k
    <3>2. Min({n, k}) = n
      BY <3>1, MinMaxOfTwo
    <3> QED BY <3>2 DEF k
  <2> QED BY <1>3, <2>1, Zenon DEF Upto
<1>5. From(t, n) \in Seq(S) /\ Upto(t, n) \o From(t, n) = t
  BY <1>3, Divided
<1> QED BY <1>4, <1>5

\* Prefixes of what follows the same beginning
LEMMA PrefixBehind ==
  ASSUME NEW S, NEW s \in Seq(S), NEW t \in Seq(S), NEW u \in Seq(S), IsPrefix(t, u)
  PROVE  IsPrefix(s \o t, s \o u)
<1>1. PICK r \in Seq(S) : u = t \o r
  BY PrefixRest
<1>2. s \o u = (s \o t) \o r
  <2>1. (s \o t) \o r = s \o (t \o r)
    BY ConcatAssociative
  <2> QED BY <1>1, <2>1, Zenon
<1>3. s \o t \in Seq(S)
  BY ConcatProperties
<1> DEFINE a == s \o t
<1> HIDE DEF a
<1>4. IsPrefix(a, a \o r)
  BY <1>3, PrefixOfConcat DEF a
<1> QED BY <1>2, <1>4 DEF a

LEMMA PrefixTransitive ==
  ASSUME NEW S, NEW s \in Seq(S), NEW t \in Seq(S), NEW u \in Seq(S), IsPrefix(s \o t, u)
  PROVE  IsPrefix(s, u)
<1>1. s \o t \in Seq(S)
  BY ConcatProperties
<1>2. PICK r \in Seq(S) : u = (s \o t) \o r
  BY <1>1, PrefixRest
<1>3. u = s \o (t \o r)
  <2>1. (s \o t) \o r = s \o (t \o r)
    BY ConcatAssociative
  <2> QED BY <1>2, <2>1, Zenon
<1>4. t \o r \in Seq(S)
  BY ConcatProperties
<1> DEFINE x == t \o r
<1> HIDE DEF x
<1>5. IsPrefix(s, s \o x)
  BY <1>4, PrefixOfConcat DEF x
<1> QED BY <1>3, <1>5 DEF x

-----------------------------------------------------------------------------
(* Writing *)

Sizes == {BuffSz} \cup BuffSizes

\* A write stream whose buffer is sound; and one, between two calls, whose buffer has not
\* grown past what it was ever to hold, unless the stream has failed.
Writable(w) ==
  /\ w \in [buff : Bstrings, isEOF : BOOLEAN, minBuffSz : Nat]
  /\ Sound(w.buff) /\ w.minBuffSz \in Sizes
Writer(w) == Writable(w) /\ (w.isEOF \/ \E n \in Sizes : w.buff.slen <= n)

LEMMA SizeFacts ==
  /\ MaxArg \in Nat
  /\ \A n \in Sizes : n \in Nat /\ n > 0 /\ n + MaxArg + 1 < PowerOf2[30]
BY BstringAssumption, BstrStreamAssumption DEF Sizes

LEMMA BufferedFacts ==
  ASSUME NEW w, Writable(w), NEW u, Sound(u)
  PROVE  /\ Writable(Buffered(w, u)) /\ Buffered(w, u).buff = u /\ Buffered(w, u).isEOF = w.isEOF
         /\ Buffered(w, u).minBuffSz = w.minBuffSz
         /\ u = w.buff => Buffered(w, u) = w
BY DEF Writable, Buffered, Sound

\* A stream without what was buffered
Drained(w) == [w EXCEPT !.buff.slen = 0]

LEMMA DrainedFacts ==
  ASSUME NEW w, Writable(w)
  PROVE  /\ Writable(Drained(w)) /\ Value(Drained(w).buff) = << >> /\ Drained(w).buff.slen = 0
         /\ Mlen(Drained(w).buff) = Mlen(w.buff) /\ Drained(w).isEOF = w.isEOF
         /\ Drained(w).minBuffSz = w.minBuffSz
<1> DEFINE u == [w.buff EXCEPT !.slen = 0]
<1>1. w.buff \in Bstrings /\ w.buff.slen \in Nat /\ Mlen(w.buff) \in Nat /\ w.buff.slen < Mlen(w.buff) /\ w.buff.over = 0
  BY LenProperties DEF Writable, Sound, Bstrings, Mlen
<1>2. u \in Bstrings /\ u.slen = 0 /\ u.data = w.buff.data /\ u.over = 0
  BY <1>1 DEF Bstrings
<1>3. Drained(w) = Buffered(w, u)
  BY DEF Drained, Buffered, Writable
<1> HIDE DEF u
<1>4. Sound(u) /\ Mlen(u) = Mlen(w.buff)
  BY <1>1, <1>2 DEF Sound, Mlen
<1>5. Value(u) = << >>
  <2>1. Value(u) \in Seq(Int) /\ Len(Value(u)) = 0
    BY <1>2, <1>4, ValueFacts
  <2> HIDE DEF Value
  <2> QED BY <2>1, EmptySeq
<1> QED BY <1>2, <1>3, <1>4, <1>5, BufferedFacts

Failed(w) == [w EXCEPT !.isEOF = TRUE]

LEMMA FailedFacts ==
  ASSUME NEW w, Writable(w)
  PROVE  Writer(Failed(w)) /\ Failed(w).isEOF /\ Failed(w).minBuffSz = w.minBuffSz
BY DEF Failed, Writable, Writer

\* The core stream took the text, and d is what is left; or a part of it, and the stream failed.
WentOut(o, w, text, d) ==
  /\ o = Writ(o.ret, o.w, o.sent)
  /\ \/ o.ret = OK /\ o.w = d /\ o.sent = text
     \/ o.ret = ERR /\ o.w = Failed(w) /\ \E k \in Nat : k <= Len(text) /\ o.sent = Upto(text, k)

LEMMA WriteOutFacts ==
  ASSUME NEW w, NEW text \in Seq(Int), NEW o \in WriteOut(w, text)
  PROVE  WentOut(o, w, text, w)
<1>1. Len(text) \in Nat
  BY LenProperties
<1>2. CASE o = Writ(OK, w, text)
  BY <1>2 DEF Writ, WentOut
<1>3. CASE \E k \in 0 .. Len(text) - 1 : o = Writ(ERR, Failed(w), Upto(text, k))
  <2>1. PICK k \in 0 .. Len(text) - 1 : o = Writ(ERR, Failed(w), Upto(text, k))
    BY <1>3
  <2>2. k \in Nat /\ k <= Len(text)
    BY <1>1, <2>1
  <2> QED BY <2>1, <2>2 DEF Writ, WentOut
<1> QED BY <1>2, <1>3 DEF WriteOut, Failed

LEMMA FlushFacts ==
  ASSUME NEW w, Writable(w), ~ w.isEOF, NEW o \in BwsWriteFlush(w)
  PROVE  WentOut(o, w, Value(w.buff), Drained(w))
<1> DEFINE text == Value(w.buff)
<1>1. text \in Seq(Int)
  BY ValueFacts DEF Writable
<1>2. PICK p \in WriteOut(w, text) : o = IF p.ret = OK THEN [p EXCEPT !.w.buff.slen = 0] ELSE p
  BY DEF BwsWriteFlush
<1> HIDE DEF text
<1>3. WentOut(p, w, text, w)
  BY <1>1, <1>2, WriteOutFacts
<1>4. p = Writ(p.ret, p.w, p.sent)
  BY <1>3 DEF WentOut
<1>5. OK # ERR
  BY DEF OK, ERR
<1>6. CASE p.ret = OK
  <2>1. o = [p EXCEPT !.w.buff.slen = 0] /\ p.w = w /\ p.sent = text
    BY <1>2, <1>3, <1>5, <1>6 DEF WentOut
  <2>2. o.ret = OK /\ o.sent = text /\ o.w = Drained(p.w) /\ o = Writ(o.ret, o.w, o.sent)
    BY <1>4, <1>6, <2>1 DEF Drained, Writ
  <2> QED BY <2>1, <2>2 DEF WentOut, text
<1>7. CASE p.ret # OK
  BY <1>2, <1>3, <1>7 DEF WentOut, text
<1> QED BY <1>6, <1>7

LEMMA TextsAssociate == \A x, y, z \in Seq(Int) : (x \o y) \o z = x \o (y \o z)
BY ConcatAssociative, SMTT(20)

\* What is now buffered, after what was sent
TakenBy(o) == o.sent \o Value(o.w.buff)

\* A write to the stream w, that had not failed: all that is given is sent or buffered, and
\* less than a full buffer is left; or w has still what it had and a part of what is given;
\* or the stream failed, having sent a part.
Conserving(o, w, given) ==
  /\ o = Writ(o.ret, o.w, o.sent)
  /\ o.ret \in {OK, ERR} /\ Writer(o.w) /\ o.w.minBuffSz = w.minBuffSz /\ o.sent \in Seq(Int)
  /\ o.ret = OK => TakenBy(o) = given /\ ~ o.w.isEOF /\ o.w.buff.slen < w.minBuffSz
  /\ o.ret = ERR /\ ~ o.w.isEOF => /\ IsPrefix(Value(w.buff), TakenBy(o)) /\ IsPrefix(TakenBy(o), given)
  /\ IsPrefix(o.sent, given)

LEMMA NothingWritten ==
  ASSUME NEW w, Writer(w), NEW text \in Seq(Int)
  PROVE  Conserving(Writ(ERR, w, << >>), w, Value(w.buff) \o text)
<1> DEFINE v == Value(w.buff)
           o == Writ(ERR, w, << >>)
<1>1. v \in Seq(Int)
  BY ValueFacts DEF Writer, Writable
<1>2. o.ret = ERR /\ o.w = w /\ o.sent = << >> /\ o = Writ(o.ret, o.w, o.sent)
  BY DEF Writ
<1> HIDE DEF v, o
<1>3. v \o text \in Seq(Int) /\ << >> \o v = v
  BY <1>1, ConcatProperties, ConcatEmptySeq
<1> DEFINE g == v \o text
<1>4. IsPrefix(v, g)
  BY <1>1, PrefixOfConcat
<1> HIDE DEF g
<1>5. IsPrefix(<< >>, g) /\ g \in Seq(Int) /\ IsPrefix(v, v)
  BY <1>1, <1>3, PrefixSelf DEF g
<1>6. TakenBy(o) = v
  BY <1>2, <1>3 DEF TakenBy, v
<1>7. << >> \in Seq(Int) /\ OK # ERR
  BY EmptySeq DEF OK, ERR
<1>8. Conserving(o, w, g)
  BY <1>2, <1>4, <1>5, <1>6, <1>7 DEF Conserving, v
<1> QED BY <1>8 DEF o, g, v

\* A write of which all went into the buffer
LEMMA AllBuffered ==
  ASSUME NEW w, Writable(w), ~ w.isEOF, NEW u, Sound(u), u.slen < w.minBuffSz, NEW sent \in Seq(Int),
         NEW given \in Seq(Int), sent \o Value(u) = given
  PROVE  Conserving(Writ(OK, Buffered(w, u), sent), w, given)
<1> DEFINE o == Writ(OK, Buffered(w, u), sent)
           v == Value(u)
<1>1. o.ret = OK /\ o.w = Buffered(w, u) /\ o.sent = sent /\ o = Writ(o.ret, o.w, o.sent)
  BY DEF Writ
<1>2. Writable(o.w) /\ o.w.buff = u /\ o.w.isEOF = w.isEOF /\ o.w.minBuffSz = w.minBuffSz
  BY <1>1, BufferedFacts
<1> HIDE DEF o
<1>3. v \in Seq(Int)
  BY ValueFacts
<1>4. TakenBy(o) = given
  BY <1>1, <1>2 DEF TakenBy
<1> HIDE DEF v
<1>5. IsPrefix(sent, sent \o v)
  BY <1>3, PrefixOfConcat
<1>6. IsPrefix(sent, given) /\ OK # ERR
  BY <1>5 DEF v, OK, ERR
<1>7. Conserving(o, w, given)
  <2>1. Writer(o.w)
    <3>1. w.minBuffSz \in Sizes /\ u.slen <= w.minBuffSz
      BY SizeFacts DEF Writable, Sound, Bstrings
    <3> QED BY <1>2, <3>1 DEF Writer
  <2> QED BY <1>1, <1>2, <1>4, <1>6, <2>1 DEF Conserving
<1> QED BY <1>7 DEF o

\* A write that sent a part, the stream having failed
LEMMA PartSent ==
  ASSUME NEW w, NEW f, Writable(f), f.isEOF, f.minBuffSz = w.minBuffSz, NEW sent \in Seq(Int),
         NEW given, IsPrefix(sent, given), NEW o, o = Writ(o.ret, o.w, o.sent), o.ret = ERR, o.w = f, o.sent = sent
  PROVE  Conserving(o, w, given)
BY DEF Conserving, Writer, OK, ERR

\* What was sent before belongs to what a later write is given.
LEMMA SentBefore ==
  ASSUME NEW w, Writable(w), NEW d, d.minBuffSz = w.minBuffSz, NEW text \in Seq(Int),
         NEW p, Conserving(p, d, text)
  PROVE  Conserving([p EXCEPT !.sent = Value(w.buff) \o @], w, Value(w.buff) \o text)
<1> DEFINE v == Value(w.buff)
           o == [p EXCEPT !.sent = v \o @]
           t == TakenBy(p)
           x == Value(p.w.buff)
<1>1. v \in Seq(Int)
  BY ValueFacts DEF Writable
<1> HIDE DEF v
<1>2. p.sent \in Seq(Int) /\ Writable(p.w) /\ IsPrefix(p.sent, text) /\ p = Writ(p.ret, p.w, p.sent)
  BY DEF Conserving, Writer
<1>3. x \in Seq(Int)
  BY <1>2, ValueFacts DEF Writable
<1>4. o.ret = p.ret /\ o.w = p.w /\ o.sent = v \o p.sent /\ o = Writ(o.ret, o.w, o.sent)
  <2>2. o = Writ(p.ret, p.w, v \o p.sent)
    <3> DEFINE ret == p.ret
               pw == p.w
               sent == p.sent
    <3>1. p = Writ(ret, pw, sent)
      BY <1>2
    <3> HIDE DEF ret, pw, sent
    <3>2. p.sent = sent
      BY DEF sent
    <3> DEFINE s == v \o sent
    <3> HIDE DEF s
    <3>3. [[ret |-> ret, w |-> pw, sent |-> sent] EXCEPT !.sent = s] = [ret |-> ret, w |-> pw, sent |-> s]
      OBVIOUS
    <3>4. [p EXCEPT !.sent = s] = Writ(ret, pw, s)
      BY <3>1, <3>3 DEF Writ
    <3>5. [p EXCEPT !.sent = v \o p.sent] = Writ(ret, pw, v \o sent)
      BY <3>2, <3>4 DEF s
    <3> QED BY <3>5 DEF ret, pw, sent
  <2> HIDE DEF o
  <2> QED BY <2>2 DEF Writ
<1> HIDE DEF o
<1>5. TakenBy(o) = v \o t
  <2> HIDE DEF x
  <2> DEFINE s == p.sent
  <2> HIDE DEF s
  <2>1. s \in Seq(Int)
    BY <1>2 DEF s
  <2>3. (v \o s) \o x = v \o (s \o x)
    BY <1>1, <1>3, <2>1, TextsAssociate, Zenon
  <2> QED BY <1>4, <2>3 DEF TakenBy, s, x
<1>6. v \o p.sent \in Seq(Int) /\ t \in Seq(Int) /\ v \o text \in Seq(Int)
  <2>1. t \in Seq(Int)
    BY <1>2, <1>3, ConcatProperties DEF TakenBy
  <2> QED BY <1>1, <1>2, <2>1, ConcatProperties
<1> HIDE DEF t, x
<1>7. IsPrefix(v \o p.sent, v \o text)
  BY <1>1, <1>2, PrefixBehind
<1>8. /\ IsPrefix(v, v \o t)
      /\ IsPrefix(t, text) => IsPrefix(v \o t, v \o text)
  BY <1>1, <1>6, PrefixOfConcat, PrefixBehind
<1>9. t = TakenBy(p)
  BY DEF t
<1>10. Conserving(o, w, v \o text)
  BY <1>4, <1>5, <1>6, <1>7, <1>8, <1>9 DEF Conserving, v
<1> QED BY <1>10 DEF o, v

\* The buffer is filled up, written out, and the rest written or kept.
LEMMA FilledUp ==
  ASSUME NEW w, Writable(w), ~ w.isEOF, NEW rest \in Seq(Int), w.buff.slen = w.minBuffSz,
         NEW f \in BwsWriteFlush(w), NEW o,
         o \in IF f.ret # OK THEN {f}
               ELSE IF Len(rest) >= w.minBuffSz
                    THEN {[p EXCEPT !.sent = f.sent \o @] : p \in WriteOut(f.w, rest)}
                    ELSE Stored(f.w, Bassign(f.w.buff, Own(rest)), f.sent)
  PROVE  Conserving(o, w, Value(w.buff) \o rest)
<1> DEFINE v == Value(w.buff)
           d == Drained(w)
           given == v \o rest
<1>1. v \in Seq(Int)
  BY ValueFacts DEF Writable
<1>2. WentOut(f, w, v, d)
  BY FlushFacts
<1> HIDE DEF v
<1>3. given \in Seq(Int) /\ OK # ERR
  BY <1>1, ConcatProperties DEF OK, ERR
<1>4. /\ Writable(d) /\ Value(d.buff) = << >> /\ d.buff.slen = 0 /\ Mlen(d.buff) = Mlen(w.buff)
      /\ d.isEOF = w.isEOF /\ d.minBuffSz = w.minBuffSz
  BY DrainedFacts
<1> HIDE DEF d
<1>5. w.minBuffSz \in Nat /\ w.minBuffSz > 0
  BY SizeFacts DEF Writable
<1>6. CASE f.ret # OK
  <2>1. PICK k \in Nat : k <= Len(v) /\ f.ret = ERR /\ f.w = Failed(w) /\ f.sent = Upto(v, k) /\ f = Writ(f.ret, f.w, f.sent)
    BY <1>2, <1>6 DEF WentOut
  <2>2. Upto(v, k) \in Seq(Int) /\ IsPrefix(Upto(v, k), given)
    BY <1>1, <2>1, Divided, PrefixLonger
  <2>3. Writable(Failed(w)) /\ Failed(w).isEOF /\ Failed(w).minBuffSz = w.minBuffSz
    BY FailedFacts DEF Writer
  <2>4. o = f
    BY <1>6
  <2> HIDE DEF given
  <2>5. Conserving(o, w, given)
    BY <2>1, <2>2, <2>3, <2>4, PartSent
  <2> QED BY <2>5 DEF given, v
<1>7. CASE f.ret = OK /\ Len(rest) >= w.minBuffSz
  <2>1. f.w = d /\ f.sent = v
    BY <1>2, <1>3, <1>7 DEF WentOut
  <2>2. PICK p \in WriteOut(d, rest) : o = [p EXCEPT !.sent = v \o @]
    BY <1>7, <2>1
  <2>3. WentOut(p, d, rest, d)
    BY <2>2, WriteOutFacts
  <2>4. p = Writ(p.ret, p.w, p.sent)
    BY <2>3 DEF WentOut
  <2>5. Conserving(p, d, rest)
    <3>1. CASE p.ret = OK
      <4>1. p.w = d /\ p.sent = rest
        BY <1>3, <2>3, <3>1 DEF WentOut
      <4>2. TakenBy(p) = rest
        BY <1>4, <4>1, ConcatEmptySeq DEF TakenBy
      <4>3. IsPrefix(rest, rest)
        BY PrefixSelf
      <4>4. Writer(d)
        BY <1>4, <1>5 DEF Writer, Writable
      <4> QED BY <1>3, <1>4, <1>5, <2>4, <3>1, <4>1, <4>2, <4>3, <4>4 DEF Conserving
    <3>2. CASE p.ret # OK
      <4>1. PICK k \in Nat : k <= Len(rest) /\ p.ret = ERR /\ p.w = Failed(d) /\ p.sent = Upto(rest, k) /\ p = Writ(p.ret, p.w, p.sent)
        BY <2>3, <3>2 DEF WentOut
      <4>2. Upto(rest, k) \in Seq(Int) /\ IsPrefix(Upto(rest, k), rest)
        BY <4>1, Divided, PrefixUpto
      <4>3. Writable(Failed(d)) /\ Failed(d).isEOF /\ Failed(d).minBuffSz = d.minBuffSz
        BY <1>4, FailedFacts DEF Writer
      <4> QED BY <4>1, <4>2, <4>3, PartSent
    <3> QED BY <3>1, <3>2
  <2> HIDE DEF given
  <2>6. Conserving([p EXCEPT !.sent = Value(w.buff) \o @], w, Value(w.buff) \o rest)
    BY <1>4, <2>5, SentBefore
  <2> QED BY <2>2, <2>6 DEF v
<1>8. CASE f.ret = OK /\ ~ (Len(rest) >= w.minBuffSz)
  <2>1. f.w = d /\ f.sent = v
    BY <1>2, <1>3, <1>8 DEF WentOut
  <2>2. o \in Stored(d, Bassign(d.buff, Own(rest)), v)
    BY <1>8, <2>1
  <2>3. PICK c \in Bassign(d.buff, Own(rest)) : o = Writ(c.ret, Buffered(d, c.b), v)
    BY <2>2 DEF Stored
  <2>4. Len(rest) \in Nat /\ Len(rest) < w.minBuffSz /\ Len(rest) < Mlen(d.buff)
    <3>1. Mlen(w.buff) \in Nat /\ w.buff.slen < Mlen(w.buff) /\ Len(rest) \in Nat
      BY LenProperties DEF Writable, Sound, Bstrings, Mlen
    <3> QED BY <1>4, <1>5, <1>8, <3>1
  <2>5. c.ret = OK /\ Sound(c.b) /\ Value(c.b) = rest
    BY <1>4, <2>3, <2>4, BassignFacts DEF Writable
  <2>6. c.b.slen < w.minBuffSz
    <3>1. Len(Value(c.b)) = c.b.slen
      BY <2>5, ValueFacts
    <3> QED BY <2>4, <2>5, <3>1
  <2>7. Conserving(Writ(OK, Buffered(d, c.b), v), d, given)
    BY <1>1, <1>3, <1>4, <2>5, <2>6, AllBuffered
  <2>8. o = Writ(OK, Buffered(d, c.b), v)
    BY <2>3, <2>5
  <2> HIDE DEF given
  <2>9. Conserving(o, w, given)
    BY <1>3, <1>4, <2>7, <2>8 DEF Conserving, Writ
  <2> QED BY <2>9 DEF given, v
<1> QED BY <1>6, <1>7, <1>8

LEMMA WriteThroughFacts ==
  ASSUME NEW w, Writable(w), ~ w.isEOF, w.buff.slen <= w.minBuffSz,
         NEW text \in Seq(Int), Len(text) <= MaxArg, NEW o \in WriteThrough(w, text)
  PROVE  Conserving(o, w, Value(w.buff) \o text)
<1> DEFINE v == Value(w.buff)
           l == w.minBuffSz - w.buff.slen
           head == Upto(text, l)
           rest == From(text, l)
<1>1. /\ w.minBuffSz \in Nat /\ w.minBuffSz > 0 /\ MaxArg \in Nat /\ w.minBuffSz + MaxArg + 1 < PowerOf2[30]
      /\ PowerOf2[30] \in Nat
  BY SizeFacts, PowersOf2 DEF Writable
<1>2. w.buff.slen \in Nat /\ Len(text) \in Nat /\ l \in Nat /\ Sound(w.buff)
  BY <1>1, LenProperties DEF Writable, Bstrings
<1> Writer(w)
  BY DEF Writer, Writable
<1>3. v \in Seq(Int) /\ OK # ERR
  BY <1>2, ValueFacts DEF OK, ERR
<1>4. CASE Len(text) < l
  <2>1. PICK c \in Bconcat(w.buff, Own(text)) : o = Writ(c.ret, Buffered(w, c.b), << >>)
    BY <1>4 DEF WriteThrough, Stored
  <2>2. w.buff.slen + Len(text) + 1 < PowerOf2[30]
    BY <1>1, <1>2, <1>4, SMTT(20)
  <2>3. Made(c, w.buff, v \o text)
    BY <1>2, <2>1, <2>2, BconcatFacts
  <2>4. CASE c.ret = OK
    <3>1. Sound(c.b) /\ Value(c.b) = v \o text
      BY <2>3, <2>4 DEF Made
    <3>2. c.b.slen < w.minBuffSz
      <4>1. Len(Value(c.b)) = c.b.slen
        BY <3>1, ValueFacts
      <4>2. Len(v) = w.buff.slen
        BY <1>2, ValueFacts
      <4> HIDE DEF v
      <4>3. Len(v \o text) = Len(v) + Len(text)
        BY <1>3, ConcatProperties
      <4>4. c.b.slen = w.buff.slen + Len(text)
        BY <3>1, <4>1, <4>2, <4>3
      <4> QED BY <1>1, <1>2, <1>4, <4>4
    <3> DEFINE g == v \o text
    <3>3. g \in Seq(Int) /\ << >> \in Seq(Int)
      BY <1>3, ConcatProperties, EmptySeq
    <3>4. << >> \o Value(c.b) = g
      BY <3>1, <3>3, ConcatEmptySeq
    <3> HIDE DEF g
    <3>5. Conserving(Writ(OK, Buffered(w, c.b), << >>), w, g)
      BY <3>1, <3>2, <3>3, <3>4, AllBuffered
    <3> QED BY <2>1, <2>4, <3>5 DEF g, v
  <2>5. CASE c.ret # OK
    <3>1. c.ret = ERR /\ Buffered(w, c.b) = w
      BY <1>2, <2>3, <2>5, BufferedFacts DEF Made
    <3> QED BY <2>1, <3>1, NothingWritten
  <2> QED BY <2>4, <2>5
<1>5. CASE ~ (Len(text) < l)
  <2>1. PICK c \in Bcatblk(w.buff, head) :
          o \in IF c.ret # OK THEN {Writ(ERR, w, << >>)}
                ELSE UNION {IF f.ret # OK THEN {f}
                            ELSE IF Len(rest) >= w.minBuffSz
                                 THEN {[p EXCEPT !.sent = f.sent \o @] : p \in WriteOut(f.w, rest)}
                                 ELSE Stored(f.w, Bassign(f.w.buff, Own(rest)), f.sent)
                            : f \in BwsWriteFlush(Buffered(w, c.b))}
    BY <1>5, Zenon DEF WriteThrough
  <2>2. head \in Seq(Int) /\ Len(head) = l /\ rest \in Seq(Int) /\ head \o rest = text
    <3>1. l \in Nat /\ l <= Len(text)
      BY <1>2, <1>5
    <3> HIDE DEF l
    <3> QED BY <3>1, Divided
  <2> HIDE DEF head, rest
  <2>3. Made(c, w.buff, v \o head)
    <3>1. w.buff.slen + Len(head) + 1 < PowerOf2[30]
      <4>1. w.buff.slen + l = w.minBuffSz
        BY <1>1, <1>2
      <4>2. Len(head) = l
        BY <2>2
      <4> HIDE DEF l
      <4> QED BY <1>1, <1>2, <4>1, <4>2, SMTT(20)
    <3> QED BY <1>2, <2>1, <2>2, <3>1, BcatblkFacts
  <2>4. CASE c.ret # OK
    <3>1. o = Writ(ERR, w, << >>)
      BY <2>1, <2>4
    <3> QED BY <3>1, NothingWritten
  <2>5. CASE c.ret = OK
    <3> DEFINE u == Buffered(w, c.b)
    <3>1. Sound(c.b) /\ Value(c.b) = v \o head
      BY <2>3, <2>5 DEF Made
    <3>2. Writable(u) /\ u.buff = c.b /\ ~ u.isEOF /\ u.minBuffSz = w.minBuffSz
      BY <3>1, BufferedFacts
    <3>3. PICK f \in BwsWriteFlush(u) :
            o \in IF f.ret # OK THEN {f}
                  ELSE IF Len(rest) >= w.minBuffSz
                       THEN {[p EXCEPT !.sent = f.sent \o @] : p \in WriteOut(f.w, rest)}
                       ELSE Stored(f.w, Bassign(f.w.buff, Own(rest)), f.sent)
      BY <2>1, <2>5
    <3>4. c.b.slen = w.minBuffSz
      <4>1. Len(Value(c.b)) = c.b.slen
        BY <3>1, ValueFacts
      <4>2. Len(v) = w.buff.slen
        BY <1>2, ValueFacts
      <4> HIDE DEF v
      <4>3. Len(v \o head) = Len(v) + Len(head)
        BY <1>3, <2>2, ConcatProperties
      <4>4. c.b.slen = w.buff.slen + l
        BY <2>2, <3>1, <4>1, <4>2, <4>3
      <4> QED BY <1>1, <1>2, <4>4
    <3> HIDE DEF u
    <3>5. Conserving(o, u, Value(u.buff) \o rest)
      BY <2>2, <3>2, <3>3, <3>4, FilledUp
    <3> HIDE DEF v
    <3>6. Value(u.buff) = v \o head /\ Value(u.buff) \o rest = v \o text
      <4>1. (v \o head) \o rest = v \o (head \o rest)
        BY <1>3, <2>2, TextsAssociate, ZenonT(30)
      <4> QED BY <2>2, <3>1, <3>2, <4>1
    <3>7. Conserving(o, w, v \o text)
      <4> DEFINE t == TakenBy(o)
      <4>1. IsPrefix(v \o head, t) => IsPrefix(v, t)
        <5>1. o.sent \in Seq(Int) /\ Value(o.w.buff) \in Seq(Int)
          BY <3>5, ValueFacts DEF Conserving, Writer, Writable
        <5>2. t \in Seq(Int)
          BY <5>1, ConcatProperties DEF TakenBy
        <5> HIDE DEF t
        <5> QED BY <1>3, <2>2, <5>2, PrefixTransitive
      <4> HIDE DEF t
      <4>2. t = TakenBy(o) /\ v = Value(w.buff)
        BY DEF t, v
      <4> QED BY <3>2, <3>5, <3>6, <4>1, <4>2 DEF Conserving
    <3> QED BY <3>7 DEF v
  <2> QED BY <2>4, <2>5
<1> QED BY <1>4, <1>5

LEMMA WriteOverFacts ==
  ASSUME NEW w, Writable(w), ~ w.isEOF, NEW text \in Seq(Int), Len(text) <= MaxArg, NEW o \in WriteOver(w, text)
  PROVE  Conserving(o, w, Value(w.buff) \o text)
<1>1. w.buff.slen \in Nat /\ w.minBuffSz \in Nat
  BY SizeFacts DEF Writable, Sound, Bstrings
<1>2. CASE w.buff.slen <= w.minBuffSz
  <2>1. o \in WriteThrough(w, text)
    BY <1>2 DEF WriteOver
  <2> QED BY <1>2, <2>1, WriteThroughFacts
<1>3. CASE ~ (w.buff.slen <= w.minBuffSz)
  <2> DEFINE v == Value(w.buff)
             d == Drained(w)
             given == v \o text
  <2>1. PICK f \in BwsWriteFlush(w) :
          o \in IF f.ret # OK THEN {f} ELSE {[p EXCEPT !.sent = f.sent \o @] : p \in WriteThrough(f.w, text)}
    BY <1>3, Zenon DEF WriteOver
  <2>2. WentOut(f, w, v, d) /\ v \in Seq(Int) /\ OK # ERR
    BY <2>1, FlushFacts, ValueFacts, SMTT(20) DEF Writable, OK, ERR
  <2>3. /\ Writable(d) /\ Value(d.buff) = << >> /\ d.buff.slen = 0 /\ ~ d.isEOF /\ d.minBuffSz = w.minBuffSz
    BY DrainedFacts
  <2> HIDE DEF v, d
  <2>4. CASE f.ret # OK
    <3>1. PICK k \in Nat : k <= Len(v) /\ f.ret = ERR /\ f.w = Failed(w) /\ f.sent = Upto(v, k) /\ f = Writ(f.ret, f.w, f.sent)
      BY <2>2, <2>4 DEF WentOut
    <3>2. Upto(v, k) \in Seq(Int) /\ IsPrefix(Upto(v, k), given)
      BY <2>2, <3>1, Divided, PrefixLonger
    <3>3. Writable(Failed(w)) /\ Failed(w).isEOF /\ Failed(w).minBuffSz = w.minBuffSz
      BY FailedFacts DEF Writer
    <3>4. o = f
      BY <2>1, <2>4
    <3> HIDE DEF given
    <3>5. Conserving(o, w, given)
      BY <3>1, <3>2, <3>3, <3>4, PartSent
    <3> QED BY <3>5 DEF given, v
  <2>5. CASE f.ret = OK
    <3>1. f.w = d /\ f.sent = v
      BY <2>2, <2>5 DEF WentOut
    <3>2. PICK p \in WriteThrough(d, text) : o = [p EXCEPT !.sent = v \o @]
      BY <2>1, <2>5, <3>1
    <3>3. Conserving(p, d, text)
      <4>1. Conserving(p, d, Value(d.buff) \o text)
        <5>1. d.buff.slen <= d.minBuffSz
          BY <1>1, <2>3
        <5> QED BY <2>3, <3>2, <5>1, WriteThroughFacts
      <4>2. << >> \o text = text
        BY ConcatEmptySeq
      <4> QED BY <2>3, <4>1, <4>2
    <3>5. Conserving([p EXCEPT !.sent = Value(w.buff) \o @], w, Value(w.buff) \o text)
      BY <2>3, <3>3, SentBefore
    <3> QED BY <3>2, <3>5 DEF v
  <2> QED BY <2>4, <2>5
<1> QED BY <1>2, <1>3

LEMMA TextsFacts == \A text \in Texts : text \in Seq(Int) /\ Len(text) <= MaxArg
<1> SUFFICES ASSUME NEW text \in Texts PROVE text \in Seq(Int) /\ Len(text) <= MaxArg
  OBVIOUS
<1>1. PICK m \in 0 .. MaxArg : text \in [1 .. m -> Letters]
  BY DEF Texts, BoundedSeq, SeqOf
<1>2. Letters \subseteq Int /\ MaxArg \in Nat
  BY BstringAssumption
<1>3. text \in [1 .. m -> Int] /\ m \in Nat /\ m <= MaxArg
  <2>1. m \in Nat /\ m <= MaxArg
    BY <1>2
  <2>2. \A i \in 1 .. m : text[i] \in Int
    BY <1>1, <1>2
  <2> QED BY <1>1, <2>1, <2>2
<1> QED BY <1>3, MadeSeq

LEMMA BwsWriteBstrFacts ==
  ASSUME NEW w, Writer(w), ~ w.isEOF, NEW text \in Texts, NEW o \in BwsWriteBstr(w, text)
  PROVE  Conserving(o, w, Value(w.buff) \o text)
<1>1. text \in Seq(Int) /\ Len(text) <= MaxArg /\ Len(text) \in Nat
  BY TextsFacts, LenProperties
<1>2. Writable(w) /\ Sound(w.buff) /\ w.buff.slen \in Nat
  BY DEF Writer, Writable, Sound, Bstrings
<1>3. CASE text # << >> /\ Mlen(w.buff) - w.buff.slen > Len(text)
  <2> DEFINE v == Value(w.buff)
             given == v \o text
  <2>1. PICK c \in Bconcat(w.buff, Own(text)) :
          o \in IF c.ret # OK THEN {Writ(ERR, w, << >>)} ELSE WriteOver(Buffered(w, c.b), << >>)
    BY <1>3, Zenon DEF BwsWriteBstr
  <2>2. v \in Seq(Int)
    BY <1>2, ValueFacts
  <2>3. w.buff.slen + Len(text) + 1 < PowerOf2[30]
    <3>1. PICK n \in Sizes : w.buff.slen <= n
      BY DEF Writer
    <3>2. n \in Nat /\ MaxArg \in Nat /\ n + MaxArg + 1 < PowerOf2[30] /\ PowerOf2[30] \in Nat
      BY SizeFacts, PowersOf2
    <3> QED BY <1>1, <1>2, <3>1, <3>2
  <2>4. Made(c, w.buff, given)
    BY <1>1, <1>2, <2>1, <2>3, BconcatFacts
  <2>5. CASE c.ret # OK
    <3>1. o = Writ(ERR, w, << >>)
      BY <2>1, <2>5
    <3> QED BY <1>1, <3>1, NothingWritten
  <2>6. CASE c.ret = OK
    <3> DEFINE u == Buffered(w, c.b)
    <3>1. Sound(c.b) /\ Value(c.b) = given
      BY <2>4, <2>6 DEF Made
    <3>2. Writable(u) /\ u.buff = c.b /\ ~ u.isEOF /\ u.minBuffSz = w.minBuffSz
      BY <1>2, <3>1, BufferedFacts
    <3>3. o \in WriteOver(u, << >>)
      BY <2>1, <2>6
    <3> HIDE DEF u
    <3>4. << >> \in Seq(Int) /\ Len(<< >>) <= MaxArg
      BY EmptySeq, SizeFacts
    <3>5. Conserving(o, u, Value(u.buff) \o << >>)
      BY <3>2, <3>3, <3>4, WriteOverFacts
    <3> HIDE DEF v
    <3>6. given \in Seq(Int)
      BY <1>1, <2>2, ConcatProperties
    <3>7. Value(u.buff) = given /\ Value(u.buff) \o << >> = given
      BY <3>1, <3>2, <3>6, ConcatEmptySeq
    <3>8. IsPrefix(given, TakenBy(o)) => IsPrefix(v, TakenBy(o))
      <4>1. o.sent \in Seq(Int) /\ Value(o.w.buff) \in Seq(Int)
        BY <3>5, ValueFacts DEF Conserving, Writer, Writable
      <4>2. TakenBy(o) \in Seq(Int)
        BY <4>1, ConcatProperties DEF TakenBy
      <4> QED BY <1>1, <2>2, <4>2, PrefixTransitive
    <3> HIDE DEF given
    <3>9. v = Value(w.buff)
      BY DEF v
    <3>10. Conserving(o, w, given)
      BY <3>2, <3>5, <3>7, <3>8, <3>9 DEF Conserving
    <3> QED BY <3>10 DEF given, v
  <2> QED BY <2>5, <2>6
<1>4. CASE ~ (text # << >> /\ Mlen(w.buff) - w.buff.slen > Len(text))
  <2>1. o \in WriteOver(w, text)
    BY <1>4 DEF BwsWriteBstr
  <2> QED BY <1>1, <1>2, <2>1, WriteOverFacts
<1> QED BY <1>3, <1>4

-----------------------------------------------------------------------------
(* The invariant *)

\* Between two calls the stream is one that WritesConserve can be shown of.
WriterInv == out # Closed => Writer(out)

LEMMA KeptFacts ==
  ASSUME NEW u, Sound(u)
  PROVE  Sound(Kept(u)) /\ Kept(u).slen = u.slen
<1> DEFINE d == [i \in DOMAIN u.data |-> IF i <= u.slen THEN u.data[i] ELSE Junk]
<1>1. /\ u \in Bstrings /\ u.data \in Seq(Int) /\ Len(u.data) \in Nat /\ DOMAIN u.data = 1 .. Len(u.data)
  BY LenProperties DEF Sound, Bstrings
<1>2. d \in [1 .. Len(u.data) -> Int]
  BY <1>1, ElementOfSeq DEF Junk
<1>3. Kept(u) = [u EXCEPT !.tight = FALSE, !.moved = FALSE, !.broken = FALSE, !.data = d]
  BY DEF Kept
<1> HIDE DEF d
<1>4. d \in Seq(Int) /\ Len(d) = Len(u.data)
  BY <1>1, <1>2, MadeSeq
<1>5. Kept(u) \in Bstrings /\ Kept(u).slen = u.slen /\ Kept(u).data = d /\ Kept(u).over = u.over
  BY <1>1, <1>3, <1>4 DEF Bstrings
<1> QED BY <1>4, <1>5 DEF Sound, Mlen

LEMMA AfterFacts ==
  ASSUME NEW w, Writer(w)
  PROVE  Writer(After(w))
<1>1. Writable(w) /\ Sound(w.buff)
  BY DEF Writer, Writable
<1>2. Sound(Kept(w.buff)) /\ Kept(w.buff).slen = w.buff.slen
  BY <1>1, KeptFacts
<1> DEFINE u == Kept(w.buff)
<1> HIDE DEF u
<1>3. /\ Writable(Buffered(w, u)) /\ Buffered(w, u).buff = u /\ Buffered(w, u).isEOF = w.isEOF
  BY <1>1, <1>2, BufferedFacts DEF u
<1>4. Writer(Buffered(w, u))
  BY <1>2, <1>3 DEF Writer, u
<1> QED BY <1>4 DEF After, u

LEMMA OpenedFacts == Writer([BwsOpen EXCEPT !.buff = Kept(@)])
<1> DEFINE n == SnapUpSize(2)
           data == [i \in 1 .. n |-> IF i <= 0 THEN << >>[i] ELSE IF i = 1 THEN Nul ELSE Junk]
           u == [data |-> data, slen |-> 0, tight |-> FALSE, over |-> 0, moved |-> FALSE, broken |-> FALSE]
<1>1. BuffSz \in Nat /\ BuffSz > 0 /\ BuffSz + MaxArg + 1 < PowerOf2[30] /\ MaxArg \in Nat /\ BuffSz \in Sizes
  BY SizeFacts DEF Sizes
<1>2. n \in Nat /\ n > 2
  <2>1. 2 < PowerOf2[30]
    BY <1>1, PowersOf2
  <2> QED BY <2>1, SnapsUp
<1> HIDE DEF n
<1>3. data \in [1 .. n -> Int]
  <2>1. \A i \in 1 .. n : ~ (i <= 0)
    BY <1>2
  <2>2. Nul \in Int /\ Junk \in Int
    BY DEF Nul, Junk
  <2> QED BY <2>1, <2>2
<1>4. Bfromcstr(<< >>) = u
  <2>1. Len(<< >>) = 0
    BY EmptySeq
  <2>2. Bfromcstr(<< >>) = Fresh(<< >>, n, FALSE)
    BY <2>1 DEF Bfromcstr, RoomFor, n
  <2> QED BY <2>1, <2>2 DEF Fresh
<1> HIDE DEF data
<1>5. data \in Seq(Int) /\ Len(data) = n
  BY <1>2, <1>3, MadeSeq
<1>6. u \in Bstrings /\ u.slen = 0 /\ u.over = 0 /\ Mlen(u) = n
  BY <1>5 DEF Bstrings, Mlen
<1> HIDE DEF u
<1>7. Sound(u)
  BY <1>2, <1>6 DEF Sound
<1> DEFINE w == [BwsOpen EXCEPT !.buff = Kept(@)]
           k == Kept(u)
<1>8. Sound(k) /\ k.slen = 0
  BY <1>6, <1>7, KeptFacts
<1>9. w = [buff |-> k, isEOF |-> FALSE, minBuffSz |-> BuffSz]
  <2>1. BwsOpen = [buff |-> u, isEOF |-> FALSE, minBuffSz |-> BuffSz]
    BY <1>4 DEF BwsOpen
  <2>2. BwsOpen.buff = u
    BY <2>1
  <2>3. w = [BwsOpen EXCEPT !.buff = k]
    BY <2>2
  <2> HIDE DEF k, w
  <2> QED BY <2>1, <2>3
<1> HIDE DEF k, w
<1>10. Writable(w)
  BY <1>1, <1>8, <1>9 DEF Writable, Sound
<1>11. w.buff.slen <= BuffSz
  BY <1>1, <1>8, <1>9
<1>12. Writer(w)
  BY <1>1, <1>10, <1>11 DEF Writer
<1> QED BY <1>12 DEF w

\* What a write or a flush leaves of the stream
LEMMA WriteTextFacts ==
  ASSUME NEW w, Writer(w), NEW text \in Texts, NEW o \in BwsWriteBstr(w, text)
  PROVE  Writer(o.w)
<1>1. CASE w.isEOF
  BY <1>1 DEF BwsWriteBstr, Writ
<1>2. CASE ~ w.isEOF
  BY <1>2, BwsWriteBstrFacts DEF Conserving
<1> QED BY <1>1, <1>2

\* What a flush sends and leaves
LEMMA BwsWriteFlushFacts ==
  ASSUME NEW w, Writer(w), NEW o \in BwsWriteFlush(w)
  PROVE  /\ Writer(o.w)
         /\ IsPrefix(o.sent, Value(w.buff))
         /\ o.ret = OK => o.sent = Value(w.buff) /\ o.w.buff.slen = 0
<1> DEFINE v == Value(w.buff)
           d == Drained(w)
<1>1. Writable(w) /\ v \in Seq(Int) /\ OK # ERR
  BY ValueFacts DEF Writer, Writable, OK, ERR
<1>2. Writable(d) /\ d.buff.slen = 0 /\ d.minBuffSz = w.minBuffSz
  BY <1>1, DrainedFacts
<1>3. Writer(d)
  <2>1. d.minBuffSz \in Sizes /\ d.buff.slen <= d.minBuffSz
    BY <1>2, SizeFacts DEF Writable
  <2> QED BY <1>2, <2>1 DEF Writer
<1>4. ~ w.isEOF => WentOut(o, w, v, d)
  BY <1>1, FlushFacts
<1>5. w.isEOF => o = Writ(ERR, w, << >>)
  BY DEF BwsWriteFlush
<1> HIDE DEF v, d
<1>6. CASE w.isEOF
  <2>1. IsPrefix(<< >>, v)
    <3>1. << >> \o v = v /\ << >> \in Seq(Int)
      BY <1>1, ConcatEmptySeq, EmptySeq
    <3>2. IsPrefix(<< >>, << >> \o v)
      BY <1>1, <3>1, PrefixOfConcat
    <3> QED BY <3>1, <3>2
  <2> QED BY <1>1, <1>5, <1>6, <2>1 DEF Writ, v
<1>7. CASE ~ w.isEOF /\ o.ret = OK
  <2>1. o.w = d /\ o.sent = v
    BY <1>1, <1>4, <1>7 DEF WentOut
  <2>2. IsPrefix(v, v)
    BY <1>1, PrefixSelf
  <2> QED BY <1>2, <1>3, <2>1, <2>2 DEF v
<1>8. CASE ~ w.isEOF /\ o.ret # OK
  <2>1. PICK k \in Nat : k <= Len(v) /\ o.ret = ERR /\ o.w = Failed(w) /\ o.sent = Upto(v, k)
    BY <1>4, <1>8 DEF WentOut
  <2>2. IsPrefix(Upto(v, k), v)
    BY <1>1, <2>1, PrefixUpto
  <2>3. Writer(Failed(w))
    BY <1>1, FailedFacts
  <2> QED BY <1>8, <2>1, <2>2, <2>3 DEF v
<1> QED BY <1>6, <1>7, <1>8

\* bwsBuffLength changes how much the buffer is to hold from now on, not what it holds.
LEMMA BwsBuffLengthFacts ==
  ASSUME NEW w, Writer(w), NEW sz \in BuffSizes
  PROVE  Writer(BwsBuffLength(w, sz))
<1>1. sz \in Sizes /\ sz \in Nat /\ sz > 0
  BY SizeFacts DEF Sizes
<1> DEFINE u == [w EXCEPT !.minBuffSz = sz]
<1>2. BwsBuffLength(w, sz) = u
  BY <1>1 DEF BwsBuffLength
<1>3. Writable(u) /\ u.isEOF = w.isEOF /\ u.buff = w.buff
  BY <1>1 DEF Writer, Writable
<1> HIDE DEF u
<1> QED BY <1>2, <1>3 DEF Writer

-----------------------------------------------------------------------------
(* The specification *)

LEMMA WriterInvHolds == StreamSpec => []WriterInv
<1>1. StreamInit => WriterInv
  BY DEF StreamInit, WriterInv
<1>2. WriterInv /\ [StreamNext]_<<in, out>> => WriterInv'
  <2> SUFFICES ASSUME WriterInv, [StreamNext]_<<in, out>>
               PROVE  WriterInv'
    OBVIOUS
  <2>1. CASE UNCHANGED out
    BY <2>1 DEF WriterInv
  <2>2. CASE OpenWrite
    BY <2>2, OpenedFacts DEF OpenWrite, WriterInv
  <2>3. CASE WriteText
    <3>1. PICK text \in Texts : \E o \in BwsWriteBstr(out, text) : out' = After(o.w)
      BY <2>3 DEF WriteText
    <3>2. PICK o \in BwsWriteBstr(out, text) : out' = After(o.w)
      BY <3>1
    <3>3. Writer(out)
      BY <2>3 DEF WriteText, WriterInv
    <3>4. Writer(o.w)
      BY <3>2, <3>3, WriteTextFacts
    <3> QED BY <3>2, <3>4, AfterFacts DEF WriterInv
  <2>4. CASE Flush
    <3>1. PICK o \in BwsWriteFlush(out) : out' = After(o.w)
      BY <2>4 DEF Flush
    <3>2. Writer(out)
      BY <2>4 DEF Flush, WriterInv
    <3>3. Writer(o.w)
      BY <3>1, <3>2, BwsWriteFlushFacts
    <3> QED BY <3>1, <3>3, AfterFacts DEF WriterInv
  <2>5. CASE BwsClose
    BY <2>5 DEF BwsClose, WriterInv
  <2>6. CASE BufferLength
    <3>1. CASE UNCHANGED out
      BY <3>1 DEF WriterInv
    <3>2. CASE out # Closed /\ \E sz \in BuffSizes : out' = BwsBuffLength(out, sz)
      <4>1. PICK sz \in BuffSizes : out' = BwsBuffLength(out, sz)
        BY <3>2
      <4>2. Writer(out)
        BY <3>2 DEF WriterInv
      <4> QED BY <4>1, <4>2, BwsBuffLengthFacts DEF WriterInv
    <3> QED BY <2>6, <3>1, <3>2 DEF BufferLength
  <2>7. CASE Open \/ Bsclose \/ ReadLn \/ ReadLns \/ ReadBlock \/ Unread \/ Split \/ ReadCore
    BY <2>1, <2>7 DEF Open, Bsclose, ReadLn, ReadLns, ReadBlock, Unread, Split, ReadCore
  <2> QED BY <2>1, <2>2, <2>3, <2>4, <2>5, <2>6, <2>7 DEF StreamNext
<1> QED BY <1>1, <1>2, PTL DEF StreamSpec

LEMMA WriterConserves == WriterInv => WritesConserve
<1> SUFFICES ASSUME WriterInv, out # Closed
             PROVE  WritesConserve
  BY DEF WritesConserve
<1>1. Writer(out) /\ Writable(out) /\ OK # ERR
  BY DEF WriterInv, Writer, OK, ERR
<1>2. ASSUME NEW o \in BwsWriteFlush(out)
      PROVE  /\ IsPrefix(o.sent, Value(out.buff))
             /\ o.ret = OK => o.sent = Value(out.buff) /\ o.w.buff.slen = 0
  BY <1>1, BwsWriteFlushFacts
<1>3. ASSUME NEW text \in Texts, NEW o \in BwsWriteBstr(out, text)
      PROVE  LET given == Value(out.buff) \o text
                 taken == o.sent \o Value(o.w.buff)
             IN  /\ o.w.buff.over = 0
                 /\ o.ret = OK => taken = given /\ o.w.buff.slen < out.minBuffSz
                 /\ o.ret = ERR /\ ~o.w.isEOF => IsPrefix(Value(out.buff), taken) /\ IsPrefix(taken, given)
                 /\ IsPrefix(o.sent, given)
                 /\ out.isEOF => o = Writ(ERR, out, << >>)
  <2> DEFINE given == Value(out.buff) \o text
  <2>1. Writer(o.w)
    BY <1>1, <1>3, WriteTextFacts
  <2>2. o.w.buff.over = 0
    BY <2>1 DEF Writer, Writable, Sound
  <2>3. out.isEOF => o = Writ(ERR, out, << >>)
    BY <1>3 DEF BwsWriteBstr
  <2>4. Conserving(o, out, given)
    <3>1. CASE out.isEOF
      BY <1>1, <1>3, <2>3, <3>1, TextsFacts, NothingWritten
    <3>2. CASE ~ out.isEOF
      BY <1>1, <1>3, <3>2, BwsWriteBstrFacts
    <3> QED BY <3>1, <3>2
  <2> HIDE DEF given
  <2>5. /\ o.ret = OK => o.sent \o Value(o.w.buff) = given /\ o.w.buff.slen < out.minBuffSz
        /\ o.ret = ERR /\ ~o.w.isEOF =>
             IsPrefix(Value(out.buff), o.sent \o Value(o.w.buff)) /\ IsPrefix(o.sent \o Value(o.w.buff), given)
        /\ IsPrefix(o.sent, given)
    BY <2>4 DEF Conserving, TakenBy
  <2> QED BY <2>2, <2>3, <2>5 DEF given
<1> QED BY <1>2, <1>3, Zenon DEF WritesConserve

(* However the program divides its text between calls, and whatever the      *)
(* core stream takes of it, what is written and what is buffered are what    *)
(* was given, in order; for every size of the buffer, texts and bound.       *)
THEOREM WritesAlwaysConserve == StreamSpec => []WritesConserve
<1>1. WriterInv => WritesConserve
  BY WriterConserves
<1> QED BY <1>1, WriterInvHolds, PTL

-----------------------------------------------------------------------------
(* Texts without a Nul, and copies of them *)

Uncut == {t \in Seq(Int) : \A i \in 1 .. Len(t) : t[i] # Nul}

LEMMA FreshFacts ==
  ASSUME NEW text \in Seq(Int), NEW mlen \in Nat, mlen > Len(text), NEW tight \in BOOLEAN
  PROVE  /\ Sound(Fresh(text, mlen, tight)) /\ Fresh(text, mlen, tight).slen = Len(text)
         /\ Mlen(Fresh(text, mlen, tight)) = mlen /\ Value(Fresh(text, mlen, tight)) = text
<1> DEFINE d == [i \in 1 .. mlen |-> IF i <= Len(text) THEN text[i] ELSE IF i = Len(text) + 1 THEN Nul ELSE Junk]
           r == [data |-> d, slen |-> Len(text), tight |-> tight, over |-> 0, moved |-> FALSE, broken |-> FALSE]
<1>1. Len(text) \in Nat
  BY LenProperties
<1>2. d \in [1 .. mlen -> Int] /\ \A i \in 1 .. Len(text) : d[i] = text[i]
  <2>1. \A i \in 1 .. Len(text) : text[i] \in Int /\ i \in 1 .. mlen /\ i <= Len(text)
    BY <1>1, ElementOfSeq
  <2>2. \A i \in 1 .. mlen : i <= Len(text) => i \in 1 .. Len(text)
    BY <1>1
  <2>3. Nul \in Int /\ Junk \in Int
    BY DEF Nul, Junk
  <2> QED BY <2>1, <2>2, <2>3
<1> HIDE DEF d
<1>3. d \in Seq(Int) /\ Len(d) = mlen
  BY <1>2, MadeSeq
<1>4. r \in Bstrings /\ r.data = d /\ r.slen = Len(text) /\ r.over = 0
  BY <1>1, <1>3 DEF Bstrings
<1> HIDE DEF r
<1>5. Sound(r) /\ Mlen(r) = mlen
  BY <1>3, <1>4 DEF Sound, Mlen
<1>6. Value(r) = text
  BY <1>2, <1>4, <1>5, ValueIs
<1>7. Fresh(text, mlen, tight) = r
  BY DEF Fresh, r, d
<1> QED BY <1>4, <1>5, <1>6, <1>7

LEMMA BfromcstrFacts ==
  ASSUME NEW text \in Seq(Int), Len(text) + 2 < PowerOf2[30]
  PROVE  Sound(Bfromcstr(text)) /\ Bfromcstr(text).slen = Len(text) /\ Value(Bfromcstr(text)) = text
<1> DEFINE n == Len(text) + (IF text = << >> THEN 2 ELSE 1)
<1>1. Len(text) \in Nat /\ PowerOf2[30] \in Nat
  BY LenProperties, PowersOf2
<1>2. n \in Nat /\ n < PowerOf2[30] /\ n > Len(text)
  BY <1>1
<1>3. RoomFor(text) = SnapUpSize(n)
  BY DEF RoomFor
<1> HIDE DEF n
<1>4. SnapUpSize(n) \in Nat /\ SnapUpSize(n) > n
  BY <1>2, SnapsUp
<1>5. RoomFor(text) \in Nat /\ RoomFor(text) > Len(text)
  BY <1>1, <1>2, <1>3, <1>4
<1> QED BY <1>5, FreshFacts DEF Bfromcstr

\* bstr2cstr of a text without a Nul is that text, and ends behind it.
LEMMA Bstr2cstrFacts ==
  ASSUME NEW s, Sound(s), Value(s) \in Uncut, NEW z \in Int
  PROVE  CStr(Bstr2cstr(s, z)) = Value(s)
<1> DEFINE v == Value(s)
           n == s.slen
           f == [i \in 1 .. n + 1 |-> IF i > n THEN Nul ELSE v[i]]
           S == {i \in 1 .. Len(f) + 1 : i = Len(f) + 1 \/ f[i] = Nul}
<1>1. v \in Seq(Int) /\ Len(v) = n /\ n \in Nat /\ \A i \in 1 .. n : v[i] = s.data[i] /\ v[i] # Nul /\ v[i] \in Int
  <2>1. v \in Seq(Int) /\ Len(v) = n /\ \A i \in 1 .. n : v[i] = s.data[i]
    BY ValueFacts
  <2>2. n \in Nat
    BY DEF Sound, Bstrings
  <2> QED BY <2>1, <2>2, ElementOfSeq DEF Uncut
<1>2. Bstr2cstr(s, z) = f
  <2>1. \A i \in 1 .. n + 1 : ~(i > n) => i \in 1 .. n
    BY <1>1
  <2>2. \A i \in 1 .. n + 1 : (IF i > n THEN Nul ELSE IF s.data[i] = Nul THEN z ELSE s.data[i])
                              = (IF i > n THEN Nul ELSE v[i])
    BY <1>1, <2>1
  <2> QED BY <2>2 DEF Bstr2cstr
<1> HIDE DEF v, n
<1>3. f \in [1 .. n + 1 -> Int] /\ f[n + 1] = Nul /\ \A i \in 1 .. n : f[i] = v[i]
  BY <1>1 DEF Nul
<1> HIDE DEF f
<1>4. f \in Seq(Int) /\ Len(f) = n + 1
  BY <1>1, <1>3, MadeSeq
<1>5. S = {n + 1, n + 2}
  <2>1. \A i \in 1 .. n + 2 : i = n + 1 \/ i = n + 2 \/ i \in 1 .. n
    BY <1>1
  <2>2. n + 1 \in 1 .. n + 2 /\ n + 2 \in 1 .. n + 2
    BY <1>1
  <2> QED BY <1>1, <1>3, <1>4, <2>1, <2>2
<1>6. Least(S) = n + 1
  <2>1. Min({n + 1, n + 2}) = n + 1
    <3> DEFINE k == n + 1
               l == n + 2
    <3>1. k \in Int /\ l \in Int /\ k <= l
      BY <1>1
    <3> HIDE DEF k, l
    <3>2. Min({k, l}) = k
      BY <3>1, MinMaxOfTwo
    <3> QED BY <3>2 DEF k, l
  <2> QED BY <1>5, <2>1 DEF Least
<1>7. CStr(f) = SubSeq(f, 1, n)
  <2>1. CStr(f) = SubSeq(f, 1, Least(S) - 1)
    BY DEF CStr
  <2>2. (n + 1) - 1 = n
    BY <1>1
  <2> HIDE DEF S
  <2> QED BY <1>6, <2>1, <2>2
<1>8. /\ SubSeq(f, 1, n) \in Seq(Int) /\ Len(SubSeq(f, 1, n)) = n
      /\ \A i \in 1 .. n : SubSeq(f, 1, n)[i] = f[i]
  BY <1>1, <1>4, PrefixFacts
<1>9. SubSeq(f, 1, n) = v
  BY <1>1, <1>3, <1>8, SeqEqual
<1> QED BY <1>2, <1>7, <1>9 DEF v

LEMMA BstringToStringFacts ==
  ASSUME NEW s, Sound(s), Value(s) \in Uncut
  PROVE  BstringToString(s) = {Invalid, Value(s)}
<1>1. NullReplacement \in Int
  BY DEF NullReplacement
<1>2. CStr(Bstr2cstr(s, NullReplacement)) = Value(s)
  BY <1>1, Bstr2cstrFacts
<1> QED BY <1>2 DEF BstringToString

LEMMA StrdupFacts ==
  ASSUME NEW string \in Uncut, Len(string) + 2 < PowerOf2[30]
  PROVE  Strdup(string) = {Invalid, string}
<1> DEFINE s == Bfromcstr(string)
<1>1. string \in Seq(Int)
  BY DEF Uncut
<1>2. Sound(s) /\ Value(s) = string
  BY <1>1, BfromcstrFacts
<1> HIDE DEF s
<1>3. BstringToString(s) = {Invalid, string}
  BY <1>2, BstringToStringFacts
<1> QED BY <1>3 DEF Strdup, s

-----------------------------------------------------------------------------
(* Formatting *)

LEMMA BallocGoesWell ==
  ASSUME NEW s, NEW n \in Nat, n > 0
  PROVE  \E o \in Balloc(s, n) : o.ret = OK
<1>1. CASE n < Mlen(s)
  <2>1. Ok(s) \in Balloc(s, n)
    BY <1>1 DEF Balloc
  <2>2. Ok(s).ret = OK
    BY DEF Ok
  <2> QED BY <2>1, <2>2
<1>2. CASE ~ (n < Mlen(s))
  <2> DEFINE u == Reallocated(s, n, TRUE)
  <2>1. Ok(u) \in Balloc(s, n)
    <3>1. ~ (n <= 0)
      OBVIOUS
    <3>2. Balloc(s, n) = {Ok(Reallocated(s, SnapUpSize(n), FALSE)), Ok(Reallocated(s, n, TRUE)), Err(s)}
      BY <1>2, <3>1, Zenon DEF Balloc
    <3> QED BY <3>2, Zenon
  <2> HIDE DEF u
  <2>2. Ok(u).ret = OK
    BY DEF Ok
  <2> QED BY <2>1, <2>2
<1> QED BY <1>1, <1>2

\* bvcformata, of a text that fits the count and of one that does not
LEMMA BvcformataFits ==
  ASSUME NEW s, Sound(s), NEW count \in Nat, s.slen + count + 2 < PowerOf2[30], NEW text \in Seq(Int), Len(text) <= count
  PROVE  /\ \A o \in Bvcformata(s, count, text) : Made(o, s, Value(s) \o text)
         /\ \E o \in Bvcformata(s, count, text) : o.ret = OK
<1> DEFINE n == s.slen + count + 2
           S == Balloc(s, n)
<1>1. s.slen \in Nat /\ n \in Nat /\ n > 0 /\ Len(text) \in Nat /\ s.slen + Len(text) + 1 <= n
  BY LenProperties DEF Sound, Bstrings
<1>2. \A g \in S : Given(g, s, n)
  BY <1>1, BallocFacts
<1>3. \A g \in S : Given(g, s, s.slen + Len(text) + 1) /\ g.b.slen = s.slen
  <2> TAKE g \in S
  <2>1. Given(g, s, n)
    BY <1>2
  <2> HIDE DEF n, S
  <2>2. Mlen(g.b) \in Nat
    BY <2>1, LenProperties DEF Given, Sound, Bstrings, Mlen
  <2> QED BY <1>1, <2>1, <2>2 DEF Given
<1>4. \E g \in S : g.ret = OK
  BY <1>1, BallocGoesWell
<1>5. Bvcformata(s, count, text) =
        UNION {IF g.ret = OK THEN {Ok(Ended(Write(g.b, g.b.slen, text), g.b.slen + Len(text)))} ELSE {g} : g \in S}
  BY DEF Bvcformata, Then
<1> HIDE DEF S
<1>6. Bvcformata(s, count, text) =
        UNION {IF g.ret = OK THEN {Ok(Ended(Write(g.b, s.slen, text), s.slen + Len(text)))} ELSE {g} : g \in S}
  BY <1>3, <1>5
<1>7. \A o \in Bvcformata(s, count, text) : Made(o, s, Value(s) \o text)
  BY <1>3, <1>6, ThenWritten
<1>8. \E o \in Bvcformata(s, count, text) : o.ret = OK
  <2>1. PICK g \in S : g.ret = OK
    BY <1>4
  <2> DEFINE o == Ok(Ended(Write(g.b, s.slen, text), s.slen + Len(text)))
  <2>2. o \in Bvcformata(s, count, text)
    BY <1>6, <2>1
  <2>3. o.ret = OK
    BY DEF Ok
  <2> QED BY <2>2, <2>3
<1> QED BY <1>7, <1>8

LEMMA BvcformataFails ==
  ASSUME NEW s, NEW count \in Nat, NEW text \in Seq(Int), ~ (Len(text) <= count), NEW o \in Bvcformata(s, count, text),
         \A g \in Balloc(s, s.slen + count + 2) : g.ret \in {OK, ERR}
  PROVE  ~ (o.ret > ERR)
<1> DEFINE S == Balloc(s, s.slen + count + 2)
           Tried(u) == {[ret |-> -Max({IF r > count + 1 THEN r ELSE count + count, 2}),
                         b |-> Write(Write(u, u.slen, Mid(text, 0, count + 1)), u.slen, <<Nul>>)] :
                          r \in VsnReturns(text, count + 2)}
<1>1. o \in UNION {IF g.ret = OK THEN Tried(g.b) ELSE {g} : g \in S}
  BY DEF Bvcformata, Then
<1>2. PICK g \in S : o \in IF g.ret = OK THEN Tried(g.b) ELSE {g}
  BY <1>1
<1>3. g.ret \in {OK, ERR}
  BY <1>2
<1>4. CASE g.ret = OK
  <2>1. PICK r \in VsnReturns(text, count + 2) :
          o = [ret |-> -Max({IF r > count + 1 THEN r ELSE count + count, 2}),
               b |-> Write(Write(g.b, g.b.slen, Mid(text, 0, count + 1)), g.b.slen, <<Nul>>)]
    BY <1>2, <1>4, Zenon
  <2>2. r \in Int
    BY LenProperties DEF VsnReturns
  <2> DEFINE k == IF r > count + 1 THEN r ELSE count + count
  <2>3. k \in Int
    BY <2>2
  <2> HIDE DEF k
  <2>4. Max({k, 2}) \in Int /\ Max({k, 2}) >= 2
    BY <2>3, MinMaxOfTwo
  <2>5. o.ret = -Max({k, 2})
    <3> DEFINE w == Write(Write(g.b, g.b.slen, Mid(text, 0, count + 1)), g.b.slen, <<Nul>>)
    <3>1. o = [ret |-> -Max({k, 2}), b |-> w]
      BY <2>1, Zenon DEF k
    <3> HIDE DEF w
    <3> QED BY <3>1
  <2> QED BY <2>4, <2>5 DEF ERR
<1>5. CASE g.ret # OK
  BY <1>2, <1>3, <1>5 DEF ERR, OK
<1> QED BY <1>4, <1>5

\* What exceptional_sprintf makes of a format is whole, with any text, of any length and limit.
LEMMA SprintfFacts ==
  ASSUME NEW format \in Uncut, NEW text \in Uncut, NEW max \in Nat, text # Invalid,
         Len(format) + 2 < PowerOf2[30], max + 2 < PowerOf2[30]
  PROVE  SprintfWhole(max, format, text)
<1> DEFINE s == Bfromcstr(<< >>)
           R(o) == IF o.ret > ERR THEN BstringToString(o.b) ELSE Strdup(format)
           S == Bvcformata(s, max, text)
           T == {Err(s)} \cup (IF max > 0 THEN S ELSE {})
           M == Sprintf(max, format, text)
<1>1. M = UNION {R(o) : o \in T}
  BY DEF Sprintf
<1>2. text \in Seq(Int) /\ format \in Seq(Int) /\ Len(text) \in Nat /\ PowerOf2[30] \in Nat
  BY LenProperties, PowersOf2 DEF Uncut
<1>3. Sound(s) /\ Value(s) = << >> /\ s.slen = 0
  <2>1. << >> \in Seq(Int) /\ Len(<< >>) = 0
    BY EmptySeq
  <2>2. Len(<< >>) + 2 < PowerOf2[30]
    BY <1>2, <2>1
  <2> QED BY <2>1, <2>2, BfromcstrFacts
<1>4. Strdup(format) = {Invalid, format}
  BY StrdupFacts
<1>5. R(Err(s)) = {Invalid, format}
  <2>1. ~ (Err(s).ret > ERR)
    BY DEF Err, ERR
  <2> QED BY <1>4, <2>1
<1> HIDE DEF s
<1>6. s.slen + max + 2 < PowerOf2[30] /\ << >> \o text = text
  BY <1>2, <1>3, ConcatEmptySeq
<1>7. CASE Len(text) <= max
  <2>1. \A o \in S : o.ret \in {OK, ERR} /\ (o.ret = OK => Sound(o.b) /\ Value(o.b) = text)
    <3> TAKE o \in S
    <3>1. Made(o, s, Value(s) \o text)
      BY <1>2, <1>3, <1>6, <1>7, BvcformataFits
    <3> QED BY <1>3, <1>6, <3>1 DEF Made
  <2>2. PICK p \in S : p.ret = OK
    BY <1>2, <1>3, <1>6, <1>7, BvcformataFits
  <2> HIDE DEF S
  <2>3. \A o \in S : R(o) = {Invalid, text} \/ R(o) = {Invalid, format}
    <3> TAKE o \in S
    <3>1. CASE o.ret = OK
      <4>1. o.ret > ERR
        BY <3>1 DEF OK, ERR
      <4>2. BstringToString(o.b) = {Invalid, text}
        BY <2>1, <3>1, BstringToStringFacts
      <4> QED BY <4>1, <4>2
    <3>2. CASE o.ret = ERR
      <4>1. ~ (o.ret > ERR)
        BY <3>2 DEF ERR
      <4> QED BY <1>4, <4>1
    <3> QED BY <2>1, <3>1, <3>2
  <2>4. R(p) = {Invalid, text}
    <3>1. p.ret > ERR
      BY <2>2 DEF OK, ERR
    <3>2. BstringToString(p.b) = {Invalid, text}
      BY <2>1, <2>2, BstringToStringFacts
    <3> QED BY <3>1, <3>2
  <2> HIDE DEF R
  <2>5. M \subseteq {Invalid, format, text}
    BY <1>1, <1>5, <2>3
  <2>6. max > 0 => text \in M
    <3>1. max > 0 => p \in T
      BY <2>2
    <3> QED BY <1>1, <2>4, <3>1
  <2> HIDE DEF M, T
  <2>7. max = 0 \/ max > 0
    OBVIOUS
  <2> QED BY <1>7, <2>5, <2>6, <2>7 DEF SprintfWhole, M
<1>8. CASE ~ (Len(text) <= max)
  <2>1. \A g \in Balloc(s, s.slen + max + 2) : g.ret \in {OK, ERR}
    <3> TAKE g \in Balloc(s, s.slen + max + 2)
    <3>1. Given(g, s, s.slen + max + 2)
      <4>1. s.slen + max + 2 \in Nat /\ s.slen + max + 2 > 0
        BY <1>3
      <4> QED BY <1>3, <1>6, <4>1, BallocFacts
    <3> QED BY <3>1 DEF Given
  <2>2. \A o \in S : R(o) = {Invalid, format}
    <3> TAKE o \in S
    <3>1. ~ (o.ret > ERR)
      BY <1>2, <1>8, <2>1, BvcformataFails
    <3> QED BY <1>4, <3>1
  <2> HIDE DEF R, S
  <2>3. M = {Invalid, format}
    BY <1>1, <1>5, <2>2
  <2> HIDE DEF M
  <2>4. Len(text) > max
    BY <1>2, <1>8
  <2> QED BY <2>3, <2>4 DEF SprintfWhole, M
<1> QED BY <1>7, <1>8

-----------------------------------------------------------------------------
(* Escaping: a search that goes on behind what it found, and what is gathered on the way *)

\* nx[at] is where, at at or behind it, something is found in a text of length n, or ERR.
Search(nx, n) == nx \in [Nat -> Int] /\ \A at \in Nat : nx[at] = ERR \/ nx[at] \in at .. n - 1

\* A text for every position
TextAt(f, S) == f \in [Nat -> Seq(S)]

\* h gathers pre for every place that is found, and base for the last.
Gathers(h, nx, base, pre) ==
  h = [at \in Nat |-> IF nx[at] = ERR THEN base[at] ELSE pre[at] \o h[nx[at] + 1]]

LEMMA GatheringExists ==
  ASSUME NEW S, NEW n \in Nat, NEW nx, Search(nx, n), NEW base, TextAt(base, S), NEW pre, TextAt(pre, S)
  PROVE  \E h : Gathers(h, nx, base, pre)
<1> DEFINE Q(h, at) == h[at] = IF nx[at] = ERR THEN base[at] ELSE pre[at] \o h[nx[at] + 1]
           T == {k \in Nat : \E h : TextAt(h, S) /\ \A at \in Nat : at + k >= n => Q(h, at)}
<1>1. \A at \in Nat : nx[at] = ERR \/ (nx[at] \in Nat /\ at <= nx[at] /\ nx[at] < n)
  BY DEF Search, ERR
<1>2. 0 \in T
  <2>1. \A at \in Nat : at + 0 >= n => nx[at] = ERR
    BY <1>1
  <2>2. \A at \in Nat : at + 0 >= n => Q(base, at)
    BY <2>1
  <2> QED BY <2>2
<1>3. ASSUME NEW k \in Nat, k \in T PROVE k + 1 \in T
  <2>1. PICK h : TextAt(h, S) /\ \A at \in Nat : at + k >= n => Q(h, at)
    BY <1>3
  <2>2. CASE k + 1 <= n
    <3> DEFINE m == n - (k + 1)
               x == IF nx[m] = ERR THEN base[m] ELSE pre[m] \o h[nx[m] + 1]
               g == [h EXCEPT ![m] = x]
    <3>1. m \in Nat
      BY <2>2
    <3>0. \A i \in Nat : i + (k + 1) >= n => i = m \/ (i + k >= n /\ i > m)
      OBVIOUS
    <3> HIDE DEF m
    <3>2. x \in Seq(S)
      <4>1. CASE nx[m] = ERR
        BY <3>1, <4>1 DEF TextAt
      <4>2. CASE nx[m] # ERR
        <5>1. nx[m] + 1 \in Nat
          BY <1>1, <3>1, <4>2
        <5>2. pre[m] \in Seq(S) /\ h[nx[m] + 1] \in Seq(S)
          BY <2>1, <3>1, <5>1 DEF TextAt
        <5> QED BY <4>2, <5>2, ConcatProperties
      <4> QED BY <4>1, <4>2
    <3> HIDE DEF x
    <3>3. TextAt(g, S) /\ g[m] = x /\ \A i \in Nat : i # m => g[i] = h[i]
      BY <2>1, <3>1, <3>2 DEF TextAt
    <3> HIDE DEF g
    <3>4. ASSUME NEW at \in Nat, at + (k + 1) >= n PROVE Q(g, at)
      <4>1. at = m \/ (at + k >= n /\ at > m)
        BY <3>0, <3>4
      <4>2. nx[at] # ERR => nx[at] + 1 \in Nat /\ nx[at] + 1 > at
        BY <1>1
      <4>3. nx[at] # ERR => g[nx[at] + 1] = h[nx[at] + 1]
        BY <3>1, <3>3, <4>1, <4>2
      <4>4. CASE at = m
        BY <3>3, <4>3, <4>4 DEF x
      <4>5. CASE at + k >= n /\ at > m
        <5>1. Q(h, at) /\ g[at] = h[at]
          BY <2>1, <3>1, <3>3, <4>5
        <5> QED BY <4>3, <5>1
      <4> QED BY <4>1, <4>4, <4>5
    <3> HIDE DEF Q
    <3> QED BY <3>3, <3>4
  <2>3. CASE ~ (k + 1 <= n)
    <3>1. \A at \in Nat : at + k >= n
      BY <2>3
    <3> QED BY <2>1, <3>1
  <2> QED BY <2>2, <2>3
<1> HIDE DEF T
<1>4. n \in T
  BY <1>2, <1>3, NatSetInduction
<1>5. PICK h : TextAt(h, S) /\ \A at \in Nat : at + n >= n => Q(h, at)
  BY <1>4 DEF T
<1>6. \A at \in Nat : Q(h, at)
  BY <1>5
<1>7. h = [at \in Nat |-> IF nx[at] = ERR THEN base[at] ELSE pre[at] \o h[nx[at] + 1]]
  BY <1>5, <1>6 DEF TextAt
<1> QED BY <1>7 DEF Gathers

Gathered(h, nx, base, pre, S) ==
  /\ \A at \in Nat : h[at] \in Seq(S)
  /\ \A at \in Nat : nx[at] = ERR => h[at] = base[at]
  /\ \A at \in Nat : nx[at] # ERR => h[at] = pre[at] \o h[nx[at] + 1]

LEMMA GatheredFacts ==
  ASSUME NEW S, NEW n \in Nat, NEW nx, Search(nx, n), NEW base, TextAt(base, S), NEW pre, TextAt(pre, S),
         NEW h, Gathers(h, nx, base, pre)
  PROVE  Gathered(h, nx, base, pre, S)
<1>1. \A at \in Nat : nx[at] = ERR \/ (nx[at] \in Nat /\ at <= nx[at] /\ nx[at] < n)
  BY DEF Search, ERR
<1>2. \A at \in Nat : h[at] = IF nx[at] = ERR THEN base[at] ELSE pre[at] \o h[nx[at] + 1]
  BY DEF Gathers
<1> DEFINE T == {k \in Nat : \A at \in Nat : at + k >= n => h[at] \in Seq(S)}
<1>3. 0 \in T
  <2>1. \A at \in Nat : at + 0 >= n => nx[at] = ERR
    BY <1>1
  <2>2. \A at \in Nat : base[at] \in Seq(S)
    BY DEF TextAt
  <2> QED BY <1>2, <2>1, <2>2
<1>4. ASSUME NEW k \in Nat, k \in T PROVE k + 1 \in T
  <2> SUFFICES ASSUME NEW at \in Nat, at + (k + 1) >= n PROVE h[at] \in Seq(S)
    OBVIOUS
  <2>1. CASE nx[at] = ERR
    BY <1>2, <2>1 DEF TextAt
  <2>2. CASE nx[at] # ERR
    <3>1. nx[at] + 1 \in Nat /\ (nx[at] + 1) + k >= n
      BY <1>1, <2>2
    <3>2. h[nx[at] + 1] \in Seq(S)
      BY <1>4, <3>1
    <3>3. pre[at] \o h[nx[at] + 1] \in Seq(S)
      <4>1. pre[at] \in Seq(S)
        BY DEF TextAt
      <4> QED BY <3>2, <4>1, ConcatProperties
    <3> QED BY <1>2, <2>2, <3>3
  <2> QED BY <2>1, <2>2
<1> HIDE DEF T
<1>5. n \in T
  BY <1>3, <1>4, NatSetInduction
<1>6. \A at \in Nat : h[at] \in Seq(S)
  BY <1>5 DEF T
<1> QED BY <1>2, <1>6 DEF Gathered

\* The places that are found, in order, and where the search goes on behind each
Places(h, nx) == Gathers(h, nx, [at \in Nat |-> << >>], [at \in Nat |-> <<nx[at]>>])
Behind(m, j) == IF j = 0 THEN 0 ELSE m[j] + 1

\* m lists what is found in a text of length n.
Lists(m, nx, n) ==
  /\ m \in Seq(Int) /\ Len(m) <= n
  /\ \A j \in 0 .. Len(m) : Behind(m, j) \in 0 .. n
  /\ \A j \in 0 .. Len(m) - 1 : nx[Behind(m, j)] = m[j + 1] /\ m[j + 1] \in Behind(m, j) .. n - 1
  /\ nx[Behind(m, Len(m))] = ERR

LEMMA EmptyAt == ASSUME NEW S PROVE TextAt([at \in Nat |-> << >>], S)
<1>1. << >> \in Seq(S)
  BY EmptySeq
<1> QED BY <1>1 DEF TextAt

LEMMA SingleAt == ASSUME NEW S, NEW f \in [Nat -> S] PROVE TextAt([at \in Nat |-> <<f[at]>>], S)
<1>1. \A at \in Nat : <<f[at]>> \in Seq(S)
  OBVIOUS
<1> QED BY <1>1 DEF TextAt

LEMMA SingleBefore ==
  ASSUME NEW S, NEW e \in S, NEW t \in Seq(S)
  PROVE  /\ <<e>> \o t \in Seq(S) /\ Len(<<e>> \o t) = Len(t) + 1 /\ (<<e>> \o t)[1] = e
         /\ \A i \in 1 .. Len(t) : (<<e>> \o t)[i + 1] = t[i]
<1> DEFINE x == <<e>>
<1>1. x \in Seq(S) /\ Len(x) = 1 /\ x[1] = e
  OBVIOUS
<1>2. Len(t) \in Nat
  BY LenProperties
<1> HIDE DEF x
<1>3. /\ x \o t \in Seq(S) /\ Len(x \o t) = Len(x) + Len(t)
      /\ \A i \in 1 .. Len(x) + Len(t) : (x \o t)[i] = IF i <= Len(x) THEN x[i] ELSE t[i - Len(x)]
  BY <1>1, ConcatProperties
<1>4. \A i \in 1 .. 1 + Len(t) : (x \o t)[i] = IF i <= 1 THEN x[i] ELSE t[i - 1]
  BY <1>1, <1>3
<1>5. (x \o t)[1] = e
  <2>1. 1 \in 1 .. 1 + Len(t)
    BY <1>2
  <2> QED BY <1>1, <1>4, <2>1
<1>6. \A i \in 1 .. Len(t) : (x \o t)[i + 1] = t[i]
  <2> TAKE i \in 1 .. Len(t)
  <2>1. i + 1 \in 1 .. 1 + Len(t) /\ ~ (i + 1 <= 1) /\ (i + 1) - 1 = i
    BY <1>2
  <2> QED BY <1>4, <2>1
<1> QED BY <1>1, <1>2, <1>3, <1>5, <1>6 DEF x

LEMMA PlacesListed ==
  ASSUME NEW n \in Nat, NEW nx, Search(nx, n), NEW h, Places(h, nx)
  PROVE  Lists(h[0], nx, n)
<1> DEFINE m == h[0]
           k == Len(m)
           Follows(at, j) == Len(h[at]) = k - j /\ \A i \in 1 .. k - j : h[at][i] = m[j + i]
           Good(j) == Behind(m, j) \in j .. n /\ Follows(Behind(m, j), j)
           T == {j \in Nat : j <= k => Good(j)}
<1>1. /\ \A at \in Nat : h[at] \in Seq(Int)
      /\ \A at \in Nat : nx[at] = ERR => h[at] = << >>
      /\ \A at \in Nat : nx[at] # ERR => h[at] = <<nx[at]>> \o h[nx[at] + 1]
  <2> DEFINE base == [at \in Nat |-> << >>]
             pre == [at \in Nat |-> <<nx[at]>>]
  <2>1. TextAt(base, Int) /\ TextAt(pre, Int)
    BY EmptyAt, SingleAt DEF Search
  <2>2. \A at \in Nat : base[at] = << >> /\ pre[at] = <<nx[at]>>
    OBVIOUS
  <2>3. Gathers(h, nx, base, pre)
    BY DEF Places
  <2> HIDE DEF base, pre
  <2>4. /\ \A at \in Nat : h[at] \in Seq(Int)
        /\ \A at \in Nat : nx[at] = ERR => h[at] = base[at]
        /\ \A at \in Nat : nx[at] # ERR => h[at] = pre[at] \o h[nx[at] + 1]
    <3>1. Gathered(h, nx, base, pre, Int)
      BY <2>1, <2>3, GatheredFacts
    <3> QED BY <3>1 DEF Gathered
  <2> QED BY <2>2, <2>4
<1>2. \A at \in Nat : nx[at] = ERR \/ (nx[at] \in Nat /\ at <= nx[at] /\ nx[at] < n)
  BY DEF Search, ERR
<1>3. m \in Seq(Int) /\ k \in Nat
  BY <1>1, LenProperties
<1> HIDE DEF m, k
<1>4. Good(0)
  BY <1>3 DEF Behind, m, k
\* One more place
<1>5. ASSUME NEW j \in Nat, j + 1 <= k, Good(j)
      PROVE  /\ Good(j + 1)
             /\ nx[Behind(m, j)] = m[j + 1] /\ m[j + 1] \in Behind(m, j) .. n - 1
  <2> DEFINE at == Behind(m, j)
             p == nx[at]
  <2>1. at \in Nat /\ at >= j /\ at <= n /\ Follows(at, j) /\ k - j \in Nat /\ 1 \in 1 .. k - j
    BY <1>3, <1>5
  <2> HIDE DEF at
  <2>2. p # ERR
    <3>1. Len(<< >>) = 0
      BY EmptySeq
    <3> QED BY <1>1, <1>3, <1>5, <2>1, <3>1
  <2>3. p \in Nat /\ at <= p /\ p < n /\ p + 1 \in Nat /\ h[p + 1] \in Seq(Int) /\ h[at] = <<p>> \o h[p + 1]
    BY <1>1, <1>2, <2>1, <2>2
  <2> HIDE DEF p
  <2> DEFINE t == h[p + 1]
  <2>4. Len(h[at]) = Len(t) + 1 /\ h[at][1] = p /\ \A i \in 1 .. Len(t) : h[at][i + 1] = t[i]
    BY <2>3, SingleBefore
  <2>5. m[j + 1] = p
    BY <2>1, <2>4
  <2>6. Behind(m, j + 1) = p + 1
    BY <2>5 DEF Behind
  <2>7. Len(t) = k - (j + 1)
    <3>1. Len(t) \in Nat
      BY <2>3, LenProperties
    <3>2. Len(h[at]) = k - j
      BY <2>1
    <3> HIDE DEF t
    <3>3. Len(t) + 1 = k - j
      BY <2>4, <3>2
    <3> QED BY <1>3, <3>1, <3>3
  <2>8. \A i \in 1 .. k - (j + 1) : t[i] = m[(j + 1) + i]
    <3> TAKE i \in 1 .. k - (j + 1)
    <3>1. i + 1 \in 1 .. k - j /\ i \in 1 .. Len(t) /\ j + (i + 1) = (j + 1) + i
      BY <1>3, <2>7
    <3>2. h[at][i + 1] = m[j + (i + 1)]
      BY <2>1, <3>1
    <3> QED BY <2>4, <3>1, <3>2
  <2>9. Good(j + 1)
    <3>1. p + 1 \in j + 1 .. n
      BY <2>1, <2>3
    <3> QED BY <2>6, <2>7, <2>8, <3>1
  <2>10. p \in at .. n - 1
    BY <2>1, <2>3
  <2> HIDE DEF Good
  <2> QED BY <2>5, <2>9, <2>10 DEF at, p
<1> HIDE DEF Good
<1>6. 0 \in T
  BY <1>4
<1>7. ASSUME NEW j \in Nat, j \in T PROVE j + 1 \in T
  <2>1. CASE j + 1 <= k
    <3>1. j <= k
      BY <1>3, <2>1
    <3>2. Good(j)
      BY <1>7, <3>1
    <3> QED BY <1>5, <2>1, <3>2
  <2>2. CASE ~ (j + 1 <= k)
    BY <2>2
  <2> QED BY <2>1, <2>2
<1> HIDE DEF T
<1>8. Nat \subseteq T
  BY <1>6, <1>7, NatSetInduction
<1>9. \A j \in 0 .. k : j \in Nat /\ Good(j)
  <2> TAKE j \in 0 .. k
  <2>1. j \in Nat /\ j <= k
    BY <1>3
  <2> QED BY <1>8, <2>1 DEF T
<1>10. \A j \in 0 .. k : Behind(m, j) \in 0 .. n
  <2> TAKE j \in 0 .. k
  <2>1. Behind(m, j) \in j .. n /\ j \in Nat
    BY <1>9 DEF Good
  <2> QED BY <2>1
<1>11. \A j \in 0 .. k - 1 : nx[Behind(m, j)] = m[j + 1] /\ m[j + 1] \in Behind(m, j) .. n - 1
  <2> TAKE j \in 0 .. k - 1
  <2>1. j \in Nat /\ j \in 0 .. k /\ j + 1 <= k
    BY <1>3
  <2> QED BY <1>5, <1>9, <2>1
<1>12. k <= n /\ nx[Behind(m, k)] = ERR
  <2> DEFINE at == Behind(m, k)
  <2>1. Good(k)
    BY <1>3, <1>9
  <2>2. at \in k .. n /\ Len(h[at]) = k - k
    BY <2>1 DEF Good
  <2> HIDE DEF at
  <2>3. at \in Nat /\ k <= n /\ Len(h[at]) = 0
    BY <1>3, <2>2
  <2>4. ASSUME nx[at] # ERR PROVE FALSE
    <3>1. nx[at] \in Nat /\ nx[at] + 1 \in Nat
      BY <1>2, <2>3, <2>4
    <3>2. h[nx[at] + 1] \in Seq(Int) /\ Len(h[nx[at] + 1]) \in Nat
      BY <1>1, <3>1, LenProperties
    <3>3. Len(<<nx[at]>> \o h[nx[at] + 1]) = Len(h[nx[at] + 1]) + 1
      BY <3>1, <3>2, SingleBefore
    <3>4. h[at] = <<nx[at]>> \o h[nx[at] + 1]
      BY <1>1, <2>3, <2>4
    <3> DEFINE t == h[nx[at] + 1]
    <3>5. Len(t) + 1 = 0 /\ Len(t) \in Nat
      BY <2>3, <3>2, <3>3, <3>4
    <3> HIDE DEF t
    <3> QED BY <3>5
  <2> QED BY <2>3, <2>4 DEF at
<1> QED BY <1>3, <1>10, <1>11, <1>12 DEF Lists, m, k

-----------------------------------------------------------------------------
(* Replacing, in place, what was found *)

\* The text v with k places in it, d lists them and the end of v, and x[i] is what comes
\* behind the piece between the i-th place and the next, each place replaced by r.
Divides(v, r, k, d, x) ==
  /\ v \in Seq(Int) /\ r \in Seq(Int) /\ Len(r) = 2 /\ k \in Nat
  /\ \A i \in 1 .. k + 1 : d[i] \in 0 .. Len(v)
  /\ \A i \in 1 .. k : d[i] < d[i + 1]
  /\ d[k + 1] = Len(v)
  /\ \A i \in 0 .. k : x[i] \in Seq(Int)
  /\ x[k] = << >>
  /\ \A i \in 0 .. k - 1 : x[i] = r \o (SubSeq(v, d[i + 1] + 2, d[i + 2]) \o x[i + 1])

\* A buffer of v in which what is behind the i-th piece is in its place
SpreadTo(u, v, k, d, x, i) ==
  /\ u \in Bstrings /\ u.over = 0 /\ u.slen = Len(v)
  /\ Len(v) + k < Mlen(u)
  /\ \A p \in 1 .. d[i + 1] : u.data[p] = v[p]
  /\ d[i + 1] + i + Len(x[i]) = Len(v) + k
  /\ \A p \in 1 .. Len(x[i]) : u.data[d[i + 1] + i + p] = x[i][p]

Shifted(u, d, i) == Move(u, (d[i + 1] + 1) + (i + 1), d[i + 1] + 1, d[i + 2] - (d[i + 1] + 1))
Replaced(u, r, d, i) == Write(Shifted(u, d, i), ((d[i + 1] + 1) + (i + 1)) - 2, r)

LEMMA ReadFacts ==
  ASSUME NEW u \in Bstrings, NEW at \in Nat, NEW n \in Nat, at + n <= Mlen(u)
  PROVE  /\ Read(u, at, n) \in Seq(Int) /\ Len(Read(u, at, n)) = n
         /\ \A i \in 1 .. n : Read(u, at, n)[i] = u.data[at + i]
<1> DEFINE t == Read(u, at, n)
<1>1. u.data \in Seq(Int) /\ Mlen(u) = Len(u.data) /\ Len(u.data) \in Nat
  BY LenProperties DEF Bstrings, Mlen
<1>2. \A i \in 1 .. n : at + i <= Mlen(u) /\ at + i \in 1 .. Len(u.data)
  BY <1>1
<1>3. \A i \in 1 .. n : u.data[at + i] \in Int
  BY <1>1, <1>2, ElementOfSeq
<1>4. t = [i \in 1 .. n |-> u.data[at + i]]
  BY <1>2 DEF Read
<1> HIDE DEF t
<1>5. t \in [1 .. n -> Int] /\ \A i \in 1 .. n : t[i] = u.data[at + i]
  BY <1>3, <1>4
<1>6. t \in Seq(Int) /\ Len(t) = n
  BY <1>5, MadeSeq
<1> QED BY <1>5, <1>6 DEF t

\* What a write, or a move, that stays within a buffer leaves
Written(z, u, at, text) ==
  /\ z \in Bstrings /\ z.over = 0 /\ z.slen = u.slen /\ Mlen(z) = Mlen(u)
  /\ \A i \in 1 .. Mlen(u) : z.data[i] = IF i - at \in 1 .. Len(text) THEN text[i - at] ELSE u.data[i]

MovedIn(z, u, to, at, n) ==
  /\ z \in Bstrings /\ z.over = 0 /\ z.slen = u.slen /\ Mlen(z) = Mlen(u)
  /\ \A i \in 1 .. Mlen(u) : z.data[i] = IF i - to \in 1 .. n THEN u.data[at + (i - to)] ELSE u.data[i]

LEMMA WrittenFacts ==
  ASSUME NEW u \in Bstrings, u.over = 0, NEW at \in Nat, NEW text \in Seq(Int), at + Len(text) <= Mlen(u)
  PROVE  Written(Write(u, at, text), u, at, text)
<1> DEFINE z == Write(u, at, text)
<1>1. z \in Bstrings /\ z.slen = u.slen /\ Mlen(z) = Mlen(u)
  BY WriteFacts
<1>2. z.over = 0
  BY WriteFacts
<1>3. \A i \in 1 .. Mlen(u) : z.data[i] = IF i - at \in 1 .. Len(text) THEN text[i - at] ELSE u.data[i]
  BY WriteFacts
<1> HIDE DEF z
<1>4. Written(z, u, at, text)
  BY <1>1, <1>2, <1>3 DEF Written
<1> QED BY <1>4 DEF z

LEMMA MoveFacts ==
  ASSUME NEW u \in Bstrings, u.over = 0, NEW to \in Nat, NEW at \in Nat, NEW n \in Nat,
         to + n <= Mlen(u), at + n <= Mlen(u)
  PROVE  MovedIn(Move(u, to, at, n), u, to, at, n)
<1> DEFINE t == Read(u, at, n)
           w == Write(u, to, t)
<1>1. t \in Seq(Int) /\ Len(t) = n /\ \A i \in 1 .. n : t[i] = u.data[at + i]
  BY ReadFacts
<1>2. Move(u, to, at, n) = IF n > 0 THEN w ELSE u
  BY DEF Move
<1> HIDE DEF t
<1>3. w \in Bstrings /\ w.slen = u.slen /\ Mlen(w) = Mlen(u) /\ w.over = 0
  BY <1>1, WriteFacts
<1>4. \A i \in 1 .. Mlen(u) : w.data[i] = IF i - to \in 1 .. Len(t) THEN t[i - to] ELSE u.data[i]
  BY <1>1, WriteFacts
<1> HIDE DEF w
<1>5. \A i \in 1 .. Mlen(u) : w.data[i] = IF i - to \in 1 .. n THEN u.data[at + (i - to)] ELSE u.data[i]
  BY <1>1, <1>4
<1>6. ~ (n > 0) => \A i \in 1 .. Mlen(u) : i - to \notin 1 .. n
  OBVIOUS
<1> QED BY <1>2, <1>3, <1>5, <1>6 DEF MovedIn

LEMMA ReplacedFacts ==
  ASSUME NEW v, NEW r, NEW k, NEW d, NEW x, Divides(v, r, k, d, x),
         NEW i \in 0 .. k - 1, NEW u, SpreadTo(u, v, k, d, x, i + 1)
  PROVE  SpreadTo(Replaced(u, r, d, i), v, k, d, x, i)
<1> DEFINE N == Len(v)
           L == Mlen(u)
           a == d[i + 1]
           e == d[i + 2]
           y == x[i + 1]
           mid == SubSeq(v, a + 2, e)
           to == (a + 1) + (i + 1)
           n == e - (a + 1)
           w == Move(u, to, a + 1, n)
           z == Write(w, to - 2, r)
<1>1. /\ v \in Seq(Int) /\ r \in Seq(Int) /\ Len(r) = 2 /\ k \in Nat /\ N \in Nat
      /\ i \in Nat /\ i + 1 \in Nat /\ i + 1 <= k
  BY LenProperties DEF Divides
<1>2. a \in Nat /\ e \in Nat /\ a < e /\ e <= N
  <2>1. i + 1 \in 1 .. k + 1 /\ i + 2 \in 1 .. k + 1 /\ i + 1 \in 1 .. k /\ (i + 1) + 1 = i + 2
    BY <1>1
  <2>2. d[i + 1] \in 0 .. N /\ d[i + 2] \in 0 .. N /\ d[i + 1] < d[i + 2]
    BY <2>1 DEF Divides
  <2> HIDE DEF N
  <2> QED BY <1>1, <2>2
<1>3. y \in Seq(Int) /\ Len(y) \in Nat /\ x[i] = r \o (mid \o y)
  <2>1. i + 1 \in 0 .. k /\ i \in 0 .. k - 1
    BY <1>1
  <2>2. y \in Seq(Int) /\ x[i] = r \o (SubSeq(v, d[i + 1] + 2, d[i + 2]) \o x[i + 1])
    BY <2>1 DEF Divides
  <2> QED BY <2>2, LenProperties
<1>4. /\ u \in Bstrings /\ u.over = 0 /\ u.slen = N /\ N + k < L /\ L \in Nat
      /\ \A p \in 1 .. e : u.data[p] = v[p]
      /\ e + (i + 1) + Len(y) = N + k
      /\ \A p \in 1 .. Len(y) : u.data[e + (i + 1) + p] = y[p]
  <2>1. (i + 1) + 1 = i + 2
    BY <1>1
  <2>2. u \in Bstrings /\ L \in Nat
    BY LenProperties DEF SpreadTo, Bstrings, Mlen
  <2> QED BY <2>1, <2>2 DEF SpreadTo
<1>5. Replaced(u, r, d, i) = z
  BY DEF Replaced, Shifted
<1>6. /\ mid \in Seq(Int) /\ Len(mid) = n /\ n \in Nat
      /\ \A p \in 1 .. n : mid[p] = v[a + 1 + p]
  <2> HIDE DEF a, e
  <2>1. \A p \in a + 2 .. e : v[p] \in Int
    <3>1. \A p \in a + 2 .. e : p \in 1 .. Len(v)
      BY <1>1, <1>2
    <3> QED BY <1>1, <3>1, ElementOfSeq
  <2>2. a + 2 \in Int /\ e \in Int /\ n = (IF a + 2 <= e THEN e - (a + 2) + 1 ELSE 0) /\ n \in Nat
    BY <1>2
  <2>3. /\ mid \in Seq(Int) /\ Len(mid) = IF a + 2 <= e THEN e - (a + 2) + 1 ELSE 0
        /\ \A p \in 1 .. e - (a + 2) + 1 : mid[p] = v[(a + 2) + p - 1]
    BY <2>1, <2>2, SubSeqProperties
  <2>4. \A p \in 1 .. n : p \in 1 .. e - (a + 2) + 1 /\ (a + 2) + p - 1 = a + 1 + p
    BY <1>2
  <2> HIDE DEF mid, n
  <2> QED BY <2>2, <2>3, <2>4
<1> HIDE DEF N, L, a, e, y, mid, n
<1>7. /\ to \in Nat /\ to - 2 \in Nat /\ a + 1 \in Nat
      /\ to + n = e + (i + 1) /\ to + n <= L /\ (a + 1) + n <= L
      /\ (to - 2) + 2 <= L /\ to - 2 = a + i
  BY <1>1, <1>2, <1>3, <1>4 DEF n
<1> HIDE DEF to
<1>8. /\ w \in Bstrings /\ w.over = 0 /\ w.slen = N /\ Mlen(w) = L
      /\ \A p \in 1 .. L : w.data[p] = IF p - to \in 1 .. n THEN u.data[(a + 1) + (p - to)] ELSE u.data[p]
  <2>1. (a + 1) + n <= Mlen(u) /\ to + n <= Mlen(u) /\ L = Mlen(u)
    BY <1>7 DEF L
  <2>2. MovedIn(w, u, to, a + 1, n)
    BY <1>4, <1>6, <1>7, <2>1, MoveFacts DEF w
  <2> QED BY <1>4, <2>1, <2>2 DEF MovedIn
<1> HIDE DEF w
<1>9. /\ z \in Bstrings /\ z.slen = N /\ Mlen(z) = L /\ z.over = 0
      /\ \A p \in 1 .. L : z.data[p] = IF p - (to - 2) \in 1 .. 2 THEN r[p - (to - 2)] ELSE w.data[p]
  <2> DEFINE at == to - 2
  <2>1. at \in Nat /\ at + Len(r) <= Mlen(w)
    BY <1>1, <1>7, <1>8
  <2> HIDE DEF at
  <2>2. Written(Write(w, at, r), w, at, r)
    BY <1>1, <1>8, <2>1, WrittenFacts
  <2>3. z = Write(w, at, r)
    BY DEF at
  <2> HIDE DEF z
  <2>4. Written(z, w, at, r)
    BY <2>2, <2>3
  <2> QED BY <1>1, <1>8, <2>4 DEF Written, at
<1> HIDE DEF z
<1>10. /\ mid \o y \in Seq(Int) /\ Len(mid \o y) = n + Len(y)
       /\ \A p \in 1 .. n + Len(y) : (mid \o y)[p] = IF p <= n THEN mid[p] ELSE y[p - n]
  BY <1>3, <1>6, ConcatProperties
<1> DEFINE t == mid \o y
<1> HIDE DEF t
<1>11. /\ x[i] \in Seq(Int) /\ Len(x[i]) = 2 + (n + Len(y))
       /\ \A p \in 1 .. 2 + (n + Len(y)) : x[i][p] = IF p <= 2 THEN r[p] ELSE t[p - 2]
  <2>1. t \in Seq(Int) /\ Len(t) = n + Len(y) /\ x[i] = r \o t
    BY <1>3, <1>10 DEF t
  <2> DEFINE c == Len(t)
  <2>2. r \o t \in Seq(Int) /\ Len(r \o t) = Len(r) + c
        /\ \A p \in 1 .. Len(r) + c : (r \o t)[p] = IF p <= Len(r) THEN r[p] ELSE t[p - Len(r)]
    <3>1. r \in Seq(Int) /\ t \in Seq(Int)
      BY <1>1, <2>1
    <3> QED BY ONLY <3>1, ConcatProperties
  <2> HIDE DEF c
  <2>3. c = n + Len(y)
    BY <2>1 DEF c
  <2> QED BY <1>1, <2>1, <2>2, <2>3
\* The piece before is as it was.
<1>12. \A p \in 1 .. a : z.data[p] = v[p]
  <2> TAKE p \in 1 .. a
  <2>1. p \in 1 .. L /\ p \in 1 .. e /\ p - (to - 2) \notin 1 .. 2 /\ p - to \notin 1 .. n
    BY <1>1, <1>2, <1>4, <1>7
  <2> QED BY <1>4, <1>8, <1>9, <2>1
<1>13. a + i + Len(x[i]) = N + k
  <2>1. Len(y) \in Nat /\ n \in Nat
    BY <1>3, <1>6
  <2> DEFINE c == Len(y)
             f == Len(x[i])
  <2>2. c \in Nat /\ f = 2 + (n + c) /\ e + (i + 1) + c = N + k
    BY <1>4, <1>11, <2>1
  <2> HIDE DEF c, f
  <2>3. a + i + f = N + k
    BY <1>1, <1>2, <2>2 DEF n
  <2> QED BY <2>3 DEF f
\* The replacement, the piece behind it, and what was behind that
<1>14. \A p \in 1 .. Len(x[i]) : z.data[a + i + p] = x[i][p]
  <2> TAKE p \in 1 .. Len(x[i])
  <2> DEFINE q == a + i + p
  <2>0. p \in Nat /\ p >= 1 /\ p <= 2 + (n + Len(y)) /\ Len(y) \in Nat /\ n \in Nat
    BY <1>3, <1>6, <1>11
  <2>1. q \in 1 .. L /\ q - (to - 2) = p /\ q - to = p - 2
    <3> DEFINE f == Len(x[i])
    <3>1. f \in Nat /\ p <= f /\ a + i + f = N + k
      BY <1>1, <1>11, <1>13, <2>0
    <3>2. N + k < L /\ L \in Nat /\ to - 2 = a + i /\ to \in Nat /\ to = a + i + 2
      BY <1>1, <1>2, <1>4, <1>7
    <3> HIDE DEF f
    <3> QED BY <1>1, <1>2, <2>0, <3>1, <3>2
  <2> HIDE DEF q
  <2>2. z.data[q] = IF p \in 1 .. 2 THEN r[p] ELSE w.data[q]
    BY <1>9, <2>1
  <2>3. w.data[q] = IF p - 2 \in 1 .. n THEN u.data[(a + 1) + (p - 2)] ELSE u.data[q]
    BY <1>8, <2>1
  <2>4. x[i][p] = IF p <= 2 THEN r[p] ELSE t[p - 2]
    BY <1>11, <2>0
  <2>5. CASE p <= 2
    <3>1. p \in 1 .. 2
      BY <2>0, <2>5
    <3> QED BY <2>2, <2>4, <2>5, <3>1 DEF q
  <2>6. CASE ~ (p <= 2) /\ p - 2 <= n
    <3>1. p - 2 \in 1 .. n /\ p - 2 \in 1 .. n + Len(y) /\ p \notin 1 .. 2
      BY <2>0, <2>6
    <3>2. t[p - 2] = mid[p - 2]
      BY <1>10, <2>6, <3>1 DEF t
    <3>3. (a + 1) + (p - 2) = a + 1 + (p - 2) /\ a + 1 + (p - 2) \in 1 .. e
      BY <1>2, <2>0, <3>1 DEF n
    <3>4. z.data[q] = v[a + 1 + (p - 2)]
      BY <1>4, <2>2, <2>3, <3>1, <3>3
    <3>5. mid[p - 2] = v[a + 1 + (p - 2)]
      BY <1>6, <3>1
    <3> QED BY <2>4, <2>6, <3>2, <3>4, <3>5 DEF q
  <2>7. CASE ~ (p <= 2) /\ ~ (p - 2 <= n)
    <3>1. /\ p - 2 \notin 1 .. n /\ p - 2 \in 1 .. n + Len(y) /\ p \notin 1 .. 2
          /\ (p - 2) - n \in 1 .. Len(y)
      BY <2>0, <2>7
    <3>2. t[p - 2] = y[(p - 2) - n]
      BY <1>10, <2>7, <3>1 DEF t
    <3>3. q = e + (i + 1) + ((p - 2) - n)
      BY <1>1, <1>2, <2>0 DEF n, q
    <3>4. z.data[q] = y[(p - 2) - n]
      BY <1>4, <2>2, <2>3, <3>1, <3>3
    <3> QED BY <2>4, <2>7, <3>2, <3>4 DEF q
  <2> QED BY <2>5, <2>6, <2>7 DEF q
<1> QED BY <1>1, <1>4, <1>5, <1>9, <1>12, <1>13, <1>14 DEF SpreadTo, N, a

\* The buffers from the one before anything was moved, f[k], to the one where all is in place
Spreading(f, u, r, d, k) == f = [i \in 0 .. k |-> IF i = k THEN u ELSE Replaced(f[i + 1], r, d, i)]

LEMMA SpreadingExists ==
  ASSUME NEW u, NEW r, NEW d, NEW k \in Nat
  PROVE  \E f : Spreading(f, u, r, d, k)
<1> DEFINE Q(g, i) == g[i] = IF i = k THEN u ELSE Replaced(g[i + 1], r, d, i)
           Over(g) == g = [i \in 0 .. k |-> g[i]]
           T == {j \in Nat : j <= k => \E g : Over(g) /\ \A i \in 0 .. k : i + j >= k => Q(g, i)}
<1>1. 0 \in T
  <2> DEFINE g == [i \in 0 .. k |-> u]
  <2>1. Over(g) /\ \A i \in 0 .. k : i + 0 >= k => g[i] = u /\ i = k
    OBVIOUS
  <2> HIDE DEF g
  <2>2. \A i \in 0 .. k : i + 0 >= k => Q(g, i)
    BY <2>1
  <2> HIDE DEF Q, Over
  <2> QED BY <2>1, <2>2
<1>2. ASSUME NEW j \in Nat, j \in T PROVE j + 1 \in T
  <2> SUFFICES ASSUME j + 1 <= k PROVE \E g : Over(g) /\ \A i \in 0 .. k : i + (j + 1) >= k => Q(g, i)
    OBVIOUS
  <2>1. j <= k
    OBVIOUS
  <2>2. PICK g : Over(g) /\ \A i \in 0 .. k : i + j >= k => Q(g, i)
    BY <1>2, <2>1
  <2> DEFINE m == k - (j + 1)
             y == Replaced(g[m + 1], r, d, m)
             h == [i \in 0 .. k |-> IF i = m THEN y ELSE g[i]]
  <2>3. m \in 0 .. k /\ m # k /\ m + 1 # m /\ m + 1 \in 0 .. k
    OBVIOUS
  <2>4. \A i \in 0 .. k : i + (j + 1) >= k => i = m \/ (i + j >= k /\ i # m /\ (i # k => i + 1 \in 0 .. k /\ i + 1 # m))
    OBVIOUS
  <2> HIDE DEF m
  <2>5. Over(h) /\ h[m] = y /\ \A i \in 0 .. k : i # m => h[i] = g[i]
    BY <2>3
  <2> HIDE DEF h, Over
  <2>6. ASSUME NEW i \in 0 .. k, i + (j + 1) >= k PROVE Q(h, i)
    <3>1. CASE i = m
      <4>1. h[m + 1] = g[m + 1]
        BY <2>3, <2>5
      <4> QED BY <2>3, <2>5, <3>1, <4>1
    <3>2. CASE i # m
      <4>1. i + j >= k /\ (i # k => i + 1 \in 0 .. k /\ i + 1 # m)
        BY <2>4, <2>6, <3>2
      <4>2. h[i] = g[i] /\ (i # k => h[i + 1] = g[i + 1])
        BY <2>5, <3>2, <4>1
      <4>3. Q(g, i)
        BY <2>2, <4>1
      <4> QED BY <4>2, <4>3
    <3> QED BY <3>1, <3>2
  <2> HIDE DEF Q
  <2> QED BY <2>5, <2>6
<1> HIDE DEF T
<1>3. k \in T
  BY <1>1, <1>2, NatSetInduction
<1>4. PICK g : Over(g) /\ \A i \in 0 .. k : i + k >= k => Q(g, i)
  BY <1>3 DEF T
<1>5. \A i \in 0 .. k : g[i] = IF i = k THEN u ELSE Replaced(g[i + 1], r, d, i)
  <2>1. \A i \in 0 .. k : i + k >= k
    OBVIOUS
  <2> QED BY <1>4, <2>1
<1>6. g = [i \in 0 .. k |-> IF i = k THEN u ELSE Replaced(g[i + 1], r, d, i)]
  BY <1>4, <1>5
<1> QED BY <1>6 DEF Spreading

LEMMA SpreadingFacts ==
  ASSUME NEW v, NEW r, NEW k, NEW d, NEW x, Divides(v, r, k, d, x), NEW u, SpreadTo(u, v, k, d, x, k),
         NEW f, Spreading(f, u, r, d, k)
  PROVE  SpreadTo(f[0], v, k, d, x, 0)
<1> DEFINE T == {j \in Nat : j <= k => SpreadTo(f[k - j], v, k, d, x, k - j)}
<1>1. k \in Nat
  BY DEF Divides
<1>2. f[k] = u /\ \A i \in 0 .. k - 1 : f[i] = Replaced(f[i + 1], r, d, i)
  <2>1. \A i \in 0 .. k : f[i] = IF i = k THEN u ELSE Replaced(f[i + 1], r, d, i)
    BY DEF Spreading
  <2>2. k \in 0 .. k /\ \A i \in 0 .. k - 1 : i \in 0 .. k /\ i # k
    BY <1>1
  <2> QED BY <2>1, <2>2
<1>3. 0 \in T
  <2>1. k - 0 = k
    BY <1>1
  <2> QED BY <1>2, <2>1
<1>4. ASSUME NEW j \in Nat, j \in T PROVE j + 1 \in T
  <2> SUFFICES ASSUME j + 1 <= k PROVE SpreadTo(f[k - (j + 1)], v, k, d, x, k - (j + 1))
    OBVIOUS
  <2> DEFINE i == k - (j + 1)
  <2>1. i \in 0 .. k - 1 /\ i + 1 = k - j /\ j <= k
    BY <1>1
  <2> HIDE DEF i
  <2>2. SpreadTo(f[i + 1], v, k, d, x, i + 1)
    BY <1>4, <2>1
  <2>3. SpreadTo(Replaced(f[i + 1], r, d, i), v, k, d, x, i)
    BY <2>1, <2>2, ReplacedFacts
  <2>4. SpreadTo(f[i], v, k, d, x, i)
    BY <1>2, <2>1, <2>3
  <2> QED BY <2>4 DEF i
<1> HIDE DEF T
<1>5. k \in T
  BY <1>1, <1>3, <1>4, NatSetInduction
<1>6. k <= k /\ k - k = 0
  BY <1>1
<1> QED BY <1>5, <1>6 DEF T

\* A buffer with room for the result starts the spreading, and one where all is in place, ended,
\* holds it.
LEMMA SpreadingStarts ==
  ASSUME NEW v, NEW r, NEW k, NEW d, NEW x, Divides(v, r, k, d, x), NEW u, Sound(u), Value(u) = v, Len(v) + k < Mlen(u)
  PROVE  SpreadTo(u, v, k, d, x, k)
<1>1. v \in Seq(Int) /\ k \in Nat /\ Len(v) \in Nat /\ d[k + 1] = Len(v) /\ x[k] = << >>
  BY LenProperties DEF Divides
<1>2. u \in Bstrings /\ u.over = 0 /\ u.slen = Len(v) /\ \A p \in 1 .. Len(v) : u.data[p] = v[p]
  BY ValueFacts DEF Sound
<1>3. Len(<< >>) = 0
  BY EmptySeq
<1>4. Len(x[k]) = 0 /\ d[k + 1] + k + Len(x[k]) = Len(v) + k
  BY <1>1, <1>3
<1>5. \A p \in 1 .. Len(x[k]) : FALSE
  BY <1>4
<1> QED BY <1>1, <1>2, <1>4, <1>5 DEF SpreadTo

Holds(u, text) == Sound(u) /\ Value(u) = text

LEMMA SpreadingEnds ==
  ASSUME NEW v, NEW r, NEW k, NEW d, NEW x, Divides(v, r, k, d, x), NEW u, SpreadTo(u, v, k, d, x, 0)
  PROVE  Holds(Ended(u, Len(v) + k), SubSeq(v, 1, d[1]) \o x[0])
<1> DEFINE n == Len(v) + k
           w == Write(u, n, <<Nul>>)
           z == [w EXCEPT !.slen = n]
           a == d[1]
           t == x[0]
           c == SubSeq(v, 1, a)
           s == c \o t
<1>1. v \in Seq(Int) /\ k \in Nat /\ Len(v) \in Nat /\ t \in Seq(Int) /\ a \in 0 .. Len(v) /\ Len(t) \in Nat
  <2>1. k \in Nat
    BY DEF Divides
  <2>2. 0 \in 0 .. k /\ 1 \in 1 .. k + 1
    BY <2>1
  <2> QED BY <2>1, <2>2, LenProperties DEF Divides
<1>2. /\ u \in Bstrings /\ u.over = 0 /\ n < Mlen(u) /\ Mlen(u) \in Nat
      /\ \A p \in 1 .. a : u.data[p] = v[p]
      /\ a + Len(t) = n
      /\ \A p \in 1 .. Len(t) : u.data[a + p] = t[p]
  <2>1. a + 0 = a /\ 0 + 1 = 1
    BY <1>1
  <2>2. u \in Bstrings /\ Mlen(u) \in Nat
    BY LenProperties DEF SpreadTo, Bstrings, Mlen
  <2>3. \A p : a + 0 + p = a + p
    BY <2>1
  <2> QED BY <2>1, <2>2, <2>3 DEF SpreadTo
<1>3. c \in Seq(Int) /\ Len(c) = a /\ \A p \in 1 .. a : c[p] = v[p]
  BY <1>1, PrefixFacts
<1>4. n \in Nat
  BY <1>1
<1> HIDE DEF n, a, t, c
<1>5. Written(w, u, n, <<Nul>>)
  <2>1. <<Nul>> \in Seq(Int) /\ Len(<<Nul>>) = 1 /\ n + 1 <= Mlen(u)
    BY <1>2, <1>4 DEF Nul
  <2> DEFINE y == <<Nul>>
  <2> HIDE DEF y
  <2>2. y \in Seq(Int) /\ n + Len(y) <= Mlen(u)
    BY <2>1 DEF y
  <2>3. Written(Write(u, n, y), u, n, y)
    BY <1>2, <1>4, <2>2, WrittenFacts
  <2> QED BY <2>3 DEF y
<1> HIDE DEF w
<1>6. w \in Bstrings /\ w.over = 0 /\ Mlen(w) = Mlen(u) /\ \A p \in 1 .. n : w.data[p] = u.data[p]
  <2>1. \A p \in 1 .. n : p \in 1 .. Mlen(u) /\ p - n \notin 1 .. Len(<<Nul>>)
    <3>1. Len(<<Nul>>) = 1
      OBVIOUS
    <3> QED BY <1>2, <1>4, <3>1
  <2> QED BY <1>5, <2>1 DEF Written
<1>7. z \in Bstrings /\ z.slen = n /\ z.over = 0 /\ z.data = w.data
  BY <1>4, <1>6 DEF Bstrings
<1> HIDE DEF z
<1>8. Sound(z)
  BY <1>2, <1>6, <1>7 DEF Sound, Mlen
<1>9. s \in Seq(Int) /\ Len(s) = n /\ \A p \in 1 .. n : s[p] = IF p <= a THEN c[p] ELSE t[p - a]
  <2>1. c \in Seq(Int) /\ t \in Seq(Int)
    BY <1>1, <1>3
  <2>2. /\ c \o t \in Seq(Int) /\ Len(c \o t) = Len(c) + Len(t)
        /\ \A p \in 1 .. Len(c) + Len(t) : (c \o t)[p] = IF p <= Len(c) THEN c[p] ELSE t[p - Len(c)]
    BY ONLY <2>1, ConcatProperties
  <2> QED BY <1>2, <1>3, <2>2
<1> HIDE DEF s
<1>10. \A p \in 1 .. n : z.data[p] = s[p]
  <2> TAKE p \in 1 .. n
  <2>1. z.data[p] = u.data[p]
    BY <1>6, <1>7
  <2>2. CASE p <= a
    <3>1. p \in 1 .. a
      BY <1>4, <2>2
    <3> QED BY <1>2, <1>3, <1>9, <2>1, <2>2, <3>1
  <2>3. CASE ~ (p <= a)
    <3>1. p - a \in 1 .. Len(t) /\ a + (p - a) = p
      BY <1>1, <1>2, <1>4, <2>3
    <3>2. u.data[a + (p - a)] = t[p - a]
      BY <1>2, <3>1
    <3> QED BY <1>9, <2>1, <2>3, <3>1, <3>2
  <2> QED BY <2>2, <2>3
<1>11. Value(z) = s
  BY <1>7, <1>8, <1>9, <1>10, ValueIs
<1>12. Ended(u, n) = z
  BY DEF Ended, z, w
<1> QED BY <1>8, <1>11, <1>12 DEF Holds, n, s, c, a, t

\* e[at] is v from at, with r for each place.
Rests(e, v, r, nx) ==
  Gathers(e, nx, [at \in Nat |-> From(v, at)], [at \in Nat |-> Mid(v, at, nx[at] - at) \o r])

LEMMA RestsTexts ==
  ASSUME NEW C, NEW v \in Seq(C), NEW r \in Seq(C), NEW nx, Search(nx, Len(v))
  PROVE  /\ TextAt([at \in Nat |-> From(v, at)], C)
         /\ TextAt([at \in Nat |-> Mid(v, at, nx[at] - at) \o r], C)
<1>1. ASSUME NEW at \in Nat PROVE From(v, at) \in Seq(C) /\ Mid(v, at, nx[at] - at) \o r \in Seq(C)
  <2> DEFINE l == at + (nx[at] - at)
  <2>1. From(v, at) \in Seq(C) /\ Len(v) \in Nat
    BY Divided, LenProperties
  <2>2. l \in Int /\ l < Len(v)
    <3>1. nx[at] \in Int /\ nx[at] < Len(v)
      BY <2>1 DEF Search, ERR
    <3> DEFINE p == nx[at]
    <3> HIDE DEF p
    <3>2. p \in Int /\ p < Len(v) /\ at + (p - at) = p
      BY <3>1 DEF p
    <3> QED BY <3>2 DEF p
  <2> HIDE DEF l
  <2>3. \A i \in at + 1 .. l : v[i] \in C
    <3>1. \A i \in at + 1 .. l : i \in 1 .. Len(v)
      BY <2>1, <2>2
    <3> QED BY <3>1, ElementOfSeq
  <2>4. SubSeq(v, at + 1, l) \in Seq(C)
    BY <2>1, <2>2, <2>3, SubSeqProperties
  <2>5. Mid(v, at, nx[at] - at) = SubSeq(v, at + 1, l)
    BY DEF Mid, l
  <2>6. SubSeq(v, at + 1, l) \o r \in Seq(C)
    BY ONLY <2>4, r \in Seq(C), ConcatProperties
  <2> QED BY <2>1, <2>5, <2>6
<1> QED BY <1>1 DEF TextAt

RestsMeet(e, v, r, nx, C) ==
  /\ \A at \in Nat : e[at] \in Seq(C)
  /\ \A at \in Nat : nx[at] = ERR => e[at] = From(v, at)
  /\ \A at \in Nat : nx[at] # ERR => e[at] = (Mid(v, at, nx[at] - at) \o r) \o e[nx[at] + 1]

LEMMA RestsFacts ==
  ASSUME NEW C, NEW v \in Seq(C), NEW r \in Seq(C), NEW nx, Search(nx, Len(v)), NEW e, Rests(e, v, r, nx)
  PROVE  RestsMeet(e, v, r, nx, C)
<1> DEFINE base == [at \in Nat |-> From(v, at)]
           pre == [at \in Nat |-> Mid(v, at, nx[at] - at) \o r]
<1>1. TextAt(base, C) /\ TextAt(pre, C)
  BY RestsTexts
<1>2. \A at \in Nat : base[at] = From(v, at) /\ pre[at] = Mid(v, at, nx[at] - at) \o r
  OBVIOUS
<1>3. Gathers(e, nx, base, pre)
  BY DEF Rests
<1>4. Len(v) \in Nat
  BY LenProperties
<1> HIDE DEF base, pre
<1>5. Gathered(e, nx, base, pre, C)
  BY <1>1, <1>3, <1>4, GatheredFacts
<1> QED BY <1>2, <1>5, Zenon DEF Gathered, RestsMeet

RestsExist(v, r, nx) == \E e : Rests(e, v, r, nx)

LEMMA RestsExistFacts ==
  ASSUME NEW C, NEW v \in Seq(C), NEW r \in Seq(C), NEW nx, Search(nx, Len(v))
  PROVE  RestsExist(v, r, nx)
<1> DEFINE base == [at \in Nat |-> From(v, at)]
           pre == [at \in Nat |-> Mid(v, at, nx[at] - at) \o r]
<1>1. TextAt(base, C) /\ TextAt(pre, C)
  BY RestsTexts
<1>2. Len(v) \in Nat
  BY LenProperties
<1> HIDE DEF base, pre
<1>3. \E e : Gathers(e, nx, base, pre)
  BY <1>1, <1>2, GatheringExists
<1> QED BY <1>3 DEF RestsExist, Rests, base, pre

PlacesExist(nx) == \E h : Places(h, nx)

LEMMA PlacesExistFacts ==
  ASSUME NEW n \in Nat, NEW nx, Search(nx, n)
  PROVE  PlacesExist(nx)
<1> DEFINE base == [at \in Nat |-> << >>]
           pre == [at \in Nat |-> <<nx[at]>>]
<1>1. TextAt(base, Int) /\ TextAt(pre, Int)
  BY EmptyAt, SingleAt DEF Search
<1> HIDE DEF base, pre
<1>2. \E h : Gathers(h, nx, base, pre)
  BY <1>1, GatheringExists
<1> QED BY <1>2 DEF PlacesExist, Places, base, pre

\* d and x of Divides
Ends(m, v) == Append(m, Len(v))
Behinds(m, v, r, e) == [i \in 0 .. Len(m) |-> IF i = Len(m) THEN << >> ELSE r \o e[Ends(m, v)[i + 1] + 1]]

DividedAt(m, v, r, e) ==
  /\ Divides(v, r, Len(m), Ends(m, v), Behinds(m, v, r, e))
  /\ e[0] = SubSeq(v, 1, Ends(m, v)[1]) \o Behinds(m, v, r, e)[0]

LEMMA PlacesDivide ==
  ASSUME NEW v \in Seq(Int), NEW r \in Seq(Int), Len(r) = 2, NEW nx, NEW m, Lists(m, nx, Len(v)),
         NEW e, RestsMeet(e, v, r, nx, Int)
  PROVE  DividedAt(m, v, r, e)
<1> DEFINE n == Len(v)
           k == Len(m)
           d == Ends(m, v)
           x == Behinds(m, v, r, e)
<1>1. n \in Nat /\ k \in Nat /\ m \in Seq(Int) /\ k <= n
  BY LenProperties DEF Lists
<1>2. /\ \A j \in 0 .. k : Behind(m, j) \in Nat /\ Behind(m, j) <= n
      /\ \A j \in 0 .. k - 1 : nx[Behind(m, j)] = m[j + 1] /\ m[j + 1] \in Nat /\ Behind(m, j) <= m[j + 1] /\ m[j + 1] < n
      /\ nx[Behind(m, k)] = ERR
  <2>1. /\ \A j \in 0 .. k : Behind(m, j) \in 0 .. n
        /\ \A j \in 0 .. k - 1 : nx[Behind(m, j)] = m[j + 1] /\ m[j + 1] \in Behind(m, j) .. n - 1
        /\ nx[Behind(m, k)] = ERR
    BY Zenon DEF Lists
  <2> HIDE DEF k, n
  <2>2. \A j \in 0 .. k : Behind(m, j) \in Nat /\ Behind(m, j) <= n
    BY <1>1, <2>1
  <2>3. \A j \in 0 .. k - 1 : m[j + 1] \in Nat /\ Behind(m, j) <= m[j + 1] /\ m[j + 1] < n
    <3> TAKE j \in 0 .. k - 1
    <3>1. j \in 0 .. k
      BY <1>1
    <3>2. Behind(m, j) \in Nat /\ m[j + 1] \in Behind(m, j) .. n - 1
      BY <2>1, <2>2, <3>1
    <3> QED BY <1>1, <3>2
  <2> QED BY <2>1, <2>2, <2>3
<1>3. d[k + 1] = n /\ \A j \in 1 .. k : d[j] = m[j]
  BY <1>1 DEF Ends
<1>4. x[k] = << >> /\ \A i \in 0 .. k - 1 : x[i] = r \o e[d[i + 1] + 1]
  <2>1. k \in 0 .. k /\ \A i \in 0 .. k - 1 : i \in 0 .. k /\ i # k
    BY <1>1
  <2> HIDE DEF d
  <2> QED BY <2>1 DEF Behinds, d
<1> HIDE DEF d, x, k, n
<1>5. \A j \in 0 .. k - 1 : d[j + 1] = m[j + 1]
  <2>1. \A j \in 0 .. k - 1 : j + 1 \in 1 .. k
    BY <1>1
  <2> QED BY <1>3, <2>1
<1>6. \A j \in 1 .. k : d[j] + 1 = Behind(m, j)
  BY <1>1, <1>3 DEF Behind
<1>7. \A i \in 0 .. k - 1 : x[i] = r \o e[Behind(m, i + 1)]
  <2>1. \A j \in 0 .. k - 1 : j + 1 \in 1 .. k
    BY <1>1
  <2> QED BY <1>4, <1>6, <2>1
<1>8. /\ \A at \in Nat : e[at] \in Seq(Int)
      /\ \A at \in Nat : nx[at] = ERR => e[at] = From(v, at)
      /\ \A at \in Nat : nx[at] # ERR => e[at] = (Mid(v, at, nx[at] - at) \o r) \o e[nx[at] + 1]
  BY DEF RestsMeet
<1>9. \A i \in 0 .. k : x[i] \in Seq(Int)
  <2> TAKE i \in 0 .. k
  <2>1. CASE i = k
    BY <1>4, <2>1, EmptySeq
  <2>2. CASE i # k
    <3>1. i \in 0 .. k - 1 /\ i + 1 \in 0 .. k
      BY <1>1, <2>2
    <3>2. Behind(m, i + 1) \in Nat
      BY <1>2, <3>1
    <3>3. e[Behind(m, i + 1)] \in Seq(Int)
      BY <1>8, <3>2
    <3>4. r \o e[Behind(m, i + 1)] \in Seq(Int)
      BY ONLY <3>3, r \in Seq(Int), ConcatProperties
    <3> QED BY <1>7, <3>1, <3>4
  <2> QED BY <2>1, <2>2
\* What is behind the i-th place: a piece, and what comes behind that
<1>10. \A i \in 0 .. k : e[Behind(m, i)] = SubSeq(v, Behind(m, i) + 1, d[i + 1]) \o x[i]
  <2> TAKE i \in 0 .. k
  <2> DEFINE at == Behind(m, i)
  <2>0. at \in Nat /\ at <= n
    BY <1>2
  <2>1. CASE i = k
    <3>1. e[at] = From(v, at)
      BY <1>2, <1>8, <2>0, <2>1
    <3>2. From(v, at) = SubSeq(v, at + 1, d[i + 1])
      BY <1>3, <2>1 DEF From, n
    <3>3. From(v, at) \in Seq(Int)
      BY <2>0, Divided
    <3>4. From(v, at) \o << >> = From(v, at)
      BY <3>3, ConcatEmptySeq
    <3> QED BY <1>4, <2>1, <3>1, <3>2, <3>4
  <2>2. CASE i # k
    <3>1. i \in 0 .. k - 1 /\ i + 1 \in 1 .. k /\ i + 1 \in 0 .. k
      BY <1>1, <2>2
    <3>2. nx[at] = d[i + 1] /\ d[i + 1] \in Nat /\ at <= d[i + 1] /\ d[i + 1] < n
      BY <1>2, <1>5, <3>1
    <3> HIDE DEF at
    <3>3. nx[at] # ERR
      BY <3>2 DEF ERR
    <3>4. e[at] = (Mid(v, at, d[i + 1] - at) \o r) \o e[d[i + 1] + 1]
      BY <1>8, <2>0, <3>2, <3>3
    <3> DEFINE p == d[i + 1]
               c == SubSeq(v, at + 1, p)
               t == e[Behind(m, i + 1)]
    <3>5. d[i + 1] + 1 = Behind(m, i + 1)
      BY <1>6, <3>1
    <3>6. p \in Nat /\ p < n /\ at <= p
      BY <3>2
    <3>7. Mid(v, at, d[i + 1] - at) = c
      <4> HIDE DEF p
      <4>1. at + (p - at) = p
        BY <2>0, <3>6
      <4> QED BY <4>1 DEF Mid, p
    <3>8. c \in Seq(Int)
      <4> HIDE DEF p
      <4>1. \A j \in at + 1 .. p : j \in 1 .. Len(v)
        BY <1>1, <2>0, <3>6 DEF n
      <4>2. \A j \in at + 1 .. p : v[j] \in Int
        BY <4>1, ElementOfSeq
      <4> QED BY <2>0, <3>6, <4>2, SubSeqProperties
    <3>9. t \in Seq(Int)
      BY <1>2, <1>8, <3>1
    <3>10. e[at] = (c \o r) \o t /\ x[i] = r \o t
      BY <1>7, <3>1, <3>4, <3>5, <3>7
    <3> HIDE DEF c, t
    <3>11. (c \o r) \o t = c \o (r \o t)
      BY <3>8, <3>9, TextsAssociate, Zenon
    <3> QED BY <3>10, <3>11 DEF at, c
  <2> QED BY <2>1, <2>2
<1>11. \A i \in 1 .. k + 1 : d[i] \in 0 .. n
  <2> TAKE i \in 1 .. k + 1
  <2>1. CASE i = k + 1
    BY <1>1, <1>3, <2>1
  <2>2. CASE i # k + 1
    <3>1. i \in 1 .. k /\ i - 1 \in 0 .. k - 1 /\ (i - 1) + 1 = i
      BY <1>1, <2>2
    <3>2. m[(i - 1) + 1] \in Nat /\ m[(i - 1) + 1] < n
      BY <1>2, <3>1
    <3> QED BY <1>1, <1>3, <3>1, <3>2
  <2> QED BY <2>1, <2>2
<1>12. \A i \in 1 .. k : d[i] < d[i + 1]
  <2> TAKE i \in 1 .. k
  <2>0. i \in Nat /\ i \in 0 .. k /\ i \in 1 .. k + 1 /\ i + 1 \in 1 .. k + 1
    BY <1>1
  <2>1. d[i] \in Nat /\ d[i + 1] \in Nat /\ d[i] + 1 = Behind(m, i)
    BY <1>6, <1>11, <2>0
  <2>2. Behind(m, i) <= d[i + 1]
    <3>1. CASE i = k
      BY <1>2, <1>3, <2>0, <3>1
    <3>2. CASE i # k
      <4>1. i \in 0 .. k - 1
        BY <1>1, <2>0, <3>2
      <4> QED BY <1>2, <1>5, <4>1
    <3> QED BY <3>1, <3>2
  <2> QED BY <2>1, <2>2
<1>13. \A i \in 0 .. k - 1 : x[i] = r \o (SubSeq(v, d[i + 1] + 2, d[i + 2]) \o x[i + 1])
  <2> TAKE i \in 0 .. k - 1
  <2>1. i + 1 \in 0 .. k /\ i + 1 \in 1 .. k /\ i + 1 \in 1 .. k + 1 /\ (i + 1) + 1 = i + 2
    BY <1>1
  <2>2. d[i + 1] \in Int /\ Behind(m, i + 1) + 1 = d[i + 1] + 2
    BY <1>6, <1>11, <2>1
  <2>3. e[Behind(m, i + 1)] = SubSeq(v, Behind(m, i + 1) + 1, d[(i + 1) + 1]) \o x[i + 1]
    BY <1>10, <2>1
  <2> QED BY <1>7, <2>1, <2>2, <2>3
<1>14. e[0] = SubSeq(v, 1, d[1]) \o x[0]
  <2>1. Behind(m, 0) = 0 /\ 0 \in 0 .. k /\ 0 + 1 = 1
    BY <1>1 DEF Behind
  <2>2. e[Behind(m, 0)] = SubSeq(v, Behind(m, 0) + 1, d[0 + 1]) \o x[0]
    BY <1>10, <2>1
  <2> QED BY <2>1, <2>2
<1>15. Divides(v, r, k, d, x)
  BY <1>1, <1>3, <1>4, <1>9, <1>11, <1>12, <1>13 DEF Divides, n
<1> QED BY <1>14, <1>15 DEF DividedAt, d, x, k

-----------------------------------------------------------------------------
(* Spaces, and what bfindreplace makes of them *)

\* Where the next space is, at a position or behind it
NextSpace(v) == [at \in Nat |-> Least({i \in at .. Len(v) - 1 : At(v, i) = Space})]

LEMMA LeastFacts ==
  ASSUME NEW S \in SUBSET Nat
  PROVE  (Least(S) = ERR /\ S = {}) \/ Least(S) \in S
<1>1. CASE S = {}
  BY <1>1 DEF Least
<1>2. CASE S # {}
  <2>1. PICK m \in S : \A k \in S : m <= k
    BY <1>2, NatMin
  <2>2. Min(S) \in S
    BY <2>1 DEF Min
  <2> QED BY <1>2, <2>2 DEF Least
<1> QED BY <1>1, <1>2

LEMMA NextSpaceSearches ==
  ASSUME NEW v, Len(v) \in Nat
  PROVE  Search(NextSpace(v), Len(v))
<1> DEFINE n == Len(v)
           S(at) == {i \in at .. n - 1 : At(v, i) = Space}
           nx == NextSpace(v)
<1>1. ASSUME NEW at \in Nat PROVE Least(S(at)) \in Int /\ (Least(S(at)) = ERR \/ Least(S(at)) \in at .. n - 1)
  <2>1. S(at) \in SUBSET Nat /\ S(at) \subseteq at .. n - 1
    OBVIOUS
  <2> DEFINE s == S(at)
  <2> HIDE DEF s
  <2>2. Least(s) = ERR \/ Least(s) \in s
    BY <2>1, LeastFacts DEF s
  <2> DEFINE l == Least(s)
  <2> HIDE DEF l
  <2>3. l = ERR \/ l \in at .. n - 1
    BY <2>1, <2>2 DEF s, l
  <2>4. l \in Int
    BY <2>3 DEF ERR
  <2> QED BY <2>3, <2>4 DEF l, s
<1>2. nx = [at \in Nat |-> Least(S(at))]
  BY DEF NextSpace
<1> HIDE DEF S, nx
<1>3. nx \in [Nat -> Int] /\ \A at \in Nat : nx[at] = Least(S(at))
  BY <1>1, <1>2
<1> QED BY <1>1, <1>3 DEF Search, nx

LEMMA BinstrFindsSpace ==
  ASSUME NEW v, Len(v) \in Nat, NEW at \in Nat
  PROVE  Binstr(v, at, <<Space>>) = NextSpace(v)[at]
<1> DEFINE f == <<Space>>
           n == Len(v)
<1>1. Len(f) = 1 /\ f # << >> /\ f[1] = Space
  OBVIOUS
<1>2. NextSpace(v)[at] = Least({i \in at .. n - 1 : At(v, i) = Space})
  BY DEF NextSpace
<1> HIDE DEF f
<1>3. CASE at > n - 1
  <2>1. {i \in at .. n - 1 : At(v, i) = Space} = {}
    BY <1>3
  <2>2. Binstr(v, at, f) = ERR
    BY <1>1, <1>3 DEF Binstr
  <2> QED BY <1>2, <2>1, <2>2 DEF Least, f
<1>4. CASE ~ (at > n - 1)
  <2>1. ~ (at < 0) /\ ~ (at > Len(v) - Len(f))
    BY <1>1, <1>4
  <2>2. Binstr(v, at, f) = Least({i \in at .. n - 1 : At(v, i) = f[1]})
    BY <1>1, <2>1, Zenon DEF Binstr
  <2> QED BY <1>1, <1>2, <2>2 DEF f
<1> QED BY <1>3, <1>4

LEMMA OccurrencesOfSpace ==
  ASSUME NEW v \in Seq(Int), NEW at \in Nat
  PROVE  Least({k \in Occurrences(v, <<Space>>, FALSE) : k >= at}) = NextSpace(v)[at]
<1> DEFINE f == <<Space>>
           n == Len(v)
<1>1. n \in Nat /\ Len(f) = 1
  BY LenProperties
<1>2. \A i \in 0 .. n - 1 : Mid(v, i, 1) = f <=> At(v, i) = Space
  <2> TAKE i \in 0 .. n - 1
  <2>1. i + 1 \in 1 .. n
    BY <1>1
  <2>2. SubSeq(v, i + 1, i + 1) = <<v[i + 1]>>
    <3> DEFINE p == i + 1
               c == SubSeq(v, p, p)
               o == <<v[p]>>
    <3>1. p \in Int /\ p \in 1 .. n /\ v[p] \in Int
      BY <2>1, ElementOfSeq
    <3> HIDE DEF p
    <3>2. \A j \in p .. p : v[j] \in Int
      BY <3>1
    <3>3. c \in Seq(Int) /\ Len(c) = (IF p <= p THEN p - p + 1 ELSE 0) /\ \A j \in 1 .. p - p + 1 : c[j] = v[p + j - 1]
      BY <3>1, <3>2, SubSeqProperties
    <3> HIDE DEF c
    <3>4. p - p + 1 = 1 /\ p <= p /\ p + 1 - 1 = p /\ 1 \in 1 .. 1
      BY <3>1
    <3>5. Len(c) = 1 /\ c[1] = v[p]
      BY <3>3, <3>4
    <3>6. o \in Seq(Int) /\ Len(o) = 1 /\ o[1] = v[p]
      BY <3>1
    <3> HIDE DEF o
    <3>7. \A j \in 1 .. 1 : c[j] = o[j]
      BY <3>5, <3>6
    <3>8. c = o
      BY <3>3, <3>5, <3>6, <3>7, SeqEqual
    <3> QED BY <3>8 DEF c, o, p
  <2>3. Mid(v, i, 1) = <<v[i + 1]>>
    BY <2>2 DEF Mid
  <2>4. \A x, y : <<x>> = <<y>> <=> x = y
    OBVIOUS
  <2> QED BY <2>3, <2>4 DEF At
<1> HIDE DEF f
<1>3. Occurrences(v, f, FALSE) = {i \in 0 .. n - 1 : At(v, i) = Space}
  <2>1. Occurrences(v, f, FALSE) = {i \in 0 .. n - 1 : Mid(v, i, 1) = f}
    BY <1>1, Zenon DEF Occurrences, Folded
  <2> QED BY <1>2, <2>1
<1>4. {k \in Occurrences(v, f, FALSE) : k >= at} = {i \in at .. n - 1 : At(v, i) = Space}
  <2>1. \A i : i \in 0 .. n - 1 /\ i >= at <=> i \in at .. n - 1
    BY <1>1
  <2> QED BY <1>3, <2>1
<1> QED BY <1>4 DEF NextSpace, f

\* ReplacedAll, and matches of ReplaceLonger
LEMMA EscapedFacts ==
  ASSUME NEW v \in Seq(Int), NEW r \in Seq(Int)
  PROVE  \E e : Rests(e, v, r, NextSpace(v)) /\ ReplacedAll(v, <<Space>>, r, 0, FALSE) = Upto(v, 0) \o e[0]
<1> DEFINE nx == NextSpace(v)
           f == <<Space>>
           e == CHOOSE rest : rest = [from \in Nat |->
                  LET i == Least({k \in Occurrences(v, f, FALSE) : k >= from})
                  IN  IF i = ERR THEN From(v, from) ELSE Mid(v, from, i - from) \o r \o rest[i + Len(f)]]
<1>1. ReplacedAll(v, f, r, 0, FALSE) = Upto(v, 0) \o e[0]
  BY Zenon DEF ReplacedAll
<1>2. \A from \in Nat : Least({k \in Occurrences(v, f, FALSE) : k >= from}) = nx[from]
  BY OccurrencesOfSpace
<1>3. Len(f) = 1
  OBVIOUS
<1> HIDE DEF nx, f
<1>4. \A g : Rests(g, v, r, nx) <=>
        g = [from \in Nat |-> IF nx[from] = ERR THEN From(v, from) ELSE Mid(v, from, nx[from] - from) \o r \o g[nx[from] + 1]]
  BY DEF Rests, Gathers
<1>5. \A g : Rests(g, v, r, nx) <=>
        g = [from \in Nat |->
               LET i == Least({k \in Occurrences(v, f, FALSE) : k >= from})
               IN  IF i = ERR THEN From(v, from) ELSE Mid(v, from, i - from) \o r \o g[i + Len(f)]]
  <2> TAKE g
  <2>1. [from \in Nat |-> IF nx[from] = ERR THEN From(v, from) ELSE Mid(v, from, nx[from] - from) \o r \o g[nx[from] + 1]]
        = [from \in Nat |->
               LET i == Least({k \in Occurrences(v, f, FALSE) : k >= from})
               IN  IF i = ERR THEN From(v, from) ELSE Mid(v, from, i - from) \o r \o g[i + Len(f)]]
    BY <1>2, <1>3
  <2> QED BY <1>4, <2>1
<1>6. \E g : Rests(g, v, r, nx)
  <2>1. Len(v) \in Nat
    BY LenProperties
  <2>2. Search(nx, Len(v))
    BY <2>1, NextSpaceSearches DEF nx
  <2> QED BY <2>2, RestsExistFacts DEF RestsExist
<1>7. Rests(e, v, r, nx)
  BY <1>5, <1>6, Zenon
<1> QED BY <1>1, <1>7 DEF nx, f

\* matches and spread of ReplaceLonger, as the functions they are chosen to be
MatchesOf(s, f) == CHOOSE matches : matches = [from \in Nat |->
  LET i == Instr(s, from, f, FALSE) IN IF i < 0 THEN << >> ELSE <<i>> \o matches[i + Len(f)]]
SpreadOf(u, d, f, repl, rl) == CHOOSE spread : spread = [i \in 0 .. Len(d) - 1 |->
  IF i = Len(d) - 1 THEN u
  ELSE LET from == d[i + 1] + Len(f)
           acc == (i + 1) * (rl - Len(f))
           moved == Move(spread[i + 1], from + acc, from, d[i + 2] - from)
       IN  Write(moved, from + acc - rl, ArgText(moved, repl))]

Replacements(s, d, f, repl, rl) ==
  UNION {IF g.ret = OK
         THEN {Ok(Ended(SpreadOf(g.b, d, f, repl, rl)[0], s.slen + (Len(d) - 1) * (rl - Len(f))))}
         ELSE {g} : g \in Balloc(s, s.slen + (Len(d) - 1) * (rl - Len(f)) + 1)}

\* repl, of rl characters, is longer than f, the text of find, and s can have f
Longer(s, find, repl, f, rl) ==
  /\ ~ find.view /\ ~ repl.view /\ ArgLen(find) # 0 /\ ~ (0 > s.slen - ArgLen(find))
  /\ ArgText(s, find) = f /\ Len(ArgText(s, repl)) = rl /\ Len(f) # rl /\ ~ (Len(f) > rl)

ReplacesLonger(s, find, repl, f, rl) ==
  Bfindreplace(s, find, repl, 0, FALSE) = Replacements(s, Append(MatchesOf(s, f)[0], s.slen), f, repl, rl)

LEMMA BfindreplaceIs ==
  ASSUME NEW s, NEW find, NEW repl, NEW f, NEW rl, Longer(s, find, repl, f, rl)
  PROVE  ReplacesLonger(s, find, repl, f, rl)
<1> DEFINE ff == ArgText(s, find)
           l == Len(ArgText(s, repl))
<1>1. /\ ~ find.view /\ ~ repl.view /\ ArgLen(find) # 0 /\ ~ (0 > s.slen - ArgLen(find))
      /\ Len(ff) # l /\ ~ (Len(ff) > l)
  BY Zenon DEF Longer
<1>2. Bfindreplace(s, find, repl, 0, FALSE) = Replacements(s, Append(MatchesOf(s, ff)[0], s.slen), ff, repl, l)
  BY <1>1, Zenon DEF Bfindreplace, WithCopy, ReplaceLonger, Then, MatchesOf, SpreadOf, Replacements
<1>3. ff = f /\ l = rl
  BY Zenon DEF Longer
<1>4. ReplacesLonger(s, find, repl, ff, l)
  BY <1>2, Zenon DEF ReplacesLonger
<1> HIDE DEF ff, l
<1> QED BY <1>3, <1>4

LEMMA MatchesArePlaces ==
  ASSUME NEW s, NEW v, Value(s) = v, Len(v) \in Nat
  PROVE  Places(MatchesOf(s, <<Space>>), NextSpace(v))
<1> DEFINE nx == NextSpace(v)
           f == <<Space>>
           h == MatchesOf(s, f)
<1>1. Search(nx, Len(v))
  BY NextSpaceSearches
<1>2. \A from \in Nat : Instr(s, from, f, FALSE) = nx[from]
  BY BinstrFindsSpace DEF Instr
<1>3. Len(f) = 1
  OBVIOUS
<1> HIDE DEF nx, f
<1>4. \A from \in Nat : nx[from] < 0 <=> nx[from] = ERR
  BY <1>1 DEF Search, ERR
<1>5. \A g : Places(g, nx) <=>
        g = [from \in Nat |-> IF nx[from] = ERR THEN << >> ELSE <<nx[from]>> \o g[nx[from] + 1]]
  BY DEF Places, Gathers
<1>6. \A g : Places(g, nx) <=>
        g = [from \in Nat |->
               LET i == Instr(s, from, f, FALSE) IN IF i < 0 THEN << >> ELSE <<i>> \o g[i + Len(f)]]
  <2> TAKE g
  <2>1. [from \in Nat |-> IF nx[from] = ERR THEN << >> ELSE <<nx[from]>> \o g[nx[from] + 1]]
        = [from \in Nat |->
               LET i == Instr(s, from, f, FALSE) IN IF i < 0 THEN << >> ELSE <<i>> \o g[i + Len(f)]]
    BY <1>2, <1>3, <1>4
  <2> QED BY <1>5, <2>1
<1>7. \E g : Places(g, nx)
  BY <1>1, PlacesExistFacts DEF PlacesExist
<1>8. Places(h, nx)
  BY <1>6, <1>7, Zenon DEF MatchesOf
<1> QED BY <1>8 DEF nx, f, h

LEMMA SpreadOfSpreads ==
  ASSUME NEW u, NEW d, NEW f, Len(f) = 1, NEW repl, NEW r, \A w : ArgText(w, repl) = r,
         NEW k \in Nat, Len(d) - 1 = k, NEW v, NEW x, Divides(v, r, k, d, x)
  PROVE  Spreading(SpreadOf(u, d, f, repl, 2), u, r, d, k)
<1> DEFINE h == SpreadOf(u, d, f, repl, 2)
<1>1. \A i \in 0 .. k : (i + 1) * (2 - Len(f)) = i + 1
  OBVIOUS
<1>2. \A g : [i \in 0 .. k |-> IF i = k THEN u ELSE Replaced(g[i + 1], r, d, i)]
             = [i \in 0 .. Len(d) - 1 |->
                 IF i = Len(d) - 1 THEN u
                 ELSE LET from == d[i + 1] + Len(f)
                          acc == (i + 1) * (2 - Len(f))
                          moved == Move(g[i + 1], from + acc, from, d[i + 2] - from)
                      IN  Write(moved, from + acc - 2, ArgText(moved, repl))]
  <2> TAKE g
  <2>1. ASSUME NEW i \in 0 .. k
        PROVE  Replaced(g[i + 1], r, d, i) =
                 LET from == d[i + 1] + Len(f)
                     acc == (i + 1) * (2 - Len(f))
                     moved == Move(g[i + 1], from + acc, from, d[i + 2] - from)
                 IN  Write(moved, from + acc - 2, ArgText(moved, repl))
    <3> DEFINE c == (i + 1) * (2 - Len(f))
    <3>1. c = i + 1
      BY <1>1
    <3> HIDE DEF c
    <3>2. Replaced(g[i + 1], r, d, i) =
            Write(Move(g[i + 1], (d[i + 1] + Len(f)) + c, d[i + 1] + Len(f), d[i + 2] - (d[i + 1] + Len(f))),
                  ((d[i + 1] + Len(f)) + c) - 2, r)
      BY <3>1, Zenon DEF Replaced, Shifted
    <3>3. Replaced(g[i + 1], r, d, i) =
            LET from == d[i + 1] + Len(f)
                moved == Move(g[i + 1], from + c, from, d[i + 2] - from)
            IN  Write(moved, from + c - 2, ArgText(moved, repl))
      <4>1. ((d[i + 1] + Len(f)) + c) - 2 = (d[i + 1] + Len(f)) + (c - 2)
        <5>1. d[i + 1] \in Int /\ i \in Int
          BY DEF Divides
        <5> QED BY <3>1, <5>1
      <4> DEFINE moved == Move(g[i + 1], (d[i + 1] + Len(f)) + c, d[i + 1] + Len(f), d[i + 2] - (d[i + 1] + Len(f)))
      <4>2. ArgText(moved, repl) = r
        OBVIOUS
      <4>3. Replaced(g[i + 1], r, d, i) = Write(moved, (d[i + 1] + Len(f)) + (c - 2), ArgText(moved, repl))
        BY <3>2, <4>1, <4>2, Zenon
      <4> QED BY <4>3, Zenon
    <3> QED BY <3>3 DEF c
  <2>2. \A i \in 0 .. k : i = Len(d) - 1 <=> i = k
    OBVIOUS
  <2> QED BY <2>1, <2>2, Zenon
<1>3. \A g : Spreading(g, u, r, d, k) <=>
              g = [i \in 0 .. Len(d) - 1 |->
                 IF i = Len(d) - 1 THEN u
                 ELSE LET from == d[i + 1] + Len(f)
                          acc == (i + 1) * (2 - Len(f))
                          moved == Move(g[i + 1], from + acc, from, d[i + 2] - from)
                      IN  Write(moved, from + acc - 2, ArgText(moved, repl))]
  BY <1>2, Zenon DEF Spreading
<1>4. \E g : Spreading(g, u, r, d, k)
  BY SpreadingExists
<1>5. Spreading(h, u, r, d, k)
  BY <1>3, <1>4, Zenon DEF SpreadOf
<1> QED BY <1>5

\* What bfindreplace makes of a text when it escapes its spaces
Escape(s) == Bfindreplace(s, Own(<<Space>>), Own(<<Backslash, Space>>), 0, FALSE)

LEMMA UncutSeq == Uncut = Seq(Int \ {Nul})
<1>1. ASSUME NEW t \in Uncut PROVE t \in Seq(Int \ {Nul})
  <2>1. t \in Seq(Int) /\ \A i \in 1 .. Len(t) : t[i] \in Int \ {Nul}
    BY ElementOfSeq DEF Uncut
  <2>2. t = [i \in 1 .. Len(t) |-> t[i]] /\ Len(t) \in Nat
    BY <2>1, LenProperties
  <2>3. [i \in 1 .. Len(t) |-> t[i]] \in [1 .. Len(t) -> Int \ {Nul}]
    BY <2>1
  <2> QED BY <2>2, <2>3, MadeSeq
<1>2. ASSUME NEW t \in Seq(Int \ {Nul}) PROVE t \in Uncut
  <2>1. Len(t) \in Nat /\ \A i \in 1 .. Len(t) : t[i] \in Int \ {Nul}
    BY LenProperties, ElementOfSeq
  <2>2. t = [i \in 1 .. Len(t) |-> t[i]]
    BY LenProperties
  <2>3. [i \in 1 .. Len(t) |-> t[i]] \in [1 .. Len(t) -> Int]
    BY <2>1
  <2>4. t \in Seq(Int)
    BY <2>1, <2>2, <2>3, MadeSeq
  <2> QED BY <2>1, <2>4 DEF Uncut
<1> QED BY <1>1, <1>2

LEMMA EscapeFacts ==
  ASSUME NEW v \in Uncut, Len(v) + Len(v) + 1 < PowerOf2[30], NEW s, Sound(s), Value(s) = v, NEW o \in Escape(s)
  PROVE  Sound(o.b) /\ Value(o.b) \in Uncut /\ Value(o.b) \in {v, Escaped(v)}
<1> DEFINE f == <<Space>>
           r == <<Backslash, Space>>
           find == Own(f)
           repl == Own(r)
           n == Len(v)
           nx == NextSpace(v)
<1>1. v \in Seq(Int) /\ n \in Nat /\ s.slen = n
  BY ValueFacts, LenProperties DEF Uncut
<1>2. /\ f \in Seq(Int) /\ Len(f) = 1 /\ r \in Seq(Int) /\ Len(r) = 2
      /\ r \in Seq(Int \ {Nul})
  BY DEF Backslash, Space, Nul
<1>3. /\ ~ find.view /\ ~ repl.view /\ ArgLen(find) = 1
      /\ (\A u : ArgText(u, find) = f) /\ (\A u : ArgText(u, repl) = r)
  BY <1>2, OwnFacts
<1>4. PICK e : Rests(e, v, r, nx) /\ ReplacedAll(v, f, r, 0, FALSE) = Upto(v, 0) \o e[0]
  BY <1>1, <1>2, EscapedFacts
<1>5. Search(nx, n)
  BY <1>1, NextSpaceSearches
<1>6. RestsMeet(e, v, r, nx, Int)
  BY <1>1, <1>2, <1>4, <1>5, RestsFacts
<1>7. e[0] \in Seq(Int) /\ e[0] \in Uncut
  <2>1. v \in Seq(Int \ {Nul})
    BY UncutSeq
  <2>2. RestsMeet(e, v, r, nx, Int \ {Nul})
    BY <1>2, <1>4, <1>5, <2>1, RestsFacts
  <2>3. e[0] \in Seq(Int \ {Nul})
    BY <2>2 DEF RestsMeet
  <2> QED BY <1>6, <2>3, UncutSeq DEF RestsMeet
<1>8. Escaped(v) = e[0]
  <2>1. Upto(v, 0) = << >>
    BY <1>1, Divided
  <2>2. << >> \o e[0] = e[0]
    BY <1>7, ConcatEmptySeq
  <2> QED BY <1>4, <2>1, <2>2 DEF Escaped
<1>9. Escape(s) = Bfindreplace(s, find, repl, 0, FALSE)
  BY DEF Escape
<1> HIDE DEF find, repl, nx, f, r
<1>10. CASE n = 0
  <2>1. o = Ok(s)
    BY <1>1, <1>3, <1>9, <1>10 DEF Bfindreplace
  <2> QED BY <2>1 DEF Ok
<1>11. CASE n # 0
  <2> DEFINE m == MatchesOf(s, f)[0]
             d == Append(m, s.slen)
             k == Len(m)
             x == Behinds(m, v, r, e)
  <2>1. Lists(m, nx, n)
    <3>1. Places(MatchesOf(s, f), nx)
      BY <1>1, MatchesArePlaces DEF nx, f
    <3> QED BY <1>1, <1>5, <3>1, PlacesListed
  <2> HIDE DEF m
  <2>2. k \in Nat /\ k <= n /\ d = Ends(m, v) /\ Len(d) - 1 = k
    <3>1. m \in Seq(Int) /\ k <= n /\ k \in Nat
      BY <2>1, LenProperties DEF Lists
    <3>2. Len(Append(m, n)) = Len(m) + 1
      BY <1>1, <3>1
    <3> QED BY <1>1, <3>1, <3>2 DEF Ends
  <2>3. Divides(v, r, k, d, x) /\ e[0] = SubSeq(v, 1, d[1]) \o x[0]
    <3>1. DividedAt(m, v, r, e)
      BY <1>1, <1>2, <1>6, <2>1, PlacesDivide
    <3>2. d = Ends(m, v)
      BY <2>2
    <3> HIDE DEF d
    <3> QED BY <3>1, <3>2 DEF DividedAt
  <2> DEFINE S == Balloc(s, s.slen + (Len(d) - 1) * (2 - Len(f)) + 1)
  <2>4. Escape(s) = UNION {IF g.ret = OK
                      THEN {Ok(Ended(SpreadOf(g.b, d, f, repl, 2)[0], s.slen + (Len(d) - 1) * (2 - Len(f))))}
                      ELSE {g} : g \in S}
    <3>1. /\ ArgLen(find) # 0 /\ ~ (0 > s.slen - ArgLen(find))
          /\ ArgText(s, find) = f /\ ArgText(s, repl) = r /\ Len(r) = 2
          /\ Len(f) # Len(r) /\ ~ (Len(f) > Len(r))
      BY <1>1, <1>2, <1>3, <1>11
    <3>2. Len(ArgText(s, repl)) = 2 /\ Len(f) # 2 /\ ~ (Len(f) > 2)
      BY <3>1
    <3>3. Bfindreplace(s, find, repl, 0, FALSE) = Replacements(s, Append(MatchesOf(s, f)[0], s.slen), f, repl, 2)
      <4>1. ~ find.view /\ ~ repl.view
        BY <1>3
      <4>2. Longer(s, find, repl, f, 2)
        BY <3>1, <3>2, <4>1, Zenon DEF Longer
      <4>3. ReplacesLonger(s, find, repl, f, 2)
        BY <4>2, BfindreplaceIs
      <4> QED BY <4>3, Zenon DEF ReplacesLonger
    <3>4. Escape(s) = Replacements(s, d, f, repl, 2)
      BY <1>9, <3>3 DEF m
    <3> HIDE DEF d
    <3> QED BY <3>4, Zenon DEF Replacements
  <2> HIDE DEF d, x, k
  <2>5. s.slen + (Len(d) - 1) * (2 - Len(f)) = n + k
    <3>1. k * (2 - 1) = k
      BY <2>2
    <3> QED BY <1>1, <1>2, <2>2, <3>1
  <2>6. \A g \in S : Given(g, s, n + k + 1)
    <3>1. n + k + 1 \in Nat /\ n + k + 1 > 0 /\ n + k + 1 < PowerOf2[30]
      <4>1. PowerOf2[30] \in Nat
        BY PowersOf2
      <4> HIDE DEF n
      <4> QED BY <1>1, <2>2, <4>1 DEF n
    <3> QED BY <2>5, <3>1, BallocFacts
  <2> HIDE DEF S
  <2>7. PICK g \in S : o \in IF g.ret = OK THEN {Ok(Ended(SpreadOf(g.b, d, f, repl, 2)[0], n + k))} ELSE {g}
    BY <2>4, <2>5
  <2>8. CASE g.ret = OK
    <3> DEFINE u == g.b
               h == SpreadOf(u, d, f, repl, 2)
               z == Ended(h[0], n + k)
    <3>1. Sound(u) /\ Value(u) = v /\ n + k < Mlen(u)
      <4>1. Given(g, s, n + k + 1)
        BY <2>6, <2>7
      <4>2. Sound(u) /\ Value(u) = v /\ Mlen(u) >= n + k + 1
        BY <2>8, <4>1 DEF Given
      <4> HIDE DEF u, n
      <4>3. Mlen(u) \in Nat
        BY <4>2, LenProperties DEF Sound, Bstrings, Mlen
      <4> QED BY <1>1, <2>2, <4>2, <4>3
    <3> HIDE DEF u
    <3>2. SpreadTo(u, v, k, d, x, k)
      BY <2>3, <3>1, SpreadingStarts
    <3>3. Spreading(h, u, r, d, k)
      BY <1>2, <1>3, <2>2, <2>3, SpreadOfSpreads
    <3> HIDE DEF h
    <3>4. SpreadTo(h[0], v, k, d, x, 0)
      BY <2>3, <3>2, <3>3, SpreadingFacts
    <3>5. Sound(z) /\ Value(z) = e[0]
      <4> DEFINE w == h[0]
      <4> HIDE DEF w
      <4>1. SpreadTo(w, v, k, d, x, 0)
        BY <3>4 DEF w
      <4>2. Holds(Ended(w, Len(v) + k), SubSeq(v, 1, d[1]) \o x[0])
        BY <2>3, <4>1, SpreadingEnds
      <4> QED BY <2>3, <4>2 DEF Holds, w
    <3>6. o = Ok(z)
      BY <2>7, <2>8 DEF u, h
    <3> HIDE DEF z
    <3>7. o.b = z
      BY <3>6 DEF Ok
    <3> QED BY <1>7, <1>8, <3>5, <3>7
  <2>9. CASE g.ret # OK
    <3>1. Given(g, s, n + k + 1) /\ o = g
      BY <2>6, <2>7, <2>9
    <3>2. o.b = s
      BY <2>9, <3>1 DEF Given
    <3> QED BY <3>2
  <2> QED BY <2>8, <2>9
<1> QED BY <1>10, <1>11

LEMMA EscapeSpacesFacts ==
  ASSUME NEW string \in Uncut, Len(string) + Len(string) + 2 < PowerOf2[30]
  PROVE  EscapeSpaces(string) \subseteq {Invalid, string, Escaped(string)}
<1> DEFINE s == Bfromcstr(string)
<1>1. string \in Seq(Int) /\ Len(string) \in Nat /\ PowerOf2[30] \in Nat
  BY LenProperties, PowersOf2 DEF Uncut
<1>2. Sound(s) /\ Value(s) = string
  BY <1>1, BfromcstrFacts
<1>3. EscapeSpaces(string) = {Invalid} \cup UNION {BstringToString(o.b) : o \in Escape(s)}
  BY DEF EscapeSpaces, Escape
<1> HIDE DEF s
<1>4. \A o \in Escape(s) : BstringToString(o.b) \subseteq {Invalid, string, Escaped(string)}
  <2> TAKE o \in Escape(s)
  <2>1. Sound(o.b) /\ Value(o.b) \in Uncut /\ Value(o.b) \in {string, Escaped(string)}
    BY <1>1, <1>2, EscapeFacts
  <2>2. BstringToString(o.b) = {Invalid, Value(o.b)}
    BY <2>1, BstringToStringFacts
  <2> QED BY <2>1, <2>2
<1> QED BY <1>3, <1>4

LEMMA CStrFacts ==
  ASSUME NEW s \in Seq(Int)
  PROVE  CStr(s) \in Uncut /\ Len(CStr(s)) <= Len(s)
<1> DEFINE S == {i \in 1 .. Len(s) + 1 : i = Len(s) + 1 \/ s[i] = Nul}
           n == Least(S)
<1>1. Len(s) \in Nat
  BY LenProperties
<1>2. S \in SUBSET Nat /\ Len(s) + 1 \in S
  BY <1>1
<1>3. n \in S /\ \A i \in S : n <= i
  <2>1. PICK m \in S : \A k \in S : m <= k
    BY <1>2, NatMin
  <2>2. Min(S) \in S /\ \A k \in S : Min(S) <= k
    <3>1. Min(S) = CHOOSE y \in S : \A z \in S : y =< z
      BY DEF Min
    <3> HIDE DEF S
    <3> QED BY <2>1, <3>1
  <2> QED BY <1>2, <2>2 DEF Least
<1>4. n \in Nat /\ n >= 1 /\ n <= Len(s) + 1 /\ \A i \in 1 .. n - 1 : i \in 1 .. Len(s) /\ s[i] # Nul
  <2>1. n \in 1 .. Len(s) + 1
    BY <1>3
  <2>2. \A i \in 1 .. Len(s) + 1 : i < n => i # Len(s) + 1 /\ s[i] # Nul
    <3> TAKE i \in 1 .. Len(s) + 1
    <3>1. i \in S => n <= i
      BY <1>3
    <3> HIDE DEF n
    <3> QED BY <1>1, <2>1, <3>1
  <2> HIDE DEF n
  <2> QED BY <1>1, <2>1, <2>2
<1>5. CStr(s) = SubSeq(s, 1, n - 1)
  BY DEF CStr
<1> HIDE DEF n
<1> DEFINE k == n - 1
<1>6. k \in Nat /\ k <= Len(s) /\ k \in 0 .. Len(s)
  BY <1>1, <1>4
<1>7. /\ SubSeq(s, 1, k) \in Seq(Int) /\ Len(SubSeq(s, 1, k)) = k
      /\ \A i \in 1 .. k : SubSeq(s, 1, k)[i] = s[i]
  BY <1>6, PrefixFacts
<1> QED BY <1>4, <1>5, <1>6, <1>7 DEF Uncut

\* Whatever string of at most MaxLen characters the program has, what is copied, formatted
\* and escaped of it is whole: exceptional_strdup, exceptional_sprintf and
\* exceptional_escape_spaces, any allocation failing.
THEOREM MessagesAreWhole == Value(b) \in Seq(Int) /\ Len(Value(b)) <= MaxLen => MessagesWhole
<1> SUFFICES ASSUME Value(b) \in Seq(Int), Len(Value(b)) <= MaxLen PROVE MessagesWhole
  OBVIOUS
<1> DEFINE string == CStr(Value(b))
           n == Len(string)
<1>1. Len(Value(b)) \in Nat
  BY LenProperties
<1>2. string \in Uncut /\ n <= Len(Value(b)) /\ n \in Nat
  <2>1. string \in Uncut /\ n <= Len(Value(b))
    BY CStrFacts
  <2> QED BY <2>1, LenProperties DEF Uncut
<1>3. /\ MaxLen \in Nat /\ MaxArg \in Nat /\ PowerOf2[30] \in Nat
      /\ MaxLen + MaxLen + 2 < PowerOf2[30] /\ MaxArg + 2 < PowerOf2[30]
  BY BstringAssumption, BstringCallsAssumption, MessagesAssumption, PowersOf2
<1> HIDE DEF string
<1>4. n + n + 2 < PowerOf2[30] /\ n + 2 < PowerOf2[30]
  <2> DEFINE p == PowerOf2[30]
             l == Len(Value(b))
  <2>1. p \in Nat /\ l \in Nat /\ n <= l /\ l <= MaxLen /\ MaxLen + MaxLen + 2 < p
    BY <1>1, <1>2, <1>3
  <2> HIDE DEF p, l, n
  <2> QED BY <1>2, <1>3, <2>1 DEF p
<1>5. Strdup(string) \subseteq {Invalid, string}
  BY <1>2, <1>4, StrdupFacts
<1>6. EscapeSpaces(string) \subseteq {Invalid, string, Escaped(string)}
  BY <1>2, <1>4, EscapeSpacesFacts
<1>7. ASSUME NEW max \in Counts, NEW text \in Texts PROVE SprintfWhole(max, string, text)
  <2>1. max \in Nat /\ max + 2 < PowerOf2[30]
    BY <1>3 DEF Counts
  <2>2. text \in Uncut /\ text # Invalid
    <3>1. PICK l \in 0 .. MaxArg : text \in [1 .. l -> Letters]
      BY DEF Texts, BoundedSeq, SeqOf
    <3>2. text \in Seq(Int) /\ Len(text) = l /\ l \in Nat
      <4>1. text \in Seq(Int) /\ l \in Nat
        BY <1>3, TextsFacts
      <4> QED BY <3>1, <4>1
    <3>3. \A i \in 1 .. Len(text) : text[i] \in 1 .. 255
      BY <3>1, <3>2, BstringAssumption
    <3>4. text \in Uncut
      <4>1. \A i \in 1 .. Len(text) : text[i] # Nul
        <5>1. \A c : c \in 1 .. 255 => c # Nul
          BY DEF Nul
        <5> QED BY <3>3, <5>1, Zenon
      <4> QED BY <3>2, <4>1 DEF Uncut
    <3>5. text # Invalid
      <4>1. Len(Invalid) = 1 /\ Invalid[1] = ERR
        BY DEF Invalid
      <4>2. ASSUME text = Invalid PROVE FALSE
        <5>1. 1 \in 1 .. Len(text) /\ text[1] = ERR
          <6>1. 1 \in 1 .. 1
            OBVIOUS
          <6> QED BY <4>1, <4>2, <6>1, Zenon
        <5>2. text[1] \in 1 .. 255
          BY <3>3, <5>1
        <5> HIDE DEF string
        <5> QED BY <5>1, <5>2 DEF ERR
      <4> QED BY <4>2
    <3> QED BY <3>4, <3>5
  <2> QED BY <1>2, <1>4, <2>1, <2>2, SprintfFacts
<1>8. MessagesWhole <=>
        /\ Strdup(string) \subseteq {Invalid, string}
        /\ \A max \in Counts, text \in Texts : SprintfWhole(max, string, text)
        /\ EscapeSpaces(string) \subseteq {Invalid, string, Escaped(string)}
  BY Zenon DEF MessagesWhole, string
<1> QED BY <1>5, <1>6, <1>7, <1>8
=============================================================================
