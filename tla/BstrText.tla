------------------------------ MODULE BstrText ------------------------------
(***************************************************************************)
(* What the functions of the Better String Library that only read strings  *)
(* compute (bstrlib.c): searches, comparisons, splits and joins.  A string *)
(* is a sequence of character codes from 0 to 255; positions count from 0, *)
(* and BSTR_ERR is -1, as in C.  A function that comes in two forms, with  *)
(* and without regard to case, has a parameter caseless.                   *)
(***************************************************************************)
EXTENDS SequencesExt, FiniteSetsExt

ERR == -1
Nul == 0
At(s, i) == s[i + 1]
Mid(s, left, len) == SubSeq(s, left + 1, left + len)
From(s, i) == SubSeq(s, i + 1, Len(s))
Upto(s, n) == SubSeq(s, 1, Min({n, Len(s)}))
Least(S) == IF S = {} THEN ERR ELSE Min(S)
Greatest(S) == IF S = {} THEN ERR ELSE Max(S)
Sign(n) == IF n > 0 THEN 1 ELSE IF n < 0 THEN -1 ELSE 0

Upcase(c) == IF c \in 97 .. 122 THEN c - 32 ELSE c
Downcase(c) == IF c \in 65 .. 90 THEN c + 32 ELSE c
Wspace(c) == c = 32 \/ c \in 9 .. 13
Lower(s) == [i \in DOMAIN s |-> Downcase(s[i])]
Folded(s, caseless) == IF caseless THEN Lower(s) ELSE s

\* Where t is in s: what the searches are meant to find
Occurrences(s, t, caseless) ==
  {i \in 0 .. Len(s) - Len(t) : Folded(Mid(s, i, Len(t)), caseless) = Folded(t, caseless)}

-----------------------------------------------------------------------------
(* Searching *)

\* The scan without its last check: an occurrence that ends the string is missed when i
\* steps by two.
PairedScanUnfinished(b1, pos, b2) ==
  LET lf == Len(b1) - 1
      ll == Len(b2)
      scan[i \in Nat, j \in Nat, ii \in Int] ==
        IF i >= lf THEN ERR
        ELSE IF At(b2, j) \notin {At(b1, i), At(b1, i + 1)} THEN scan[i + 2, j, ii]
        ELSE LET k == IF At(b2, j) = At(b1, i) THEN i ELSE i + 1
                 start == IF j = 0 THEN k ELSE ii
             IN  IF j + 1 < ll THEN scan[k + 1, j + 1, start]
                 ELSE IF k + 1 = start + j + 1 THEN start ELSE scan[k - j, 0, start]
  IN  scan[pos, 0, -1]

\* The scan of binstr and of CBString::find for a b2 of two or more characters: i runs over b1
\* for the next character of b2, two positions at a time, and ii is where the first was found;
\* only when all are found is it seen whether they are adjacent.
PairedScan(b1, pos, b2) ==
  LET lf == Len(b1) - 1
      ll == Len(b2)
      scan[i \in Nat, j \in Nat, ii \in Int] ==
        LET found(next, count, start) ==
              IF next = start + count THEN start ELSE scan[next - count, 0, start]
        IN  IF i >= lf
            THEN IF i = lf /\ ll = j + 1 /\ At(b2, j) = At(b1, i) THEN found(i, j, ii) ELSE ERR
            ELSE IF At(b2, j) \notin {At(b1, i), At(b1, i + 1)} THEN scan[i + 2, j, ii]
            ELSE LET k == IF At(b2, j) = At(b1, i) THEN i ELSE i + 1
                     start == IF j = 0 THEN k ELSE ii
                 IN  IF j + 1 < ll THEN scan[k + 1, j + 1, start] ELSE found(k + 1, j + 1, start)
  IN  scan[pos, 0, -1]

\* binstr
Binstr(b1, pos, b2) ==
  IF pos < 0 \/ pos > Len(b1) - Len(b2) THEN ERR
  ELSE IF b2 = << >> THEN pos
  ELSE IF Len(b2) = 1 THEN Least({i \in pos .. Len(b1) - 1 : At(b1, i) = b2[1]})
  ELSE PairedScan(b1, pos, b2)

\* binstrcaseless: i and j run over b1 and b2 until j is past b2 or i where b2 has no room
BinstrCaseless(b1, pos, b2) ==
  LET scan[i \in Nat, j \in Nat] ==
        IF Downcase(At(b2, j)) = Downcase(At(b1, i + j))
        THEN IF j + 1 >= Len(b2) THEN i ELSE scan[i, j + 1]
        ELSE IF i + 1 >= Len(b1) - Len(b2) + 1 THEN ERR ELSE scan[i + 1, 0]
  IN  IF pos < 0 \/ pos > Len(b1) - Len(b2) THEN ERR
      ELSE IF b2 = << >> THEN pos ELSE scan[pos, 0]

\* binstrr and binstrrcaseless, backwards from pos or from the last place with room
Binstrr(b1, pos, b2, caseless) ==
  LET d0 == Folded(b2, caseless)
      d1 == Folded(b1, caseless)
      scan[i \in Int, j \in Nat] ==
        IF At(d0, j) = At(d1, i + j)
        THEN IF j + 1 >= Len(b2) THEN i ELSE scan[i, j + 1]
        ELSE IF i - 1 < 0 THEN ERR ELSE scan[i - 1, 0]
      room == Len(b1) - Len(b2)
  IN  IF pos < 0 \/ pos > Len(b1) \/ room < 0 THEN ERR
      ELSE IF b2 = << >> THEN pos
      ELSE scan[Min({pos, room}), 0]

\* bstrchrp, bstrrchrp
Bstrchrp(s, c, pos) == IF pos < 0 THEN ERR ELSE Least({i \in pos .. Len(s) - 1 : At(s, i) = c})
Bstrrchrp(s, c, pos) ==
  IF pos < 0 \/ pos >= Len(s) THEN ERR ELSE Greatest({i \in 0 .. pos : At(s, i) = c})

\* binchr, bninchr, binchrr, bninchrr: a charField is a set of characters
CharField(s) == ToSet(s)
Binchr(b0, pos, b1) ==
  IF pos < 0 \/ b1 = << >> THEN ERR
  ELSE Least({i \in pos .. Len(b0) - 1 : At(b0, i) \in CharField(b1)})
Bninchr(b0, pos, b1) ==
  IF pos < 0 \/ b1 = << >> THEN ERR
  ELSE Least({i \in pos .. Len(b0) - 1 : At(b0, i) \notin CharField(b1)})
Binchrr(b0, pos, b1) ==
  IF pos < 0 \/ pos > Len(b0) \/ b1 = << >> THEN ERR
  ELSE Greatest({i \in 0 .. Min({pos, Len(b0) - 1}) : At(b0, i) \in CharField(b1)})
Bninchrr(b0, pos, b1) ==
  IF pos < 0 \/ pos > Len(b0) \/ b1 = << >> THEN ERR
  ELSE Greatest({i \in 0 .. Min({pos, Len(b0) - 1}) : At(b0, i) \notin CharField(b1)})

-----------------------------------------------------------------------------
(* Comparing; SHRT_MIN, for strings that are not valid, is left out *)

SignedChar(c) == IF c >= 128 THEN c - 256 ELSE c
Codes(s) == [i \in DOMAIN s |-> SignedChar(s[i])]

\* The first position up to m where the strings differ, or m
FirstDifference(s, t, m) == Min({m} \cup {i \in 0 .. m - 1 : At(s, i) # At(t, i)})

\* bstrcmp: stops at a Nul that both have
Bstrcmp(b0, b1) ==
  LET n == Min({Len(b0), Len(b1)})
      i == Min({FirstDifference(b0, b1, n)} \cup {k \in 0 .. n - 1 : At(b0, k) = Nul})
  IN  IF i < n THEN SignedChar(At(b0, i)) - SignedChar(At(b1, i))
      ELSE IF Len(b0) > n THEN 1 ELSE IF Len(b1) > n THEN -1 ELSE 0

\* bstrncmp: n < 0 compares nothing
Bstrncmp(b0, b1, n) ==
  LET m == Min({n, Len(b0), Len(b1)})
      i == Min({FirstDifference(b0, b1, m)} \cup {k \in 0 .. m - 1 : At(b0, k) = Nul})
  IN  IF i < m THEN SignedChar(At(b0, i)) - SignedChar(At(b1, i))
      ELSE IF n = m \/ Len(b0) = Len(b1) THEN 0
      ELSE IF Len(b0) > m THEN 1 ELSE -1

\* What the first extra character of the longer string counts for
Extra(c) == IF c = Nul THEN 256 ELSE SignedChar(c)

\* bstricmp
Bstricmp(b0, b1) ==
  LET n == Min({Len(b0), Len(b1)})
      s == Lower(b0)
      t == Lower(b1)
      i == FirstDifference(s, t, n)
  IN  IF i < n THEN SignedChar(At(s, i)) - SignedChar(At(t, i))
      ELSE IF Len(b0) > n THEN Extra(At(s, n))
      ELSE IF Len(b1) > n THEN -Extra(At(t, n)) ELSE 0

\* bstrnicmp without its test for n characters.
BstrnicmpUnbounded(b0, b1, n) == Bstricmp(b0, b1)

\* bstrnicmp: finds the difference in lower case and returns it as it is written
Bstrnicmp(b0, b1, n) ==
  LET m == Min({n, Len(b0), Len(b1)})
      i == FirstDifference(Lower(b0), Lower(b1), m)
  IN  IF i < m THEN At(b0, i) - At(b1, i)
      ELSE IF n = m \/ Len(b0) = Len(b1) THEN 0
      ELSE IF Len(b0) > m THEN Extra(Downcase(At(b0, m))) ELSE -Extra(Downcase(At(b1, m)))

\* biseq, biseqcaseless
Biseq(b0, b1, caseless) ==
  /\ Len(b0) = Len(b1)
  /\ FirstDifference(Folded(b0, caseless), Folded(b1, caseless), Len(b0)) = Len(b0)

\* bisstemeqblk, bisstemeqcaselessblk
Bisstemeq(b0, blk, caseless) ==
  /\ Len(b0) >= Len(blk)
  /\ FirstDifference(Folded(b0, caseless), Folded(blk, caseless), Len(blk)) = Len(blk)

\* A char * ends before its first Nul.
CStr(s) == SubSeq(s, 1, Least({i \in 1 .. Len(s) + 1 : i = Len(s) + 1 \/ s[i] = Nul}) - 1)

\* biseqcstr, biseqcstrcaseless: each position of s is read only if none before ended it
Biseqcstr(b0, s, caseless) ==
  LET str == Folded(CStr(s), caseless)
      i == Min({Len(b0)} \cup {k \in 0 .. Len(b0) - 1 :
                                 k >= Len(str) \/ At(Folded(b0, caseless), k) # At(str, k)})
  IN  i = Len(b0) /\ i = Len(str)

-----------------------------------------------------------------------------
(* Splitting and joining: what the callback of a split is given, as <<ofs, len>> *)

\* bsplitcb and bsplitscb: up to the next separator, or the end of the string
SplitAny(str, separators, pos) ==
  LET pieces[p \in Nat] ==
        LET i == Min({Len(str)} \cup {k \in p .. Len(str) - 1 : At(str, k) \in separators})
        IN  <<<<p, i - p>>>> \o (IF i + 1 <= Len(str) THEN pieces[i + 1] ELSE << >>)
  IN  pieces[pos]

Bsplitcb(str, splitChar, pos) == SplitAny(str, {splitChar}, pos)

Bsplitscb(str, splitStr, pos) ==
  IF splitStr = << >> THEN <<<<0, Len(str)>>>> ELSE SplitAny(str, CharField(splitStr), pos)

\* bsplitstrcb that steps over one character less than it matched.
BsplitstrcbOverlaps(str, splitStr, pos) ==
  LET n == Len(splitStr)
      pieces[p \in Nat, i \in Nat] ==
        IF i > Len(str) - n THEN <<<<p, Len(str) - p>>>>
        ELSE IF Mid(str, i, n) = splitStr THEN <<<<p, i - p>>>> \o pieces[i + n - 1, i + n]
        ELSE pieces[p, i + 1]
  IN  IF n = 0 THEN [k \in 1 .. Len(str) - pos |-> <<pos + k - 1, 1>>]
      ELSE IF n = 1 THEN Bsplitcb(str, splitStr[1], pos) ELSE pieces[pos, pos]

\* bsplitstrcb: after a separator p is the position behind it, and the search goes on
\* one behind that
Bsplitstrcb(str, splitStr, pos) ==
  LET n == Len(splitStr)
      pieces[p \in Nat, i \in Nat] ==
        IF i > Len(str) - n THEN <<<<p, Len(str) - p>>>>
        ELSE IF Mid(str, i, n) = splitStr THEN <<<<p, i - p>>>> \o pieces[i + n, i + n + 1]
        ELSE pieces[p, i + 1]
  IN  IF n = 0 THEN [k \in 1 .. Len(str) - pos |-> <<pos + k - 1, 1>>]
      ELSE IF n = 1 THEN Bsplitcb(str, splitStr[1], pos) ELSE pieces[pos, pos]

\* bsplit, bsplits, bsplitstr: bscb takes a copy of each piece
Entries(str, pieces) == [k \in DOMAIN pieces |-> Mid(str, pieces[k][1], pieces[k][2])]
Bsplit(str, splitChar) == Entries(str, Bsplitcb(str, splitChar, 0))
Bsplits(str, splitStr) == Entries(str, Bsplitscb(str, splitStr, 0))
Bsplitstr(str, splitStr) == Entries(str, Bsplitstrcb(str, splitStr, 0))

\* bjoin: the entries with sep between, and the size of the buffer computed before
Bjoin(bl, sep) ==
  LET join[i \in 0 .. Len(bl)] == IF i = 0 THEN << >>
                                  ELSE join[i - 1] \o (IF i > 1 THEN sep ELSE << >>) \o bl[i]
  IN  [text |-> join[Len(bl)],
       size |-> FoldSeq(LAMBDA e, c : c + Len(e), 1, bl) + (Len(bl) - 1) * Len(sep)]
=============================================================================
