------------------------------- MODULE Bstring -------------------------------
(***************************************************************************)
(* The functions of the Better String Library that write a bstring         *)
(* (bstrlib.c, bstraux.c), on the memory of its buffer.                    *)
(*                                                                         *)
(* A bstring is a record: data, its buffer of mlen bytes; slen; tight,     *)
(* that the buffer is exactly as long as was asked for, there being no     *)
(* memory for more; over, the number of bytes that were written past the   *)
(* buffer; moved, that the call at hand freed the buffer it found; and     *)
(* broken, that a call that failed left it without a terminator.           *)
(* Bytes nobody wrote are Junk.  A string argument is either a string of   *)
(* its own, or a view of the bstring's own buffer, as cstr2tbstr or        *)
(* bmid2tbstr make them: what a view shows is Junk once the buffer moved.  *)
(*                                                                         *)
(* A function is an operator from a bstring and arguments to the set of    *)
(* its outcomes, each a return value and the bstring afterwards; any       *)
(* allocation may fail.  Checks of arguments for NULL and for headers that *)
(* no function makes are left out, and so is overflow of int.              *)
(***************************************************************************)
EXTENDS BstrText

CONSTANTS Letters,      \* the characters of arguments
          MaxArg,       \* bound: the length of string arguments, positions and counts
          Smallest,     \* the smallest buffer, 8 in the code
          VsnStart      \* START_VSNBUFF, 16 in the code

\* What a buffer is rounded up to
PowerOf2 == LET power[n \in 0 .. 30] == IF n = 0 THEN 1 ELSE 2 * power[n - 1]
            IN  [n \in 0 .. 30 |-> power[n]]

ASSUME BstringAssumption ==
  /\ Letters \subseteq 1 .. 255 /\ Letters # {}
  /\ MaxArg \in Nat /\ VsnStart \in Nat \ {0}
  /\ \E n \in 1 .. 30 : Smallest = PowerOf2[n]

Junk == -1
OK == 0
Space == 32

Repeat(c, n) == [i \in 1 .. n |-> c]
Value(s) == Mid(s.data, 0, s.slen)
Mlen(s) == Len(s.data)

Invalid == <<ERR>>    \* NULL, of a text
Ok(s) == [ret |-> OK, b |-> s]
Err(s) == [ret |-> ERR, b |-> s]

Terminated(s) == s.slen < Mlen(s) /\ At(s.data, s.slen) = Nul

\* What a call leaves: bytes behind the terminator are nobody's.
Settled(o) ==
  [o.b EXCEPT !.moved = FALSE,
              !.broken = (@ \/ o.ret # OK) /\ ~Terminated(o.b),
              !.data = [i \in DOMAIN @ |-> IF i <= o.b.slen + 1 THEN @[i] ELSE Junk]]

\* Memory: text written from position at, or moved within the buffer; what is past the
\* buffer is not there
Write(s, at, text) ==
  [s EXCEPT !.data = [i \in DOMAIN @ |-> IF i - at \in DOMAIN text THEN text[i - at] ELSE @[i]],
            !.over = Max({@, at + Len(text) - Mlen(s)})]
Read(s, from, n) == [i \in 1 .. n |-> IF from + i <= Mlen(s) THEN s.data[from + i] ELSE Junk]
Move(s, to, from, n) == IF n > 0 THEN Write(s, to, Read(s, from, n)) ELSE s
\* slen = n, and the terminator
Ended(s, n) == [Write(s, n, <<Nul>>) EXCEPT !.slen = n]

\* The outcomes of S, those that went well carried on by Op
Then(S, Op(_)) == UNION {IF o.ret = OK THEN Op(o.b) ELSE {o} : o \in S}

-----------------------------------------------------------------------------
(* String arguments *)

Own(text) == [view |-> FALSE, text |-> text]
View(left, n) == [view |-> TRUE, left |-> left, n |-> n]
ArgLen(arg) == IF arg.view THEN arg.n ELSE Len(arg.text)
ArgText(s, arg) ==
  IF ~arg.view THEN arg.text
  ELSE IF s.moved THEN Repeat(Junk, arg.n) ELSE Read(s, arg.left, arg.n)

Texts == BoundedSeq(Letters, MaxArg)
\* Parts of the string; of one without its terminator there are none
Views(s) == {View(left, n) : left \in 0 .. s.slen, n \in 0 .. MaxArg}
Args(s) == {Own(text) : text \in Texts} \cup {v \in Views(s) : Terminated(s) /\ v.left + v.n <= s.slen}

\* aux: where the argument may be in b's buffer a copy of it is used, if there is memory
WithCopy(s, arg, copied, Op(_)) ==
  IF copied THEN {Err(s)} \cup Op(Own(ArgText(s, arg))) ELSE Op(arg)

-----------------------------------------------------------------------------
(* Memory management *)

\* snapUpSize: the least power of two greater than i
SnapUpSize(i) == Max({Smallest, PowerOf2[Least({n \in 0 .. 30 : PowerOf2[n] > i})]})

\* A buffer of another length, with the string in it: from malloc, which is preferred when
\* there is slack, or from realloc; neither is relied on for more than the string.
Reallocated(s, len, tight) ==
  [s EXCEPT !.data = [i \in 1 .. len |-> IF i <= s.slen THEN s.data[i]
                                         ELSE IF i = s.slen + 1 THEN Nul ELSE Junk],
            !.tight = tight, !.moved = TRUE, !.over = Max({@, s.slen + 1 - len})]

\* balloc that finds a buffer of exactly len bytes sufficient.
BallocLate(s, olen) ==
  IF olen <= 0 THEN {Err(s)}
  ELSE IF olen <= Mlen(s) THEN {Ok(s)}
  ELSE {Ok(Reallocated(s, SnapUpSize(olen), FALSE)), Ok(Reallocated(s, olen, TRUE)), Err(s)}

\* balloc: rounds up, and takes what was asked for when there is no memory for that
Balloc(s, olen) ==
  IF olen <= 0 THEN {Err(s)}
  ELSE IF olen < Mlen(s) THEN {Ok(s)}
  ELSE {Ok(Reallocated(s, SnapUpSize(olen), FALSE)), Ok(Reallocated(s, olen, TRUE)), Err(s)}

\* ballocmin: may shrink the buffer to the string
Ballocmin(s, len) ==
  LET n == Max({len, s.slen + 1})
  IN  IF len <= 0 THEN {Err(s)}
      ELSE IF n = Mlen(s) THEN {Ok(s)} ELSE {Ok(Reallocated(s, n, TRUE)), Err(s)}

\* A new bstring of mlen bytes
Fresh(text, mlen, tight) ==
  [data |-> [i \in 1 .. mlen |-> IF i <= Len(text) THEN text[i]
                                 ELSE IF i = Len(text) + 1 THEN Nul ELSE Junk],
   slen |-> Len(text), tight |-> tight, over |-> 0, moved |-> FALSE,
   broken |-> FALSE]

\* bfromcstr, bfromcstralloc, blk2bstr, bstrcpy; each may return NULL instead
RoomFor(text) == SnapUpSize(Len(text) + (IF text = << >> THEN 2 ELSE 1))
Bfromcstr(text) == Fresh(text, RoomFor(text), FALSE)
Bfromcstralloc(mlen, text) == Fresh(text, Max({mlen, RoomFor(text)}), FALSE)
Blk2bstr(text) == Fresh(text, RoomFor(text), FALSE)
Bstrcpy(text) == {Fresh(text, SnapUpSize(Len(text) + 1), FALSE), Fresh(text, Len(text) + 1, TRUE)}

\* left and len cut to the string they refer to; bmidstr, bassignmidstr
ClipLeft(left) == Max({left, 0})
ClipLen(slen, left, len) == Min({IF left < 0 THEN len + left ELSE len, slen - ClipLeft(left)})
Bmidstr(text, left, len) ==
  LET n == ClipLen(Len(text), left, len)
  IN  IF n <= 0 THEN Bfromcstr(<< >>) ELSE Blk2bstr(Mid(text, ClipLeft(left), n))

\* bTail, bHead
BTail(text, n) == IF n >= Len(text) THEN Bstrcpy(text) ELSE {Bmidstr(text, Len(text) - n, n)}
BHead(text, n) == IF n >= Len(text) THEN Bstrcpy(text) ELSE {Bmidstr(text, 0, n)}

\* bstr2cstr: a char * of the string with z for each Nul
Bstr2cstr(s, z) == [i \in 1 .. s.slen + 1 |->
                      IF i > s.slen THEN Nul ELSE IF s.data[i] = Nul THEN z ELSE s.data[i]]

-----------------------------------------------------------------------------
(* Concatenating and assigning *)

\* bconcat that does not copy the argument it may be about to free.
BconcatUnguarded(s, arg) ==
  LET d == s.slen
      len == ArgLen(arg)
  IN  Then(IF Mlen(s) <= d + len + 1 THEN Balloc(s, d + len + 1) ELSE {Ok(s)},
           LAMBDA u : {Ok(Ended(Write(u, d, ArgText(u, arg)), d + len))})

\* bconcat
Bconcat(s, arg) ==
  LET d == s.slen
      len == ArgLen(arg)
      grows == Mlen(s) <= d + len + 1
  IN  WithCopy(s, arg, grows /\ arg.view, LAMBDA aux :
        Then(IF grows THEN Balloc(s, d + len + 1) ELSE {Ok(s)},
             LAMBDA u : {Ok(Ended(Write(u, d, ArgText(u, aux)), d + len))}))

\* bconchar
Bconchar(s, c) == Then(Balloc(s, s.slen + 2), LAMBDA u : {Ok(Ended(Write(u, u.slen, <<c>>), u.slen + 1))})

\* bcatblk
Bcatblk(s, text) ==
  LET nl == s.slen + Len(text)
  IN  Then(IF Mlen(s) <= nl THEN Balloc(s, nl + 1) ELSE {Ok(s)},
           LAMBDA u : {Ok(Ended(Write(u, u.slen, text), nl))})

\* bcatcstr: copies up to the end of the buffer, and the rest by bcatblk
Bcatcstr(s, text) ==
  LET room == Mlen(s) - s.slen
  IN  IF Len(text) < room THEN {Ok(Ended(Write(s, s.slen, text), s.slen + Len(text)))}
      ELSE Bcatblk([Write(s, s.slen, Mid(text, 0, room)) EXCEPT !.slen = Mlen(s)],
                   Mid(text, room, Len(text) - room))

\* bassign
Bassign(s, arg) ==
  Then(IF ArgLen(arg) # 0 THEN Balloc(s, ArgLen(arg)) ELSE {Ok(s)},
       LAMBDA u : {Ok(Ended(Write(u, 0, ArgText(u, arg)), ArgLen(arg)))})

\* bassignmidstr
Bassignmidstr(s, arg, left, len) ==
  LET n == ClipLen(ArgLen(arg), left, len)
  IN  IF n <= 0 THEN {Ok(Ended(s, 0))}
      ELSE Then(Balloc(s, n), LAMBDA u :
             {Ok(Ended(Write(u, 0, Mid(ArgText(u, arg), ClipLeft(left), n)), n))})

\* bassigncstr: as bcatcstr
Bassigncstr(s, text) ==
  LET room == Mlen(s)
  IN  IF Len(text) < room THEN {Ok(Ended(Write(s, 0, text), Len(text)))}
      ELSE Then(Balloc([Write(s, 0, Mid(text, 0, room)) EXCEPT !.slen = room], Len(text) + 1),
                LAMBDA u : {Ok(Ended(Write(u, room, Mid(text, room, Len(text) - room)), Len(text)))})

\* bassignblk
Bassignblk(s, text) ==
  Then(IF Len(text) + 1 > Mlen(s) THEN Balloc(s, Len(text) + 1) ELSE {Ok(s)},
       LAMBDA u : {Ok(Ended(Write(u, 0, text), Len(text)))})

-----------------------------------------------------------------------------
(* Writing at a position *)

NoText == Own(<< >>)    \* NULL, for bsetstr

\* bsetstr: fills the gap between the end and pos, and overwrites from pos
Bsetstr(s, pos, arg, fill) ==
  LET d == pos + ArgLen(arg)
  IN  WithCopy(s, arg, arg.view, LAMBDA aux :
        Then(Balloc(s, d + 1), LAMBDA u :
          LET filled == IF pos > u.slen THEN Write(u, u.slen, Repeat(fill, pos - u.slen)) ELSE u
          IN  {Ok(Ended(Write(filled, pos, ArgText(u, aux)), Max({u.slen, d})))}))

\* binsert
Binsert(s, pos, arg, fill) ==
  LET len == ArgLen(arg)
      d == s.slen + len
      l == pos + len
  IN  WithCopy(s, arg, arg.view, LAMBDA aux :
        IF l > d
        THEN Then(Balloc(s, l + 1), LAMBDA u :
               {Ok(Ended(Write(Write(u, u.slen, Repeat(fill, pos - u.slen)), pos, ArgText(u, aux)), l))})
        ELSE Then(Balloc(s, d + 1), LAMBDA u :
               {Ok(Ended(Write(Move(u, l, pos, d - l), pos, ArgText(u, aux)), d))}))

\* breplace: what reaches past the end is left to bsetstr
Breplace(s, pos, len, arg, fill) ==
  LET n == ArgLen(arg)
      pl == pos + len
  IN  IF pl >= s.slen
      THEN Then(Bsetstr(s, pos, arg, fill), LAMBDA u :
             {Ok(IF pos + n < u.slen THEN Ended(u, pos + n) ELSE u)})
      ELSE WithCopy(s, arg, arg.view /\ arg.left < s.slen, LAMBDA aux :
             Then(IF n > len THEN Balloc(s, s.slen + n - len) ELSE {Ok(s)}, LAMBDA u :
               {Ok(Ended(Write(Move(u, pos + n, pl, u.slen - pl), pos, ArgText(u, aux)),
                         u.slen + n - len))}))

\* binsertch
Binsertch(s, pos, len, fill) ==
  LET d == s.slen + len
      l == pos + len
  IN  IF l > d THEN Then(Balloc(s, l + 1), LAMBDA u :
                      {Ok(Ended(Write(u, u.slen, Repeat(fill, l - u.slen)), l))})
      ELSE Then(Balloc(s, d + 1), LAMBDA u :
             {Ok(Ended(Write(Move(u, l, pos, d - l), pos, Repeat(fill, len)), d))})

\* bpattern: the string repeated up to len
Bpattern(s, len) ==
  LET d == s.slen
  IN  IF d = 0 THEN {Err(s)}
      ELSE Then(Balloc(s, len + 1), LAMBDA u :
             IF len > 0 /\ d = 1 THEN Bsetstr(u, len, NoText, u.data[1])
             ELSE {Ok(Ended(Write(u, d, [i \in 1 .. len - d |-> u.data[((i - 1) % d) + 1]]), len))})

\* bFill, bReplicate, bInsertChrs
BFill(s, c, len) == Bsetstr([s EXCEPT !.slen = 0], len, NoText, c)
BReplicate(s, n) == Bpattern(s, n * s.slen)
BInsertChrs(s, pos, len, c, fill) ==
  IF len <= 0 THEN {Err(s)}
  ELSE Then(IF pos > s.slen THEN Bsetstr(s, pos, NoText, fill) ELSE {Ok(s)}, LAMBDA u :
         Then(Balloc(u, u.slen + len), LAMBDA v :
           {Ok(Ended(Write(Move(v, pos + len, pos, v.slen - pos), pos, Repeat(c, len)), v.slen + len))}))

\* bSetCstrChar: a Nul ends the string; bSetChar: it does not
BSetCstrChar(s, pos, c) ==
  IF pos > s.slen THEN {Err(s)}
  ELSE IF pos = s.slen THEN IF c = Nul THEN {Ok(s)} ELSE Bconchar(s, c)
  ELSE {Ok([Write(s, pos, <<c>>) EXCEPT !.slen = IF c = Nul THEN pos ELSE @])}
BSetChar(s, pos, c) ==
  IF pos > s.slen THEN {Err(s)}
  ELSE IF pos = s.slen THEN Bconchar(s, c) ELSE {Ok(Write(s, pos, <<c>>))}
-----------------------------------------------------------------------------
(* Editing in place *)

\* btrunc
Btrunc(s, n) == {Ok(IF s.slen > n THEN Ended(s, n) ELSE s)}

\* btoupper, btolower
Btoupper(s) == {Ok(Write(s, 0, [i \in 1 .. s.slen |-> Upcase(s.data[i])]))}
Btolower(s) == {Ok(Write(s, 0, [i \in 1 .. s.slen |-> Downcase(s.data[i])]))}

\* bdelete that takes a range that ends the string for one within it.
BdeleteWithin(s, pos, len) ==
  LET p == Max({pos, 0})
      n == IF pos < 0 THEN len + pos ELSE len
  IN  IF n < 0 THEN {Err(s)}
      ELSE IF n = 0 \/ p >= s.slen THEN {Ok(s)}
      ELSE {Ok(Ended(Move(s, p, p + n, s.slen - (p + n)), s.slen - n))}

\* bdelete: a negative pos cuts the range
Bdelete(s, pos, len) ==
  LET p == Max({pos, 0})
      n == IF pos < 0 THEN len + pos ELSE len
  IN  IF n < 0 THEN {Err(s)}
      ELSE IF n = 0 \/ p >= s.slen THEN {Ok(s)}
      ELSE IF p + n >= s.slen THEN {Ok(Ended(s, p))}
      ELSE {Ok(Ended(Move(s, p, p + n, s.slen - (p + n)), s.slen - n))}

\* bltrimws, brtrimws, btrimws
Inked(s) == {i \in 0 .. s.slen - 1 : ~Wspace(At(s.data, i))}
Bltrimws(s) == IF Inked(s) = {} THEN {Ok(Ended(s, 0))} ELSE Bdelete(s, 0, Min(Inked(s)))
Brtrimws(s) == {Ok(Ended(s, Greatest(Inked(s)) + 1))}
Btrimws(s) == IF Inked(s) = {} THEN {Ok(Ended(s, 0))}
              ELSE Bdelete(Ended(s, Max(Inked(s)) + 1), 0, Min(Inked(s)))

\* bReverse: swaps from both ends
BReverse(s) == {Ok(Write(s, 0, [i \in 1 .. s.slen |-> s.data[s.slen + 1 - i]]))}

\* findreplaceengine.  What is replaced grows by more where it is longer: the matches are
\* found first, then the pieces are moved from the last to the first.
Instr(s, pos, find, caseless) ==
  IF caseless THEN BinstrCaseless(Value(s), pos, find) ELSE Binstr(Value(s), pos, find)

Bstrings == [data : Seq(Int), slen : Nat, tight : BOOLEAN, over : Nat, moved : BOOLEAN, broken : BOOLEAN]

ReplaceSame(s, find, repl, pos, caseless) ==
  LET replace[u \in Bstrings, from \in Nat] ==
        LET i == Instr(u, from, find, caseless)
        IN  IF i < 0 THEN u ELSE replace[Write(u, i, repl), i + Len(find)]
  IN  {Ok(replace[s, pos])}

ReplaceShorter(s, find, repl, pos, caseless) ==
  LET delta == Len(find) - Len(repl)
      replace[u \in Bstrings, from \in Nat, acc \in Nat] ==
        LET i == Instr(u, from, find, caseless)
            end == IF i < 0 THEN u.slen ELSE i
            packed == IF acc > 0 THEN Move(u, from - acc, from, end - from) ELSE u
        IN  IF i >= 0 THEN replace[Write(packed, i - acc, repl), i + Len(find), acc + delta]
            ELSE IF acc > 0 THEN Ended(packed, u.slen - acc) ELSE u
  IN  {Ok(replace[s, pos, 0])}

ReplaceLonger(s, find, ReplIn(_), replLen, pos, caseless) ==
  LET delta == replLen - Len(find)
      matches[from \in Nat] ==
        LET i == Instr(s, from, find, caseless)
        IN  IF i < 0 THEN << >> ELSE <<i>> \o matches[i + Len(find)]
      d == Append(matches[pos], s.slen)
      n == Len(d) - 1
      \* u, the matches behind the first i replaced and the pieces behind them moved
      Spread(u) ==
        LET spread[i \in 0 .. n] ==
              IF i = n THEN u
              ELSE LET from == d[i + 1] + Len(find)
                       acc == (i + 1) * delta
                       moved == Move(spread[i + 1], from + acc, from, d[i + 2] - from)
                   IN  Write(moved, from + acc - replLen, ReplIn(moved))
        IN  spread[0]
  IN  Then(Balloc(s, s.slen + n * delta + 1),
           LAMBDA u : {Ok(Ended(Spread(u), s.slen + n * delta))})

\* bfindreplace that leaves its replacement in the buffer.
BfindreplaceUnguarded(s, find, repl, pos, caseless) ==
  LET f == ArgText(s, find)
      r == ArgText(s, repl)
  IN  IF f = << >> THEN {Err(s)}
      ELSE IF pos > s.slen - Len(f) THEN {Ok(s)}
      ELSE IF Len(f) = Len(r) THEN ReplaceSame(s, f, r, pos, caseless)
      ELSE IF Len(f) > Len(r) THEN ReplaceShorter(s, f, r, pos, caseless)
      ELSE ReplaceLonger(s, f, LAMBDA u : ArgText(u, repl), Len(r), pos, caseless)

\* bfindreplace, bfindreplacecaseless.  An argument in the buffer is copied only if it
\* reaches past pos.
Bfindreplace(s, find, repl, pos, caseless) ==
  LET InWay(arg) == arg.view /\ pos - arg.n < arg.left /\ arg.left < s.slen
  IN  IF ArgLen(find) = 0 THEN {Err(s)}
      ELSE IF pos > s.slen - ArgLen(find) THEN {Ok(s)}
      ELSE WithCopy(s, find, InWay(find), LAMBDA auxf :
             WithCopy(s, repl, InWay(repl), LAMBDA auxr :
               LET f == ArgText(s, auxf)
                   r == ArgText(s, auxr)
               IN  IF Len(f) = Len(r) THEN ReplaceSame(s, f, r, pos, caseless)
                   ELSE IF Len(f) > Len(r) THEN ReplaceShorter(s, f, r, pos, caseless)
                   ELSE ReplaceLonger(s, f, LAMBDA u : ArgText(u, auxr), Len(r), pos, caseless)))

-----------------------------------------------------------------------------
(* Justifying; the character space is a space *)

\* bJustifyLeft: of each run of spaces one is kept, and none at the ends
Words(text) == SelectSeq(Bsplit(text, Space), LAMBDA word : word # << >>)
BJustifyLeft(s) ==
  LET kept[i \in 0 .. s.slen] ==    \* data[0 .. j - 1] after i characters
        IF i = 0 THEN << >>
        ELSE IF s.data[i] # Space \/ (i > 1 /\ s.data[i - 1] # Space)
             THEN Append(kept[i - 1], s.data[i]) ELSE kept[i - 1]
      line == kept[s.slen]
      j == IF line # << >> /\ Last(line) = Space THEN Len(line) - 1 ELSE Len(line)
  IN  {Ok(Ended(Write(s, 0, line), j))}

\* bJustifyRight, bJustifyCenter: bInsertChrs fails for no characters
BJustifyRight(s, width) ==
  IF width <= 0 THEN {Err(s)}
  ELSE Then(BJustifyLeft(s), LAMBDA u :
         IF u.slen <= width THEN BInsertChrs(u, 0, width - u.slen, Space, Space) ELSE {Ok(u)})
BJustifyCenter(s, width) ==
  IF width <= 0 THEN {Err(s)}
  ELSE Then(BJustifyLeft(s), LAMBDA u :
         IF u.slen <= width THEN BInsertChrs(u, 0, (width - u.slen + 1) \div 2, Space, Space) ELSE {Ok(u)})

\* bJustifyMargin: spreads the words over the width; what its calls return is not looked at
BJustifyMargin(s, width) ==
  LET words == Words(Value(s))
      letters == Len(FlattenSeq(words))
      spread[i \in Nat, u \in Bstrings, l \in Nat] ==
        LET c == Len(words) + 1 - i
            gap == IF u.slen > 0 THEN (width - l + c \div 2) \div c ELSE 0
            spaced == IF u.slen > 0 THEN {o.b : o \in BInsertChrs(u, u.slen, gap, Space, Space)} ELSE {u}
        IN  IF c = 0 THEN {Ok(u)}
            ELSE UNION {UNION {spread[i + 1, o.b, l + gap] : o \in Bconcat(v, Own(words[i]))} : v \in spaced}
  IN  {Err(s)} \cup
      (IF letters + Len(words) >= width \/ Len(words) < 2 THEN BJustifyLeft(s)
       ELSE spread[1, [s EXCEPT !.slen = 0], letters])

-----------------------------------------------------------------------------
(* Formatting: a format and its arguments are the text they stand for *)

\* What vsnprintf returns for a text longer than the size it was given: its length, or less
\* than that size in libraries before C99.
VsnReturns(text, size) == IF Len(text) < size THEN {Len(text)} ELSE {Len(text), -1}

\* The loop of bformata, bassignformat and bformat: tries sizes until the text is shorter
Formatted(text, start) ==
  LET try[n \in Nat] ==
        IF Len(text) < n THEN {text}
        ELSE {Invalid} \cup UNION {try[IF r > n THEN r ELSE n + n] : r \in VsnReturns(text, n + 1)}
  IN  {Invalid} \cup try[Max({start, 1})]

Bformata(s, text) ==
  UNION {IF f = Invalid THEN {Err(s)} ELSE Bconcat(s, Own(f)) : f \in Formatted(text, VsnStart)}
Bassignformat(s, text) ==
  UNION {IF f = Invalid THEN {Err(s)} ELSE Bassign(s, Own(f)) : f \in Formatted(text, VsnStart)}

\* bvcformata that takes a text that fills the space it was given for one that fits.
BvcformataKeepsCut(s, count, text) ==
  Then(Balloc(s, s.slen + count + 2), LAMBDA u :
    {Ok(Ended(Write(u, u.slen, Mid(text, 0, Min({count + 1, Len(text)}))),
              u.slen + Min({count + 1, Len(text)})))})

\* bvcformata: one try for at most count characters; a failure returns, negated, how many
\* to try next
Bvcformata(s, count, text) ==
  Then(Balloc(s, s.slen + count + 2), LAMBDA u :
    IF Len(text) <= count THEN {Ok(Ended(Write(u, u.slen, text), u.slen + Len(text)))}
    ELSE {[ret |-> -Max({IF r > count + 1 THEN r ELSE count + count, 2}),
           b |-> Write(Write(u, u.slen, Mid(text, 0, count + 1)), u.slen, <<Nul>>)] :
            r \in VsnReturns(text, count + 2)})

\* The macro bvformata: tries again while bvcformata asks for more
Bvformata(s, text) ==
  LET try[u \in Bstrings, sz \in Nat] ==
        UNION {IF o.ret = OK THEN {o}
               ELSE IF -o.ret <= sz THEN {Err(o.b)} ELSE try[o.b, -o.ret] : o \in Bvcformata(u, sz, text)}
  IN  try[s, VsnStart]
=============================================================================
