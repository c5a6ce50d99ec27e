------------------------------ MODULE CBString ------------------------------
(***************************************************************************)
(* CBString, the C++ class around a bstring (bstrwrap.cpp, bstrwrap.h),    *)
(* and the splits of CBStringList.                                         *)
(*                                                                         *)
(* A CBString is a record: s, its bstring as in Bstring; prot, that it is  *)
(* write protected; and behind, the byte behind the buffer as its header   *)
(* has it.  Protecting a string overwrites the length of its buffer, and   *)
(* allowing writes again takes the length of the string for it, so that    *)
(* the terminator is behind the buffer then, where it still may be         *)
(* written.                                                                *)
(*                                                                         *)
(* A method is an operator to the set of its outcomes, as in Bstring; an   *)
(* outcome of ERR throws, the library being built with exceptions.         *)
(***************************************************************************)
EXTENDS BstringCalls

CONSTANT MaxCB    \* bound: the length of the string

ASSUME CBStringAssumption == MaxCB \in Nat

VARIABLE c

Made(text, mlen) == [s |-> Fresh(text, mlen, FALSE), prot |-> FALSE, behind |-> << >>]
Self(x) == View(0, x.s.slen)

\* x with the bstring s: a write behind the buffer counts where there is nothing
Holding(x, s) ==
  [x EXCEPT !.s = IF s.over <= Len(x.behind) /\ ~s.moved THEN [s EXCEPT !.over = 0] ELSE s,
            !.behind = IF s.moved THEN << >> ELSE IF s.over > 0 /\ @ # << >> THEN <<Nul>> ELSE @]

\* A function of the C API, which does nothing to a string that is protected
Api(x, S) == IF x.prot THEN {Err(x)} ELSE {[ret |-> o.ret, b |-> Holding(x, o.b)] : o \in S}
Wrote(x, at, text) == Holding(x, Ended(Write(x.s, at, text), at + Len(text)))
\* slen = n, without a terminator
Cut(x, n) == [x EXCEPT !.s.slen = n, !.s.broken = TRUE]

-----------------------------------------------------------------------------
(* Assigning and concatenating *)

Alloc(x, len) == Api(x, Balloc(x.s, len))

\* = of a character
AssignChar(x, ch) ==
  IF x.prot THEN {Err(x)}
  ELSE Then(IF 2 >= Mlen(x.s) THEN Alloc(x, 2) ELSE {Ok(x)}, LAMBDA u : {Ok(Wrote(u, 0, <<ch>>))})

\* = of a char *, a CBString and a tagbstring: allocates no room for the terminator
AssignText(x, text) ==
  IF x.prot THEN {Err(x)}
  ELSE Then(IF Len(text) >= Mlen(x.s) THEN Alloc(x, Len(text)) ELSE {Ok(x)},
            LAMBDA u : {Ok(Wrote(u, 0, text))})

\* += of a CBString, a character, a tagbstring
AppendString(x, arg) == Api(x, Bconcat(x.s, arg))
AppendChar(x, ch) == Api(x, Bconchar(x.s, ch))
AppendTag(x, text) == Then(Alloc(x, Len(text) + x.s.slen + 1), LAMBDA u : {Ok(Wrote(u, u.s.slen, text))})

\* += of a char *: copies up to the end of the buffer, and the rest by bcatcstr
AppendCstr(x, text) ==
  LET room == Mlen(x.s) - x.s.slen
      full == [Write(x.s, x.s.slen, Mid(text, 0, room)) EXCEPT !.slen = Mlen(x.s)]
  IN  IF x.prot THEN {Err(x)}
      ELSE IF Len(text) < room THEN {Ok(Wrote(x, x.s.slen, text))}
      ELSE Api([x EXCEPT !.s = full], Bcatcstr(full, Mid(text, room, Len(text) - room)))

\* The copy constructor, and the operators + on a copy
Copy(x) == Made(Value(x.s), x.s.slen + 1)
Plus(x, text) ==
  AppendString(Copy(x), Own(text)) \cup AppendCstr(Copy(x), text) \cup AppendTag(Copy(x), text)
    \cup (IF Len(text) = 1 THEN AppendChar(Copy(x), text[1]) ELSE {})

\* format and formata, of a buffer of their own
CBFormat(x, text) ==
  IF x.prot THEN {Err(x)}
  ELSE UNION {IF f = Invalid THEN {Err(x)} ELSE AssignText(x, f) : f \in Formatted(text, VsnStart)}
CBFormata(x, text) ==
  IF x.prot THEN {Err(x)}
  ELSE UNION {IF f = Invalid THEN {Err(x)} ELSE AppendTag(x, f) : f \in Formatted(text, VsnStart)}

\* gets and read, of the text that bgets or bread returned
Gets(x, text) ==
  IF x.prot THEN {Err(x)} ELSE IF text = Invalid THEN {Err(Cut(x, 0))} ELSE AssignText(x, text)

\* getline: the line without its terminator, which is the last character bgets returned
Getline(x, line, terminator) ==
  Then(Gets(x, Append(line, terminator)), LAMBDA u : {Ok(Cut(u, u.s.slen - 1))})

\* >>: whatever is white ends a line, and lines are read until one is not empty
Lines(source) == SplitAny(source, {ch \in ToSet(source) : Wspace(ch)}, 0)
ReadWord(x, source) ==
  LET lines == Entries(source, Lines(source))
      first == Min({Len(lines)} \cup {k \in DOMAIN lines : lines[k] # << >>})
      read[k \in Nat] == IF k = 0 THEN {Ok(x)}
                         ELSE Then(read[k - 1], LAMBDA u : Getline(u, lines[k], 10))
  IN  read[first]

-----------------------------------------------------------------------------
(* Comparing and searching: where the other string is a char *, and how that differs *)

EqualC(v, text) == Biseqcstr(v, text, FALSE)

\* strcmp: unsigned characters, up to the first Nul
Strcmp(v, w) ==
  LET s == Append(CStr(v), Nul)
      t == Append(CStr(w), Nul)
      i == FirstDifference(s, t, Min({Len(s), Len(t)}))
  IN  IF i = Min({Len(s), Len(t)}) THEN 0 ELSE At(s, i) - At(t, i)
LessC(v, text) == Strcmp(v, text) < 0

\* find of a char * without the last check of its search.
FindCUnfinished(v, text, pos) ==
  IF pos \notin 0 .. Len(v) \/ pos + Len(text) > Len(v) THEN ERR
  ELSE IF Len(text) < 2 THEN Binstr(v, pos, text) ELSE PairedScanUnfinished(v, pos, text)

\* find of a character and of a char *, its own search
FindChar(v, ch, pos) == IF pos < 0 THEN ERR ELSE Least({i \in pos .. Len(v) - 1 : At(v, i) = ch})
FindC(v, text, pos) ==
  IF pos \notin 0 .. Len(v) THEN ERR
  ELSE IF text = << >> THEN pos
  ELSE IF pos = Len(v) THEN ERR
  ELSE IF Len(text) = 1 THEN FindChar(v, text[1], pos) ELSE PairedScan(v, pos, text)

\* caselessfind and caselessreversefind of a char *; the second finds nothing from the end
CaselessfindC(v, text, pos) ==
  IF pos \notin 0 .. Len(v) THEN ERR
  ELSE IF text = << >> THEN pos ELSE IF pos = Len(v) THEN ERR ELSE BinstrCaseless(v, pos, text)
CaselessreversefindC(v, text, pos) ==
  IF pos \notin 0 .. Len(v) THEN ERR
  ELSE IF text = << >> THEN pos ELSE IF pos = Len(v) THEN ERR ELSE Binstrr(v, pos, text, TRUE)

\* reversefind of a character
ReversefindChar(v, ch, pos) ==
  IF pos > Len(v) THEN ERR
  ELSE Greatest({i \in 0 .. IF pos = Len(v) THEN pos - 1 ELSE pos : At(v, i) = ch})

\* midstr
Midstr(v, left, len) ==
  LET n == ClipLen(Len(v), left, len) IN IF n <= 0 THEN << >> ELSE Mid(v, ClipLeft(left), n)

-----------------------------------------------------------------------------
(* Changing *)

\* fill: slen is 0 before bsetstr may fail
CBFill(x, len, ch) == LET u == [x EXCEPT !.s.slen = 0] IN Api(u, Bsetstr(u.s, len, NoText, ch))

Setsubstr(x, pos, arg, ch) == Api(x, Bsetstr(x.s, pos, arg, ch))
CBInsert(x, pos, arg, ch) == Api(x, Binsert(x.s, pos, arg, ch))
Insertchrs(x, pos, len, ch) == Api(x, Binsertch(x.s, pos, len, ch))
CBReplace(x, pos, len, arg, ch) == Api(x, Breplace(x.s, pos, len, arg, ch))
Findreplace(x, find, repl, pos, caseless) == Api(x, Bfindreplace(x.s, find, repl, pos, caseless))
RemoveRange(x, pos, len) == Api(x, Bdelete(x.s, pos, len))

\* replace by a char * that keeps what was behind a text that reaches past the end.
ReplaceCKeepsTail(x, pos, len, arg, ch) ==
  IF pos + len >= x.s.slen THEN Api(x, Bsetstr(x.s, pos, arg, ch))
  ELSE CBReplace(x, pos, len, Own(ArgText(x.s, arg)), ch)

\* replace by a char *.  Of the strings in its own buffer it sees only the string itself.
ReplaceC(x, pos, len, arg, ch) ==
  LET n == ArgLen(arg)
  IN  IF x.prot THEN {Err(x)}
      ELSE IF pos + len >= x.s.slen
      THEN Then(Api(x, Bsetstr(x.s, pos, arg, ch)), LAMBDA u :
             {Ok(IF pos + n < u.s.slen THEN Holding(u, Ended(u.s, pos + n)) ELSE u)})
      ELSE IF arg.view /\ arg.left = 0 THEN CBReplace(x, pos, len, Own(ArgText(x.s, arg)), ch)
      ELSE Then(IF n > len THEN Alloc(x, x.s.slen + n - len) ELSE {Ok(x)}, LAMBDA u :
             LET moved == Move(u.s, pos + n, pos + len, u.s.slen - (pos + len))
             IN  {Ok(Holding(u, Ended(Write(moved, pos, ArgText(moved, arg)), u.s.slen + n - len)))})

\* trunc that leaves the terminator where it was.
TruncKeeps(x, len) == IF len < 0 THEN {Err(x)} ELSE {Ok([x EXCEPT !.s.slen = Min({len, @})])}

\* trunc, which a protected string does not refuse
Trunc(x, len) ==
  IF len < 0 THEN {Err(x)} ELSE {Ok(IF len < x.s.slen THEN Holding(x, Ended(x.s, len)) ELSE x)}

\* ltrim, rtrim: no set of characters trims everything
Ltrim(x, set) ==
  LET l == Bninchr(Value(x.s), 0, set) IN RemoveRange(x, 0, IF l = ERR THEN x.s.slen ELSE l)
\* rtrim: a protected string refuses the terminator only
Rtrim(x, set) ==
  LET n == Bninchrr(Value(x.s), x.s.slen - 1, set) + 1
  IN  {Ok(IF ~x.prot /\ Mlen(x.s) > n THEN Holding(x, Ended(x.s, n))
          ELSE IF n < x.s.slen THEN Cut(x, n) ELSE x)}

Toupper(x) == Api(x, Btoupper(x.s))
Tolower(x) == Api(x, Btolower(x.s))

\* repeat
Repeat_(x, count) ==
  LET n == count * x.s.slen
  IN  IF n = 0 THEN Trunc(x, 0) ELSE IF n < 0 THEN {Err(x)} ELSE Api(x, Bpattern(x.s, n))

\* = to a character of the string, protected or not.
SetCharacterUnprotected(x, i, ch) ==
  IF i \notin 0 .. x.s.slen - 1 THEN {Err(x)} ELSE {Ok([x EXCEPT !.s = Write(@, i, <<ch>>)])}

\* = to a character of the string
SetCharacter(x, i, ch) ==
  IF i \notin 0 .. x.s.slen - 1 \/ x.prot THEN {Err(x)} ELSE {Ok(Holding(x, Write(x.s, i, <<ch>>)))}

\* writeprotect, writeallow
Writeprotect(x) == {Ok([x EXCEPT !.prot = TRUE])}
Writeallow(x) ==
  LET n == Max({x.s.slen, 1})
  IN  {Ok(IF ~x.prot THEN x
          ELSE [x EXCEPT !.prot = FALSE, !.s.data = Upto(@, n),
                         !.behind = IF n < Mlen(x.s) THEN <<x.s.data[n + 1]>> ELSE @])}

-----------------------------------------------------------------------------
(* Lists *)

\* join, and the constructors from a list: each entry and a separator are added by +=
Size(list, n) == FoldSeq(LAMBDA entry, size : size + Len(entry) + n, 1, list)
Joined(x, list, AppendSep(_)) ==
  LET join[i \in Nat] ==
        IF i = 0 THEN {Ok(Cut(x, 0))}
        ELSE Then(join[i - 1], LAMBDA u : Then(IF i > 1 THEN AppendSep(u) ELSE {Ok(u)},
                                               LAMBDA v : AppendString(v, Own(list[i]))))
  IN  join[Len(list)]
FromList(list, sep) ==
  Joined([Made(<< >>, Size(list, Len(sep))) EXCEPT !.s.data[1] = Junk], list,
         LAMBDA u : AppendString(u, Own(sep)))
Join(x, list, sep) ==
  Then(Alloc(x, Size(list, Len(sep))), LAMBDA u : Joined(u, list, LAMBDA v : AppendString(v, Own(sep))))
\* join with the string itself between the entries, as it is then
JoinSelf(x, list) ==
  Then(Alloc(x, Size(list, x.s.slen)), LAMBDA u :
    Joined(u, list, LAMBDA v : AppendString([v EXCEPT !.s.moved = FALSE], Self(v))))

\* splitstr that gives no empty entries.
ListSplitstrInked(v, w) ==
  LET list == Entries(v, Bsplitstrcb(v, w, 0)) IN SelectSeq(list, LAMBDA entry : entry # << >>)

\* CBStringList::split and splitstr; a split by no characters throws
ListSplit(v, separators) == Entries(v, SplitAny(v, separators, 0))
ListSplitstr(v, w) ==
  LET pieces[p \in Nat] ==
        LET i == Binstr(v, p, w)
        IN  IF i < 0 THEN IF p <= Len(v) THEN <<Midstr(v, p, Len(v) - p)>> ELSE << >>
            ELSE <<Midstr(v, p, i - p)>> \o pieces[i + Len(w)]
  IN  IF Len(w) = 1 THEN ListSplit(v, {w[1]})
      ELSE IF w = << >> THEN [k \in DOMAIN v |-> <<v[k]>>] ELSE pieces[0]

-----------------------------------------------------------------------------
(* The program: any method of one CBString, until one wrote past its buffer *)

Blocks == BoundedSeq(Letters \cup {Nul}, MaxCB)
Lists == BoundedSeq(BoundedSeq(Letters, 1), 2)
\* Arguments that are strings of their own, or the string itself
Arguments(x) == {Own(text) : text \in Texts} \cup {Self(x)}

Method(S) ==
  \E o \in S : /\ c.s.over = 0 /\ o.b.s.slen <= MaxCB
               /\ c' = [o.b EXCEPT !.s = Settled([ret |-> o.ret, b |-> o.b.s])]

CBInit == c = Made(<< >>, Smallest)

\* A string anew, by a constructor or an operator whose result it is
Construct == \/ c' = Made(<< >>, Smallest)
             \/ \E text \in Blocks : c' = Made(text, Len(text) + 1)
             \/ \E text \in Texts, n \in Counts : c' = Made(text, Max({n, Len(text) + 1}))
Derive == \/ \E n \in Counts, left \in -1 .. MaxArg :
               LET text == Midstr(Value(c.s), left, n) IN c' = Made(text, Len(text) + 1)
          \/ \E text \in Texts : Method(Plus(c, text))
          \/ \E list \in Lists, text \in BoundedSeq(Letters, 1) : Method(FromList(list, text))
Set == \/ \E ch \in Letters : Method(AssignChar(c, ch))
       \/ \E text \in Texts \cup {Value(c.s)} : Method(AssignText(c, text)) \/ Method(CBFormat(c, text))
AppendTo == \/ \E arg \in Arguments(c) : Method(AppendString(c, arg))
            \/ \E ch \in Letters : Method(AppendChar(c, ch))
            \/ \E text \in Texts : \/ Method(AppendCstr(c, text)) \/ Method(AppendTag(c, text))
                                   \/ Method(CBFormata(c, text))
Input == \/ \E text \in Texts \cup {Invalid} : Method(Gets(c, text))
         \/ \E text \in Texts : Method(ReadWord(c, text)) \/ \E ch \in Letters : Method(Getline(c, text, ch))
\* with a space to fill gaps, the default
Place == \E pos \in 0 .. c.s.slen + 1, arg \in Arguments(c) :
           \/ Method(Setsubstr(c, pos, arg, Space)) \/ Method(CBInsert(c, pos, arg, Space))
           \/ \E n \in Counts : Method(CBReplace(c, pos, n, arg, Space)) \/ Method(ReplaceC(c, pos, n, arg, Space))
PlaceChars == \E pos \in 0 .. c.s.slen + 1, n \in Counts : Method(Insertchrs(c, pos, n, Space))
Substitute == \E find \in Arguments(c), repl \in Arguments(c), pos \in Counts, caseless \in BOOLEAN :
                Method(Findreplace(c, find, repl, pos, caseless))
Shorten == \E n \in Counts : \/ Method(Trunc(c, n)) \/ \E pos \in -1 .. MaxArg : Method(RemoveRange(c, pos, n))
Strip == \E set \in Texts : Method(Ltrim(c, set)) \/ Method(Rtrim(c, set))
Refill == \E n \in Counts : \/ Method(Alloc(c, n)) \/ Method(Repeat_(c, n))
                            \/ \E ch \in Letters : Method(CBFill(c, n, ch))
Recased == Method(Toupper(c)) \/ Method(Tolower(c))
SetOne == \E i \in Counts, ch \in Letters \cup {Nul} : Method(SetCharacter(c, i, ch))
Protect == Method(Writeprotect(c)) \/ Method(Writeallow(c))
JoinList == \E list \in Lists :
              Method(JoinSelf(c, list)) \/ \E sep \in BoundedSeq(Letters, 1) : Method(Join(c, list, sep))

CBNext ==
  \/ Construct \/ Derive \/ Set \/ AppendTo \/ Input \/ Place \/ PlaceChars \/ Substitute
  \/ Shorten \/ Strip \/ Refill \/ Recased \/ SetOne \/ Protect \/ JoinList

CBSpec == CBInit /\ [][CBNext]_c

-----------------------------------------------------------------------------
(* Properties *)

\* The string lies in its buffer, and its terminator behind it, be that behind a buffer whose
\* header was cut by writeallow, unless a method that returned an error or is known to omit
\* it left none (bstrwrap.cpp:925,1153,1184,1340,1542).  Nothing but a terminator is ever
\* written past a buffer.
CBWellFormed ==
  /\ c.s.slen \in 0 .. Mlen(c.s)
  /\ c.s.over <= 1
  /\ \/ Terminated(c.s) \/ (c.s.slen = Mlen(c.s) /\ c.behind = <<Nul>>)
     \/ c.s.broken \/ c.s.over > 0
  /\ \A i \in 1 .. c.s.slen : c.s.data[i] \in 0 .. 255

\* Every outcome in S is what was meant, or throws and changes nothing; a protected string
\* throws.
Yields(S, meant) ==
  \A o \in S : /\ Value(o.b.s) = IF o.ret = OK THEN meant ELSE Value(c.s)
               /\ c.prot => o.ret = ERR

\* Each way to set, to add, to place and to replace gives the string that was meant, also
\* where the argument is the string itself, whether the buffer is as it was made, cut by
\* writeallow or moves in the call; where memory fails the string is as it was.
ChangesMeet ==
  LET v == Value(c.s)
  IN  /\ \A text \in Texts :
           /\ Yields(AssignText(c, text), text) /\ Yields(CBFormat(c, text), text)
           /\ Yields(AppendTag(c, text), v \o text) /\ Yields(CBFormata(c, text), v \o text)
           /\ \A o \in AppendCstr(c, text) : o.ret = OK => Value(o.b.s) = v \o text
           /\ \A o \in Plus(c, text) : o.ret = OK => Value(o.b.s) = v \o text
           /\ \A o \in Getline(c, text, Space) : o.ret = OK => Value(o.b.s) = text
           /\ \A o \in ReadWord(c, text) : o.ret = OK =>
                Value(o.b.s) = LET words == SelectSeq(Entries(text, Lines(text)), LAMBDA e : e # << >>)
                               IN  IF words = << >> THEN << >> ELSE words[1]
      /\ \A arg \in Arguments(c) :
           LET text == ArgText(c.s, arg)
           IN  /\ Yields(AppendString(c, arg), v \o text)
               /\ \A pos \in 0 .. Len(v) + 1 :
                    /\ Yields(Setsubstr(c, pos, arg, Space), Overlaid(v, pos, Len(text), text, Space))
                    /\ Yields(CBInsert(c, pos, arg, Space), Overlaid(v, pos, 0, text, Space))
                    /\ \A n \in Counts : Yields(CBReplace(c, pos, n, arg, Space), Overlaid(v, pos, n, text, Space))
                    /\ Nul \notin ToSet(v) => \A n \in Counts :
                         \A o \in ReplaceC(c, pos, n, arg, Space) :
                           o.ret = OK => Value(o.b.s) = Overlaid(v, pos, n, text, Space)
      /\ \A list \in Lists, sep \in BoundedSeq(Letters, 1) :
           \A o \in Join(c, list, sep) \cup FromList(list, sep) :
             o.ret = OK => Value(o.b.s) = Bjoin(list, sep).text

\* A search or a comparison gives the same for a char * as for a CBString of the same
\* characters, and for a character the same as for the string of it; but strcmp, which < of
\* a char * uses, stops at a Nul, and caselessreversefind of a char * finds nothing from the
\* very end (bstrwrap.cpp:435,810).
OverloadsAgree ==
  LET v == Value(c.s)
  IN  \A text \in Texts :
        /\ Nul \notin ToSet(v) => /\ LessC(v, text) = (Bstrcmp(v, text) < 0)
                                  /\ (Strcmp(v, text) = 0) = Biseq(v, text, FALSE)
        /\ EqualC(v, text) = Biseq(v, text, FALSE)
        /\ \A pos \in -1 .. Len(v) + 1 :
             /\ FindC(v, text, pos) = Binstr(v, pos, text)
             /\ CaselessfindC(v, text, pos) = BinstrCaseless(v, pos, text)
             /\ pos # Len(v) => CaselessreversefindC(v, text, pos) = Binstrr(v, pos, text, TRUE)
             /\ Len(text) = 1 => /\ FindChar(v, text[1], pos) = Binstr(v, pos, text)
                                 /\ ReversefindChar(v, text[1], pos) = Binstrr(v, pos, text, FALSE)

\* splitstr divides: the entries contain no separator, and with the separators between them
\* they are the string.
SplitstrDivides ==
  \A w \in Texts \ {<< >>} :
    LET list == ListSplitstr(Value(c.s), w)
    IN  /\ Bjoin(list, w).text = Value(c.s)
        /\ \A k \in DOMAIN list : Occurrences(list[k], w, FALSE) = {}

\* Every method that changes or reads a string gives what was meant.
MethodsMeet == ChangesMeet /\ OverloadsAgree /\ SplitstrDivides

\* While a string is protected no method changes a character of it: it may only get shorter,
\* by trunc, rtrim, fill or a repeat of nothing.
ProtectedOnlyShrinks == [][c.prot /\ c'.prot => IsPrefix(Value(c'.s), Value(c.s))]_c

-----------------------------------------------------------------------------
(* What a document of the library says and the code does not do *)

\* "The writeprotect(), writeallow() and iswriteprotected() methods are analogous to the
\* bwriteprotect(), bwriteallow() and biswriteprotected() macros in the C API"
\* (bstrlib.txt:407): a protected string keeps its value.
ProtectedUnchanged == [][c.prot /\ c'.prot => Value(c'.s) = Value(c.s)]_c

\* "the library behaves as if all read-only parameters are first copied" (bstrlib.txt:260):
\* joining with the string itself between the entries.
JoinsItself ==
  \A list \in Lists : \A o \in JoinSelf(c, list) :
    o.ret = OK => Value(o.b.s) = Bjoin(list, Value(c.s)).text

\* "These remove characters from a given character string set" (bstrlib.txt:399): the
\* characters that trims remove are in the set.
TrimsSet ==
  \A set \in Texts : \A o \in Ltrim(c, set) \cup Rtrim(c, set) :
    o.ret = OK => \A ch \in Letters \ ToSet(set) :
      Len(SelectSeq(Value(o.b.s), LAMBDA x : x = ch)) = Len(SelectSeq(Value(c.s), LAMBDA x : x = ch))
=============================================================================
