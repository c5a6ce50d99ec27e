---------------------------- MODULE BstringCalls ----------------------------
(***************************************************************************)
(* A program that calls the functions of Bstring on one bstring, in any    *)
(* order and with any arguments, memory failing at any time, and what the  *)
(* functions are meant to do.                                              *)
(***************************************************************************)
EXTENDS Bstring

CONSTANT MaxLen    \* bound: the length of the string

ASSUME BstringCallsAssumption == MaxLen \in Nat

VARIABLE b

-----------------------------------------------------------------------------
(* The program: any call on the bstring, until one wrote past its buffer *)

Init == b = Bfromcstr(<< >>)

\* A call that leaves the string within the bound
Call(S) == b.over = 0 /\ \E o \in S : o.b.slen <= MaxLen /\ b' = Settled(o)

Counts == 0 .. MaxArg
Positions(s) == 0 .. s.slen + 1
Fills == {Space}    \* what gaps are filled with

\* bdestroy, and a bstring anew
Renew ==
  \E text \in Texts, n \in Counts :
    b' \in {Bfromcstr(text), Bfromcstralloc(n, text), Blk2bstr(text), Bmidstr(text, n - 1, n)}
             \cup Bstrcpy(text) \cup BTail(text, n) \cup BHead(text, n)

Allocate == \E n \in 1 .. MaxLen + 1 : Call(Balloc(b, n)) \/ Call(Ballocmin(b, n))
Concatenate == \E arg \in Args(b) : Call(Bconcat(b, arg))
ConcatenateChar == \E c \in Letters : Call(Bconchar(b, c))
ConcatenateC == \E text \in Texts : Call(Bcatcstr(b, text)) \/ Call(Bcatblk(b, text))
Assign == \E arg \in Args(b) : Call(Bassign(b, arg))
AssignMiddle == \E arg \in Args(b), left \in -1 .. MaxArg, n \in Counts : Call(Bassignmidstr(b, arg, left, n))
AssignC == \E text \in Texts : Call(Bassigncstr(b, text)) \/ Call(Bassignblk(b, text))
SetString == \E pos \in Positions(b), arg \in Args(b), fill \in Fills : Call(Bsetstr(b, pos, arg, fill))
Insert == \E pos \in Positions(b), arg \in Args(b), fill \in Fills : Call(Binsert(b, pos, arg, fill))
Replace == \E pos \in Positions(b), n \in Counts, arg \in Args(b), fill \in Fills :
             Call(Breplace(b, pos, n, arg, fill))
InsertChars == \E pos \in Positions(b), n \in Counts, c \in Letters :
                 Call(Binsertch(b, pos, n, c)) \/ Call(BInsertChrs(b, pos, n, c, c))
Pattern == \E n \in 0 .. MaxLen : Call(Bpattern(b, n)) \/ Call(BReplicate(b, n))
Fill == \E n \in Counts, c \in Letters : Call(BFill(b, c, n))
SetChar == \E pos \in Positions(b), c \in Letters \cup {Nul} :
             Call(BSetCstrChar(b, pos, c)) \/ Call(BSetChar(b, pos, c))
Delete == \E pos \in -1 .. MaxLen, n \in 0 .. MaxLen : Call(Bdelete(b, pos, n))
Truncate == \E n \in 0 .. MaxLen : Call(Btrunc(b, n))
Recase == Call(Btoupper(b)) \/ Call(Btolower(b))
Trim == Call(Bltrimws(b)) \/ Call(Brtrimws(b)) \/ Call(Btrimws(b))
Reverse_ == Call(BReverse(b))
\* A replacement that is a view of the string before pos is not supported; see AliasSafe.
Ahead(repl, pos) == repl.view => repl.left + repl.n > pos

\* What to find is a string of its own here; EditsMeet has views, too.
FindReplace == \E pos \in Positions(b), find \in Texts, repl \in Args(b), caseless \in BOOLEAN :
                 Ahead(repl, pos) /\ Call(Bfindreplace(b, Own(find), repl, pos, caseless))
Justify == \E width \in 0 .. MaxLen :
             \/ Call(BJustifyLeft(b)) \/ Call(BJustifyRight(b, width))
             \/ Call(BJustifyCenter(b, width)) \/ Call(BJustifyMargin(b, width))
Format == \E text \in Texts : \/ Call(Bformata(b, text)) \/ Call(Bassignformat(b, text))
                              \/ Call(Bvformata(b, text))
                              \/ \E n \in 1 .. MaxArg : Call(Bvcformata(b, n, text))

Next ==
  \/ Renew \/ Allocate
  \/ Concatenate \/ ConcatenateChar \/ ConcatenateC
  \/ Assign \/ AssignMiddle \/ AssignC
  \/ SetString \/ Insert \/ Replace \/ InsertChars \/ Pattern \/ Fill \/ SetChar
  \/ Delete \/ Truncate \/ Recase \/ Trim \/ Reverse_ \/ FindReplace
  \/ Justify \/ Format

Spec == Init /\ [][Next]_b

-----------------------------------------------------------------------------
(* What the functions are meant to compute, on strings *)

Padded(v, n, fill) == v \o Repeat(fill, n - Len(v))
Within(v, left, len) == SubSeq(v, Max({left, 0}) + 1, Min({left + len, Len(v)}))
Overlaid(v, pos, len, text, fill) ==
  LET w == Padded(v, pos, fill) IN Upto(w, pos) \o text \o From(w, pos + len)
Cycled(v, len) == [i \in 1 .. len |-> v[((i - 1) % Len(v)) + 1]]
ReplacedAll(v, find, repl, pos, caseless) ==
  LET rest[from \in Nat] ==
        LET i == Least({k \in Occurrences(v, find, caseless) : k >= from})
        IN  IF i = ERR THEN From(v, from)
            ELSE Mid(v, from, i - from) \o repl \o rest[i + Len(find)]
  IN  Upto(v, pos) \o rest[pos]
TrimmedLeft(v) == From(v, Least({i \in 0 .. Len(v) : i = Len(v) \/ ~Wspace(At(v, i))}))
TrimmedRight(v) == Upto(v, Greatest({-1} \cup {i \in 0 .. Len(v) - 1 : ~Wspace(At(v, i))}) + 1)
Spaced(words) == Bjoin(words, <<Space>>).text

\* Every outcome in S is the string that was meant, or reports an error and changes nothing.
Meets(S, meant) == \A o \in S : Value(o.b) = IF o.ret = OK THEN meant ELSE Value(b)

-----------------------------------------------------------------------------
(* Properties *)

\* The string lies in its buffer with its terminator behind it, after any sequence of calls
\* and failed allocations; only a call that failed (bcatcstr, bassigncstr and bFill do not
\* undo what they began) leaves it without one, with every byte of the string written.
WellFormed ==
  /\ b.slen \in 0 .. Mlen(b)
  /\ \A i \in 1 .. b.slen : b.data[i] \in 0 .. 255
  /\ Terminated(b) \/ b.broken \/ b.over > 0

\* What is ever written past a buffer is a terminator, and that only when balloc got a buffer
\* of exactly the length bassign, bassignmidstr, breplace or bInsertChrs asked for, without
\* the terminator; or when a failed call had left a string that fills its buffer
\* (bstrlib.c:454,488,1526, bstraux.c:101).
OverrunsByOne ==
  [][b'.over > 0 => b'.over = 1 /\ (b'.tight \/ b.slen = Mlen(b))]_b

\* Concatenation, assignment, insertion and replacement give the string that was meant for
\* every argument, those that are parts of the very string they change included, whether
\* the buffer moved or not; and where memory fails they give back the string they were
\* given, save that bcatcstr and bassigncstr leave what fitted.
WritesMeet ==
  /\ \A arg \in Args(b) :
       LET text == ArgText(b, arg)
       IN  /\ Meets(Bconcat(b, arg), Value(b) \o text)
           /\ Meets(Bassign(b, arg), text)
           /\ \A left \in -1 .. MaxArg, n \in Counts :
                Meets(Bassignmidstr(b, arg, left, n), Within(text, left, n))
           /\ \A pos \in Positions(b), c \in Fills :
                /\ Meets(Bsetstr(b, pos, arg, c), Overlaid(Value(b), pos, Len(text), text, c))
                /\ Meets(Binsert(b, pos, arg, c), Overlaid(Value(b), pos, 0, text, c))
                /\ \A n \in Counts : Meets(Breplace(b, pos, n, arg, c), Overlaid(Value(b), pos, n, text, c))
  /\ \A text \in Texts :
       /\ Meets(Bcatblk(b, text), Value(b) \o text)
       /\ Meets(Bassignblk(b, text), text)
       /\ \A o \in Bcatcstr(b, text) :
            Value(o.b) = IF o.ret = OK THEN Value(b) \o text ELSE Upto(Value(b) \o text, Mlen(b))
       /\ \A o \in Bassigncstr(b, text) : Value(o.b) = IF o.ret = OK THEN text ELSE Upto(text, Mlen(b))
  /\ \A c \in Letters : Meets(Bconchar(b, c), Append(Value(b), c))
  /\ \A pos \in Positions(b), n \in Counts, c \in Letters :
       /\ Meets(Binsertch(b, pos, n, c), Overlaid(Value(b), pos, 0, Repeat(c, n), c))
       /\ n > 0 => \A o \in BInsertChrs(b, pos, n, c, c) :
                    o.ret = OK => Value(o.b) = Overlaid(Value(b), pos, 0, Repeat(c, n), c)

\* Edits give the string that was meant: bdelete for every range, the trims, bfindreplace
\* for every find and replacement, shorter, longer or taken from the string itself,
\* bpattern, and the justifications, which return an error for a line that is as wide as
\* asked for, and bJustifyMargin which returns none for words that are missing.
EditsMeet ==
  LET v == Value(b)
      line == Spaced(Words(v))
  IN  /\ \A pos \in -1 .. MaxLen, n \in Counts :
           Meets(Bdelete(b, pos, n), Upto(v, Max({pos, 0})) \o From(v, Max({pos + n, 0})))
      /\ Meets(Bltrimws(b), TrimmedLeft(v)) /\ Meets(Brtrimws(b), TrimmedRight(v))
      /\ Meets(Btrimws(b), TrimmedLeft(TrimmedRight(v)))
      /\ Meets(BReverse(b), Reverse(v))
      /\ \A pos \in Positions(b), find \in Args(b), repl \in Args(b), caseless \in BOOLEAN :
           Ahead(repl, pos) =>
             Meets(Bfindreplace(b, find, repl, pos, caseless),
                   ReplacedAll(v, ArgText(b, find), ArgText(b, repl), pos, caseless))
      /\ v # << >> => \A n \in 0 .. MaxLen : Meets(Bpattern(b, n), Cycled(v, n))
      /\ Meets(BJustifyLeft(b), line)
      /\ \A width \in 1 .. MaxLen :
           LET room == Max({width - Len(line), 0})
           IN  /\ \A o \in BJustifyRight(b, width) :
                    Value(o.b) = IF o.ret = OK THEN Repeat(Space, room) \o line ELSE line
               /\ \A o \in BJustifyCenter(b, width) :
                    Value(o.b) = IF o.ret = OK THEN Repeat(Space, (room + 1) \div 2) \o line ELSE line
               /\ \A o \in BJustifyMargin(b, width) :
                    o.ret = OK /\ Len(line) <= width /\ Len(Words(v)) > 1 =>
                      \/ Len(Value(o.b)) = width /\ Words(Value(o.b)) = Words(v)
                      \/ Len(Value(o.b)) < width

\* A formatted text is added or assigned whole or not at all, however often the space for it
\* had to be enlarged.  bvcformata succeeds exactly for the texts that fit in count, and
\* otherwise returns more than count, so that the retries of bvformata come to an end.
FormatsWhole ==
  \A text \in Texts :
    /\ Meets(Bformata(b, text), Value(b) \o text)
    /\ Meets(Bassignformat(b, text), text)
    /\ Meets(Bvformata(b, text), Value(b) \o text)
    /\ \A n \in 1 .. MaxArg :
         /\ Meets(Bvcformata(b, n, text), Value(b) \o text)
         /\ \A o \in Bvcformata(b, n, text) : o.ret = OK \/ o.ret = ERR \/ -o.ret > n
         /\ (\E o \in Bvcformata(b, n, text) : o.ret = OK) = (Len(text) <= n)

\* Every function that changes a string gives what was meant.
CallsMeet == WritesMeet /\ EditsMeet /\ FormatsWhole

-----------------------------------------------------------------------------
(* What a document of the library says and the code does not do *)

\* "Bstrlib, by contrast, permits aliasing and is completely aliasing safe"
\* (bstrlib.txt:255): a replacement may be any part of the string it is put into.
AliasSafe ==
  \A pos \in Positions(b), find \in Args(b), repl \in Views(b) :
    repl.left + repl.n <= b.slen =>
      Meets(Bfindreplace(b, find, repl, pos, FALSE),
            ReplacedAll(Value(b), ArgText(b, find), ArgText(b, repl), pos, FALSE))
=============================================================================
