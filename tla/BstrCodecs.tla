----------------------------- MODULE BstrCodecs -----------------------------
(***************************************************************************)
(* The codecs of bstraux.c, as operators on strings (see BstrText):        *)
(* netstrings, Base64, UU and yEnc.  Bits are moved by arithmetic.  NULL,  *)
(* where a function returns it for its input and not for want of memory,   *)
(* is Invalid.                                                             *)
(***************************************************************************)
EXTENDS BstrText

CONSTANTS B64Line, UuLine    \* octets in a line of output: 57, UU_MAX_LINELEN (45)

ASSUME BstrCodecsAssumption ==
  B64Line > 0 /\ B64Line % 3 = 0 /\ UuLine \in 3 .. 45 /\ UuLine % 3 = 0

Invalid == <<ERR>>
CrLf == <<13, 10>>
\* bchare, bchar
CharOr(s, i, c) == IF i \in 0 .. Len(s) - 1 THEN At(s, i) ELSE c

-----------------------------------------------------------------------------
(* Netstrings *)

Digit(d) == 48 + d
Decimal(n) == IF n < 10 THEN <<Digit(n)>> ELSE <<Digit((n \div 10) % 10), Digit(n % 10)>>

\* bStr2NetStr, for lengths below 100
BStr2NetStr(s) == Decimal(Len(s)) \o <<58>> \o s \o <<44>>

\* bNetStr2Bstr: digits to the colon, and a comma right behind that many octets.  What it
\* reads past the end of buff is the caller's; here it is a 0.
BNetStr2Bstr(buff) ==
  LET read[i \in Nat, x \in Nat] ==
        LET c == CharOr(buff, i, Nul)
        IN  IF c = 58 THEN IF CharOr(buff, i + 1 + x, Nul) = 44 THEN Mid(buff, i + 1, x) ELSE Invalid
            ELSE IF c \in 48 .. 57 THEN read[i + 1, 10 * x + c - 48] ELSE Invalid
  IN  read[0, 0]

-----------------------------------------------------------------------------
(* Base64 *)

\* b64ETable, base64DecodeSymbol; B64_PAD is -2, B64_ERR -1
B64ETable(v) == CASE v < 26 -> 65 + v [] v \in 26 .. 51 -> 71 + v [] v \in 52 .. 61 -> v - 4
                  [] v = 62 -> 43 [] v = 63 -> 47
Base64DecodeSymbol(c) ==
  CASE c \in 65 .. 90 -> c - 65 [] c \in 97 .. 122 -> c - 71 [] c \in 48 .. 57 -> c + 4
    [] c = 43 -> 62 [] c = 47 -> 63 [] c = 61 -> -2 [] OTHER -> -1
Pad == 61

\* The four groups of six bits of three octets
Sextets(c0, c1, c2) ==
  <<c0 \div 4, 16 * (c0 % 4) + c1 \div 16, 4 * (c1 % 16) + c2 \div 64, c2 % 64>>
\* The three octets of four groups of six bits
Octets3(v0, v1, v2, v3) ==
  <<v0 * 4 + v1 \div 16, ((v1 * 16) % 256) + v2 \div 4, ((v2 * 64) % 256) + v3>>

B64(sextets) == [k \in DOMAIN sextets |-> B64ETable(sextets[k])]

\* bBase64Encode: whole groups, a line break behind those that fill a line, and the rest
BBase64Encode(s) ==
  LET groups == Len(s) \div 3
      i == 3 * groups
      group(k) == B64(Sextets(s[3*k - 2], s[3*k - 1], s[3*k]))
                    \o (IF (3 * k) % B64Line = 0 THEN CrLf ELSE << >>)
      rest == CASE Len(s) - i = 2 -> SubSeq(B64(Sextets(At(s, i), At(s, i + 1), 0)), 1, 3) \o <<Pad>>
                [] Len(s) - i = 1 -> SubSeq(B64(Sextets(At(s, i), 0, 0)), 1, 2) \o <<Pad, Pad>>
                [] Len(s) - i = 0 -> << >>
  IN  FlattenSeq([k \in 1 .. groups |-> group(k)]) \o rest

\* bBase64DecodeEx with its boolTruncError: each of four steps takes the next symbol,
\* passing over other characters, and has its own rule for = and for the end
BBase64DecodeEx(s) ==
  LET next(i) == Min({Len(s)} \cup {k \in i .. Len(s) - 1 : Base64DecodeSymbol(At(s, k)) # -1})
      value(i) == Base64DecodeSymbol(At(s, i))
      pad(i) == i < Len(s) /\ At(s, i) = Pad
      result(out, error) == [out |-> out, truncError |-> error]
      quartet[i \in Nat, out \in Seq(0 .. 255)] ==
        LET p0 == next(i)
            p1 == next(p0 + 1)
            p2 == next(p1 + 1)
            p3 == next(p2 + 1)
            octets(v2, v3) == Octets3(value(p0), value(p1), v2, v3)
        IN  IF p0 = Len(s) THEN result(out, FALSE)
            ELSE IF pad(p0) THEN result(out, TRUE)
            ELSE IF p1 >= Len(s) \/ pad(p1) THEN result(out, TRUE)
            ELSE IF p2 >= Len(s) THEN result(out, TRUE)
            ELSE IF pad(p2) THEN IF pad(p2 + 1) THEN result(out \o SubSeq(octets(0, 0), 1, 1), FALSE)
                                 ELSE result(out, TRUE)
            ELSE IF p3 >= Len(s) THEN result(out, TRUE)
            ELSE IF pad(p3) THEN result(out \o SubSeq(octets(value(p2), 0), 1, 2), FALSE)
            ELSE quartet[p3 + 1, out \o octets(value(p2), value(p3))]
  IN  quartet[0, << >>]

-----------------------------------------------------------------------------
(* UU *)

UuEncodeByte(v) == IF v = 0 THEN 96 ELSE v + 32
UuDecodeByte(c) == IF c = 96 THEN 0 ELSE c - 32

\* bUuEncode: a line for every UuLine octets, its length in front
BUuEncode(s) ==
  LET lines == (Len(s) + UuLine - 1) \div UuLine
      octet(j) == CharOr(s, j, Nul)
      line(k) ==
        LET i == (k - 1) * UuLine
            jm == Min({i + UuLine, Len(s)})
            group(g) == LET j == i + 3 * (g - 1)
                        IN  [n \in 1 .. 4 |->
                               UuEncodeByte(Sextets(octet(j), octet(j + 1), octet(j + 2))[n])]
        IN  <<UuEncodeByte(jm - i)>> \o FlattenSeq([g \in 1 .. (jm - i + 2) \div 3 |-> group(g)]) \o CrLf
  IN  FlattenSeq([k \in 1 .. lines |-> line(k)])

\* bUuDecLine: a character of no value, or one that is missing, counts as 0 and makes the
\* line a bad one; a character that cannot be one drops the line's output, and so do
\* too few characters.
BUuDecLine(s) ==
  LET llen == UuDecodeByte(At(s, 0))
      d(i) == CharOr(s, i, 31)
      c(i) == UuDecodeByte(d(i))
      flaw(i) == c(i) \notin 0 .. 63
      foreign(i) == d(i) > 96 \/ (d(i) < 31 /\ ~Wspace(d(i)))
      result(out, bad) == [out |-> out, bad |-> bad]
      group[i \in Nat, t \in Seq(0 .. 255), bad \in BOOLEAN] ==
        LET left == llen - Len(t)
            flaw01 == flaw(i) \/ flaw(i + 1)
            v0 == IF flaw01 THEN 0 ELSE c(i)
            v1 == IF flaw01 THEN 0 ELSE c(i + 1)
            v2 == IF flaw(i + 2) THEN 0 ELSE c(i + 2)
            v3 == IF flaw(i + 3) THEN 0 ELSE c(i + 3)
            out == t \o SubSeq(Octets3(v0, v1, v2, v3), 1, Min({left, 3}))
            bad1 == bad \/ flaw01 \/ (left > 1 /\ flaw(i + 2)) \/ (left > 2 /\ flaw(i + 3))
        IN  IF left <= 0 THEN result(t, bad)
            ELSE IF i >= Len(s) THEN result(<< >>, TRUE)
            ELSE IF \/ flaw01 /\ (foreign(i) \/ foreign(i + 1))
                    \/ left > 1 /\ flaw(i + 2) /\ foreign(i + 2)
                    \/ left > 2 /\ flaw(i + 3) /\ foreign(i + 3)
                 THEN result(<< >>, TRUE)
                 ELSE group[i + 4, out, bad1]
  IN  IF llen \notin 0 .. 45 THEN result(<< >>, TRUE) ELSE group[1, << >>, FALSE]

\* bUuDecodeEx and bsUuDecodePart on a block that fits their buffers.  A bad line is counted
\* in badlines, or stops the decoding where badlines is NULL.  The lines that were decoded
\* before it are kept in the source, and so is a last line that no line break ends: both
\* are decoded again by the next read, which meets the end of the stream only if they give
\* nothing.  NULL is returned for an empty out.
BUuDecodeEx(s, counted) ==
  LET pieces == SplitAny(s, ToSet(CrLf), 0)
      last == Len(pieces)
      decoded == [k \in 1 .. last |->
                    IF pieces[k][2] = 0 THEN [out |-> << >>, bad |-> FALSE]
                    ELSE BUuDecLine(Mid(s, pieces[k][1], pieces[k][2]))]
      stop == Least({k \in 1 .. last - 1 : ~counted /\ decoded[k].bad})
      read == IF stop = ERR THEN last ELSE stop
      again == IF stop = ERR THEN Len(decoded[last].out)
               ELSE Len(FlattenSeq([k \in 1 .. stop |-> decoded[k].out]))
  IN  [out |-> FlattenSeq([k \in 1 .. read |-> decoded[k].out]),
       badlines |-> Cardinality({k \in 1 .. read : decoded[k].bad})
                      + (IF decoded[last].bad /\ \E k \in 1 .. last - 1 : decoded[k].out # << >>
                         THEN 1 ELSE 0),
       ends |-> again = 0]

-----------------------------------------------------------------------------
(* yEnc *)

YEscaped == {61, 0, 13, 10}

\* bYEncode that does not escape the zero.
BYEncodeKeepsNul(s) ==
  FlattenSeq([k \in DOMAIN s |-> LET c == (s[k] + 42) % 256
                             IN  IF c \in YEscaped \ {0} THEN <<61, (c + 64) % 256>> ELSE <<c>>])

\* bYEncode
BYEncode(s) ==
  FlattenSeq([k \in DOMAIN s |-> LET c == (s[k] + 42) % 256
                             IN  IF c \in YEscaped THEN <<61, (c + 64) % 256>> ELSE <<c>>])

\* bYDecode
BYDecode(s) ==
  LET read[i \in Nat, out \in Seq(0 .. 255)] ==
        IF i >= Len(s) THEN out
        ELSE IF At(s, i) = 61
             THEN IF i + 1 >= Len(s) THEN Invalid
                  ELSE read[i + 2, Append(out, (At(s, i + 1) + 256 - 64 - 42) % 256)]
        ELSE IF At(s, i) = Nul THEN Invalid
        ELSE IF At(s, i) \in ToSet(CrLf) THEN read[i + 1, out]
        ELSE read[i + 1, Append(out, (At(s, i) + 256 - 42) % 256)]
  IN  read[0, << >>]
=============================================================================
