--------------------------- MODULE BstrAlgorithms ---------------------------
(***************************************************************************)
(* The operators of BstrText and BstrCodecs met with every input up to the *)
(* bounds: two strings, or a block of octets, grow character by character, *)
(* and in every state the functions of the library agree with what they    *)
(* are defined to compute.                                                 *)
(***************************************************************************)
EXTENDS BstrCodecs

CONSTANTS Letters, Octets,          \* the characters of strings and of blocks
          MaxA, MaxB, MaxOctets     \* bounds: their lengths

ASSUME BstrAlgorithmsAssumption ==
  /\ Letters \subseteq 0 .. 255 /\ Octets \subseteq 0 .. 255
  /\ MaxA \in Nat /\ MaxB \in Nat /\ MaxOctets \in Nat

VARIABLES a, b,     \* two strings
          octets    \* a block of data

vars == <<a, b, octets>>

Init == a = << >> /\ b = << >> /\ octets = << >>

GrowA == /\ octets = << >> /\ Len(a) < MaxA
         /\ \E c \in Letters : a' = Append(a, c)
         /\ UNCHANGED <<b, octets>>

GrowB == /\ octets = << >> /\ Len(b) < MaxB
         /\ \E c \in Letters : b' = Append(b, c)
         /\ UNCHANGED <<a, octets>>

GrowBlock == /\ a = << >> /\ b = << >> /\ Len(octets) < MaxOctets
             /\ \E c \in Octets : octets' = Append(octets, c)
             /\ UNCHANGED <<a, b>>

Next == GrowA \/ GrowB \/ GrowBlock

Spec == Init /\ [][Next]_vars

-----------------------------------------------------------------------------
(* What the functions are meant to compute *)

\* s up to and with its first Nul, where a comparison of both ends
ToNul(s) == CStr(s) \o (IF Nul \in ToSet(s) THEN <<Nul>> ELSE << >>)

\* A comparison of s and t gives opposite signs the two ways round.
Antisymmetric(there, back) == Sign(there) = -Sign(back)

-----------------------------------------------------------------------------
(* Properties *)

\* Every search finds the first occurrence at or after the position it starts from, or the
\* last one at or before it, and no other: binstr and binstrr with their scans of two
\* positions at a time, and the caseless ones (bstrlib.c:1023-1243).
SearchFinds ==
  \A pos \in 0 .. Len(a) :
    LET after(caseless) == Least({i \in Occurrences(a, b, caseless) : i >= pos})
        before(caseless) == Greatest({i \in Occurrences(a, b, caseless) : i <= pos})
    IN  /\ Binstr(a, pos, b) = after(FALSE)
        /\ BinstrCaseless(a, pos, b) = after(TRUE)
        /\ \A caseless \in BOOLEAN : Binstrr(a, pos, b, caseless) = before(caseless)

\* The comparisons agree with each other and with equality: bstrcmp up to a common Nul,
\* bstricmp on lower case, bstrncmp and bstrnicmp with the same on the first n characters,
\* biseq and biseqcstr; and which string is greater does not depend on the order they are
\* passed in (bstrlib.c:600-936).
ComparisonsAgree ==
  /\ \A caseless \in BOOLEAN :
       /\ Biseq(a, b, caseless) = (Folded(a, caseless) = Folded(b, caseless))
       /\ Biseqcstr(a, b, caseless) = (Folded(a, caseless) = Folded(CStr(b), caseless))
       /\ Bisstemeq(a, b, caseless) = (0 \in Occurrences(a, b, caseless))
  /\ (Bstrcmp(a, b) = 0) = (a = b \/ (Nul \in ToSet(a) /\ ToNul(a) = ToNul(b)))
  /\ (Bstricmp(a, b) = 0) = (Lower(a) = Lower(b))
  /\ Antisymmetric(Bstrcmp(a, b), Bstrcmp(b, a))
  /\ Antisymmetric(Bstricmp(a, b), Bstricmp(b, a))
  /\ \A n \in 0 .. MaxA :
       LET s == Mid(a, 0, Min({n, Len(a)}))
           t == Mid(b, 0, Min({n, Len(b)}))
       IN  /\ Sign(Bstrncmp(a, b, n)) = Sign(Bstrcmp(s, t))
           /\ (Bstrnicmp(a, b, n) = 0) = (Bstricmp(s, t) = 0)
           /\ Antisymmetric(Bstrnicmp(a, b, n), Bstrnicmp(b, a, n))

\* What a split took apart a join puts together, and no piece holds a separator; a piece of
\* bsplitstr may hold one where it starts, behind another separator.  bjoin writes exactly
\* the memory it computed (bstrlib.c:2250-2287, 2500-2742).
SplitsJoin ==
  /\ \A c \in Letters : /\ Bjoin(Bsplit(a, c), <<c>>).text = a
                        /\ \A k \in DOMAIN Bsplit(a, c) : c \notin ToSet(Bsplit(a, c)[k])
  /\ LET pieces == Bsplitscb(a, b, 0)
     IN  /\ \A k \in 1 .. Len(pieces) - 1 :
              /\ pieces[k + 1][1] = pieces[k][1] + pieces[k][2] + 1
              /\ At(a, pieces[k + 1][1] - 1) \in CharField(b)
         /\ pieces[1][1] = 0 /\ Last(pieces)[1] + Last(pieces)[2] = Len(a)
         /\ \A k \in DOMAIN pieces : ToSet(Bsplits(a, b)[k]) \cap CharField(b) = {}
  /\ LET entries == Bsplitstr(a, b)
     IN  /\ Bjoin(entries, b).text = a
         /\ entries # << >> => Bjoin(entries, b).size = Len(a) + 1
         /\ b # << >> => \A k \in DOMAIN entries :
              Occurrences(entries[k], b, FALSE) \subseteq (IF k = 1 THEN {} ELSE {0})

\* What the searches, comparisons and splits say of two strings agrees, with each other and
\* with what they are meant to find.
StringsAgree == SearchFinds /\ ComparisonsAgree /\ SplitsJoin

\* Every block of octets comes back from the codecs as it was, whatever values it holds and
\* wherever it ends in a line or a group; the decoders report no error
\* (bstraux.c:238-487, 500-840).
CodecsInvert ==
  /\ BNetStr2Bstr(BStr2NetStr(octets)) = octets
  /\ BBase64DecodeEx(BBase64Encode(octets)) = [out |-> octets, truncError |-> FALSE]
  /\ \A counted \in BOOLEAN :
       BUuDecodeEx(BUuEncode(octets), counted) = [out |-> octets, badlines |-> 0, ends |-> TRUE]
  /\ BYDecode(BYEncode(octets)) = octets

-----------------------------------------------------------------------------
(* What comments of the library say and the code does not do *)

\* "Iterate the set of disjoint sequential substrings over str divided by the substring
\* splitStr" (bstrlib.c:2590): no piece holds the separator.  The search for the next
\* separator skips the position behind the last.
SplitDivides ==
  b # << >> => \A k \in DOMAIN Bsplitstr(a, b) : Occurrences(Bsplitstr(a, b)[k], b, FALSE) = {}

\* bUuDecodeEx returns, whatever the block (bstraux.c:572-581): it does not for one whose
\* last line no line break ends.
UuDecodingEnds == BUuDecodeEx(octets, TRUE).ends
=============================================================================
