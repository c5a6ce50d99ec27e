------------------------------ MODULE Messages ------------------------------
(***************************************************************************)
(* The texts that exceptions carry (utilities.c): the copies that throw    *)
(* and throwd make of a message, the formatting of throwf, and the         *)
(* escaping of spaces for the backtrace.  Each starts with a C string the  *)
(* program has, here the one in b, and returns a char * of its own or      *)
(* NULL, which is Invalid.                                                 *)
(***************************************************************************)
EXTENDS BstringCalls

\* Lengths that an int holds, and a power of two above them
ASSUME MessagesAssumption ==
  MaxLen + MaxLen + 2 < PowerOf2[30] /\ MaxArg + 2 < PowerOf2[30]

NullReplacement == 95    \* NULL_REPLACEMENT

\* exceptional_bstring_to_string
BstringToString(s) == {Invalid, CStr(Bstr2cstr(s, NullReplacement))}

\* exceptional_strdup
Strdup(string) == {Invalid} \cup BstringToString(Bfromcstr(string))

\* exceptional_sprintf that returns what was formatted whether it fitted or not.
SprintfUnchecked(max, format, text) ==
  UNION {BstringToString([o.b EXCEPT !.slen = IF o.ret < ERR THEN max ELSE @]) :
           o \in Bvcformata(Bfromcstr(<< >>), max, text)} \cup Strdup(format)

\* exceptional_sprintf: a message that does not fit is replaced by its format
Sprintf(max, format, text) ==
  UNION {IF o.ret > ERR THEN BstringToString(o.b) ELSE Strdup(format) :
           o \in {Err(Bfromcstr(<< >>))} \cup (IF max > 0 THEN Bvcformata(Bfromcstr(<< >>), max, text) ELSE {})}

\* exceptional_escape_spaces: what bfindreplace returns is not looked at
Backslash == 92
EscapeSpaces(string) ==
  {Invalid} \cup
    UNION {BstringToString(o.b) :
             o \in Bfindreplace(Bfromcstr(string), Own(<<Space>>), Own(<<Backslash, Space>>), 0, FALSE)}

-----------------------------------------------------------------------------
(* Properties *)

\* A text, escaped: each space, and nothing else, with a backslash before it
Escaped(string) == ReplacedAll(string, <<Space>>, <<Backslash, Space>>, 0, FALSE)

\* What throwf makes of a format: the text that was formatted if it fits, or else the format
SprintfWhole(max, format, text) ==
  /\ Sprintf(max, format, text) \subseteq {Invalid, format, text}
  /\ text \in Sprintf(max, format, text) \/ Len(text) > max \/ max = 0
  /\ Len(text) > max => text \notin Sprintf(max, format, text) \/ text = format

\* A message is the text that was formatted, or else its format, or none: never a part of
\* the text, nor what another call left in a buffer.  A space is escaped everywhere or, for
\* want of memory, nowhere (utilities.c:31-52).
MessagesWhole ==
  LET string == CStr(Value(b))
  IN  /\ Strdup(string) \subseteq {Invalid, string}
      /\ \A max \in Counts, text \in Texts : SprintfWhole(max, string, text)
      /\ EscapeSpaces(string) \subseteq {Invalid, string, Escaped(string)}

-----------------------------------------------------------------------------
(* What a comment says and the code does not do *)

\* "The resulting message is limited in size to EXCEPTIONAL_MAX_MESSAGE_SIZE"
\* (exceptional.h:179): the format that stands in for a text that is too long is not.
MessageLimited ==
  \A max \in Counts \ {0}, text \in Texts :
    \A message \in Sprintf(max, CStr(Value(b)), text) \ {Invalid} : Len(message) <= max
=============================================================================
