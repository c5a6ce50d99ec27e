------------------------------ MODULE CBStream ------------------------------
(***************************************************************************)
(* CBStream, the C++ class around a bStream (bstrwrap.cpp): its methods,   *)
(* on the stream of BstrStream.  An outcome of ERR throws.                 *)
(***************************************************************************)
EXTENDS BstrStream

\* CBString ret ("")
Ret == Fresh(<< >>, 1, FALSE)

\* An error throws if moreover eof () < 0, which it is for no stream that was opened.
Unnoticed(S) == {[o EXCEPT !.ret = OK] : o \in S}

ReadLineInto(r, s, term) == Unnoticed(Bsreadlns(r, s, term))
ReadLineAppend(r, s, term) == Unnoticed(Bsreadlnsa(r, s, term))
CBReadLine(s, term) == ReadLineInto(Ret, s, term)
CBReadN(s, n) == Unnoticed(Bsread(Ret, s, n))

\* read () without its loop.
ReadAllOnce(r, s) == IF Bseof(s) THEN {Read_(OK, r, s)} ELSE Unnoticed(Bsreada(r, s, BuffSz))

\* read () and >>: until the end of the stream, whatever fails; a read that fails and changes
\* nothing is made again
ReadAll(r, s) ==
  LET all[u \in Bstrings, t \in Streams] ==
        IF Bseof(t) THEN {Read_(OK, u, t)}
        ELSE UNION {IF o.r = u /\ o.s = t THEN {} ELSE all[o.r, o.s] : o \in Bsreada(u, t, BuffSz)}
  IN  all[r, s]

\* readAppend, and read into a string that it empties: until the end or a failure, for which
\* it takes a last read that finds nothing
ReadAppend(r, s) ==
  LET all[u \in Bstrings, t \in Streams] ==
        IF Bseof(t) THEN {Read_(OK, u, t)}
        ELSE UNION {IF o.ret = OK THEN all[o.r, o.s] ELSE {o} : o \in Bsreada(u, t, BuffSz)}
  IN  all[r, s]
CBReadInto(r, s) == ReadAppend([r EXCEPT !.slen = 0], s)
ReadAppendN(r, s, n) == Bsreada(r, s, n)

\* peek, and peekAppend, which empties the string as well
Peek(r, s) == Bspeek([r EXCEPT !.slen = 0], s)
PeekAppend(r, s) == Bspeek(r, s)

\* buffLengthSet
BuffLengthSet(s, sz) == IF sz <= 0 THEN s ELSE Bsbufflength(s, sz)

-----------------------------------------------------------------------------
(* Properties *)

\* The class delivers what is unread in order and once, save that a line that fails unnoticed
\* leaves in the buffer what it has delivered.  Reading all of the stream stops only at its
\* end; then the whole of what was unread was delivered, unless the end was for want of
\* memory.  With memory it is delivered whole.
WrappersRead ==
  Opened =>
    /\ \A r \in Targets :
         /\ \A o \in ReadAll(r, in) \cup ReadAppend(r, in) :
              /\ IsPrefix(Value(r), Value(o.r)) /\ Conserved(o, in, Took(o, r))
              /\ o.ret = OK => Bseof(o.s)
              /\ Bseof(o.s) /\ o.s.source = << >> => Took(o, r) = Rest(in)
         /\ Ample(r, in) /\ ~in.isEOF =>
              \A o \in ReadAll(r, in) \cup ReadAppend(r, in) : Took(o, r) = Rest(in)
         /\ \A term \in Texts : \A o \in ReadLineAppend(r, in, term) :
              /\ IsPrefix(Value(r), Value(o.r))
              /\ Rest(in) \in {Took(o, r) \o Rest(o.s), Took(o, r) \o o.s.source}
         /\ Gives(CBReadInto(r, in), in, [r EXCEPT !.slen = 0])
    /\ \A n \in 1 .. MaxArg : \A o \in CBReadN(in, n) : Value(o.r) \o Rest(o.s) = Rest(in)
    /\ \A term \in Texts : \A o \in CBReadLine(in, term) :
         Rest(in) \in {Value(o.r) \o Rest(o.s), Value(o.r) \o o.s.source}

\* Whatever takes characters from a stream, through the C functions, a split or the class.
ReadsMeet == ReadsConserve /\ ReadsExact /\ SplitsStream /\ CoreReadsMeet /\ WrappersRead
=============================================================================
