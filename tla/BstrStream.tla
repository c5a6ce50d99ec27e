----------------------------- MODULE BstrStream -----------------------------
(***************************************************************************)
(* The streams of the Better String Library: bStream (bstrlib.c), which    *)
(* reads a core stream through a buffer, the readers that need none, and   *)
(* bwriteStream (bstraux.c), which writes one through a buffer.            *)
(*                                                                         *)
(* The program has one stream open.  in is a bStream: its buffer, a        *)
(* bstring as in Bstring; source, what the core stream has left; short,    *)
(* that the core stream may return less than it is asked for before its    *)
(* end; isEOF and maxBuffSz.  out is a bwriteStream; its core stream takes *)
(* all it is given, or a part and fails.                                   *)
(*                                                                         *)
(* A reader is an operator to the set of its outcomes: the return value,   *)
(* the bstring it read into and the stream afterwards.                     *)
(***************************************************************************)
EXTENDS Bstring

CONSTANTS MaxSource,    \* bound: the length of what a core stream holds
          BuffSizes,    \* the sizes the program gives bsbufflength and bwsBuffLength
          BuffSz,       \* BS_BUFF_SZ and BWS_BUFF_SZ, 1024 in the code
          ReadStart,    \* the first read of breada, 16 in the code
          SplitLen,     \* BSSSC_BUFF_LEN, 256 in the code
          SecureStart   \* INIT_SECURE_INPUT_LENGTH, 256 in the code

ASSUME BstrStreamAssumption ==
  /\ MaxSource \in Nat
  /\ {BuffSz, ReadStart, SplitLen, SecureStart} \cup BuffSizes \subseteq Nat \ {0}
  /\ \A n \in {BuffSz} \cup BuffSizes : n + MaxArg + 1 < PowerOf2[30]    \* what snapUpSize can round up

VARIABLES in, out

Closed == << >>
QuestionMark == 63
Roomy == 2 * MaxSource + BuffSz + 4    \* a bstring that long need not grow

\* bsopen
Bsopen(source, short) ==
  [buff |-> Bfromcstr(<< >>), source |-> source, short |-> short, isEOF |-> FALSE, maxBuffSz |-> BuffSz]

Streams == [buff : Bstrings, source : Seq(Int), short : BOOLEAN, isEOF : BOOLEAN, maxBuffSz : Nat]

\* What is yet to be read, and bseof
Rest(s) == Value(s.buff) \o s.source
Bseof(s) == s.isEOF /\ s.buff.slen = 0

\* readFnPtr: how many characters it returns of n
Reads(s, n) ==
  LET most == Min({n, Len(s.source)})
  IN  IF s.short /\ most > 0 THEN 1 .. most ELSE {most}

Read_(ret, r, s) == [ret |-> ret, r |-> r, s |-> s]
Buffered(s, buff) == [s EXCEPT !.buff = buff]
Taken(s, n) == [s EXCEPT !.source = From(@, n)]
\* BSTR_ERR if nothing was read
ErrIf(nothing) == IF nothing THEN ERR ELSE OK

\* The outcomes of S, those that went well carried on by Op
With(S, Fail(_), Op(_)) == UNION {IF o.ret = OK THEN Op(o.b) ELSE {Fail(o.b)} : o \in S}

-----------------------------------------------------------------------------
(* bStream *)

\* Where the first terminator is
EndOfLine(text, terms) == Least({i \in 0 .. Len(text) - 1 : At(text, i) \in terms})

\* The loop of bsreadlna and bsreadlnsa that drops what was read past the line.
ReadIntoDrops(r, s, terms, rlo) ==
  LET next[u \in Bstrings, t \in Streams] ==
        With(Balloc(u, u.slen + t.maxBuffSz + 1), LAMBDA v : Read_(ERR, v, t), LAMBDA v :
          UNION {LET text == Upto(t.source, l)
                     i == EndOfLine(text, terms)
                     w == Write(v, v.slen, text)
                 IN  IF l = 0 THEN {Read_(ErrIf(v.slen = rlo), Ended(v, v.slen),
                                          [t EXCEPT !.buff.slen = 0, !.isEOF = TRUE])}
                     ELSE IF i < 0 THEN next[[w EXCEPT !.slen = @ + l], Taken(t, l)]
                     ELSE {Read_(OK, Ended(w, w.slen + i + 1), [Taken(t, l) EXCEPT !.buff.slen = 0])}
                   : l \in Reads(t, t.maxBuffSz)})
  IN  next[r, s]

\* Reads straight into r, and pushes what is past the line back to the buffer; each read is
\* followed by a terminator for a sentinel
ReadInto(r, s, terms, rlo) ==
  LET sentinel == CHOOSE c \in terms : TRUE
      next[u \in Bstrings, t \in Streams] ==
        With(Balloc(u, u.slen + t.maxBuffSz + 1), LAMBDA v : Read_(ERR, v, t), LAMBDA v :
          UNION {LET text == Upto(t.source, l)
                     i == EndOfLine(text, terms)
                     w == Write(v, v.slen, Append(text, sentinel))
                     past == From(text, i + 1)
                 IN  IF l = 0 THEN {Read_(ErrIf(v.slen = rlo), Ended(v, v.slen),
                                          [t EXCEPT !.buff.slen = 0, !.isEOF = TRUE])}
                     ELSE IF i < 0 THEN next[[w EXCEPT !.slen = @ + l], Taken(t, l)]
                     ELSE {Read_(OK, Ended(w, w.slen + i + 1),
                                 Buffered(Taken(t, l), [Write(t.buff, 0, past) EXCEPT !.slen = Len(past)]))}
                   : l \in Reads(t, t.maxBuffSz)})
  IN  next[r, s]

\* bsreadlna, and bsreadlnsa for several terminators: a line that ends in the buffer, or the
\* buffer and a line that is read
ReadLine(r, s, terms) ==
  With(Balloc(s.buff, s.maxBuffSz + 1), LAMBDA v : Read_(ERR, r, s), LAMBDA buff :
    LET i == EndOfLine(Value(buff), terms)
        marked == Write(buff, buff.slen, <<CHOOSE c \in terms : TRUE>>)
    IN  IF i >= 0
        THEN With(Bconcat(r, Own(Upto(Value(buff), i + 1))),
                  LAMBDA u : Read_(OK, u, Buffered(s, marked)),
                  LAMBDA u : {Read_(OK, u, Buffered(s, o.b)) : o \in Bdelete(marked, 0, i + 1)})
        ELSE With(Bconcat(r, Own(Value(buff))),
                  LAMBDA u : Read_(ERR, u, Buffered(s, marked)),
                  LAMBDA u : ReadInto(u, Buffered(s, marked), terms, r.slen)))

Bsreadlna(r, s, terminator) == ReadLine(r, s, {terminator})

\* bsreadlnsa that looks for the first of its terminators only.
BsreadlnsaFirst(r, s, term) == IF term = << >> THEN {Read_(ERR, r, s)} ELSE Bsreadlna(r, s, term[1])

Bsreadlnsa(r, s, term) ==
  IF Len(term) = 1 THEN Bsreadlna(r, s, term[1])
  ELSE IF term = << >> THEN {Read_(ERR, r, s)} ELSE ReadLine(r, s, CharField(term))

\* bsreada.  A read that fits in r goes there, if the buffer is empty; the others go through
\* the buffer, until there are n characters.
Bsreada(r, s, m) ==
  LET n == m + r.slen
      direct == s.buff.slen = 0 /\ Mlen(r) > n
      fill[u \in Bstrings, t \in Streams] ==    \* the buffer holds t.buff.slen characters
        LET l == t.buff.slen
        IN  IF l + u.slen >= n
            THEN With(Bconcat(u, Own(Upto(Value(t.buff), n - u.slen))),
                      LAMBDA v : Read_(ErrIf(v.slen = r.slen), v, t),
                      LAMBDA v : {Read_(ErrIf(v.slen = r.slen), v, Buffered(t, o.b)) :
                                    o \in Bdelete(t.buff, 0, n - u.slen)})
            ELSE With(Bconcat(u, Own(Value(t.buff))),
                   LAMBDA v : Read_(ErrIf(v.slen = r.slen), v, [t EXCEPT !.isEOF = @ \/ l = 0]),
                   LAMBDA v : UNION {
                     LET read == [Taken(t, k) EXCEPT
                                    !.buff = [Write(@, 0, Upto(t.source, k)) EXCEPT !.slen = k]]
                     IN  IF k > 0 THEN fill[v, read]
                         ELSE {Read_(ErrIf(v.slen = r.slen), v, [read EXCEPT !.isEOF = TRUE])}
                       : k \in Reads(t, Min({n - v.slen, t.maxBuffSz}))})
  IN  IF m <= 0 \/ (s.buff.slen = 0 /\ s.isEOF) THEN {Read_(ERR, r, s)}
      ELSE IF direct
           THEN {IF l = 0 THEN Read_(ERR, r, [s EXCEPT !.isEOF = TRUE])
                 ELSE Read_(OK, Ended(Write(r, r.slen, Upto(s.source, l)), r.slen + l), Taken(s, l)) :
                   l \in Reads(s, m)}
           ELSE With(Balloc(s.buff, s.maxBuffSz + 1), LAMBDA v : Read_(ERR, r, s),
                     LAMBDA buff : fill[r, Buffered(s, buff)])

\* bsreadln, bsreadlns, bsread: into an r that they empty once the buffer is large enough
Emptied(r, s, Op(_, _)) ==
  With(Balloc(s.buff, s.maxBuffSz + 1), LAMBDA v : Read_(ERR, r, s),
       LAMBDA buff : Op([r EXCEPT !.slen = 0], Buffered(s, buff)))
Bsreadln(r, s, terminator) == Emptied(r, s, LAMBDA u, t : Bsreadlna(u, t, terminator))
Bsreadlns(r, s, term) ==
  IF term = << >> THEN {Read_(ERR, r, s)} ELSE Emptied(r, s, LAMBDA u, t : Bsreadlnsa(u, t, term))
Bsread(r, s, n) ==
  IF n <= 0 THEN {Read_(ERR, r, s)} ELSE Emptied(r, s, LAMBDA u, t : Bsreada(u, t, n))

\* bsunread, bspeek, bsbufflength
Bsunread(s, text) ==
  {[ret |-> o.ret, s |-> Buffered(s, o.b)] : o \in Binsert(s.buff, 0, Own(text), QuestionMark)}
Bspeek(r, s) == {Read_(o.ret, o.b, s) : o \in Bassign(r, Own(Value(s.buff)))}
Bsbufflength(s, sz) == [s EXCEPT !.maxBuffSz = IF sz > 0 THEN sz ELSE @]

-----------------------------------------------------------------------------
(* Splitting a stream: each entry goes to a callback, which goes on, stops, or reads on in  *)
(* the stream                                                                               *)

\* What a callback may do: go on, stop, or read a character of the stream and go on
Behaviours == {"on", "stop", "read"}
STOP == -2
Callback(cb, s) ==
  {[ret |-> OK, s |-> s] : x \in cb \cap {"on"}} \cup
  {[ret |-> STOP, s |-> s] : x \in cb \cap {"stop"}} \cup
  (IF "read" \in cb THEN {[ret |-> OK, s |-> o.s] : o \in Bsread(Bfromcstralloc(Roomy, << >>), s, 1)} ELSE {})

\* What a split did: the entries with their offsets, and the stream
Split_(ret, entries, s) == [ret |-> ret, entries |-> entries, s |-> s]
Delivered(entries, p, text) == Append(entries, <<p, text>>)

\* bssplitscb that forgets what it read past the separator.
BssplitscbDrops(s, splitStr, cb) ==
  LET scan[buff \in Bstrings, t \in Streams, i \in Nat, p \in Nat, entries \in Seq(Nat \X Seq(Int))] ==
        UNION {IF i >= o.r.slen
               THEN {Split_(c.ret, Delivered(entries, p, Value(o.r)), c.s) : c \in Callback(cb, o.s)}
               ELSE IF At(o.r.data, i) \notin CharField(splitStr) THEN scan[o.r, o.s, i + 1, p, entries]
               ELSE LET to == Delivered(entries, p, Upto(Value(o.r), i))
                    IN  UNION {IF c.ret < 0 THEN {Split_(c.ret, to, c.s)}
                               ELSE scan[[o.r EXCEPT !.slen = 0], c.s, 0, p + i + 1, to] : c \in Callback(cb, o.s)}
               : o \in IF i < buff.slen THEN {Read_(OK, buff, t)} ELSE Bsreada(buff, t, SplitLen)}
  IN  scan[Bfromcstr(<< >>), s, 0, 0, << >>]

\* bssplitscb: what it read past a separator goes back before the callback is called
Bssplitscb(s, splitStr, cb) ==
  LET scan[buff \in Bstrings, t \in Streams, i \in Nat, p \in Nat, entries \in Seq(Nat \X Seq(Int))] ==
        UNION {IF i >= o.r.slen
               THEN {Split_(c.ret, Delivered(entries, p, Value(o.r)), c.s) : c \in Callback(cb, o.s)}
               ELSE IF At(o.r.data, i) \notin CharField(splitStr) THEN scan[o.r, o.s, i + 1, p, entries]
               ELSE LET to == Delivered(entries, p, Upto(Value(o.r), i))
                    IN  UNION {IF u.ret # OK THEN {Split_(ERR, entries, u.s)}
                               ELSE UNION {IF c.ret < 0 THEN {Split_(c.ret, to, c.s)}
                                           ELSE scan[[o.r EXCEPT !.slen = 0], c.s, 0, p + i + 1, to] :
                                             c \in Callback(cb, u.s)}
                               : u \in Bsunread(o.s, From(Value(o.r), i + 1))}
               : o \in IF i < buff.slen THEN {Read_(OK, buff, t)} ELSE Bsreada(buff, t, SplitLen)}
      drain[buff \in Bstrings, t \in Streams] ==    \* an empty splitStr: all at once
        UNION {IF o.ret = OK THEN drain[o.r, o.s]
               ELSE {Split_(c.ret, <<<<0, Value(o.r)>>>>, c.s) : c \in Callback(cb, o.s)} :
                 o \in Bsreada(buff, t, SplitLen)}
  IN  IF splitStr = << >> THEN drain[Bfromcstr(<< >>), s]
      ELSE scan[Bfromcstr(<< >>), s, 0, 0, << >>]

\* bssplitstrcb: what it read past a separator it keeps, and at the end of the stream the
\* rest is an entry.  A read that fails short of the end is made again, without end.
Bssplitstrcb(s, splitStr, cb) ==
  LET scan[buff \in Bstrings, t \in Streams, p \in Nat, entries \in Seq(Nat \X Seq(Int))] ==
        LET k == Binstr(Value(buff), 0, splitStr)
            to == Delivered(entries, p, Upto(Value(buff), k))
            i == k + Len(splitStr)
        IN  IF k >= 0
            THEN UNION {IF c.ret < 0 THEN {Split_(c.ret, to, c.s)}
                        ELSE UNION {scan[o.b, c.s, p + i, to] : o \in Bdelete(buff, 0, i)} : c \in Callback(cb, t)}
            ELSE UNION {IF Bseof(o.s)
                        THEN {Split_(c.ret, Delivered(entries, p, Value(o.r)), c.s) : c \in Callback(cb, o.s)}
                        ELSE IF o.r = buff /\ o.s = t THEN {} ELSE scan[o.r, o.s, p, entries] :
                          o \in Bsreada(buff, t, SplitLen)}
      chunks[t \in Streams, entries \in Seq(Nat \X Seq(Int))] ==    \* an empty splitStr
        UNION {IF o.ret # OK THEN {Split_(OK, entries, o.s)}
               ELSE UNION {IF c.ret < 0 THEN {Split_(c.ret, Delivered(entries, 0, Value(o.r)), c.s)}
                           ELSE chunks[c.s, Delivered(entries, 0, Value(o.r))] : c \in Callback(cb, o.s)} :
                 o \in Bsreada(Bfromcstr(<< >>), t, SplitLen)}
  IN  IF Len(splitStr) = 1 THEN Bssplitscb(s, splitStr, cb)
      ELSE IF splitStr = << >> THEN chunks[s, << >>]
      ELSE scan[Bfromcstr(<< >>), s, 0, << >>]

-----------------------------------------------------------------------------
(* Reading without a buffer: what is left of the source instead of a stream *)

\* breada: reads of growing length, until one is short
Breada(r, s) ==
  LET next[u \in Bstrings, t \in Streams, n \in Nat] ==
        With(Balloc(u, n + 1), LAMBDA v : Read_(ERR, v, t), LAMBDA v :
          UNION {LET w == [Write(v, v.slen, Upto(t.source, l)) EXCEPT !.slen = @ + l]
                 IN  IF w.slen < n THEN {Read_(OK, Ended(w, w.slen), Taken(t, l))}
                     ELSE next[w, Taken(t, l), n + Min({n, BuffSz})]
                   : l \in Reads(t, n - v.slen)})
  IN  next[r, s, r.slen + ReadStart]

\* bgetsa, and bassigngets from the start of r: character by character
GetsFrom(r, s, terminator, start) ==
  LET next[u \in Bstrings, t \in Streams, d \in Nat] ==
        IF t.source = << >> THEN {Read_(IF d = 0 THEN 1 ELSE OK, Ended(u, d), t)}
        ELSE With(IF d > Mlen(u) - 2 THEN Balloc([u EXCEPT !.slen = d], d + 2) ELSE {Ok(u)},
                  LAMBDA v : Read_(ERR, v, Taken(t, 1)),
                  LAMBDA v : LET w == Write(v, d, <<t.source[1]>>)
                             IN  IF t.source[1] = terminator THEN {Read_(OK, Ended(w, d + 1), Taken(t, 1))}
                                 ELSE next[w, Taken(t, 1), d + 1])
  IN  next[r, s, start]
Bgetsa(r, s, terminator) == GetsFrom(r, s, terminator, r.slen)
Bassigngets(r, s, terminator) == GetsFrom(r, s, terminator, 0)

\* bread, bgets: the text, or NULL
Bread(s) == {IF o.ret < 0 THEN Invalid ELSE Value(o.r) : o \in Breada(Bfromcstr(<< >>), s)}
Bgets(s, terminator) ==
  {IF o.ret < 0 \/ o.r.slen <= 0 THEN Invalid ELSE Value(o.r) : o \in Bgetsa(Bfromcstr(<< >>), s, terminator)}

\* bSecureInput that leaves no room for the terminator.
BSecureInputLate(maxlen, termchar, source) ==
  LET n == Min({Len(source)} \cup {i \in 1 .. Len(source) : source[i] = termchar \/ i = maxlen})
      room == SecureStart * 2 ^ Least({k \in 0 .. 10 : SecureStart * 2 ^ k >= n})
  IN  {Ok(Ended(Write(Bfromcstralloc(room, << >>), 0, Upto(source, n)), n))}

\* bSecureInput: the text up to a length, or NULL if there is no buffer twice as long
BSecureInput(maxlen, termchar, source) ==
  LET next[u \in Bstrings, i \in Nat] ==
        LET Stored(v) == next[Write(v, i, <<At(source, i)>>), i + 1]
        IN  IF \/ i = Len(source)
               \/ i > 0 /\ source[i] = termchar
               \/ maxlen > 0 /\ i >= maxlen
            THEN {Ok(Ended(u, i))}
            ELSE IF i + 1 < Mlen(u) THEN Stored(u)
            ELSE {Err(u)} \cup Stored(Write(Bfromcstralloc(2 * Mlen(u), << >>), 0, Read(u, 0, i)))
  IN  next[Bfromcstralloc(SecureStart, << >>), 0]

-----------------------------------------------------------------------------
(* bwriteStream *)

\* bwsOpen
BwsOpen == [buff |-> Bfromcstr(<< >>), isEOF |-> FALSE, minBuffSz |-> BuffSz]

Writ(ret, w, sent) == [ret |-> ret, w |-> w, sent |-> sent]
\* internal_bwswriteout: the core stream takes the text, or a part of it and no more ever
WriteOut(w, text) ==
  IF text = << >> THEN {Writ(OK, w, << >>)}
  ELSE {Writ(OK, w, text)} \cup {Writ(ERR, [w EXCEPT !.isEOF = TRUE], Upto(text, k)) : k \in 0 .. Len(text) - 1}

\* bwsWriteFlush
BwsWriteFlush(w) ==
  IF w.isEOF THEN {Writ(ERR, w, << >>)}
  ELSE {IF o.ret = OK THEN [o EXCEPT !.w.buff.slen = 0] ELSE o : o \in WriteOut(w, Value(w.buff))}

\* The outcomes of a change of the buffer
Stored(w, S, sent) == {Writ(o.ret, Buffered(w, o.b), sent) : o \in S}

\* bwsWriteBstr for a text that does not just go into the buffer: fills the buffer up, writes
\* it out, and then writes a long rest or keeps a short one
WriteThrough(w, text) ==
  LET l == w.minBuffSz - w.buff.slen
  IN  IF Len(text) < l THEN Stored(w, Bconcat(w.buff, Own(text)), << >>)
      ELSE UNION {
        IF c.ret # OK THEN {Writ(ERR, w, << >>)}
        ELSE LET rest == From(text, l)
             IN  UNION {IF f.ret # OK THEN {f}
                        ELSE IF Len(rest) >= w.minBuffSz
                             THEN {[o EXCEPT !.sent = f.sent \o @] : o \in WriteOut(f.w, rest)}
                             ELSE Stored(f.w, Bassign(f.w.buff, Own(rest)), f.sent)
                        : f \in BwsWriteFlush(Buffered(w, c.b))}
        : c \in Bcatblk(w.buff, Upto(text, l))}

\* A buffer longer than it is to be is written out first
WriteOver(w, text) ==
  IF w.buff.slen <= w.minBuffSz THEN WriteThrough(w, text)
  ELSE UNION {IF f.ret # OK THEN {f}
              ELSE {[o EXCEPT !.sent = f.sent \o @] : o \in WriteThrough(f.w, text)} : f \in BwsWriteFlush(w)}

\* bwsWriteBstr that packs texts into the buffer and never writes it out.
BwsWriteBstrHoards(w, text) ==
  IF w.isEOF THEN {Writ(ERR, w, << >>)}
  ELSE IF text # << >> /\ Mlen(w.buff) - w.buff.slen > Len(text)
       THEN Stored(w, Bconcat(w.buff, Own(text)), << >>)
       ELSE WriteOver(w, text)

\* bwsWriteBstr, bwsWriteBlk: where the buffer has room the text is packed into it, and what
\* is too much then written out
BwsWriteBstr(w, text) ==
  IF w.isEOF THEN {Writ(ERR, w, << >>)}
  ELSE IF text # << >> /\ Mlen(w.buff) - w.buff.slen > Len(text)
       THEN UNION {IF c.ret # OK THEN {Writ(ERR, w, << >>)} ELSE WriteOver(Buffered(w, c.b), << >>) :
                     c \in Bconcat(w.buff, Own(text))}
       ELSE WriteOver(w, text)

\* bwsIsEOF, bwsBuffLength
BwsIsEOF(w) == w.isEOF
BwsBuffLength(w, sz) == [w EXCEPT !.minBuffSz = IF sz > 0 THEN sz ELSE @]

-----------------------------------------------------------------------------
(* The program: opens one stream at a time, and calls its functions in any order *)

\* What a call leaves of a buffer: what is past the text is nobody's
Kept(buff) ==
  [buff EXCEPT !.tight = FALSE, !.moved = FALSE, !.broken = FALSE,
               !.data = [i \in DOMAIN @ |-> IF i <= buff.slen THEN @[i] ELSE Junk]]
After(s) == Buffered(s, Kept(s.buff))

\* A bstring to read into: empty or not, with room or not
Targets == {Bfromcstralloc(n, text) : n \in {1, Roomy}, text \in {<< >>, <<QuestionMark>>}}
Sources == BoundedSeq(Letters, MaxSource)

Opened == in # Closed
Outcome(S) == \E o \in S : in' = After(o.s)

StreamInit == in = Closed /\ out = Closed

Open == /\ in = Closed /\ out = Closed
        /\ \E source \in Sources, short \in BOOLEAN : in' = After(Bsopen(source, short))
        /\ UNCHANGED out
\* bsclose; what was buffered is gone
Bsclose == Opened /\ in' = Closed /\ UNCHANGED out
ReadLn ==
  /\ Opened /\ UNCHANGED out
  /\ \E r \in Targets, c \in Letters : Outcome(Bsreadln(r, in, c) \cup Bsreadlna(r, in, c))
ReadLns ==
  /\ Opened /\ UNCHANGED out
  /\ \E r \in Targets, term \in Texts : Outcome(Bsreadlns(r, in, term) \cup Bsreadlnsa(r, in, term))
ReadBlock ==
  /\ Opened /\ UNCHANGED out
  /\ \E r \in Targets, n \in 0 .. MaxArg : Outcome(Bsread(r, in, n) \cup Bsreada(r, in, n))
Unread ==
  /\ Opened /\ UNCHANGED out
  /\ \E text \in Texts : Len(Rest(in)) + Len(text) <= MaxSource /\ Outcome(Bsunread(in, text))
BufferLength ==
  \/ Opened /\ (\E sz \in BuffSizes : in' = Bsbufflength(in, sz)) /\ UNCHANGED out
  \/ out # Closed /\ (\E sz \in BuffSizes : out' = BwsBuffLength(out, sz)) /\ UNCHANGED in
Split ==
  /\ Opened /\ UNCHANGED out
  /\ \E splitStr \in Texts : Outcome(Bssplitscb(in, splitStr, Behaviours) \cup Bssplitstrcb(in, splitStr, Behaviours))
\* A core stream may be read without its bStream, while nothing of it is buffered
ReadCore ==
  /\ Opened /\ in.buff.slen = 0 /\ UNCHANGED out
  /\ \E r \in Targets, c \in Letters :
       Outcome(Breada(r, in) \cup Bgetsa(r, in, c) \cup Bassigngets(r, in, c))

OpenWrite == in = Closed /\ out = Closed /\ out' = [BwsOpen EXCEPT !.buff = Kept(@)] /\ UNCHANGED in
WriteText == /\ out # Closed /\ UNCHANGED in
             /\ \E text \in Texts : \E o \in BwsWriteBstr(out, text) : out' = After(o.w)
Flush == out # Closed /\ (\E o \in BwsWriteFlush(out) : out' = After(o.w)) /\ UNCHANGED in
\* bwsClose flushes, and closes the stream whether that went well or not
BwsClose == out # Closed /\ out' = Closed /\ UNCHANGED in

StreamNext ==
  \/ Open \/ Bsclose \/ ReadLn \/ ReadLns \/ ReadBlock \/ Unread \/ Split \/ ReadCore
  \/ OpenWrite \/ WriteText \/ Flush \/ BwsClose
  \/ BufferLength

StreamSpec == StreamInit /\ [][StreamNext]_<<in, out>>

-----------------------------------------------------------------------------
(* Properties *)

\* What a reader that adds to a bstring took from the stream s, and what one that empties it
\* did; where memory fails before it does, nothing is done.
Took(o, r) == From(Value(o.r), r.slen)
Conserved(o, s, taken) ==
  /\ o.r.over = 0 /\ o.s.buff.over = 0 /\ o.s.buff.slen < Mlen(o.s.buff)
  /\ \/ taken \o Rest(o.s) = Rest(s)
     \/ o.ret = ERR /\ taken \o o.s.source = Rest(s)
Adds(S, s, r) == \A o \in S : IsPrefix(Value(r), Value(o.r)) /\ Conserved(o, s, Took(o, r))
Gives(S, s, r) == \A o \in S : Conserved(o, s, Value(o.r)) \/ (o = Read_(ERR, r, s))

\* Each reader takes from the front of what is unread and leaves the rest in order, whether
\* the characters were buffered, put back, or are read past the end of a line; only a line
\* that fails for want of memory may leave in the buffer what it has delivered
\* (bstrlib.c:2001).  Characters put back come first, and peeking takes none.
ReadsConserve ==
  Opened =>
    /\ \A r \in Targets :
         /\ \A c \in Letters : Adds(Bsreadlna(r, in, c), in, r) /\ Gives(Bsreadln(r, in, c), in, r)
         /\ \A term \in Texts : Adds(Bsreadlnsa(r, in, term), in, r) /\ Gives(Bsreadlns(r, in, term), in, r)
         /\ \A n \in 0 .. MaxArg : Adds(Bsreada(r, in, n), in, r) /\ Gives(Bsread(r, in, n), in, r)
         /\ \A o \in Bspeek(r, in) : o.ret = OK => IsPrefix(Value(o.r), Rest(in)) /\ o.s = in
    /\ \A text \in Texts : \A o \in Bsunread(in, text) :
         Rest(o.s) = IF o.ret = OK THEN text \o Rest(in) ELSE Rest(in)

\* A call that needs no memory: both buffers are large enough
Ample(r, s) == Mlen(r) >= Roomy /\ Mlen(s.buff) > s.maxBuffSz + 1
\* The first line of text
Line(text, terms) == LET i == EndOfLine(text, terms) IN IF i < 0 THEN text ELSE Upto(text, i + 1)

\* With memory, a line is exactly the unread text up to its terminator, or all of it, and a
\* block is exactly as long as was asked for or all there is, as far as the core stream gave
\* it; an error is returned exactly when there is nothing.
ReadsExact ==
  Opened =>
    \A r \in {t \in Targets : Ample(t, in)} :
      /\ \A term \in Texts \ {<< >>} : \A o \in Bsreadlnsa(r, in, term) :
           /\ Took(o, r) = Line(Rest(in), CharField(term))
           /\ (o.ret = ERR) = (Rest(in) = << >>)
      /\ \A n \in 1 .. MaxArg : \A o \in Bsreada(r, in, n) :
           \/ Took(o, r) = Upto(Rest(in), n) /\ (o.ret = ERR) = (Rest(in) = << >>)
           \/ in.short /\ Took(o, r) # << >> /\ IsPrefix(Took(o, r), Upto(Rest(in), n))
           \/ in.isEOF /\ in.buff.slen = 0 /\ o = Read_(ERR, r, in)

\* Entries of a split of text that a callback left at rest, having read at most one character
\* after each: they and the separators between them are the text that was consumed.
Consumed(text, entries, separators, rest) ==
  LET from[k \in Nat, t \in Seq(Int)] ==
        LET after == From(t, Len(entries[k][2]))
            left == IF after # << >> /\ after[1] \in separators THEN From(after, 1) ELSE after
        IN  /\ IsPrefix(entries[k][2], t) /\ separators \cap ToSet(entries[k][2]) = {}
            /\ IF k = Len(entries) THEN rest \in {after, left, From(left, 1)}
               ELSE after # left /\ \E u \in {left, From(left, 1)} : from[k + 1, u]
  IN  from[1, text]

\* Whatever the callback does with the stream, it finds it right behind the separator, and no
\* character between two entries is lost or delivered twice; if it does nothing, and memory
\* does not fail, the entries are those of the whole text, with their offsets.  A split by a
\* string delivers the text whole, but not divided; see SplitsStrings.
SplitsStream ==
  Opened =>
    \A splitStr \in Texts \ {<< >>} :
      /\ \A o \in Bssplitscb(in, splitStr, Behaviours) :
           o.ret = ERR \/ Consumed(Rest(in), o.entries, CharField(splitStr), Rest(o.s))
      /\ \A o \in Bssplitscb(in, splitStr, {"on"}) :
           o.ret = OK /\ Rest(o.s) = << >> =>
             /\ [k \in DOMAIN o.entries |-> o.entries[k][2]] = Bsplits(Rest(in), splitStr)
             /\ \A k \in DOMAIN o.entries \ {1} :
                  o.entries[k][1] = o.entries[k - 1][1] + Len(o.entries[k - 1][2]) + 1
      /\ \A o \in Bssplitstrcb(in, splitStr, {"on"}) :
           o.ret = OK /\ Rest(o.s) = << >> =>
             Bjoin([k \in DOMAIN o.entries |-> o.entries[k][2]], splitStr).text = Rest(in)

\* Without a buffer of their own the readers take a line, or all there is, into a bstring that
\* grows under them, and bSecureInput a text cut at its length; what a failure has read is in
\* the bstring, but for the one character bgetsa had no room for.
CoreReadsMeet ==
  Opened =>
    \A r \in Targets :
      /\ \A o \in Breada(r, in) :
           /\ o.r.over = 0 /\ Value(o.r) \o o.s.source = Value(r) \o in.source
           /\ o.ret = OK /\ ~in.short => o.s.source = << >>
      /\ \A c \in Letters :
           LET line == Line(in.source, {c})
           IN  /\ \A o \in Bgetsa(r, in, c) :
                    /\ o.r.over = 0 /\ IsPrefix(Value(o.r), Value(r) \o line)
                    /\ IF o.ret >= OK THEN Value(o.r) = Value(r) \o line
                       ELSE Len(Value(o.r) \o o.s.source) = Len(Value(r) \o in.source) - 1
               /\ \A o \in Bassigngets(r, in, c) : o.ret >= OK => Value(o.r) = line
               /\ \A n \in 0 .. MaxSource : \A o \in BSecureInput(n, c, in.source) :
                    o.ret = OK => /\ o.b.over = 0
                                  /\ Value(o.b) = IF n > 0 THEN Upto(line, n) ELSE line

\* What is written and what is buffered are together what was accepted, however the text was
\* divided between the buffer and the core stream: all of it if the call succeeded, else a
\* part that starts where the last one ended.  A successful call leaves less than a full
\* buffer, and one on a stream that failed does nothing (bstraux.c:1043).
WritesConserve ==
  out # Closed =>
    /\ \A text \in Texts : \A o \in BwsWriteBstr(out, text) :
         LET given == Value(out.buff) \o text
             taken == o.sent \o Value(o.w.buff)
         IN  /\ o.w.buff.over = 0
             /\ o.ret = OK => taken = given /\ o.w.buff.slen < out.minBuffSz
             /\ o.ret = ERR /\ ~o.w.isEOF => IsPrefix(Value(out.buff), taken) /\ IsPrefix(taken, given)
             /\ IsPrefix(o.sent, given)
             /\ out.isEOF => o = Writ(ERR, out, << >>)
    /\ \A o \in BwsWriteFlush(out) :
         /\ IsPrefix(o.sent, Value(out.buff))
         /\ o.ret = OK => o.sent = Value(out.buff) /\ o.w.buff.slen = 0

-----------------------------------------------------------------------------
(* What a document of the library says and the code does not do *)

\* "Iterate the set of disjoint sequential substrings read from a stream divided by the entire
\* substring splitStr" (bstrlib.c:2357): a split by a string can give what bsplitstr does.
SplitsStrings ==
  Opened =>
    \A splitStr \in Texts \ {<< >>} :
      \E o \in Bssplitstrcb(in, splitStr, {"on"}) :
        [k \in DOMAIN o.entries |-> o.entries[k][2]] = Bsplitstr(Rest(in), splitStr)

\* "When the readPtr callback returns a value <= 0 the stream reaches its "EOF" state"
\* (bstrlib.txt:1713), and not for want of memory.
EofIsEnd == Opened /\ in.isEOF => in.source = << >>
=============================================================================
