------------------------------ MODULE SimCList ------------------------------
(***************************************************************************)
(* The lists that Exceptional keeps frames and exceptions in: simclist.c,  *)
(* entry by entry and pointer by pointer.  A list has two sentinels, a     *)
(* pointer to its middle entry from which positions are found, a stack of  *)
(* spare entries that replaces malloc and free, and one iterator.          *)
(*                                                                         *)
(* Operations that return -1 leave everything as it is, and are not steps. *)
(* malloc returns an entry that is free; which one makes no difference.    *)
(***************************************************************************)
EXTENDS SequencesExt, FiniteSetsExt

CONSTANTS Entries,     \* addresses of list entries
          HeadSentinel, TailSentinel, \* the sentinels
          Null,        \* the null pointer
          Data, Key,   \* user data and what the comparator compares of it
          Words,       \* the size of each datum, in words of 4 bytes
          Sources,     \* contents of other lists, to concatenate
          MaxSpare,    \* SIMCLIST_MAX_SPARE_ELEMS
          MinQuick,    \* SIMCLIST_MINQUICKSORTELS
          MaxLen       \* bound: elements in the list

Sentinels == {HeadSentinel, TailSentinel}

ASSUME SimCListAssumption ==
  /\ IsFiniteSet(Entries) /\ Entries \cap Sentinels = {} /\ HeadSentinel # TailSentinel
  /\ Null \notin Entries \cup Sentinels
  /\ MaxSpare \in Nat /\ MaxLen \in Nat /\ MinQuick \in Nat \ {0}
  /\ Cardinality(Entries) >= MaxLen + MaxSpare
  /\ Key \in [Data -> Int] /\ Sources \subseteq Seq(Data)

VARIABLES stage,       \* "raw" memory, then "live", then "destroyed"
          entry,       \* struct list_entry_s at each address
          allocated,   \* the entries that malloc has given out
          mid, numels, spareels, iter_active, iter_pos, iter_curentry

vars == <<stage, entry, allocated, mid, numels, spareels, iter_active, iter_pos, iter_curentry>>
iteration == <<iter_active, iter_pos, iter_curentry>>

Entry(data, next, prev) == [data |-> data, next |-> next, prev |-> prev]
NoEntry == Entry(Null, Null, Null)

Empty == [n \in Entries \cup Sentinels |->
            IF n = HeadSentinel THEN Entry(Null, TailSentinel, Null)
            ELSE IF n = TailSentinel THEN Entry(Null, Null, HeadSentinel) ELSE NoEntry]

Init == /\ stage = "raw" /\ entry = Empty /\ allocated = {}
        /\ mid = Null /\ numels = 0 /\ spareels = << >>
        /\ iter_active = FALSE /\ iter_pos = 0 /\ iter_curentry = Null

\* list_init
ListInit == stage = "raw" /\ stage' = "live" /\ UNCHANGED <<entry, allocated, mid, numels, spareels, iteration>>

-----------------------------------------------------------------------------
(* Positions *)

\* k times along next or prev, not at all if k < 0
Follow(field, n, k) ==
  LET f[i \in Int] == IF i <= 0 THEN n ELSE entry[f[i - 1]][field] IN f[k]

\* Positions found from the middle, if that were the one before.
FindPosOffByOne(pos) ==
  LET middle == numels \div 2
  IN  IF pos < -1 \/ pos > numels THEN Null
      ELSE IF numels > 0 /\ 4 * (pos + 1) <= numels THEN Follow("next", HeadSentinel, pos + 1)
      ELSE IF numels > 0 /\ 2 * (pos + 1) < numels THEN Follow("prev", mid, middle - pos)
      ELSE IF numels > 0 /\ 4 * (pos + 1) <= 3 * numels THEN Follow("next", mid, pos - middle)
      ELSE Follow("prev", TailSentinel, numels - pos)

\* list_findpos: from the nearest of head, middle and tail; an empty list has no
\* quarters (0/0 is not a number) and is walked from the tail
FindPos(pos) ==
  LET middle == (numels - 1) \div 2
  IN  IF pos < -1 \/ pos > numels THEN Null
      ELSE IF numels > 0 /\ 4 * (pos + 1) <= numels THEN Follow("next", HeadSentinel, pos + 1)
      ELSE IF numels > 0 /\ 2 * (pos + 1) < numels THEN Follow("prev", mid, middle - pos)
      ELSE IF numels > 0 /\ 4 * (pos + 1) <= 3 * numels THEN Follow("next", mid, pos - middle)
      ELSE Follow("prev", TailSentinel, numels - pos)

\* list_get_at: the datum, or null; the sentinels hold null
GetAt(pos) == IF FindPos(pos) = Null THEN Null ELSE entry[FindPos(pos)].data

\* What a walk from the head meets: the loops of locate, seek, minmax, concat, hash, dump
Contents == [i \in 1 .. numels |-> entry[Follow("next", HeadSentinel, i)].data]

\* The comparator: less than, equal to, greater than 0 if a > b, a = b, a < b.
Compare(a, b) == Key[b] - Key[a]

\* The first position whose datum the test accepts, or -1
FirstWhere(Test(_)) ==
  LET hits == {i \in DOMAIN Contents : Test(Contents[i])}
  IN  IF hits = {} THEN -1 ELSE Min(hits) - 1

\* list_locate, with and without a comparator
LocateEqual(d) == LET equal(x) == Compare(d, x) = 0 IN FirstWhere(equal)
Locate(d) == LET same(x) == x = d IN FirstWhere(same)

\* list_get_minmax
MinMax(versus) ==
  LET best[i \in 1 .. numels] ==
        IF i = 1 THEN Contents[1]
        ELSE IF Compare(best[i - 1], Contents[i]) * versus > 0 THEN Contents[i] ELSE best[i - 1]
  IN  IF numels = 0 THEN Null ELSE best[numels]

-----------------------------------------------------------------------------
(* Insertion *)

Room == stage = "live" /\ numels < MaxLen

\* The mid pointer after an insertion; n counts the new entry, e has it linked.
MidAfterInsertEarly(e, new, pos, n) ==
  IF n = 1 THEN new
  ELSE IF n % 2 = 1 THEN IF pos > (n - 1) \div 2 THEN e[mid].next ELSE mid
  ELSE IF pos <= (n - 1) \div 2 THEN e[mid].prev ELSE mid

MidAfterInsert(e, new, pos, n) ==
  IF n = 1 THEN new
  ELSE IF n % 2 = 1 THEN IF pos >= (n - 1) \div 2 THEN e[mid].next ELSE mid
  ELSE IF pos <= (n - 1) \div 2 THEN e[mid].prev ELSE mid

\* list_insert_at; list_append and list_prepend are pos = numels and pos = 0
ListInsertAt(d, pos) ==
  LET spare == spareels # << >>
      new == IF spare THEN Last(spareels) ELSE CHOOSE n \in Entries \ allocated : TRUE
      prec == FindPos(pos - 1)
      succ == entry[prec].next
      linked == [entry EXCEPT ![new] = Entry(d, succ, prec), ![prec].next = new, ![succ].prev = new]
  IN  /\ ~iter_active /\ Room
      /\ entry' = linked
      /\ spareels' = IF spare THEN Front(spareels) ELSE spareels
      /\ allocated' = allocated \cup {new}
      /\ numels' = numels + 1
      /\ mid' = MidAfterInsert(linked, new, pos, numels + 1)
      /\ UNCHANGED <<stage, iteration>>

-----------------------------------------------------------------------------
(* Removal *)

\* Entries that are removed, when there is no free.
DroppedFreesNone(seq) ==
  /\ spareels' = spareels \o SubSeq(seq, 1, Min({MaxSpare - Len(spareels), Len(seq)}))
  /\ UNCHANGED allocated

\* And when there is no limit.
DroppedKeepsAll(seq) == /\ spareels' = spareels \o seq
                        /\ UNCHANGED allocated

\* Entries go to the spares as long as there is room, and are freed after that.  The
\* fields of a spare entry are not read again, and null here.
Dropped(seq) ==
  LET room == MaxSpare - Len(spareels)
      kept == SubSeq(seq, 1, Min({room, Len(seq)}))
      freed == ToSet(seq) \ ToSet(kept)
  IN  /\ spareels' = spareels \o kept
      /\ allocated' = allocated \ freed

\* first is removed up to last
Unlinked(first, last, S) ==
  LET before == entry[first].prev
      after == entry[last].next
  IN  [n \in DOMAIN entry |->
         IF n \in S THEN NoEntry
         ELSE LET e == IF n = before THEN [entry[n] EXCEPT !.next = after] ELSE entry[n]
              IN  IF n = after THEN [e EXCEPT !.prev = before] ELSE e]

\* The mid pointer before an entry is dropped
MidBeforeDrop(pos) ==
  IF numels = 1 THEN Null
  ELSE IF numels % 2 = 1 THEN IF pos >= numels \div 2 THEN entry[mid].prev ELSE mid
  ELSE IF pos < numels \div 2 THEN entry[mid].next ELSE mid

\* list_drop_elem, as its callers call it
DropAt(pos) ==
  LET n == FindPos(pos)
  IN  /\ stage = "live" /\ ~iter_active /\ pos < numels
      /\ mid' = MidBeforeDrop(pos)
      /\ entry' = Unlinked(n, n, {n})
      /\ Dropped(<<n>>)
      /\ numels' = numels - 1
      /\ UNCHANGED <<stage, iteration>>

\* list_delete_at; also list_extract_at, which hands the datum to its caller, and
\* list_fetch, which does so with the first
DeleteAt(pos) == DropAt(pos)

\* list_delete: the first match only
Delete(d, comparator) == LET pos == IF comparator THEN LocateEqual(d) ELSE Locate(d)
                         IN  pos >= 0 /\ DeleteAt(pos)

\* list_clear
Clear ==
  LET all == [i \in 1 .. numels |-> Follow("next", HeadSentinel, i)]
  IN  /\ ~iter_active
      /\ entry' = [Unlinked(HeadSentinel, HeadSentinel, ToSet(all)) EXCEPT
                     ![HeadSentinel] = Entry(Null, TailSentinel, Null), ![TailSentinel] = Entry(Null, Null, HeadSentinel)]
      /\ Dropped(all)
      /\ numels' = 0 /\ mid' = Null
      /\ UNCHANGED <<stage, iteration>>

\* A range that is removed without care for the middle.
DeleteRangeKeepsMid(posstart, posend) ==
  LET numdel == posend - posstart + 1
      doomed == [i \in 1 .. numdel |-> FindPos(posstart + i - 1)]
  IN  /\ ~iter_active /\ posstart <= posend /\ posend < numels /\ numdel < numels
      /\ entry' = Unlinked(doomed[1], doomed[numdel], ToSet(doomed))
      /\ Dropped(doomed)
      /\ numels' = numels - numdel
      /\ UNCHANGED <<stage, mid, iteration>>

\* list_delete_range: mid first moves to the entry that will be the middle
DeleteRange(posstart, posend) ==
  LET numdel == posend - posstart + 1
      first == FindPos(posstart)
      doomed == [i \in 1 .. numdel |-> Follow("next", first, i - 1)]
      after == (numels - 1 - numdel) \div 2
      target == IF after < posstart THEN after ELSE after + numdel
      moves == target - (numels - 1) \div 2
  IN  /\ ~iter_active /\ posstart <= posend /\ posend < numels
      /\ IF numdel = numels THEN Clear
         ELSE /\ mid' = IF moves > 0 THEN Follow("next", mid, moves) ELSE Follow("prev", mid, -moves)
              /\ entry' = Unlinked(first, doomed[numdel], ToSet(doomed))
              /\ Dropped(doomed)
              /\ numels' = numels - numdel
              /\ UNCHANGED <<stage, iteration>>

-----------------------------------------------------------------------------
(* Whole lists *)

\* list_concat: dest is initialized and gets copies of the entries of both lists; its
\* mid starts where the first ends and is moved by half the difference of their lengths
Concat(l1, l2) ==
  LET s == l1 \o l2
      n == Len(s)
      err == Len(l2) - Len(l1)
      fresh == SetToSeq(Entries \ allocated)
      at == [i \in 0 .. n + 1 |-> IF i = 0 THEN HeadSentinel ELSE IF i > n THEN TailSentinel ELSE fresh[i]]
      used == {at[i] : i \in 1 .. n}
  IN  /\ stage = "raw" /\ stage' = "live" /\ n \in 1 .. MaxLen
      /\ entry' = [a \in DOMAIN entry |->
                     IF a \in used THEN LET i == CHOOSE i \in 1 .. n : at[i] = a
                                        IN  Entry(s[i], at[i + 1], at[i - 1])
                     ELSE IF a = HeadSentinel THEN Entry(Null, at[1], Null)
                     ELSE IF a = TailSentinel THEN Entry(Null, Null, at[n]) ELSE entry[a]]
      /\ allocated' = allocated \cup used
      /\ numels' = n
      /\ mid' = at[IF err >= 1 THEN Len(l1) + (err + 1) \div 2
                   ELSE IF err <= -2 THEN Len(l1) - (-err) \div 2 ELSE Len(l1)]
      /\ UNCHANGED <<spareels, iteration>>

\* list_destroy: what list_clear refuses to clear during an iteration is lost
Destroy ==
  LET linked == {Follow("next", HeadSentinel, i) : i \in 1 .. numels}
  IN  /\ stage = "live" /\ stage' = "destroyed"
      /\ allocated' = (IF iter_active THEN allocated ELSE allocated \ linked) \ ToSet(spareels)
      /\ numels' = IF iter_active THEN numels ELSE 0
      /\ mid' = IF iter_active THEN mid ELSE Null
      /\ entry' = IF iter_active THEN entry ELSE Empty
      /\ spareels' = << >>
      /\ UNCHANGED iteration

-----------------------------------------------------------------------------
(* Sorting: data move, entries stay.  The segments that list_sort_quicksort is called *)
(* with are sequences of their own here.                                              *)

Swapped(s, i, j) == [s EXCEPT ![i] = s[j], ![j] = s[i]]

\* Greater than 0 if a must come after b
After(a, b, versus) == Compare(a, b) * (-versus)

\* What n passes of a loop make of start; body is a function
Passes(body, start, n) ==
  LET after[k \in Nat] == IF k = 0 THEN start ELSE body[after[k - 1]] IN after[n]

\* list_sort_selectionsort: the first of the least of the rest goes to the first place of it
SelectionSorted(seq, versus) ==
  LET n == Len(seq)
      toswap(s, first) == Min({i \in first .. n : \A j \in first .. n : After(s[i], s[j], versus) <= 0})
      pass == [x \in [data : [1 .. n -> Data], first : 1 .. n] |->
                 IF x.first = n THEN x
                 ELSE [data |-> Swapped(x.data, x.first, toswap(x.data, x.first)), first |-> x.first + 1]]
  IN  Passes(pass, [data |-> seq, first |-> 1], n).data

\* What left and right meet on their way to the pivot is swapped, until one is there.
Scan(seq, pivot, versus) ==
  LET n == Len(seq)
      pass == [x \in [data : [1 .. n -> Data], left : 1 .. pivot, right : pivot .. n] |->
                 IF x.left = pivot \/ x.right = pivot THEN x
                 ELSE LET s == x.data
                          l == Min({i \in x.left .. pivot : i = pivot \/ After(s[i], s[pivot], versus) > 0})
                          r == Max({i \in pivot .. x.right : i = pivot \/ After(s[i], s[pivot], versus) < 0})
                      IN  IF l = pivot \/ r = pivot THEN [data |-> s, left |-> l, right |-> r]
                          ELSE [data |-> Swapped(s, l, r), left |-> l + 1, right |-> r - 1]]
  IN  Passes(pass, [data |-> seq, left |-> 1, right |-> n], n)

\* Data at i, q and the pivot p: past the pivot, which moves to q
Past(s, i, p, q) == [s EXCEPT ![i] = s[q], ![q] = s[p], ![p] = s[i]]

\* The rest of the longer side stays where it is.
PartitionHalf(seq, pivot, versus) == [data |-> Scan(seq, pivot, versus).data, pivot |-> pivot]

\* Then the rest of the longer side goes past the pivot, which moves towards it.
Partition(seq, pivot, versus) ==
  LET n == Len(seq)
      scanned == Scan(seq, pivot, versus)
      States == [data : [1 .. n -> Data], at : 1 .. n, pivot : 1 .. n]
      fromLeft == [x \in States |->
                     IF x.at = x.pivot THEN x
                     ELSE IF After(x.data[x.at], x.data[x.pivot], versus) > 0
                          THEN [data |-> Past(x.data, x.at, x.pivot, x.pivot - 1), at |-> x.at, pivot |-> x.pivot - 1]
                          ELSE [x EXCEPT !.at = @ + 1]]
      fromRight == [x \in States |->
                      IF x.at = x.pivot THEN x
                      ELSE IF After(x.data[x.at], x.data[x.pivot], versus) < 0
                           THEN [data |-> Past(x.data, x.at, x.pivot, x.pivot + 1), at |-> x.at, pivot |-> x.pivot + 1]
                           ELSE [x EXCEPT !.at = @ - 1]]
      longer(body, at) == Passes(body, [data |-> scanned.data, at |-> at, pivot |-> pivot], n)
  IN  IF scanned.right = pivot THEN longer(fromLeft, scanned.left) ELSE longer(fromRight, scanned.right)

\* list_sort_quicksort: what it makes of seq, for every choice of pivots
QuickSorted(seq, versus) ==
  LET sorted[s \in Seq(Data)] ==
        IF Len(s) <= 1 THEN {s}
        ELSE IF Len(s) <= MinQuick THEN {SelectionSorted(s, versus)}
        ELSE UNION {LET part == Partition(s, pivot, versus)
                        t == part.data
                        p == part.pivot
                    IN  {a \o <<t[p]>> \o b : a \in sorted[SubSeq(t, 1, p - 1)],
                                              b \in sorted[SubSeq(t, p + 1, Len(t))]}
                    : pivot \in DOMAIN s}
  IN  sorted[seq]

\* list_sort
Sort(versus) ==
  LET order == [i \in 1 .. numels |-> Follow("next", HeadSentinel, i)]
  IN  /\ stage = "live" /\ ~iter_active /\ numels > 1
      /\ \E s \in QuickSorted(Contents, versus) :
           entry' = [a \in DOMAIN entry |->
                       IF \E i \in 1 .. numels : order[i] = a
                       THEN [entry[a] EXCEPT !.data = s[CHOOSE i \in 1 .. numels : order[i] = a]]
                       ELSE entry[a]]
      /\ UNCHANGED <<stage, allocated, mid, numels, spareels, iteration>>

-----------------------------------------------------------------------------
(* Iteration *)

IteratorStart == /\ stage = "live" /\ ~iter_active
                 /\ iter_active' = TRUE /\ iter_pos' = 0 /\ iter_curentry' = entry[HeadSentinel].next
                 /\ UNCHANGED <<stage, entry, allocated, mid, numels, spareels>>

\* list_iterator_hasnext
HasNext == iter_active /\ iter_pos < numels

IteratorNext == /\ stage = "live" /\ HasNext
                /\ iter_curentry' = entry[iter_curentry].next /\ iter_pos' = iter_pos + 1
                /\ UNCHANGED <<stage, entry, allocated, mid, numels, spareels, iter_active>>

IteratorStop == /\ stage = "live" /\ iter_active
                /\ iter_active' = FALSE /\ iter_pos' = 0
                /\ UNCHANGED <<stage, entry, allocated, mid, numels, spareels, iter_curentry>>

-----------------------------------------------------------------------------
(* Dumps: a header and words of 4 bytes, <<what, number>> *)

Element(d) == [k \in 1 .. Words[d] |-> <<d, k>>]
Terminator == <<"rndterm", 0>>

\* bufsize is a uint32_t, of which sizeof(size_t), here sizeT words, are written
Size(d, sizeT) == <<<<"size", Words[d]>>>> \o [k \in 1 .. sizeT - 1 |-> <<"beyond", 0>>]

\* A dump that takes all elements to have the size of the first.
DumpNoSpeculation(s, custom, sizeT) ==
  [totlistlen |-> FoldSeq(LAMBDA d, n : Words[d] + n, 0, s), numels |-> Len(s),
   elemlen |-> IF s = << >> THEN 0 ELSE Words[s[1]],
   words |-> FlattenSeq([i \in DOMAIN s |-> Element(s[i])]) \o <<Terminator>>]

\* list_dump_filedescriptor: all elements are taken to have the size of the first, which
\* is kept in the header.  At the first that has not, everything is written again, with
\* sizes: from the start if a serializer (custom) is used, after what is there if not.
Dump(s, custom, sizeT) ==
  LET others == {i \in DOMAIN s : Words[s[i]] # Words[s[1]]}
      elements(t) == FlattenSeq([i \in DOMAIN t |-> Element(t[i])])
      sized == FlattenSeq([i \in DOMAIN s |-> Size(s[i], sizeT) \o Element(s[i])])
      data == IF others = {} THEN elements(s)
              ELSE IF custom THEN sized ELSE elements(SubSeq(s, 1, Min(others) - 1)) \o sized
  IN  [totlistlen |-> FoldSeq(LAMBDA d, n : Words[d] + n, 0, s),
       numels |-> Len(s),
       elemlen |-> IF s = << >> \/ others # {} THEN 0 ELSE Words[s[1]],
       words |-> data \o <<Terminator>>]

\* list_restore_filedescriptor: the elements it appends, and whether it returns 0.  A word
\* that is not a size is taken for one greater than the file.
Restore(file) ==
  LET size(w) == IF file.elemlen > 0 THEN file.elemlen
                 ELSE IF w <= Len(file.words) /\ file.words[w][1] = "size" THEN file.words[w][2]
                 ELSE Len(file.words) + 1
      skip == IF file.elemlen > 0 THEN 0 ELSE 1
      from[n \in 1 .. file.numels + 1] == IF n = 1 THEN 1 ELSE from[n - 1] + skip + size(from[n - 1])
      end == from[file.numels + 1]
      complete == {n \in 1 .. file.numels : from[n + 1] <= Len(file.words) + 1}
      elems == [n \in 1 .. Cardinality(complete) |->
                  SubSeq(file.words, from[n] + skip, from[n + 1] - 1)]
  IN  [elems |-> elems,
       ok |-> /\ end = Len(file.words)
              /\ end - 1 - skip * file.numels = file.totlistlen \/ file.words[end] # Terminator]

\* list_dump_getinfo_filedescriptor: the terminator is where the total length says
Consistent(file) ==
  LET hop == file.totlistlen + (IF file.elemlen > 0 THEN 0 ELSE file.elemlen * file.numels)
  IN  hop < Len(file.words) /\ file.words[hop + 1] = Terminator

-----------------------------------------------------------------------------

Next == \/ ListInit
        \/ \E l1, l2 \in Sources : Concat(l1, l2)
        \/ \E d \in Data, pos \in 0 .. numels : ListInsertAt(d, pos)
        \/ \E pos \in 0 .. numels - 1 : DeleteAt(pos)
        \/ \E d \in Data, comparator \in BOOLEAN : Delete(d, comparator)
        \/ \E posstart, posend \in 0 .. numels - 1 : DeleteRange(posstart, posend)
        \/ stage = "live" /\ Clear
        \/ \E versus \in {-1, 1} : Sort(versus)
        \/ IteratorStart \/ IteratorNext \/ IteratorStop
        \/ Destroy

Spec == Init /\ [][Next]_vars

-----------------------------------------------------------------------------
(* Properties *)

\* Every variable has its type; there are never more spares than the array holds
\* (SIMCLIST_MAX_SPARE_ELEMS, simclist.c:158).
TypeOK == /\ stage \in {"raw", "live", "destroyed"}
          /\ entry \in [Entries \cup Sentinels ->
                          [data : Data \cup {Null}, next : Entries \cup Sentinels \cup {Null},
                           prev : Entries \cup Sentinels \cup {Null}]]
          /\ allocated \subseteq Entries
          /\ mid \in Entries \cup {Null}
          /\ numels \in 0 .. MaxLen
          /\ spareels \in Seq(allocated) /\ Len(spareels) <= MaxSpare
          /\ iter_active \in BOOLEAN /\ iter_pos \in 0 .. MaxLen
          /\ iter_curentry \in Entries \cup {TailSentinel, Null}

Linked == {Follow("next", HeadSentinel, i) : i \in 1 .. numels}

\* list_repOk, which every operation asserts at its end (simclist.c:1486): the list can be
\* walked from either sentinel to the other, mid is in the middle, and there are never more
\* spares than the array holds.
RepOk ==
  stage = "live" =>
    /\ entry[HeadSentinel].prev = Null /\ entry[TailSentinel].next = Null
    /\ Len(spareels) <= MaxSpare
    /\ numels = 0 => mid = Null
    /\ numels > 0 => mid = Follow("next", HeadSentinel, (numels - 1) \div 2 + 1)
    /\ Follow("next", HeadSentinel, numels + 1) = TailSentinel
    /\ \A i \in 0 .. numels : LET n == Follow("next", HeadSentinel, i) IN entry[entry[n].next].prev = n

\* Whatever operations came before, everything has its type, each position is found from
\* head, middle and tail (list_findpos) where a walk from the head finds it, what is
\* located is found at the position returned, and the extremes are extreme.
QueriesAgree == TypeOK /\
  (stage = "live" =>
    /\ \A pos \in -1 .. numels : FindPos(pos) = Follow("next", HeadSentinel, pos + 1)
    /\ \A d \in Data : /\ (Locate(d) >= 0) = (\E i \in DOMAIN Contents : Contents[i] = d)
                       /\ Locate(d) >= 0 => GetAt(Locate(d)) = d
                       /\ LocateEqual(d) >= 0 => Key[GetAt(LocateEqual(d))] = Key[d]
    /\ \A i \in DOMAIN Contents : /\ Key[MinMax(1)] >= Key[Contents[i]]
                                  /\ Key[MinMax(-1)] <= Key[Contents[i]])

\* Each entry that malloc returned is in the list or a spare, never both and never twice,
\* so that none leaks or is freed twice; nothing is left of a list that is destroyed,
\* unless that happens during an iteration, when list_clear refuses (simclist.c:631).
NothingLeaks ==
  /\ stage = "live" => /\ allocated = Linked \cup ToSet(spareels)
                       /\ Cardinality(allocated) = numels + Len(spareels)
  /\ stage = "destroyed" /\ ~iter_active => allocated = {}

\* A dump of elements of one size is consistent and is restored to the same elements, and
\* so is any dump by a serializer where size_t has 4 bytes (list_restore_filedescriptor
\* is "the inverse of list_dump_filedescriptor()", simclist.h:738).
DumpRestores ==
  \A custom \in BOOLEAN, sizeT \in 1 .. 2 :
    LET file == Dump(Contents, custom, sizeT)
        same == Restore(file) = [elems |-> [i \in DOMAIN Contents |-> Element(Contents[i])], ok |-> TRUE]
    IN  IF file.elemlen > 0 \/ Contents = << >> THEN same /\ Consistent(file)
        ELSE custom /\ sizeT = 1 => same

\* The same of every list and both ways to dump it, where size_t has 8 bytes.
AnyDumpRestores ==
  \A custom \in BOOLEAN :
    LET file == Dump(Contents, custom, 2)
    IN  Restore(file) = [elems |-> [i \in DOMAIN Contents |-> Element(Contents[i])], ok |-> TRUE]

\* What an iteration has left: the entries from the current one
Rest == [i \in 1 .. numels - iter_pos |-> entry[Follow("next", iter_curentry, i - 1)].data]

Abstract == INSTANCE ListADT WITH
  list <- IF stage = "live" THEN Contents ELSE << >>,
  iterating <- stage = "live" /\ iter_active,
  left <- IF stage = "live" /\ iter_active THEN Rest ELSE << >>

\* A list is a sequence: whatever happens to entries, spares and the middle, an insertion
\* inserts, a range is deleted, sorting permutes into order whichever pivots it takes, a
\* concatenation concatenates, and an iteration returns all that was there at its start.
ImplementsList == Abstract!ListSpec
=============================================================================
