------------------------------ MODULE ListADT -------------------------------
(***************************************************************************)
(* What a SimCList list promises: a sequence of data, and at most one      *)
(* iteration over it, during which the list does not change.               *)
(***************************************************************************)
EXTENDS SequencesExt, FiniteSetsExt

CONSTANTS Data,
          Key,      \* what the comparator compares of each datum
          Sources   \* contents of other lists, to concatenate

VARIABLES list,      \* the data, in order
          iterating, \* whether there is an iteration
          left       \* what it has left to return

ListInit == list = << >> /\ ~iterating /\ left = << >>

Insert(pos, d) == list' = InsertAt(list, pos, d)

DeleteRange(first, last) == list' = SubSeq(list, 1, first - 1) \o SubSeq(list, last + 1, Len(list))

\* Ascending for versus 1, descending for -1, equal keys in any order
SortBy(versus) == /\ Len(list') = Len(list)
                  /\ \A i, j \in DOMAIN list' : i < j => (Key[list'[i]] - Key[list'[j]]) * versus <= 0
                  /\ \A d \in Data : Quantify(DOMAIN list, LAMBDA i : list[i] = d)
                                       = Quantify(DOMAIN list', LAMBDA i : list'[i] = d)

Concatenate(l1, l2) == list = << >> /\ list' = l1 \o l2

Change == /\ ~iterating /\ UNCHANGED <<iterating, left>>
          /\ \/ \E pos \in 1 .. Len(list) + 1, d \in Data : Insert(pos, d)
             \/ \E first, last \in DOMAIN list : first <= last /\ DeleteRange(first, last)
             \/ \E versus \in {-1, 1} : SortBy(versus)
             \/ \E l1, l2 \in Sources : Concatenate(l1, l2)

StartIteration == ~iterating /\ iterating' /\ left' = list /\ UNCHANGED list

NextOf == iterating /\ left # << >> /\ left' = Tail(left) /\ UNCHANGED <<list, iterating>>

StopIteration == iterating /\ ~iterating' /\ left' = << >> /\ UNCHANGED list

Destroy == list' = << >> /\ ~iterating' /\ left' = << >>

ListNext == Change \/ StartIteration \/ NextOf \/ StopIteration \/ Destroy

ListSpec == ListInit /\ [][ListNext]_<<list, iterating, left>>
=============================================================================
