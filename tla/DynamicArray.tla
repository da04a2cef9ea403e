---------------------------- MODULE DynamicArray ----------------------------
(***************************************************************************)
(* The growing array of lib/dynamic_array.c: a ring of a power of two of   *)
(* cells in which start is the cell before the first element and end the   *)
(* one after the last.  It doubles when an operation has filled it, and    *)
(* shrinks when less than a quarter is used; both move elements.           *)
(*                                                                         *)
(* A cell outside the elements is JUNK: what the memory holds there must   *)
(* never be read as an element, so an operation that reads one shows.      *)
(*                                                                         *)
(* Every operation is one step but the sort, which is one step for each    *)
(* element it looks at.  The caller's lock keeps the others out meanwhile. *)
(***************************************************************************)
EXTENDS Integers, Sequences, SequencesExt

CONSTANTS Elements, JUNK, MaxCount, MaxSorted  \* bounds of the model

ASSUME DynamicArrayAssumption ==
  /\ Elements \subseteq Int /\ JUNK \notin Elements
  /\ MaxCount \in Nat /\ MaxSorted \in Nat

VARIABLES
  array,    \* dynamic_array_t
  items,    \* history: the elements as a sequence, by what the calls promise
  calls,    \* the calls of dynamic_array_quicksort still to be made, <<l_index, r_index>>
  sorting   \* the locals of the call that is in its loop, or those of none

arrayVars == <<array, items, calls, sorting>>

Cells(size) == 0..size - 1

\* & (size - 1), for a size that is a power of two.
Wrap(i, size) == i % size

\* The cells that hold elements; all others are junk after every operation.
Tidy(a) ==
  LET live == {Wrap(a.start + i, a.size) : i \in 1..a.elements_count}
  IN [a EXCEPT !.buffer = [c \in Cells(a.size) |-> IF c \in live THEN @[c] ELSE JUNK]]

Empty == [size |-> 1, start |-> 0, end |-> 0, elements_count |-> 0, buffer |-> [c \in {0} |-> JUNK]]

dynamic_array_get_by_index(a, i) == a.buffer[Wrap(a.start + i + 1, a.size)]

\* Of count cells inside the buffer, which has size cells afterwards.
memcpy(a, to, from, count, size) ==
  [c \in Cells(size) |->
     IF c \in to..to + count - 1 THEN a.buffer[from + c - to]
     ELSE IF c \in DOMAIN a.buffer THEN a.buffer[c] ELSE JUNK]

\* Mutant: one short when the elements wrap.
right_elements_count_short(a) == IF a.start < a.end THEN a.size - a.start - 1 ELSE a.size - a.start - 2

\* The elements from start to the end of the buffer.
right_elements_count(a) == a.size - a.start - 1

array_expand_(a) ==
  IF a.size # a.elements_count THEN a
  ELSE LET right == right_elements_count(a)
           size == 2 * a.size
       IN IF a.size = 1
          THEN [a EXCEPT !.size = 2, !.start = 1, !.end = 1, !.buffer = memcpy(a, 0, 0, 0, 2)]
          ELSE IF a.start < a.end
          THEN [a EXCEPT !.size = size, !.start = size - right - 1,
                         !.buffer = memcpy(a, size - right, a.start + 1, right, size)]
          ELSE [a EXCEPT !.size = size, !.start = size - 1, !.end = a.elements_count,
                         !.buffer = memcpy(a, 0, 0, 0, size)]

\* 1 << n
bit(n) ==
  LET shifted[i \in 0..n] == IF i = 0 THEN 1 ELSE 2 * shifted[i - 1]
  IN shifted[n]

\* 1 << (32 - __builtin_clz(count - 1)).  Of one element the argument is 0, for
\* which clz is undefined: the bsr of this build makes the result 2.
NewSize(count) ==
  IF count = 1 THEN 2
  ELSE bit(CHOOSE n \in 1..count : bit(n - 1) < count /\ count <= bit(n))

array_shrink_(a) ==
  LET size == NewSize(a.elements_count)
      right == right_elements_count(a)
  IN IF a.elements_count = 0 /\ a.size # 1 THEN Empty
     ELSE IF size = a.size THEN a
     ELSE IF a.start < a.end \/ a.end = 0
     THEN [a EXCEPT !.size = size, !.start = size - 1, !.end = Wrap(a.elements_count, size),
                    !.buffer = memcpy(a, 0, a.start + 1, a.elements_count, size)]
     ELSE IF a.start > a.end
     THEN [a EXCEPT !.size = size, !.start = size - right - 1,
                    !.buffer = memcpy(a, size - right, a.start + 1, right, size)]
     ELSE [a EXCEPT !.size = size, !.buffer = memcpy(a, 0, 0, 0, size)]

dynamic_array_push_back(a, element) ==
  array_expand_([a EXCEPT !.buffer[a.end] = element, !.elements_count = @ + 1,
                          !.end = Wrap(@ + 1, a.size)])

dynamic_array_push_front(a, element) ==
  array_expand_([a EXCEPT !.buffer[a.start] = element, !.elements_count = @ + 1,
                          !.start = Wrap(@ - 1, a.size)])

ShrunkIfSparse(a) ==
  IF a.size > 1 /\ a.elements_count * 4 < a.size THEN array_shrink_(a) ELSE a

dynamic_array_pop_back(a) ==
  IF a.elements_count = 0 THEN a
  ELSE ShrunkIfSparse([a EXCEPT !.end = Wrap(@ - 1, a.size), !.elements_count = @ - 1])

dynamic_array_pop_front(a) ==
  IF a.elements_count = 0 THEN a
  ELSE ShrunkIfSparse([a EXCEPT !.start = Wrap(@ + 1, a.size), !.elements_count = @ - 1])

-----------------------------------------------------------------------------
ElementsOf(a) == [i \in 1..a.elements_count |-> dynamic_array_get_by_index(a, i - 1)]

None == [l_index |-> 0, r_index |-> 0, l |-> 0, r |-> 0, mid_value |-> JUNK, scan |-> "none"]

Idle == calls = <<>> /\ sorting = None

PushBack(e) ==
  /\ Idle /\ array.elements_count < MaxCount
  /\ array' = Tidy(dynamic_array_push_back(array, e)) /\ items' = Append(items, e)
  /\ UNCHANGED <<calls, sorting>>

PushFront(e) ==
  /\ Idle /\ array.elements_count < MaxCount
  /\ array' = Tidy(dynamic_array_push_front(array, e)) /\ items' = <<e>> \o items
  /\ UNCHANGED <<calls, sorting>>

PopBack ==
  /\ Idle
  /\ array' = Tidy(dynamic_array_pop_back(array))
  /\ items' = IF items = <<>> THEN items ELSE Front(items)
  /\ UNCHANGED <<calls, sorting>>

PopFront ==
  /\ Idle
  /\ array' = Tidy(dynamic_array_pop_front(array))
  /\ items' = IF items = <<>> THEN items ELSE Tail(items)
  /\ UNCHANGED <<calls, sorting>>

\* dynamic_array_clear: nothing when empty, else the array as created.
Clear ==
  /\ Idle
  /\ array' = IF array.elements_count = 0 THEN array ELSE Empty
  /\ items' = <<>>
  /\ UNCHANGED <<calls, sorting>>

-----------------------------------------------------------------------------
(***************************************************************************)
(* Sorting.  Callers sort the whole array.  The scan from the left looks   *)
(* for an element that is not less than the pivot, then the one from the   *)
(* right; every index they look at is asserted to be that of an element.   *)
(***************************************************************************)
InOrder(s) == \A i, j \in 1..Len(s) : i < j => s[i] <= s[j]

Shuffled(s, p) == [i \in 1..Len(s) |-> s[p[i]]]

Sorted(s) ==
  CHOOSE t \in {Shuffled(s, p) : p \in Bijection(1..Len(s), 1..Len(s))} : InOrder(t)

At(i) == dynamic_array_get_by_index(array, i)

memswap(a, l, r) ==
  [a EXCEPT !.buffer = [c \in Cells(a.size) |->
     IF c = Wrap(a.start + l + 1, a.size) THEN dynamic_array_get_by_index(a, r)
     ELSE IF c = Wrap(a.start + r + 1, a.size) THEN dynamic_array_get_by_index(a, l)
     ELSE @[c]]]

dynamic_array_quicksort ==
  /\ Idle /\ array.elements_count <= MaxSorted
  /\ calls' = <<<<0, array.elements_count - 1>>>>
  /\ UNCHANGED <<array, items, sorting>>

\* A call returns at once or takes any element of its own as the pivot.  The
\* last of the calls to return leaves the elements in order.
Called ==
  LET l_index == calls[1][1]
      r_index == calls[1][2]
  IN /\ calls # <<>> /\ sorting = None
     /\ calls' = Tail(calls)
     /\ IF l_index >= r_index
        THEN /\ items' = IF Len(calls) = 1 THEN Sorted(items) ELSE items
             /\ UNCHANGED sorting
        ELSE /\ \E m \in l_index..r_index :
                  sorting' = [l_index |-> l_index, r_index |-> r_index,
                              l |-> l_index, r |-> r_index, mid_value |-> At(m), scan |-> "left"]
             /\ UNCHANGED items
     /\ UNCHANGED array

ScanLeft ==
  /\ sorting.scan = "left"
  /\ sorting' = IF At(sorting.l) < sorting.mid_value THEN [sorting EXCEPT !.l = @ + 1]
                ELSE [sorting EXCEPT !.scan = "right"]
  /\ UNCHANGED <<array, items, calls>>

ScanRight ==
  /\ sorting.scan = "right" /\ At(sorting.r) > sorting.mid_value
  /\ sorting' = [sorting EXCEPT !.r = @ - 1]
  /\ UNCHANGED <<array, items, calls>>

Exchanged(a, l, r) == IF l < r THEN memswap(a, l, r) ELSE a

\* Both scans have stopped: an exchange if they have not passed each other, and
\* another round unless they have now.
Meet ==
  LET met == sorting.l <= sorting.r
      l == IF met THEN sorting.l + 1 ELSE sorting.l
      r == IF met THEN sorting.r - 1 ELSE sorting.r
  IN /\ sorting.scan = "right" /\ ~ (At(sorting.r) > sorting.mid_value)
     /\ array' = Exchanged(array, sorting.l, sorting.r)
     /\ IF l <= r
        THEN /\ sorting' = [sorting EXCEPT !.l = l, !.r = r, !.scan = "left"]
             /\ UNCHANGED calls
        ELSE /\ sorting' = None
             /\ calls' = <<<<sorting.l_index, r>>, <<l, sorting.r_index>>>> \o calls
     /\ UNCHANGED items

-----------------------------------------------------------------------------
ArrayInit == array = Empty /\ items = <<>> /\ calls = <<>> /\ sorting = None

ArrayNext ==
  \/ \E e \in Elements : PushBack(e) \/ PushFront(e)
  \/ PopBack \/ PopFront \/ Clear
  \/ dynamic_array_quicksort \/ Called \/ ScanLeft \/ ScanRight \/ Meet

ArraySpec == ArrayInit /\ [][ArrayNext]_arrayVars

(***************************************************************************)
(* The array is the sequence its calls promise: however often it grew,     *)
(* shrank and wrapped, by whatever pivots it was sorted, its elements are  *)
(* the pushed ones in order, and there is room for the next push, which    *)
(* writes before it looks (dynamic_array.c:97, 110).  No scan of a sort    *)
(* leaves the elements (the assertions of dynamic_array.h:33).             *)
(***************************************************************************)
ArrayIsSequence ==
  /\ Idle => ElementsOf(array) = items
  /\ array.elements_count < array.size
  /\ array.end = Wrap(array.start + array.elements_count + 1, array.size)
  /\ sorting.scan = "left" => sorting.l \in 0..array.elements_count - 1
  /\ sorting.scan = "right" => sorting.r \in 0..array.elements_count - 1
=============================================================================
