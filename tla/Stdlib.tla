------------------------------- MODULE Stdlib -------------------------------
(***************************************************************************)
(* lib/stdlib.c: the heap sort behind qsort, the binary search behind      *)
(* bsearch, and atoi.  An array is a sequence of integers, compared as     *)
(* integers; a character is a string of length one.                        *)
(***************************************************************************)
EXTENDS Integers, Sequences

CONSTANT INT_MAX   \* the largest int of the instance

ASSUME StdlibAssumption == INT_MAX \in Nat \ {0}

do_swap(array, a_idx, b_idx) ==
  [array EXCEPT ![a_idx] = array[b_idx], ![b_idx] = array[a_idx]]

do_compare(array, a_idx, b_idx) == array[a_idx] - array[b_idx]

RECURSIVE heapify(_, _, _)
heapify(array, i, cnt) ==
  LET left  == 2 * i
      right == 2 * i + 1
      m1    == IF left <= cnt /\ do_compare(array, left, i) > 0 THEN left ELSE i
      max   == IF right <= cnt /\ do_compare(array, right, m1) > 0 THEN right ELSE m1
  IN  IF max = i THEN array ELSE heapify(do_swap(array, i, max), max, cnt)

RECURSIVE BuildHeap(_, _)
BuildHeap(array, i) ==
  IF i = 0 THEN array ELSE BuildHeap(heapify(array, i, Len(array)), i - 1)

RECURSIVE SortHeap(_, _)
SortHeap(array, i) ==
  IF i <= 1 THEN array ELSE SortHeap(heapify(do_swap(array, 1, i), 1, i - 1), i - 1)

sort(array) == SortHeap(BuildHeap(array, Len(array) \div 2), Len(array))

\* The index of a match in the elements first .. last - 1, or 0.
RECURSIVE SearchIn(_, _, _, _)
SearchIn(key, array, first, last) ==
  LET middle == first + (last - first) \div 2
      cmp    == key - array[middle]
  IN  IF first >= last THEN 0
      ELSE IF cmp < 0 THEN SearchIn(key, array, first, middle)
      ELSE IF cmp > 0 THEN SearchIn(key, array, middle + 1, last)
      ELSE middle

binary_search(key, array) == SearchIn(key, array, 1, Len(array) + 1)

-----------------------------------------------------------------------------
Digit == <<"0", "1", "2", "3", "4", "5", "6", "7", "8", "9">>

isdigit(c) == \E i \in 1 .. 10 : Digit[i] = c

Value(c) == (CHOOSE i \in 1 .. 10 : Digit[i] = c) - 1

\* Two's complement: an int that leaves its range comes back at the other end.
ToInt(n) == ((n + INT_MAX + 1) % (2 * INT_MAX + 2)) - INT_MAX - 1

RECURSIVE SkipSpace(_)
SkipSpace(s) == IF s # <<>> /\ Head(s) = " " THEN SkipSpace(Tail(s)) ELSE s

RECURSIVE ParseDigits(_, _)
ParseDigits(s, value) ==
  IF s # <<>> /\ isdigit(Head(s))
  THEN ParseDigits(Tail(s), ToInt(ToInt(value * 10) - Value(Head(s))))
  ELSE value

\* The digits are subtracted: the negative range is the larger one.
atoi(string) ==
  LET s        == SkipSpace(string)
      signed   == s # <<>> /\ Head(s) \in {"+", "-"}
      negative == signed /\ Head(s) = "-"
      value    == ParseDigits(IF signed THEN Tail(s) ELSE s, 0)
  IN  IF negative THEN value ELSE ToInt(-value)

=============================================================================
