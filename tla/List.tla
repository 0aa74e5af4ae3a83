-------------------------------- MODULE List --------------------------------
(***************************************************************************)
(* The doubly linked lists of lib/kernel/list.c, pointer by pointer.       *)
(*                                                                         *)
(* A heap holds the prev and next pointer of every list element and of the *)
(* head and the tail of every list.  An address is an integer: elements    *)
(* are positive, heads and tails negative, NULL is 0.  An operation is an  *)
(* operator from heaps to heaps (or to the value it returns); the field ok *)
(* becomes FALSE when an ASSERT fails.                                     *)
(***************************************************************************)
EXTENDS Integers, Sequences, FiniteSets

CONSTANTS Elem,     \* addresses of the list elements
          ListId,   \* the lists
          Key       \* Key[e]: the value the caller's less function looks at

ASSUME ListAssumption ==
  /\ Elem \subseteq Nat \ {0}
  /\ ListId \subseteq Nat \ {0}
  /\ Key \in [Elem -> Nat]

NULL == 0

list_head(l) == -(2 * l)

list_tail(l) == -(2 * l + 1)

list_end(l) == list_tail(l)

list_rend(l) == list_head(l)

Address == Elem \cup {list_head(l) : l \in ListId}
                \cup {list_tail(l) : l \in ListId}

\* The heap before any list is initialized.
Heap0 == [prev |-> [a \in Address |-> NULL], next |-> [a \in Address |-> NULL],
          ok |-> TRUE]

\* ASSERT(c)
Check(h, c) == [h EXCEPT !.ok = @ /\ c]

\* The caller's comparison function.
less(a, b) == Key[a] < Key[b]

is_head(h, e) == e # NULL /\ h.prev[e] = NULL /\ h.next[e] # NULL

is_interior(h, e) == e # NULL /\ h.prev[e] # NULL /\ h.next[e] # NULL

is_tail(h, e) == e # NULL /\ h.prev[e] # NULL /\ h.next[e] = NULL

-----------------------------------------------------------------------------
list_init(h, l) ==
  [h EXCEPT !.prev[list_head(l)] = NULL, !.next[list_head(l)] = list_tail(l),
            !.prev[list_tail(l)] = list_head(l), !.next[list_tail(l)] = NULL]

list_begin(h, l) == h.next[list_head(l)]

list_rbegin(h, l) == h.prev[list_tail(l)]

list_next(h, e) == h.next[e]

list_prev(h, e) == h.prev[e]

list_empty(h, l) == list_begin(h, l) = list_end(l)

list_front(h, l) == list_begin(h, l)

list_back(h, l) == list_rbegin(h, l)

list_insert(h, before, e) ==
  LET p == h.prev[before]
  IN  Check([h EXCEPT !.prev[e] = p, !.next[e] = before,
                      !.next[p] = e, !.prev[before] = e],
            is_interior(h, before) \/ is_tail(h, before))

\* The assignments in the code's order: BEFORE may be LAST.
list_splice(h, before, first, last) ==
  LET end == list_prev(h, last)
      h1  == [h EXCEPT !.next[h.prev[first]] = h.next[end]]
      h2  == [h1 EXCEPT !.prev[h1.next[end]] = h1.prev[first]]
      h3  == [h2 EXCEPT !.prev[first] = h2.prev[before], !.next[end] = before]
      h4  == [h3 EXCEPT !.next[h3.prev[before]] = first]
      h5  == [h4 EXCEPT !.prev[before] = end]
  IN  IF first = last THEN h
      ELSE Check(h5, /\ is_interior(h, before) \/ is_tail(h, before)
                     /\ is_interior(h, first)
                     /\ is_interior(h, end))

list_push_front(h, l, e) == list_insert(h, list_begin(h, l), e)

list_push_back(h, l, e) == list_insert(h, list_end(l), e)

\* The pointers of the removed element keep their values.
list_remove(h, e) ==
  Check([h EXCEPT !.next[h.prev[e]] = h.next[e], !.prev[h.next[e]] = h.prev[e]],
        is_interior(h, e))

\* Pops return the element too: list_front or list_back of the heap before.
list_pop_front(h, l) == Check(list_remove(h, list_front(h, l)), ~list_empty(h, l))

list_pop_back(h, l) == Check(list_remove(h, list_back(h, l)), ~list_empty(h, l))

-----------------------------------------------------------------------------
\* The elements from e up to the tail of a list, in the order of the for loops
\* that walk a list with list_next.
RECURSIVE From(_, _, _)
From(h, e, end) ==
  IF e = end THEN <<>> ELSE <<e>> \o From(h, list_next(h, e), end)

Walk(h, l) == From(h, list_begin(h, l), list_end(l))

RECURSIVE BackFrom(_, _, _)
BackFrom(h, e, end) ==
  IF e = end THEN <<>> ELSE <<e>> \o BackFrom(h, list_prev(h, e), end)

BackWalk(h, l) == BackFrom(h, list_rbegin(h, l), list_rend(l))

list_size(h, l) == Len(Walk(h, l))

swap(h, e) == [h EXCEPT !.prev[e] = h.next[e], !.next[e] = h.prev[e]]

RECURSIVE SwapFrom(_, _, _)
SwapFrom(h, e, end) ==
  IF e = end THEN h ELSE SwapFrom(swap(h, e), swap(h, e).prev[e], end)

list_reverse(h, l) ==
  LET head == list_head(l)
      tail == list_tail(l)
      h1   == SwapFrom(h, list_begin(h, l), list_end(l))
      h2   == [h1 EXCEPT !.next[head] = h1.prev[tail],
                         !.prev[tail] = h1.next[head]]
      a    == h2.next[head]
      b    == h2.prev[tail]
  IN  IF list_empty(h, l) THEN h
      ELSE [h2 EXCEPT !.prev[a] = h2.next[b], !.next[b] = h2.prev[a]]

RECURSIVE SortedFrom(_, _, _)
SortedFrom(h, a, b) ==
  LET n == list_next(h, a)
  IN  n # b => ~less(n, list_prev(h, n)) /\ SortedFrom(h, n, b)

is_sorted(h, a, b) == a # b => SortedFrom(h, a, b)

RECURSIVE find_end_of_run(_, _, _)
find_end_of_run(h, a, b) ==
  LET n == list_next(h, a)
  IN  IF n # b /\ ~less(n, list_prev(h, n)) THEN find_end_of_run(h, n, b) ELSE n

\* Mutant: of two equal elements the later one is moved in front.
RECURSIVE Merge_unstable(_, _, _, _)
Merge_unstable(h, a0, a1b0, b1) ==
  IF a0 = a1b0 \/ a1b0 = b1 THEN h
  ELSE IF less(a0, a1b0) THEN Merge_unstable(h, list_next(h, a0), a1b0, b1)
  ELSE LET n == list_next(h, a1b0)
       IN  Merge_unstable(list_splice(h, a0, list_prev(h, n), n), a0, n, b1)

RECURSIVE Merge(_, _, _, _)
Merge(h, a0, a1b0, b1) ==
  IF a0 = a1b0 \/ a1b0 = b1 THEN h
  ELSE IF ~less(a1b0, a0) THEN Merge(h, list_next(h, a0), a1b0, b1)
  ELSE LET n == list_next(h, a1b0)
       IN  Merge(list_splice(h, a0, list_prev(h, n), n), a0, n, b1)

inplace_merge(h, a0, a1b0, b1) ==
  Merge(Check(h, is_sorted(h, a0, a1b0) /\ is_sorted(h, a1b0, b1)), a0, a1b0, b1)

\* One pass of list_sort from a0 on: the heap and the number of output runs.
RECURSIVE SortPass(_, _, _, _)
SortPass(h, l, a0, runs) ==
  LET a1b0 == find_end_of_run(h, a0, list_end(l))
      b1   == find_end_of_run(h, a1b0, list_end(l))
  IN  IF a0 = list_end(l) THEN <<h, runs>>
      ELSE IF a1b0 = list_end(l) THEN <<h, runs + 1>>
      ELSE SortPass(inplace_merge(h, a0, a1b0, b1), l, b1, runs + 1)

RECURSIVE list_sort(_, _)
list_sort(h, l) ==
  LET pass == SortPass(h, l, list_begin(h, l), 0)
      done == pass[1]
  IN  IF pass[2] > 1 THEN list_sort(done, l)
      ELSE Check(done, is_sorted(done, list_begin(done, l), list_end(l)))

RECURSIVE OrderedPlace(_, _, _, _)
OrderedPlace(h, l, e, i) ==
  IF i = list_end(l) \/ less(e, i) THEN i
  ELSE OrderedPlace(h, l, e, list_next(h, i))

list_insert_ordered(h, l, e) ==
  list_insert(h, OrderedPlace(h, l, e, list_begin(h, l)), e)

RECURSIVE UniqueFrom(_, _, _, _)
UniqueFrom(h, l, duplicates, e) ==
  LET n == list_next(h, e)
  IN  IF n = list_end(l) THEN h
      ELSE IF ~less(e, n) /\ ~less(n, e)
      THEN UniqueFrom(list_push_back(list_remove(h, n), duplicates, n),
                      l, duplicates, e)
      ELSE UniqueFrom(h, l, duplicates, n)

list_unique(h, l, duplicates) ==
  IF list_empty(h, l) THEN h
  ELSE UniqueFrom(h, l, duplicates, list_begin(h, l))

RECURSIVE MaxFrom(_, _, _, _)
MaxFrom(h, l, max, e) ==
  IF e = list_end(l) THEN max
  ELSE MaxFrom(h, l, IF less(max, e) THEN e ELSE max, list_next(h, e))

list_max(h, l) ==
  LET max == list_begin(h, l)
  IN  IF max = list_end(l) THEN max ELSE MaxFrom(h, l, max, list_next(h, max))

RECURSIVE MinFrom(_, _, _, _)
MinFrom(h, l, min, e) ==
  IF e = list_end(l) THEN min
  ELSE MinFrom(h, l, IF less(e, min) THEN e ELSE min, list_next(h, e))

list_min(h, l) ==
  LET min == list_begin(h, l)
  IN  IF min = list_end(l) THEN min ELSE MinFrom(h, l, min, list_next(h, min))

=============================================================================
