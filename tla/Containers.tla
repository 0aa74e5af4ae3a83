----------------------------- MODULE Containers -----------------------------
(***************************************************************************)
(* Callers of lib/kernel/list.c and lib/kernel/hash.c: some list elements  *)
(* move between plain lists and one hash table.  A call runs from its      *)
(* start to its end, as the callers' locks or disabled interrupts make it; *)
(* a malloc in it may fail.                                                *)
(***************************************************************************)
EXTENDS Hash

CONSTANTS PlainList,   \* the lists that are not buckets
          Spare        \* the one that takes what leaves the table

ASSUME ContainersAssumption ==
  /\ Spare \in PlainList /\ PlainList \subseteq ListId
  /\ \A l \in PlainList : l < FirstBucket

VARIABLES s,      \* the heap and the struct hash
          call,   \* the last call, until its caller has taken the result
          ret     \* its result

vars == <<s, call, ret>>

NoCall == <<"none">>

Calls(c, r) == call = NoCall /\ call' = c /\ ret' = r

\* A pointer that may be NULL, as the sequence of what it points to.
Maybe(e) == IF e = NULL THEN <<>> ELSE <<e>>

\* Every element is on Spare, and the table is empty.
Arrangement ==
  hash_init(FoldLeft(LAMBDA h, e : list_push_back(h, Spare, e),
                     FoldLeft(list_init, Heap0, SetToSeq(PlainList)),
                     SetToSortSeq(Elem, <)))

Init ==
  /\ s = Arrangement
  /\ call = NoCall
  /\ ret = <<>>

Return == call # NoCall /\ call' = NoCall /\ ret' = <<>> /\ UNCHANGED s

\* The plain list that holds e, if one does.
ListOf(e) == {l \in PlainList : Contains(Walk(s.h, l), e)}

\* The address of the i-th element of l, or its tail.
Nth(l, i) == IF i <= list_size(s.h, l) THEN Walk(s.h, l)[i] ELSE list_end(l)

ToHeap(h) == s' = [s EXCEPT !.h = h]

-----------------------------------------------------------------------------
PopFront(l, m) ==
  LET e == list_front(s.h, l)
  IN  /\ ~list_empty(s.h, l)
      /\ Calls(<<"pop_front", l, m>>, <<e>>)
      /\ ToHeap(list_push_back(list_pop_front(s.h, l), m, e))

PopBack(l, m) ==
  LET e == list_back(s.h, l)
  IN  /\ ~list_empty(s.h, l)
      /\ Calls(<<"pop_back", l, m>>, <<e>>)
      /\ ToHeap(list_push_front(list_pop_back(s.h, l), m, e))

\* list_remove of e, which returns the next element, and list_insert.
Move(e, b) ==
  LET n == list_next(s.h, e)
  IN  /\ ListOf(e) # {} /\ ListOf(b) # {} /\ e # b
      /\ Calls(<<"move", e, b>>, IF n < 0 THEN <<>> ELSE <<n>>)
      /\ ToHeap(list_insert(list_remove(s.h, e), b, e))

Splice(l, i, j, m, k) ==
  /\ i <= j
  /\ l = m => k \notin i .. j - 1
  /\ Calls(<<"splice", l, i, j, m, k>>, <<>>)
  /\ ToHeap(list_splice(s.h, Nth(m, k), Nth(l, i), Nth(l, j)))

Reverses(l) == Calls(<<"reverse", l>>, <<>>) /\ ToHeap(list_reverse(s.h, l))

Sorts(l) == Calls(<<"sort", l>>, <<>>) /\ ToHeap(list_sort(s.h, l))

InsertsOrdered(e, m) ==
  LET h == list_remove(s.h, e)
  IN  /\ ListOf(e) # {} /\ is_sorted(h, list_begin(h, m), list_end(m))
      /\ Calls(<<"insert_ordered", e, m>>, <<>>)
      /\ ToHeap(list_insert_ordered(h, m, e))

Uniques(l, m) ==
  /\ Calls(<<"unique", l, m>>, <<>>)
  /\ ToHeap(list_unique(s.h, l, m))

Extremes(l) ==
  /\ Calls(<<"extremes", l>>,
           IF list_empty(s.h, l) THEN <<list_size(s.h, l)>>
           ELSE <<list_size(s.h, l), list_max(s.h, l), list_min(s.h, l)>>)
  /\ UNCHANGED s

-----------------------------------------------------------------------------
\* The state after e has left its list, and after x has joined Spare.
Taken(e) == [s EXCEPT !.h = list_remove(@, e)]

ToSpare(st, x) ==
  IF x = NULL THEN st ELSE [st EXCEPT !.h = list_push_back(@, Spare, x)]

Inserts(e) ==
  LET old == hash_find(Taken(e), e)
  IN  /\ ListOf(e) # {}
      /\ Calls(<<"insert", e>>, Maybe(old))
      /\ \E malloc \in BOOLEAN :
           s' = ToSpare(hash_insert(Taken(e), e, malloc),
                        IF old = NULL THEN NULL ELSE e)

Replaces(e) ==
  LET old == hash_find(Taken(e), e)
  IN  /\ ListOf(e) # {}
      /\ Calls(<<"replace", e>>, Maybe(old))
      /\ \E malloc \in BOOLEAN : s' = ToSpare(hash_replace(Taken(e), e, malloc), old)

Finds(e) == Calls(<<"find", e>>, Maybe(hash_find(s, e))) /\ UNCHANGED s

Deletes(e) ==
  LET found == hash_find(s, e)
  IN  /\ Calls(<<"delete", e>>, Maybe(found))
      /\ \E malloc \in BOOLEAN : s' = ToSpare(hash_delete(s, e, malloc), found)

Iterates == Calls(<<"iterate">>, Iterate(s, hash_first(s))) /\ UNCHANGED s

Clears == Calls(<<"clear">>, <<>>) /\ s' = hash_clear(s, Spare)

Destroys == Calls(<<"destroy">>, <<>>) /\ s' = hash_init(hash_destroy(s, Spare))

Next ==
  \/ \E l, m \in PlainList : PopFront(l, m) \/ PopBack(l, m)
  \/ \E e, b \in Elem : Move(e, b)
  \/ \E l, m \in PlainList :
       \E i, j \in 1 .. list_size(s.h, l) + 1, k \in 1 .. list_size(s.h, m) + 1 :
         Splice(l, i, j, m, k)
  \/ \E l \in PlainList : Reverses(l) \/ Sorts(l) \/ Extremes(l)
  \/ \E e \in Elem, m \in PlainList : InsertsOrdered(e, m)
  \/ \E l, m \in PlainList : l # m /\ Uniques(l, m)
  \/ \E e \in Elem : Inserts(e) \/ Replaces(e) \/ Finds(e) \/ Deletes(e)
  \/ Iterates \/ Clears \/ Destroys
  \/ Return

Spec == Init /\ [][Next]_vars

-----------------------------------------------------------------------------
\* No ASSERT of list.c fails, and every list reads the same from either end.
\* Every element is on one list, once.  In the table, each element is in the
\* bucket in which hash_find looks for it, elem_cnt counts the elements,
\* bucket_cnt is a power of two within the array, and hash_apply meets what
\* an iteration with hash_next meets.
WellLinked ==
  LET lists == PlainList \cup ToSet(Buckets(s.t))
      all   == FlattenSeq([i \in 1 .. Cardinality(lists) |->
                             Walk(s.h, SetToSeq(lists)[i])])
  IN  /\ s.h.ok
      /\ \A l \in lists : BackWalk(s.h, l) = Reverse(Walk(s.h, l))
      /\ Len(all) = Cardinality(Elem) /\ ToSet(all) = Elem
      /\ \A b \in ToSet(Buckets(s.t)) : \A e \in ToSet(Walk(s.h, b)) :
           find_bucket(s.t, e) = b
      /\ s.t.elem_cnt = Len(hash_apply(s))
      /\ s.t.bucket_cnt \in {2 ^ i : i \in 0 .. MaxBuckets}
      /\ s.t.bucket_cnt <= MaxBuckets
      /\ hash_apply(s) = Iterate(s, hash_first(s))

Promise == INSTANCE Collections WITH
             lists <- [l \in PlainList |-> Walk(s.h, l)],
             table <- ToSet(hash_apply(s))

\* Whatever order calls are made in, and whichever mallocs fail, the lists of
\* list.c are sequences on which list_sort is a stable sort, list_reverse,
\* list_splice, list_unique and the other calls do what their comments say,
\* and the table of hash.c is a set from which hash_find and hash_delete get
\* exactly the element with an equal key.
ImplementsCollections == Promise!Spec

=============================================================================
