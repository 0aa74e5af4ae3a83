----------------------------- MODULE Collections -----------------------------
(***************************************************************************)
(* What lists and hash tables promise their callers: sequences of elements *)
(* and a set of elements with different keys.  Every element is on one of  *)
(* the lists or in the table; what leaves the table goes to the end of the *)
(* list Spare.  A call and its result are visible until the caller has     *)
(* taken the result.                                                       *)
(***************************************************************************)
EXTENDS Integers, FiniteSets, SequencesExt

CONSTANTS Elem, Key,
          PlainList,   \* the lists
          Spare        \* one of them

VARIABLES lists,   \* lists[l]: the elements of l in order
          table,   \* the elements of the hash table
          call,    \* the last call: its name and its arguments
          ret      \* what it returned

vars == <<lists, table, call, ret>>

NoCall == <<"none">>

Less(a, b) == Key[a] < Key[b]

Sorted(s) == \A i, j \in 1 .. Len(s) : i < j => ~Less(s[j], s[i])

\* The elements of s in order, those with equal keys in the order they had.
StablySorted(s) ==
  LET Place(e) == CHOOSE i \in 1 .. Len(s) : s[i] = e
  IN  SetToSortSeq(ToSet(s), LAMBDA a, b : \/ Less(a, b)
                                           \/ Key[a] = Key[b] /\ Place(a) < Place(b))

Init ==
  /\ lists = [l \in PlainList |-> IF l = Spare THEN SetToSortSeq(Elem, <) ELSE <<>>]
  /\ table = {}
  /\ call = NoCall
  /\ ret = <<>>

\* The caller makes call c, which returns r.
Calls(c, r) == call = NoCall /\ call' = c /\ ret' = r

Return == /\ call # NoCall /\ call' = NoCall /\ ret' = <<>>
          /\ UNCHANGED <<lists, table>>

Matching(e) == {x \in table : Key[x] = Key[e]}

ListOf(e) == {l \in PlainList : Contains(lists[l], e)}

\* The lists without e.
Without(e) == [l \in PlainList |-> SelectSeq(lists[l], LAMBDA x : x # e)]

\* Sequence s with t put in so that it ends where element e began, at the end
\* if e is not in s.
PutBefore(s, t, e) ==
  LET i == SelectInSeq(s, LAMBDA x : x = e)
      n == IF i = 0 THEN Len(s) ELSE i - 1
  IN  SubSeq(s, 1, n) \o t \o SubSeq(s, n + 1, Len(s))

-----------------------------------------------------------------------------
\* The first or the last element of l becomes the last or the first of m.
PopFront(l, m) ==
  LET e == lists[l][1]
  IN  /\ lists[l] # <<>>
      /\ Calls(<<"pop_front", l, m>>, <<e>>)
      /\ lists' = [Without(e) EXCEPT ![m] = Append(@, e)]
      /\ UNCHANGED table

PopBack(l, m) ==
  LET e == Last(lists[l])
  IN  /\ lists[l] # <<>>
      /\ Calls(<<"pop_back", l, m>>, <<e>>)
      /\ lists' = [Without(e) EXCEPT ![m] = <<e>> \o @]
      /\ UNCHANGED table

\* Element e goes before element b.  The call returns what followed e.
Move(e, b) ==
  /\ ListOf(e) # {} /\ ListOf(b) # {} /\ e # b
  /\ \E l \in ListOf(e), m \in ListOf(b) :
       LET i == SelectInSeq(lists[l], LAMBDA x : x = e)
       IN  /\ Calls(<<"move", e, b>>,
                    IF i = Len(lists[l]) THEN <<>> ELSE <<lists[l][i + 1]>>)
           /\ lists' = [Without(e) EXCEPT ![m] = PutBefore(@, <<e>>, b)]
  /\ UNCHANGED table

\* The elements i to j - 1 of l go before the k-th element of m, or to its
\* end; k is not one of those that go.
Splice(l, i, j, m, k) ==
  LET part == SubSeq(lists[l], i, j - 1)
      rest == [lists EXCEPT ![l] = SubSeq(@, 1, i - 1) \o SubSeq(@, j, Len(@))]
      b    == IF k <= Len(lists[m]) THEN lists[m][k] ELSE 0
  IN  /\ 1 <= i /\ i <= j /\ j <= Len(lists[l]) + 1
      /\ k \in 1 .. Len(lists[m]) + 1
      /\ l = m => k \notin i .. j - 1
      /\ Calls(<<"splice", l, i, j, m, k>>, <<>>)
      /\ lists' = [rest EXCEPT ![m] = PutBefore(@, part, b)]
      /\ UNCHANGED table

Reverses(l) ==
  /\ Calls(<<"reverse", l>>, <<>>)
  /\ lists' = [lists EXCEPT ![l] = Reverse(@)]
  /\ UNCHANGED table

Sorts(l) ==
  /\ Calls(<<"sort", l>>, <<>>)
  /\ lists' = [lists EXCEPT ![l] = StablySorted(@)]
  /\ UNCHANGED table

\* An element goes behind the last one of a sorted list that is not greater.
InsertsOrdered(e, m) ==
  LET w == Without(e)[m]
      k == Cardinality({i \in 1 .. Len(w) : ~Less(e, w[i])})
  IN  /\ ListOf(e) # {} /\ Sorted(w)
      /\ Calls(<<"insert_ordered", e, m>>, <<>>)
      /\ lists' = [Without(e) EXCEPT ![m] = InsertAt(@, k + 1, e)]
      /\ UNCHANGED table

\* The elements equal to their predecessor go to the end of another list.
Uniques(l, m) ==
  LET s     == lists[l]
      first == {i \in 1 .. Len(s) : i = 1 \/ Key[s[i]] # Key[s[i - 1]]}
      Pick(I) == [k \in 1 .. Cardinality(I) |-> s[SetToSortSeq(I, <)[k]]]
  IN  /\ Calls(<<"unique", l, m>>, <<>>)
      /\ lists' = [lists EXCEPT ![l] = Pick(first),
                                ![m] = @ \o Pick((1 .. Len(s)) \ first)]
      /\ UNCHANGED table

\* The length, and the first of the largest and of the smallest elements.
Extremes(l) ==
  LET s == lists[l]
      Top(i) == \A j \in 1 .. Len(s) : ~Less(s[i], s[j]) /\ (j < i => Less(s[j], s[i]))
      Low(i) == \A j \in 1 .. Len(s) : ~Less(s[j], s[i]) /\ (j < i => Less(s[i], s[j]))
  IN  /\ UNCHANGED <<lists, table>>
      /\ \/ s = <<>> /\ Calls(<<"extremes", l>>, <<0>>)
         \/ \E i, j \in 1 .. Len(s) :
              Top(i) /\ Low(j) /\ Calls(<<"extremes", l>>, <<Len(s), s[i], s[j]>>)

-----------------------------------------------------------------------------
\* An insertion keeps the element already there, and returns it.
Inserts(e) ==
  /\ ListOf(e) # {}
  /\ Calls(<<"insert", e>>, SetToSeq(Matching(e)))
  /\ table' = IF Matching(e) = {} THEN table \cup {e} ELSE table
  /\ lists' = IF Matching(e) = {} THEN Without(e)
              ELSE [Without(e) EXCEPT ![Spare] = Append(@, e)]

Replaces(e) ==
  /\ ListOf(e) # {}
  /\ Calls(<<"replace", e>>, SetToSeq(Matching(e)))
  /\ table' = (table \ Matching(e)) \cup {e}
  /\ lists' = [Without(e) EXCEPT ![Spare] = @ \o SetToSeq(Matching(e))]

Finds(e) ==
  /\ Calls(<<"find", e>>, SetToSeq(Matching(e)))
  /\ UNCHANGED <<lists, table>>

Deletes(e) ==
  /\ Calls(<<"delete", e>>, SetToSeq(Matching(e)))
  /\ table' = table \ Matching(e)
  /\ lists' = [lists EXCEPT ![Spare] = @ \o SetToSeq(Matching(e))]

\* An iteration meets every element once.
Iterates ==
  /\ \E s \in SetToSeqs(table) : Calls(<<"iterate">>, s)
  /\ UNCHANGED <<lists, table>>

Clears(op) ==
  /\ Calls(<<op>>, <<>>)
  /\ table' = {}
  /\ \E s \in SetToSeqs(table) : lists' = [lists EXCEPT ![Spare] = @ \o s]

Next ==
  \/ \E l, m \in PlainList : PopFront(l, m) \/ PopBack(l, m)
  \/ \E e, b \in Elem : Move(e, b)
  \/ \E l, m \in PlainList :
       \E i, j \in 1 .. Len(lists[l]) + 1, k \in 1 .. Len(lists[m]) + 1 :
         Splice(l, i, j, m, k)
  \/ \E l \in PlainList : Reverses(l) \/ Sorts(l) \/ Extremes(l)
  \/ \E e \in Elem, m \in PlainList : InsertsOrdered(e, m)
  \/ \E l, m \in PlainList : l # m /\ Uniques(l, m)
  \/ \E e \in Elem : Inserts(e) \/ Replaces(e) \/ Finds(e) \/ Deletes(e)
  \/ Iterates \/ Clears("clear") \/ Clears("destroy")
  \/ Return

Spec == Init /\ [][Next]_vars

=============================================================================
