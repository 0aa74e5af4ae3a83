-------------------------------- MODULE Hash --------------------------------
(***************************************************************************)
(* The chained hash table of lib/kernel/hash.c, over the lists of List.    *)
(*                                                                         *)
(* A state s has the heap s.h and the struct hash s.t.  The bucket array   *)
(* is one of two addresses, 0 and 1: rehash copies from one to the other,  *)
(* and the pointers of a freed array are dead.  Whether a malloc succeeds  *)
(* is a parameter.                                                         *)
(***************************************************************************)
EXTENDS List, SequencesExt, Bitwise

CONSTANTS MinBuckets,   \* the smallest number of buckets (4)
          BestElems,    \* BEST_ELEMS_PER_BUCKET (2)
          MaxBuckets,   \* the largest number of buckets of the instance
          FirstBucket   \* list number of the first bucket of array 0

ASSUME HashAssumption ==
  /\ {MinBuckets, BestElems, MaxBuckets} \subseteq Nat \ {0}
  /\ MaxBuckets >= MinBuckets /\ MaxBuckets >= Cardinality(Elem) \div BestElems
  /\ FirstBucket .. FirstBucket + 2 * MaxBuckets - 1 \subseteq ListId

Bucket(buckets, i) == FirstBucket + buckets * MaxBuckets + i

\* The hash function: the callers hash what they compare.
hash(e) == Key[e]

turn_off_least_1bit(x) == x & (x - 1)

is_power_of_2(x) == x # 0 /\ turn_off_least_1bit(x) = 0

find_bucket(t, e) == Bucket(t.buckets, hash(e) & (t.bucket_cnt - 1))

find_elem(s, bucket, e) ==
  LET w == Walk(s.h, bucket)
      i == SelectInSeq(w, LAMBDA hi : ~less(hi, e) /\ ~less(e, hi))
  IN  IF i = 0 THEN NULL ELSE w[i]

insert_elem(s, bucket, e) ==
  [h |-> list_push_front(s.h, bucket, e), t |-> [s.t EXCEPT !.elem_cnt = @ + 1]]

\* Mutant: elem_cnt is left as it was.
remove_elem_uncounted(s, e) == [h |-> list_remove(s.h, e), t |-> s.t]

remove_elem(s, e) ==
  [h |-> list_remove(s.h, e), t |-> [s.t EXCEPT !.elem_cnt = @ - 1]]

\* The buckets of a table, in the order of the loops over them.
Buckets(t) == [i \in 1 .. t.bucket_cnt |-> Bucket(t.buckets, i - 1)]

\* list_init of every bucket of the table.
InitBuckets(h, t) == FoldLeft(list_init, h, Buckets(t))

\* free(buckets)
FreeBuckets(h, buckets) ==
  LET dead == UNION {{list_head(Bucket(buckets, i)), list_tail(Bucket(buckets, i))} :
                       i \in 0 .. MaxBuckets - 1}
  IN  [h EXCEPT !.prev = [a \in DOMAIN @ |-> IF a \in dead THEN NULL ELSE @[a]],
                !.next = [a \in DOMAIN @ |-> IF a \in dead THEN NULL ELSE @[a]]]

\* The elements in the order in which hash_apply passes them to its action.
hash_apply(s) == FlattenSeq([i \in 1 .. s.t.bucket_cnt |->
                               Walk(s.h, Bucket(s.t.buckets, i - 1))])

RECURSIVE PowerOf2Below(_)
PowerOf2Below(n) ==
  IF is_power_of_2(n) THEN n ELSE PowerOf2Below(turn_off_least_1bit(n))

new_bucket_cnt(elem_cnt) ==
  LET best == elem_cnt \div BestElems
  IN  PowerOf2Below(IF best < MinBuckets THEN MinBuckets ELSE best)

\* Each old bucket is emptied from the front into the new buckets.
rehash(s, malloc) ==
  LET cnt  == new_bucket_cnt(s.t.elem_cnt)
      t    == [s.t EXCEPT !.bucket_cnt = cnt, !.buckets = 1 - @]
      Move(h, e) == list_push_front(list_remove(h, e), find_bucket(t, e), e)
  IN  IF cnt = s.t.bucket_cnt \/ ~malloc THEN s
      ELSE [h |-> FreeBuckets(FoldLeft(Move, InitBuckets(s.h, t), hash_apply(s)),
                              s.t.buckets),
            t |-> t]

-----------------------------------------------------------------------------
\* hash_clear with a destructor that puts the element on list l, which is what
\* a caller that uses the element again has it do.
hash_clear(s, l) ==
  LET Destroy(h, e) == list_push_back(list_remove(h, e), l, e)
  IN  [h |-> InitBuckets(FoldLeft(Destroy, s.h, hash_apply(s)), s.t),
       t |-> [s.t EXCEPT !.elem_cnt = 0]]

\* Bucket array 0 is allocated.
hash_init(h) ==
  LET t == [elem_cnt |-> 0, bucket_cnt |-> MinBuckets, buckets |-> 0]
  IN  [h |-> InitBuckets(h, t), t |-> t]

hash_destroy(s, l) == FreeBuckets(hash_clear(s, l).h, s.t.buckets)

hash_find(s, e) == find_elem(s, find_bucket(s.t, e), e)

\* The operations below return the element found as well: hash_find before.
hash_insert(s, e, malloc) ==
  rehash(IF hash_find(s, e) = NULL THEN insert_elem(s, find_bucket(s.t, e), e)
         ELSE s,
         malloc)

hash_replace(s, e, malloc) ==
  LET old == hash_find(s, e)
  IN  rehash(insert_elem(IF old # NULL THEN remove_elem(s, old) ELSE s,
                         find_bucket(s.t, e), e),
             malloc)

hash_delete(s, e, malloc) ==
  LET found == hash_find(s, e)
  IN  IF found # NULL THEN rehash(remove_elem(s, found), malloc) ELSE s

\* A struct hash_iterator: the bucket's index and the element.
hash_first(s) == [bucket |-> 0, elem |-> list_head(Bucket(s.t.buckets, 0))]

RECURSIVE SkipEmpty(_, _)
SkipEmpty(s, it) ==
  LET b == Bucket(s.t.buckets, it.bucket)
      n == it.bucket + 1
  IN  IF it.elem # list_end(b) THEN it
      ELSE IF n >= s.t.bucket_cnt THEN [bucket |-> n, elem |-> NULL]
      ELSE SkipEmpty(s, [bucket |-> n,
                         elem |-> list_begin(s.h, Bucket(s.t.buckets, n))])

hash_next(s, it) == SkipEmpty(s, [it EXCEPT !.elem = list_next(s.h, @)])

\* while (hash_next (&i)): the elements hash_cur returns.
RECURSIVE Iterate(_, _)
Iterate(s, it) ==
  LET n == hash_next(s, it)
  IN  IF n.elem = NULL THEN <<>> ELSE <<n.elem>> \o Iterate(s, n)

=============================================================================
