------------------------------- MODULE Bitmap -------------------------------
(***************************************************************************)
(* The bitmaps of lib/kernel/bitmap.c.  A bitmap is bit_cnt bits in an     *)
(* array of words of ELEM_BITS bits; the operators read and write the      *)
(* words, with the masks of the code.                                      *)
(***************************************************************************)
EXTENDS Integers, Sequences, Bitwise, FiniteSetsExt

CONSTANT ELEM_BITS   \* bits of an elem_type (32)

ASSUME BitmapAssumption == ELEM_BITS \in Nat \ {0}

BITMAP_ERROR == -1

elem_idx(bit_idx) == bit_idx \div ELEM_BITS

bit_mask(bit_idx) == 2 ^ (bit_idx % ELEM_BITS)

elem_cnt(bit_cnt) == (bit_cnt + ELEM_BITS - 1) \div ELEM_BITS

Word == 0 .. 2 ^ ELEM_BITS - 1

\* ~x of a word
Complement(x) == 2 ^ ELEM_BITS - 1 - x


last_mask(b) ==
  LET last_bits == b.bit_cnt % ELEM_BITS
  IN  IF last_bits # 0 THEN 2 ^ last_bits - 1 ELSE 2 ^ ELEM_BITS - 1

bitmap_mark(b, i) == [b EXCEPT !.bits[elem_idx(i)] = @ | bit_mask(i)]

bitmap_reset(b, i) == [b EXCEPT !.bits[elem_idx(i)] = @ & Complement(bit_mask(i))]

bitmap_flip(b, i) == [b EXCEPT !.bits[elem_idx(i)] = @ ^^ bit_mask(i)]

bitmap_set(b, i, value) == IF value THEN bitmap_mark(b, i) ELSE bitmap_reset(b, i)

bitmap_test(b, i) == (b.bits[elem_idx(i)] & bit_mask(i)) # 0

bitmap_size(b) == b.bit_cnt

RECURSIVE bitmap_set_multiple(_, _, _, _)
bitmap_set_multiple(b, start, cnt, value) ==
  IF cnt = 0 THEN b
  ELSE bitmap_set_multiple(bitmap_set(b, start, value), start + 1, cnt - 1, value)

bitmap_set_all(b, value) == bitmap_set_multiple(b, 0, bitmap_size(b), value)

\* The words that malloc returns hold anything: garbage.
bitmap_create(bit_cnt, garbage) ==
  bitmap_set_all([bit_cnt |-> bit_cnt,
                  bits |-> [i \in 0 .. elem_cnt(bit_cnt) - 1 |-> garbage]], FALSE)

RECURSIVE bitmap_count(_, _, _, _)
bitmap_count(b, start, cnt, value) ==
  IF cnt = 0 THEN 0
  ELSE (IF bitmap_test(b, start) = value THEN 1 ELSE 0)
       + bitmap_count(b, start + 1, cnt - 1, value)

RECURSIVE bitmap_contains(_, _, _, _)
bitmap_contains(b, start, cnt, value) ==
  IF cnt = 0 THEN FALSE
  ELSE IF bitmap_test(b, start) = value THEN TRUE
  ELSE bitmap_contains(b, start + 1, cnt - 1, value)

bitmap_any(b, start, cnt) == bitmap_contains(b, start, cnt, TRUE)

bitmap_none(b, start, cnt) == ~bitmap_contains(b, start, cnt, TRUE)

bitmap_all(b, start, cnt) == ~bitmap_contains(b, start, cnt, FALSE)

RECURSIVE ScanFrom(_, _, _, _)
ScanFrom(b, i, cnt, value) ==
  IF i > b.bit_cnt - cnt THEN BITMAP_ERROR
  ELSE IF ~bitmap_contains(b, i, cnt, ~value) THEN i
  ELSE ScanFrom(b, i + 1, cnt, value)

bitmap_scan(b, start, cnt, value) ==
  IF cnt <= b.bit_cnt THEN ScanFrom(b, start, cnt, value) ELSE BITMAP_ERROR

\* The bitmap after the call, and the call's result.
bitmap_scan_and_flip(b, start, cnt, value) ==
  LET idx == bitmap_scan(b, start, cnt, value)
  IN  [b |-> IF idx = BITMAP_ERROR THEN b ELSE bitmap_set_multiple(b, idx, cnt, ~value),
       result |-> idx]

\* The words of the file take the place of the words of b; the bits of the
\* last word that the bitmap does not have are cleared.
bitmap_read(b, file) ==
  LET n == elem_cnt(b.bit_cnt)
  IN  IF b.bit_cnt = 0 THEN b
      ELSE [b EXCEPT !.bits = [[i \in 0 .. n - 1 |-> file[i]]
                                 EXCEPT ![n - 1] = @ & last_mask(b)]]

\* The words of the file after bitmap_write.
bitmap_write(b) == b.bits

=============================================================================
