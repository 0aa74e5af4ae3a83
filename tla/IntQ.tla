-------------------------------- MODULE IntQ --------------------------------
(***************************************************************************)
(* The interrupt queue of devices/intq.c, a circular buffer shared by      *)
(* threads and interrupt handlers.  Every function runs with interrupts    *)
(* off, so a call that does not sleep is one step of its caller.           *)
(***************************************************************************)
EXTENDS Integers, Sequences

CONSTANTS Byte, BufSize,  \* INTQ_BUFSIZE
          None

ASSUME IntQAssumption == BufSize \in Nat \ {0, 1} /\ None \notin Byte

\* The queues of which the threads in T sleep on the conditions and use lock.
IntQ(T) ==
  [lock : T \cup {None}, not_full : T \cup {None}, not_empty : T \cup {None},
   buf : [0 .. BufSize - 1 -> Byte \cup {None}],
   head : 0 .. BufSize - 1, tail : 0 .. BufSize - 1]

intq_init ==
  [lock |-> None, not_full |-> None, not_empty |-> None,
   buf |-> [i \in 0 .. BufSize - 1 |-> None], head |-> 0, tail |-> 0]

next(pos) == (pos + 1) % BufSize

intq_empty(q) == q.head = q.tail

\* Mutant: the slot that tells a full queue from an empty one is used too.
intq_full_late(q) == q.head = q.tail /\ q.buf[q.tail] # None

intq_full(q) == next(q.head) = q.tail

\* What is left of intq_putc and intq_getc once the queue is not full or not
\* empty, up to the signal.  A slot that has been read is dead.
Put(q, byte) == [q EXCEPT !.buf[q.head] = byte, !.head = next(@)]
Get(q) == [q EXCEPT !.buf[q.tail] = None, !.tail = next(@)]

\* The bytes in the queue, oldest first.
Bytes(q) ==
  [i \in 1 .. (q.head - q.tail + BufSize) % BufSize |->
     q.buf[(q.tail + i - 1) % BufSize]]
=============================================================================
