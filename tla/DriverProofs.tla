---------------------------- MODULE DriverProofs ----------------------------
(***************************************************************************)
(* Theorems about the drivers, Serial and Ide.  For any number of readers  *)
(* and writers and any size of the queues, bytes come out in order,        *)
(* whoever sleeps is known to its queue, and the interrupt enable register *)
(* follows the queues.  For any number of threads, sectors and interrupts  *)
(* without reason, the disk driver implements the store that the buffer    *)
(* cache is built on, and no request panics.                               *)
(***************************************************************************)
EXTENDS Serial, Ide, TLAPS

\* Leaves are for Zenon; the ones for an SMT solver say so.
USE ZenonT(60)

-----------------------------------------------------------------------------
(* The interrupt queues: what next, Put and Get do to the contents          *)

\* A position in the buffer is its own remainder.
LEMMA ModSmall ==
  ASSUME NEW x \in 0 .. BufSize - 1
  PROVE  x % BufSize = x
  BY IntQAssumption, SMTT(60)

\* A position one round further.
LEMMA ModOnce ==
  ASSUME NEW x \in BufSize .. 2 * BufSize - 1
  PROVE  x % BufSize = x - BufSize
  BY IntQAssumption, SMTT(60)

\* next moves to the slot after, and from the last one to the first.
LEMMA NextIs ==
  ASSUME NEW pos \in 0 .. BufSize - 1
  PROVE  /\ next(pos) = IF pos = BufSize - 1 THEN 0 ELSE pos + 1
         /\ next(pos) \in 0 .. BufSize - 1
  BY IntQAssumption, SMTT(60) DEF next

\* The number of bytes in q, and the slot of the i-th one, without a modulus.
Used(q) == IF q.head >= q.tail THEN q.head - q.tail ELSE q.head - q.tail + BufSize

Slot(q, i) == IF q.tail + i - 1 < BufSize THEN q.tail + i - 1 ELSE q.tail + i - 1 - BufSize

\* The slot of the i-th byte wraps at most once.
LEMMA SlotIs ==
  ASSUME NEW t \in 0 .. BufSize - 1, NEW i \in 1 .. BufSize
  PROVE  (t + i - 1) % BufSize = IF t + i - 1 < BufSize THEN t + i - 1 ELSE t + i - 1 - BufSize
<1> USE IntQAssumption
<1>1. CASE t + i - 1 < BufSize
  <2>1. t + i - 1 \in 0 .. BufSize - 1
    BY <1>1, SMTT(60)
  <2> QED
    BY <1>1, <2>1, ModSmall
<1>2. CASE ~(t + i - 1 < BufSize)
  <2>1. t + i - 1 \in BufSize .. 2 * BufSize - 1
    BY <1>2, SMTT(60)
  <2> QED
    BY <1>2, <2>1, ModOnce, SMTT(60)
<1> QED
  BY <1>1, <1>2

\* The number of bytes wraps at most once.
LEMMA UsedIs ==
  ASSUME NEW h \in 0 .. BufSize - 1, NEW t \in 0 .. BufSize - 1
  PROVE  (h - t + BufSize) % BufSize = IF h >= t THEN h - t ELSE h - t + BufSize
<1> USE IntQAssumption
<1>1. CASE h >= t
  <2>1. h - t + BufSize \in BufSize .. 2 * BufSize - 1
    BY <1>1, SMTT(60)
  <2>2. (h - t + BufSize) - BufSize = h - t
    BY SMTT(60)
  <2> QED
    BY <1>1, <2>1, <2>2, ModOnce
<1>2. CASE ~(h >= t)
  <2>1. h - t + BufSize \in 0 .. BufSize - 1
    BY <1>2, SMTT(60)
  <2> QED
    BY <1>2, <2>1, ModSmall
<1> QED
  BY <1>1, <1>2

\* The contents of a queue, without a modulus.
LEMMA BytesIs ==
  ASSUME NEW T, NEW q \in IntQ(T)
  PROVE  /\ Used(q) \in 0 .. BufSize - 1
         /\ Bytes(q) = [i \in 1 .. Used(q) |-> q.buf[Slot(q, i)]]
         /\ \A i \in 1 .. BufSize : Slot(q, i) \in 0 .. BufSize - 1
<1> USE IntQAssumption
<1>1. q.head \in 0 .. BufSize - 1 /\ q.tail \in 0 .. BufSize - 1
  BY DEF IntQ
<1>2. Used(q) \in 0 .. BufSize - 1
  BY <1>1, SMTT(60) DEF Used
<1>3. (q.head - q.tail + BufSize) % BufSize = Used(q)
  BY <1>1, UsedIs DEF Used
<1>4. \A i \in 1 .. BufSize : (q.tail + i - 1) % BufSize = Slot(q, i)
  BY <1>1, SlotIs DEF Slot
<1>5. \A i \in 1 .. BufSize : Slot(q, i) \in 0 .. BufSize - 1
  BY <1>1, SMTT(60) DEF Slot
<1>6. \A i \in 1 .. Used(q) : i \in 1 .. BufSize
  BY <1>2, SMTT(60)
<1>7. Bytes(q) = [i \in 1 .. Used(q) |-> q.buf[(q.tail + i - 1) % BufSize]]
  BY <1>3 DEF Bytes
<1> QED
  BY <1>2, <1>4, <1>5, <1>6, <1>7

\* intq_empty and intq_full count the bytes: one slot is never used.
LEMMA EmptyFull ==
  ASSUME NEW T, NEW q \in IntQ(T)
  PROVE  /\ intq_empty(q) <=> Used(q) = 0
         /\ intq_full(q) <=> Used(q) = BufSize - 1
<1> USE IntQAssumption
<1>1. q.head \in 0 .. BufSize - 1 /\ q.tail \in 0 .. BufSize - 1
  BY DEF IntQ
<1>2. next(q.head) = IF q.head = BufSize - 1 THEN 0 ELSE q.head + 1
  BY <1>1, NextIs
<1>3. intq_empty(q) <=> Used(q) = 0
  BY <1>1, SMTT(60) DEF Used, intq_empty
<1>4. intq_full(q) <=> Used(q) = BufSize - 1
  BY <1>1, <1>2, SMTT(60) DEF Used, intq_full
<1> QED
  BY <1>3, <1>4

\* intq_putc on a queue that is not full appends.
LEMMA PutAppends ==
  ASSUME NEW T, NEW q \in IntQ(T), ~intq_full(q), NEW byte \in Byte
  PROVE  /\ Put(q, byte) \in IntQ(T)
         /\ Bytes(Put(q, byte)) = Append(Bytes(q), byte)
<1> DEFINE r == Put(q, byte)
<1> USE IntQAssumption
<1>1. /\ q.head \in 0 .. BufSize - 1 /\ q.tail \in 0 .. BufSize - 1
      /\ q.buf \in [0 .. BufSize - 1 -> Byte \cup {None}]
  BY DEF IntQ
<1>2. /\ r.buf = [q.buf EXCEPT ![q.head] = byte] /\ r.head = next(q.head) /\ r.tail = q.tail
      /\ r \in IntQ(T)
  BY <1>1, NextIs DEF Put, IntQ
<1> HIDE DEF r
<1>3. r.tail = q.tail /\ r.head = IF q.head = BufSize - 1 THEN 0 ELSE q.head + 1
  BY <1>1, <1>2, NextIs
<1>4. Used(r) = Used(q) + 1 /\ Used(q) \in 0 .. BufSize - 2
  <2>1. Used(q) # BufSize - 1
    BY EmptyFull
  <2> QED
    BY <1>1, <1>3, <2>1, SMTT(60) DEF Used
<1>5. Slot(r, Used(q) + 1) = q.head
  BY <1>1, <1>3, <1>4, SMTT(60) DEF Used, Slot
<1>6. ASSUME NEW i \in 1 .. Used(q)
      PROVE  Slot(r, i) = Slot(q, i) /\ Slot(q, i) # q.head /\ Slot(q, i) \in 0 .. BufSize - 1
  <2>1. Slot(r, i) = Slot(q, i)
    BY <1>3 DEF Slot
  <2>2. Slot(q, i) # q.head
    BY <1>1, <1>4, SMTT(60) DEF Used, Slot
  <2>3. Slot(q, i) \in 0 .. BufSize - 1
    BY <1>4, BytesIs, SMTT(60)
  <2> QED
    BY <2>1, <2>2, <2>3
<1>7. /\ Bytes(q) = [i \in 1 .. Used(q) |-> q.buf[Slot(q, i)]]
      /\ Bytes(r) = [i \in 1 .. Used(q) + 1 |-> r.buf[Slot(r, i)]]
  BY <1>2, <1>4, BytesIs
<1>8. ASSUME NEW i \in 1 .. Used(q) + 1
      PROVE  r.buf[Slot(r, i)] = IF i = Used(q) + 1 THEN byte ELSE q.buf[Slot(q, i)]
  <2>1. CASE i = Used(q) + 1
    BY <1>1, <1>2, <1>5, <2>1
  <2>2. CASE i # Used(q) + 1
    <3>1. i \in 1 .. Used(q)
      BY <1>4, <2>2, SMTT(60)
    <3> QED
      BY <1>1, <1>2, <1>6, <2>2, <3>1
  <2> QED
    BY <2>1, <2>2
<1>9. Bytes(r) = [i \in 1 .. Used(q) + 1 |-> IF i = Used(q) + 1 THEN byte ELSE q.buf[Slot(q, i)]]
  BY <1>7, <1>8
<1>10. Bytes(r) = Append(Bytes(q), byte)
  BY <1>4, <1>7, <1>9, SMTT(60)
<1> QED
  BY <1>2, <1>10 DEF r

\* intq_getc on a queue that is not empty takes the first byte.
LEMMA GetTail ==
  ASSUME NEW T, NEW q \in IntQ(T), ~intq_empty(q)
  PROVE  /\ Get(q) \in IntQ(T)
         /\ Bytes(q) # <<>>
         /\ Bytes(Get(q)) = Tail(Bytes(q))
         /\ ~intq_full(Get(q))
<1> DEFINE r == Get(q)
<1> USE IntQAssumption
<1>1. /\ q.head \in 0 .. BufSize - 1 /\ q.tail \in 0 .. BufSize - 1
      /\ q.buf \in [0 .. BufSize - 1 -> Byte \cup {None}]
  BY DEF IntQ
<1>2. /\ r.buf = [q.buf EXCEPT ![q.tail] = None] /\ r.head = q.head /\ r.tail = next(q.tail)
      /\ r \in IntQ(T)
  BY <1>1, NextIs DEF Get, IntQ
<1> HIDE DEF r
<1>3. r.head = q.head /\ r.tail = IF q.tail = BufSize - 1 THEN 0 ELSE q.tail + 1
  BY <1>1, <1>2, NextIs
<1>4. Used(r) = Used(q) - 1 /\ Used(q) \in 1 .. BufSize - 1
  <2>1. Used(q) # 0
    BY EmptyFull
  <2> QED
    BY <1>1, <1>3, <2>1, SMTT(60) DEF Used
<1>5. ASSUME NEW i \in 1 .. Used(q) - 1
      PROVE  Slot(r, i) = Slot(q, i + 1) /\ Slot(r, i) # q.tail /\ Slot(r, i) \in 0 .. BufSize - 1
  <2>1. Slot(r, i) = Slot(q, i + 1)
    <3>1. i \in Nat /\ i < BufSize
      BY <1>4, SMTT(60)
    <3>2. CASE q.tail = BufSize - 1
      BY <1>3, <3>1, <3>2, SMTT(60) DEF Slot
    <3>3. CASE q.tail # BufSize - 1
      BY <1>1, <1>3, <3>1, <3>3, SMTT(60) DEF Slot
    <3> QED
      BY <3>2, <3>3
  <2>2. Slot(r, i) # q.tail
    BY <1>1, <1>3, <1>4, SMTT(60) DEF Used, Slot
  <2>3. Slot(r, i) \in 0 .. BufSize - 1
    BY <1>2, <1>4, BytesIs, SMTT(60)
  <2> QED
    BY <2>1, <2>2, <2>3
<1>6. /\ Bytes(q) = [i \in 1 .. Used(q) |-> q.buf[Slot(q, i)]]
      /\ Bytes(r) = [i \in 1 .. Used(q) - 1 |-> r.buf[Slot(r, i)]]
  BY <1>2, <1>4, BytesIs
<1>7. ASSUME NEW i \in 1 .. Used(q) - 1
      PROVE  r.buf[Slot(r, i)] = q.buf[Slot(q, i + 1)]
  BY <1>1, <1>2, <1>5
<1>8. Bytes(r) = [i \in 1 .. Used(q) - 1 |-> q.buf[Slot(q, i + 1)]]
  BY <1>6, <1>7
<1>9. Bytes(q) # <<>> /\ Bytes(r) = Tail(Bytes(q))
  BY <1>4, <1>6, <1>8, SMTT(60)
<1>10. ~intq_full(r)
  BY <1>2, <1>4, EmptyFull, SMTT(60)
<1> QED
  BY <1>2, <1>9, <1>10 DEF r

\* The lock and the waiters are no part of the contents.
LEMMA SameQueue ==
  ASSUME NEW q, NEW r, r.buf = q.buf, r.head = q.head, r.tail = q.tail
  PROVE  /\ Bytes(r) = Bytes(q)
         /\ intq_empty(r) <=> intq_empty(q)
         /\ intq_full(r) <=> intq_full(q)
  BY DEF Bytes, intq_empty, intq_full

-----------------------------------------------------------------------------
(* Serial: the invariant                                                    *)

\* Where readers are, and which of them has the lock of the input buffer.
ReaderInv ==
  \A t \in Reader :
    /\ at[t] \in {"idle", "lock", "asleep", "woken", "wait_failed"}
    /\ inq.lock = t <=> at[t] \in {"asleep", "woken", "wait_failed"}
    /\ at[t] = "asleep" <=> inq.not_empty = t
    /\ at[t] = "asleep" => intq_empty(inq)

\* The same for writers: the console lock covers the lock of the queue.
WriterInv ==
  \A t \in Writer :
    /\ at[t] \in {"idle", "console", "put", "asleep", "woken"}
    /\ console_lock = t <=> at[t] \in {"put", "asleep", "woken"}
    /\ txq.lock = t <=> at[t] \in {"asleep", "woken"}
    /\ at[t] = "asleep" <=> txq.not_full = t
    /\ at[t] = "asleep" => intq_full(txq)
    /\ at[t] \in {"asleep", "woken"} => left[t] > 0

SerialIInv == SerialTypeOK /\ ReaderInv /\ WriterInv /\ QueuesAreFifo /\ InterruptsFollowQueues

\* Steps of readers leave the writers alone, and the other way round.
LEMMA WriterFrame ==
  ASSUME WriterInv, \A w \in Writer : at'[w] = at[w], UNCHANGED <<txq, console_lock, left>>
  PROVE  WriterInv'
  BY DEF WriterInv

\* Steps of writers leave the readers alone.
LEMMA ReaderFrame ==
  ASSUME ReaderInv, \A r \in Reader : at'[r] = at[r], UNCHANGED inq
  PROVE  ReaderInv'
  BY SMTT(60) DEF ReaderInv

\* write_ier brings the register in line with the queues.
LEMMA IerFollows ==
  ASSUME NEW in, NEW tx, write_ier(in, tx),
         intq_full(inq') <=> intq_full(in), intq_empty(txq') <=> intq_empty(tx)
  PROVE  InterruptsFollowQueues' /\ ier' \subseteq {"XMIT", "RECV"}
<1>1. CASE intq_full(in)
  BY <1>1 DEF write_ier, InterruptsFollowQueues
<1>2. CASE ~intq_full(in)
  BY <1>2 DEF write_ier, InterruptsFollowQueues
<1> QED
  BY <1>1, <1>2

\* serial_notify does so once the queues are in use.
LEMMA NotifyFollows ==
  ASSUME InterruptsFollowQueues, ier \subseteq {"XMIT", "RECV"}, NEW in, serial_notify(in),
         intq_full(inq') <=> intq_full(in), UNCHANGED <<mode, txq>>
  PROVE  InterruptsFollowQueues' /\ ier' \subseteq {"XMIT", "RECV"}
<1>1. CASE mode = "QUEUE"
  <2>1. write_ier(in, txq)
    BY <1>1 DEF serial_notify
  <2>2. intq_empty(txq') <=> intq_empty(txq)
    OBVIOUS
  <2> QED
    BY <2>1, <2>2, IerFollows
<1>2. CASE mode # "QUEUE"
  BY <1>2 DEF serial_notify, InterruptsFollowQueues
<1> QED
  BY <1>1, <1>2

\* A reader takes a byte, at once or after a sleep.
LEMMA GetKeyKeeps ==
  ASSUME SerialIInv, NEW t \in Reader, NEW q, NEW p,
         \/ q = inq /\ p = at
         \/ q = [inq EXCEPT !.lock = None] /\ p = [at EXCEPT ![t] = "idle"] /\ at[t] = "woken",
         GetKey(q, p), UNCHANGED <<mode, txq, rbr, thre, console_lock, left, queued>>
  PROVE  SerialIInv'
<1> USE SerialAssumption DEF SerialIInv
<1>1. inq \in IntQ(Reader) /\ at \in [SerialThread -> Pc] /\ t \in SerialThread /\ t \notin Writer
  BY DEF SerialTypeOK, SerialThread
<1>2. /\ q \in IntQ(Reader) /\ Bytes(q) = received /\ ~intq_empty(q) /\ ~intq_empty(inq)
      /\ q.not_empty = inq.not_empty
  <2>1. CASE q = inq
    BY <1>1, <2>1 DEF QueuesAreFifo, GetKey
  <2>2. CASE q = [inq EXCEPT !.lock = None]
    <3>1. /\ q \in IntQ(Reader) /\ q.not_empty = inq.not_empty
          /\ q.buf = inq.buf /\ q.head = inq.head /\ q.tail = inq.tail
      BY <1>1, <2>2 DEF IntQ
    <3> QED
      BY <3>1, SameQueue DEF QueuesAreFifo, GetKey
  <2> QED
    BY <2>1, <2>2
<1>3. /\ Get(q) \in IntQ(Reader) /\ Bytes(Get(q)) = Tail(received) /\ received # <<>>
      /\ Get(q).lock = q.lock /\ Get(q).not_empty = q.not_empty
  BY <1>2, GetTail DEF Get, IntQ
<1>4. /\ inq' \in IntQ(Reader) /\ Bytes(inq') = Tail(received)
      /\ intq_full(inq') <=> intq_full(Get(q))
  <2>1. /\ inq' \in IntQ(Reader)
        /\ inq'.buf = Get(q).buf /\ inq'.head = Get(q).head /\ inq'.tail = Get(q).tail
    BY <1>3 DEF GetKey, IntQ
  <2> QED
    BY <1>3, <2>1, SameQueue
<1>5. inq'.lock = q.lock /\ inq'.not_empty = inq.not_empty
  BY <1>2, <1>3 DEF GetKey, IntQ
<1>6. InterruptsFollowQueues' /\ ier' \subseteq {"XMIT", "RECV"}
  BY <1>4, NotifyFollows DEF GetKey, SerialTypeOK
<1>7. SerialTypeOK'
  <2>1. at' \in [SerialThread -> Pc]
    BY <1>1 DEF GetKey, Pc
  <2>2. received' \in Seq(Key)
    BY <1>3, SMTT(60) DEF GetKey, SerialTypeOK
  <2> QED
    BY <1>4, <1>6, <2>1, <2>2 DEF SerialTypeOK
<1>8. ReaderInv'
  <2>1. \A r \in Reader : at[r] # "asleep" /\ inq.not_empty # r
    BY <1>2 DEF ReaderInv
  <2>2. CASE q = inq /\ p = at
    BY <1>5, <2>1, <2>2 DEF ReaderInv, GetKey
  <2>3. CASE q = [inq EXCEPT !.lock = None] /\ p = [at EXCEPT ![t] = "idle"] /\ at[t] = "woken"
    <3>1. inq'.lock = None
      BY <1>1, <1>5, <2>3 DEF IntQ
    <3>2. \A r \in Reader : at'[r] = IF r = t THEN "idle" ELSE at[r]
      BY <1>1, <2>3 DEF GetKey, SerialThread
    <3>3. \A r \in Reader : inq.lock = r => r = t
      BY <2>3 DEF ReaderInv
    <3> QED
      BY <1>5, <2>1, <3>1, <3>2, <3>3 DEF ReaderInv
  <2> QED
    BY <2>2, <2>3
<1>9. WriterInv'
  BY <1>1, WriterFrame DEF GetKey, SerialThread
<1>10. QueuesAreFifo'
  BY <1>4 DEF QueuesAreFifo, GetKey
<1> QED
  BY <1>6, <1>7, <1>8, <1>9, <1>10

\* A reader that holds the lock goes to sleep, or fails the assertion.
LEMMA WaitKeyKeeps ==
  ASSUME SerialIInv, NEW t \in Reader, NEW q,
         \/ q = inq /\ inq.lock = None /\ at[t] \in {"idle", "lock"}
         \/ q = [inq EXCEPT !.lock = None] /\ at[t] = "woken",
         WaitKey(t, q), UNCHANGED <<mode, txq, rbr, thre, console_lock, left, queued>>
  PROVE  SerialIInv'
<1> USE SerialAssumption DEF SerialIInv
<1>1. inq \in IntQ(Reader) /\ at \in [SerialThread -> Pc] /\ t \in SerialThread /\ t \notin Writer
  BY DEF SerialTypeOK, SerialThread
<1>2. /\ q \in IntQ(Reader) /\ Bytes(q) = Bytes(inq)
      /\ (intq_empty(q) <=> intq_empty(inq)) /\ (intq_full(q) <=> intq_full(inq))
      /\ q.not_empty = inq.not_empty
  <2>1. CASE q = inq
    BY <1>1, <2>1
  <2>2. CASE q = [inq EXCEPT !.lock = None]
    <3>1. /\ q \in IntQ(Reader) /\ q.not_empty = inq.not_empty
          /\ q.buf = inq.buf /\ q.head = inq.head /\ q.tail = inq.tail
      BY <1>1, <2>2 DEF IntQ
    <3> QED
      BY <3>1, SameQueue
  <2> QED
    BY <2>1, <2>2
<1> DEFINE w == IF intq_empty(q) THEN t ELSE q.not_empty
<1>3. w \in Reader \cup {None}
  BY <1>2 DEF IntQ
<1>4. inq' = [q EXCEPT !.lock = t, !.not_empty = w]
  BY DEF WaitKey
<1> HIDE DEF w
<1>5. /\ inq' \in IntQ(Reader) /\ inq'.lock = t /\ inq'.not_empty = w
      /\ inq'.buf = q.buf /\ inq'.head = q.head /\ inq'.tail = q.tail
  BY <1>2, <1>3, <1>4 DEF IntQ
<1>6. /\ Bytes(inq') = Bytes(inq)
      /\ (intq_empty(inq') <=> intq_empty(inq)) /\ (intq_full(inq') <=> intq_full(inq))
  BY <1>2, <1>5, SameQueue
<1>7. SerialTypeOK'
  <2>1. at' \in [SerialThread -> Pc]
    BY <1>1 DEF WaitKey, Pc
  <2> QED
    BY <1>5, <2>1 DEF SerialTypeOK, WaitKey
<1>8. ReaderInv'
  <2>1. \A r \in Reader : at'[r] = IF r # t THEN at[r] ELSE IF intq_empty(q) THEN "asleep" ELSE "wait_failed"
    BY <1>1 DEF WaitKey, SerialThread
  <2>2. \A r \in Reader : r # t => at[r] \in {"idle", "lock"} /\ inq.not_empty # r
    BY DEF ReaderInv
  <2>3. inq.not_empty # t
    BY DEF ReaderInv
  <2> QED
    BY <1>2, <1>5, <1>6, <2>1, <2>2, <2>3, SMTT(60) DEF ReaderInv, w
<1>9. WriterInv'
  BY <1>1, WriterFrame DEF WaitKey, SerialThread
<1>10. QueuesAreFifo' /\ InterruptsFollowQueues'
  BY <1>6 DEF QueuesAreFifo, InterruptsFollowQueues, WaitKey
<1> QED
  BY <1>7, <1>8, <1>9, <1>10

\* Every step of a reader.
LEMMA ReadKeeps ==
  ASSUME SerialIInv, NEW t \in Reader, Read(t)
  PROVE  SerialIInv'
<1>1. CASE input_getc(t)
  <2>1. at[t] = "idle" /\ UNCHANGED <<mode, txq, rbr, thre, console_lock, left, queued>>
    BY <1>1 DEF input_getc, SerialAt
  <2>2. CASE GetKey(inq, at)
    BY <2>1, <2>2, GetKeyKeeps
  <2>3. CASE inq.lock = None /\ WaitKey(t, inq)
    BY <2>1, <2>3, WaitKeyKeeps
  <2>4. CASE at' = [at EXCEPT ![t] = "lock"] /\ UNCHANGED <<inq, ier, received>>
    <3>1. SerialTypeOK'
      BY <2>1, <2>4 DEF SerialIInv, SerialTypeOK, Pc, SerialThread
    <3>2. ReaderInv'
      BY <2>1, <2>4 DEF SerialIInv, SerialTypeOK, ReaderInv, SerialThread
    <3>3. WriterInv'
      BY <2>1, <2>4, WriterFrame, SerialAssumption DEF SerialIInv, SerialTypeOK, SerialThread
    <3>4. QueuesAreFifo' /\ InterruptsFollowQueues'
      BY <2>1, <2>4 DEF SerialIInv, QueuesAreFifo, InterruptsFollowQueues
    <3> QED
      BY <3>1, <3>2, <3>3, <3>4 DEF SerialIInv
  <2> QED
    BY <1>1, <2>2, <2>3, <2>4 DEF input_getc
<1>2. CASE KeyLocked(t)
  BY <1>2, WaitKeyKeeps DEF KeyLocked, SerialAt
<1>3. CASE KeyWoken(t)
  BY <1>3, GetKeyKeeps, WaitKeyKeeps DEF KeyWoken, SerialAt
<1> QED
  BY <1>1, <1>2, <1>3 DEF Read

\* A writer puts a byte in the queue, at once or after a sleep.
LEMMA PutByteKeeps ==
  ASSUME SerialIInv, NEW t \in Writer, NEW q, left[t] > 0,
         \/ q = txq /\ at[t] = "put"
         \/ q = [txq EXCEPT !.lock = None] /\ at[t] = "woken",
         PutByte(t, q), UNCHANGED <<mode, rbr, thre, console_lock, received>>
  PROVE  SerialIInv'
<1> USE SerialAssumption DEF SerialIInv
<1>1. txq \in IntQ(Writer) /\ at \in [SerialThread -> Pc] /\ t \in SerialThread /\ t \notin Reader
  BY DEF SerialTypeOK, SerialThread
<1>2. /\ q \in IntQ(Writer) /\ Bytes(q) = queued /\ ~intq_full(q) /\ ~intq_full(txq)
      /\ q.not_full = txq.not_full
  <2>1. CASE q = txq
    BY <1>1, <2>1 DEF QueuesAreFifo, PutByte
  <2>2. CASE q = [txq EXCEPT !.lock = None]
    <3>1. /\ q \in IntQ(Writer) /\ q.not_full = txq.not_full
          /\ q.buf = txq.buf /\ q.head = txq.head /\ q.tail = txq.tail
      BY <1>1, <2>2 DEF IntQ
    <3> QED
      BY <3>1, SameQueue DEF QueuesAreFifo, PutByte
  <2> QED
    BY <2>1, <2>2
<1>3. PICK byte \in Byte : txq' = Put(q, byte) /\ queued' = Append(queued, byte)
                           /\ write_ier(inq, Put(q, byte))
  BY DEF PutByte
<1>4. txq' \in IntQ(Writer) /\ Bytes(txq') = queued'
  BY <1>2, <1>3, PutAppends
<1>5. txq'.lock = q.lock /\ txq'.not_full = txq.not_full
  BY <1>2, <1>3 DEF Put, IntQ
<1>6. InterruptsFollowQueues' /\ ier' \subseteq {"XMIT", "RECV"}
  BY <1>3, IerFollows DEF PutByte
<1>7. SerialTypeOK'
  <2>1. at' \in [SerialThread -> Pc]
    BY <1>1 DEF PutByte, Pc
  <2>2. left' \in [Writer -> 0 .. PutMax]
    BY SMTT(60) DEF PutByte, SerialTypeOK
  <2>3. queued' \in Seq(Byte)
    BY <1>3, SMTT(60) DEF SerialTypeOK
  <2> QED
    BY <1>4, <1>6, <2>1, <2>2, <2>3 DEF SerialTypeOK, PutByte
<1>8. ReaderInv'
  BY <1>1, ReaderFrame DEF PutByte, SerialThread
<1>9. WriterInv'
  <2>1. \A w \in Writer : at[w] # "asleep" /\ txq.not_full # w
    BY <1>2 DEF WriterInv
  <2>2. \A w \in Writer : at'[w] = IF w = t THEN "put" ELSE at[w]
    BY <1>1 DEF PutByte, SerialThread
  <2>3. \A w \in Writer : w # t => at[w] \in {"idle", "console"} /\ left'[w] = left[w]
    BY SMTT(60) DEF WriterInv, PutByte, SerialTypeOK
  <2>4. \A w \in Writer : txq'.lock # w
    <3>1. CASE q = txq /\ at[t] = "put"
      BY <1>5, <3>1, <2>3 DEF WriterInv
    <3>2. CASE q = [txq EXCEPT !.lock = None]
      <4>1. txq'.lock = None
        BY <1>1, <1>5, <3>2 DEF IntQ
      <4> QED
        BY <4>1
    <3> QED
      BY <3>1, <3>2
  <2> QED
    BY <1>5, <2>1, <2>2, <2>3, <2>4 DEF WriterInv
<1>10. QueuesAreFifo'
  BY <1>4 DEF QueuesAreFifo, PutByte
<1> QED
  BY <1>6, <1>7, <1>8, <1>9, <1>10

\* A writer goes to sleep on a full queue.
LEMMA WaitRoomKeeps ==
  ASSUME SerialIInv, NEW t \in Writer, NEW q, left[t] > 0, intq_full(q),
         \/ q = txq /\ at[t] = "put"
         \/ q = [txq EXCEPT !.lock = None] /\ at[t] = "woken",
         WaitRoom(t, q), UNCHANGED <<mode, rbr, thre, console_lock, received>>
  PROVE  SerialIInv'
<1> USE SerialAssumption DEF SerialIInv
<1>1. txq \in IntQ(Writer) /\ at \in [SerialThread -> Pc] /\ t \in SerialThread /\ t \notin Reader
  BY DEF SerialTypeOK, SerialThread
<1>2. /\ q \in IntQ(Writer) /\ Bytes(q) = Bytes(txq)
      /\ (intq_empty(q) <=> intq_empty(txq)) /\ (intq_full(q) <=> intq_full(txq))
  <2>1. CASE q = txq
    BY <1>1, <2>1
  <2>2. CASE q = [txq EXCEPT !.lock = None]
    <3>1. /\ q \in IntQ(Writer)
          /\ q.buf = txq.buf /\ q.head = txq.head /\ q.tail = txq.tail
      BY <1>1, <2>2 DEF IntQ
    <3> QED
      BY <3>1, SameQueue
  <2> QED
    BY <2>1, <2>2
<1>3. txq' = [q EXCEPT !.lock = t, !.not_full = t]
  BY DEF WaitRoom
<1>4. /\ txq' \in IntQ(Writer) /\ txq'.lock = t /\ txq'.not_full = t
      /\ txq'.buf = q.buf /\ txq'.head = q.head /\ txq'.tail = q.tail
  BY <1>2, <1>3 DEF IntQ
<1>5. /\ Bytes(txq') = Bytes(txq)
      /\ (intq_empty(txq') <=> intq_empty(txq)) /\ (intq_full(txq') <=> intq_full(txq))
  BY <1>2, <1>4, SameQueue
<1>6. SerialTypeOK'
  <2>1. at' \in [SerialThread -> Pc]
    BY <1>1 DEF WaitRoom, Pc
  <2> QED
    BY <1>4, <2>1 DEF SerialTypeOK, WaitRoom
<1>7. ReaderInv'
  BY <1>1, ReaderFrame DEF WaitRoom, SerialThread
<1>8. WriterInv'
  <2>1. \A w \in Writer : at'[w] = IF w = t THEN "asleep" ELSE at[w]
    BY <1>1 DEF WaitRoom, SerialThread
  <2>2. \A w \in Writer : w # t => at[w] \in {"idle", "console"}
    BY DEF WriterInv
  <2> QED
    BY <1>2, <1>4, <1>5, <2>1, <2>2, SMTT(60) DEF WriterInv, WaitRoom
<1>9. QueuesAreFifo' /\ InterruptsFollowQueues'
  BY <1>5 DEF QueuesAreFifo, InterruptsFollowQueues, WaitRoom
<1> QED
  BY <1>6, <1>7, <1>8, <1>9

\* A writer at putc_poll, at the console lock or in user code.
LEMMA ConsoleKeeps ==
  ASSUME SerialIInv, NEW t \in Writer,
         \/ putbuf(t) \/ acquire_console(t) \/ release_console(t)
         \/ serial_putc(t) /\ mode = "POLL"
  PROVE  SerialIInv'
<1> USE SerialAssumption DEF SerialIInv, putbuf, acquire_console, release_console, serial_putc, SerialAt
<1>1. UNCHANGED <<mode, inq, txq, ier, rbr, received, queued>>
  OBVIOUS
<1>2. SerialTypeOK'
  <2>1. at' \in [SerialThread -> Pc] /\ console_lock' \in Writer \cup {None} /\ thre' \in BOOLEAN
    BY DEF SerialTypeOK, SerialThread, Pc
  <2>2. left' \in [Writer -> 0 .. PutMax]
    BY SMTT(60) DEF SerialTypeOK
  <2> QED
    BY <1>1, <2>1, <2>2 DEF SerialTypeOK
<1>3. ReaderInv'
  <2>1. \A r \in Reader : at'[r] = at[r]
    BY DEF SerialTypeOK, SerialThread
  <2> QED
    BY <1>1, <2>1, ReaderFrame
<1>4. WriterInv'
  BY SMTT(60) DEF SerialTypeOK, WriterInv, SerialThread
<1>5. QueuesAreFifo' /\ InterruptsFollowQueues'
  BY <1>1 DEF QueuesAreFifo, InterruptsFollowQueues
<1> QED
  BY <1>2, <1>3, <1>4, <1>5

\* Every step of a writer.
LEMMA WriteKeeps ==
  ASSUME SerialIInv, NEW t \in Writer, putbuf(t) \/ Write(t)
  PROVE  SerialIInv'
<1>1. CASE putbuf(t) \/ acquire_console(t) \/ release_console(t)
  BY <1>1, ConsoleKeeps
<1>2. CASE serial_putc(t)
  <2>1. CASE mode = "POLL"
    BY <1>2, <2>1, ConsoleKeeps
  <2>2. CASE mode # "POLL"
    <3>1. /\ at[t] = "put" /\ left[t] > 0
          /\ UNCHANGED <<mode, rbr, thre, console_lock, received>>
      BY <1>2, <2>2 DEF serial_putc, SerialAt
    <3>2. CASE PutByte(t, txq)
      BY <3>1, <3>2, PutByteKeeps
    <3>3. CASE intq_full(txq) /\ WaitRoom(t, txq)
      BY <3>1, <3>3, WaitRoomKeeps
    <3>4. txq.lock = None
      BY <3>1 DEF SerialIInv, SerialTypeOK, IntQ, WriterInv
    <3> QED
      BY <1>2, <2>2, <3>2, <3>3, <3>4 DEF serial_putc
  <2> QED
    BY <2>1, <2>2
<1>3. CASE RoomWoken(t)
  <2>1. at[t] = "woken" /\ left[t] > 0
    BY <1>3 DEF RoomWoken, SerialAt, SerialIInv, WriterInv
  <2> QED
    BY <1>3, <2>1, PutByteKeeps, WaitRoomKeeps DEF RoomWoken
<1> QED
  BY <1>1, <1>2, <1>3 DEF Write

\* An interrupt handler wakes the reader or the writer that sleeps.
LEMMA KeyWakes ==
  ASSUME ReaderInv, inq'.lock = inq.lock, inq'.not_empty = None,
         \A r \in Reader : at'[r] = IF r = inq.not_empty THEN "woken" ELSE at[r]
  PROVE  ReaderInv'
  BY SerialAssumption DEF ReaderInv

\* wake_up when a byte leaves the full output queue.
LEMMA RoomWakes ==
  ASSUME WriterInv, txq'.lock = txq.lock, txq'.not_full = None,
         \A w \in Writer : at'[w] = IF w = txq.not_full THEN "woken" ELSE at[w],
         UNCHANGED <<console_lock, left>>
  PROVE  WriterInv'
  BY SerialAssumption DEF WriterInv

\* What input_putc does to the input buffer.
LEMMA InputPut ==
  ASSUME SerialIInv, NEW byte \in Key, ~intq_full(inq), input_putc(byte)
  PROVE  /\ inq' \in IntQ(Reader) /\ inq'.lock = inq.lock /\ inq'.not_empty = None
         /\ received' \in Seq(Key) /\ Bytes(inq') = received'
         /\ intq_full(inq') <=> intq_full(Put(inq, byte))
<1> USE SerialAssumption DEF SerialIInv
<1>1. inq \in IntQ(Reader) /\ byte \in Byte /\ Bytes(inq) = received
  BY DEF SerialTypeOK, QueuesAreFifo
<1>2. Put(inq, byte) \in IntQ(Reader) /\ Bytes(Put(inq, byte)) = Append(received, byte)
  BY <1>1, PutAppends
<1>3. Put(inq, byte).lock = inq.lock
  BY <1>1 DEF Put, IntQ
<1>4. /\ inq' \in IntQ(Reader) /\ inq'.lock = Put(inq, byte).lock
      /\ inq'.not_empty = None /\ inq'.buf = Put(inq, byte).buf
      /\ inq'.head = Put(inq, byte).head /\ inq'.tail = Put(inq, byte).tail
  BY <1>2 DEF input_putc, IntQ
<1>5. received' \in Seq(Key)
  BY SMTT(60) DEF input_putc, SerialTypeOK
<1> QED
  BY <1>2, <1>3, <1>4, <1>5, SameQueue DEF input_putc

\* What the handler's intq_getc does to the transmit queue.
LEMMA OutputGet ==
  ASSUME SerialIInv, NEW q, ~intq_empty(txq), q = [Get(txq) EXCEPT !.not_full = None]
  PROVE  /\ q \in IntQ(Writer) /\ q.lock = txq.lock /\ q.not_full = None
         /\ Tail(queued) \in Seq(Byte) /\ Bytes(q) = Tail(queued)
         /\ intq_empty(q) <=> intq_empty(Get(txq))
         /\ ~intq_full(q)
<1> USE SerialAssumption DEF SerialIInv
<1>1. txq \in IntQ(Writer) /\ Bytes(txq) = queued
  BY DEF SerialTypeOK, QueuesAreFifo
<1>2. /\ Get(txq) \in IntQ(Writer) /\ Bytes(Get(txq)) = Tail(queued)
      /\ queued # <<>> /\ ~intq_full(Get(txq))
  BY <1>1, GetTail
<1>3. Get(txq).lock = txq.lock
  BY <1>1 DEF Get, IntQ
<1>4. /\ q \in IntQ(Writer) /\ q.lock = Get(txq).lock /\ q.not_full = None
      /\ q.buf = Get(txq).buf /\ q.head = Get(txq).head /\ q.tail = Get(txq).tail
  BY <1>2 DEF IntQ
<1>5. Tail(queued) \in Seq(Byte)
  BY <1>2, SMTT(60) DEF SerialTypeOK
<1> QED
  BY <1>2, <1>3, <1>4, <1>5, SameQueue

\* Who is where after a wakeup.
LEMMA WokenIs ==
  ASSUME NEW p \in [SerialThread -> Pc], NEW waiter \in SerialThread \cup {None}
  PROVE  /\ Woken(waiter, p) \in [SerialThread -> Pc]
         /\ \A t \in SerialThread : Woken(waiter, p)[t] = IF t = waiter THEN "woken" ELSE p[t]
  BY SerialAssumption DEF Woken, Pc, SerialThread

\* A key is put into the input buffer when there is room.
LEMMA keyboard_interruptKeeps ==
  ASSUME SerialIInv, keyboard_interrupt
  PROVE  SerialIInv'
<1> USE SerialAssumption DEF SerialIInv
<1>1. PICK c \in Key : input_putc(c) /\ serial_notify(Put(inq, c))
  BY DEF keyboard_interrupt
<1>2. /\ ~intq_full(inq) /\ at' = Woken(inq.not_empty, at)
      /\ UNCHANGED <<mode, txq, rbr, thre, console_lock, left, queued>>
  BY DEF keyboard_interrupt
<1>3. /\ inq' \in IntQ(Reader) /\ inq'.lock = inq.lock /\ inq'.not_empty = None
      /\ received' \in Seq(Key) /\ Bytes(inq') = received'
      /\ intq_full(inq') <=> intq_full(Put(inq, c))
  BY <1>1, <1>2, InputPut
<1>4. /\ at' \in [SerialThread -> Pc]
      /\ \A t \in SerialThread : at'[t] = IF t = inq.not_empty THEN "woken" ELSE at[t]
  <2>1. at \in [SerialThread -> Pc] /\ inq.not_empty \in SerialThread \cup {None}
    BY DEF SerialTypeOK, IntQ, SerialThread
  <2> QED
    BY <1>2, <2>1, WokenIs
<1>5. InterruptsFollowQueues' /\ ier' \subseteq {"XMIT", "RECV"}
  BY <1>1, <1>2, <1>3, NotifyFollows DEF SerialTypeOK
<1>6. SerialTypeOK'
  BY <1>2, <1>3, <1>4, <1>5 DEF SerialTypeOK
<1>7. ReaderInv'
  BY <1>3, <1>4, KeyWakes DEF SerialThread
<1>8. WriterInv'
  <2>1. \A w \in Writer : at'[w] = at[w]
    BY <1>4, SMTT(60) DEF SerialTypeOK, IntQ, SerialThread
  <2> QED
    BY <1>2, <2>1, WriterFrame
<1>9. QueuesAreFifo'
  BY <1>2, <1>3 DEF QueuesAreFifo
<1> QED
  BY <1>5, <1>6, <1>7, <1>8, <1>9

\* A turn of the serial interrupt receives a byte if there is room and sends
\* one if there is any.
LEMMA serial_interruptKeeps ==
  ASSUME SerialIInv, serial_interrupt
  PROVE  SerialIInv'
<1> USE SerialAssumption DEF SerialIInv
<1> DEFINE recv == ~intq_full(inq) /\ rbr # None
           xmit == ~intq_empty(txq) /\ thre
           heard == IF recv THEN Woken(inq.not_empty, at) ELSE at
<1>1. /\ at \in [SerialThread -> Pc] /\ inq.not_empty \in Reader \cup {None}
      /\ txq.not_full \in Writer \cup {None}
  BY DEF SerialTypeOK, IntQ
<1>2. /\ heard \in [SerialThread -> Pc]
      /\ \A t \in SerialThread : heard[t] = IF recv /\ t = inq.not_empty THEN "woken" ELSE at[t]
  BY <1>1, WokenIs, SMTT(60) DEF SerialThread
<1>3. at' = IF xmit THEN Woken(txq.not_full, heard) ELSE heard
  BY DEF serial_interrupt
<1>4. /\ at' \in [SerialThread -> Pc]
      /\ \A t \in SerialThread : at'[t] = IF xmit /\ t = txq.not_full THEN "woken" ELSE heard[t]
  <2> HIDE DEF heard
  <2> QED
    BY <1>1, <1>2, <1>3, WokenIs, SMTT(60) DEF SerialThread
<1>5. \A r \in Reader : at'[r] = IF recv /\ r = inq.not_empty THEN "woken" ELSE at[r]
  BY <1>1, <1>2, <1>4 DEF SerialThread
<1>6. \A w \in Writer : at'[w] = IF xmit /\ w = txq.not_full THEN "woken" ELSE at[w]
  BY <1>1, <1>2, <1>4 DEF SerialThread
<1>7. /\ inq' \in IntQ(Reader) /\ received' \in Seq(Key) /\ Bytes(inq') = received'
      /\ intq_full(inq') <=> intq_full(IF recv THEN Put(inq, rbr) ELSE inq)
      /\ ReaderInv'
  <2>1. CASE recv
    <3>1. rbr \in Key /\ input_putc(rbr)
      BY <2>1 DEF SerialTypeOK, serial_interrupt
    <3>2. /\ inq' \in IntQ(Reader) /\ inq'.lock = inq.lock /\ inq'.not_empty = None
          /\ received' \in Seq(Key) /\ Bytes(inq') = received'
          /\ intq_full(inq') <=> intq_full(Put(inq, rbr))
      BY <2>1, <3>1, InputPut
    <3>3. ReaderInv'
      BY <1>5, <2>1, <3>2, KeyWakes
    <3> QED
      BY <2>1, <3>2, <3>3
  <2>2. CASE ~recv
    <3>1. UNCHANGED <<inq, received>>
      BY <2>2 DEF serial_interrupt
    <3>2. ReaderInv'
      BY <1>5, <2>2, <3>1, ReaderFrame
    <3> QED
      BY <2>2, <3>1, <3>2 DEF SerialTypeOK, QueuesAreFifo
  <2> QED
    BY <2>1, <2>2
<1>8. /\ txq' \in IntQ(Writer) /\ queued' \in Seq(Byte) /\ Bytes(txq') = queued'
      /\ intq_empty(txq') <=> intq_empty(IF xmit THEN Get(txq) ELSE txq)
      /\ WriterInv'
  <2>0. UNCHANGED <<console_lock, left>>
    BY DEF serial_interrupt
  <2>1. CASE xmit
    <3>1. txq' = [Get(txq) EXCEPT !.not_full = None] /\ queued' = Tail(queued)
      BY <2>1 DEF serial_interrupt
    <3>2. /\ txq' \in IntQ(Writer) /\ txq'.lock = txq.lock /\ txq'.not_full = None
          /\ queued' \in Seq(Byte) /\ Bytes(txq') = queued'
          /\ intq_empty(txq') <=> intq_empty(Get(txq))
      BY <2>1, <3>1, OutputGet
    <3>3. WriterInv'
      BY <1>6, <2>0, <2>1, <3>2, RoomWakes
    <3> QED
      BY <2>1, <3>2, <3>3
  <2>2. CASE ~xmit
    <3>1. UNCHANGED <<txq, queued>>
      BY <2>2 DEF serial_interrupt
    <3>2. WriterInv'
      BY <1>6, <2>0, <2>2, <3>1, WriterFrame
    <3> QED
      BY <2>2, <3>1, <3>2 DEF SerialTypeOK, QueuesAreFifo
  <2> QED
    BY <2>1, <2>2
<1>9. InterruptsFollowQueues' /\ ier' \subseteq {"XMIT", "RECV"}
  <2>1. write_ier(IF recv THEN Put(inq, rbr) ELSE inq, IF xmit THEN Get(txq) ELSE txq)
    BY DEF serial_interrupt
  <2> QED
    BY <1>7, <1>8, <2>1, IerFollows
<1>10. SerialTypeOK'
  <2>1. rbr' \in Key \cup {None} /\ thre' \in BOOLEAN /\ UNCHANGED <<mode, console_lock, left>>
    BY DEF SerialTypeOK, serial_interrupt
  <2> QED
    BY <1>4, <1>7, <1>8, <1>9, <2>1 DEF SerialTypeOK
<1> QED
  BY <1>7, <1>8, <1>9, <1>10 DEF QueuesAreFifo

\* A byte written while interrupts are off: the oldest one is sent by
\* polling when the queue is full.
LEMMA serial_putc_offKeeps ==
  ASSUME SerialIInv, serial_putc_off
  PROVE  SerialIInv'
<1> USE SerialAssumption, IntQAssumption DEF SerialIInv
<1> DEFINE q == IF intq_full(txq) THEN [Get(txq) EXCEPT !.not_full = None] ELSE txq
           rest == IF intq_full(txq) THEN Tail(queued) ELSE queued
<1>1. PICK byte \in Byte : /\ txq' = Put(q, byte) /\ queued' = Append(rest, byte)
                           /\ write_ier(inq, Put(q, byte))
  BY DEF serial_putc_off
<1>2. UNCHANGED <<mode, inq, rbr, console_lock, left, received>>
  BY DEF serial_putc_off
<1>3. /\ at \in [SerialThread -> Pc] /\ txq \in IntQ(Writer) /\ txq.not_full \in Writer \cup {None}
      /\ \A r \in Reader : r # txq.not_full
  BY DEF SerialTypeOK, IntQ
<1>4. /\ at' \in [SerialThread -> Pc]
      /\ \A t \in SerialThread : at'[t] = IF intq_full(txq) /\ t = txq.not_full THEN "woken" ELSE at[t]
  <2>1. at' = IF intq_full(txq) THEN Woken(txq.not_full, at) ELSE at
    BY DEF serial_putc_off
  <2>2. txq.not_full \in SerialThread \cup {None}
    BY <1>3 DEF SerialThread
  <2> QED
    BY <1>3, <2>1, <2>2, WokenIs, SMTT(60)
<1>5. /\ q \in IntQ(Writer) /\ q.lock = txq.lock /\ rest \in Seq(Byte) /\ Bytes(q) = rest
      /\ ~intq_full(q) /\ (intq_full(txq) => q.not_full = None)
  <2>1. CASE intq_full(txq)
    <3>1. ~intq_empty(txq)
      BY <1>3, <2>1, EmptyFull, SMTT(60)
    <3> QED
      BY <2>1, <3>1, OutputGet
  <2>2. CASE ~intq_full(txq)
    BY <1>3, <2>2 DEF SerialTypeOK, QueuesAreFifo
  <2> QED
    BY <2>1, <2>2
<1> HIDE DEF q, rest
<1>6. txq' \in IntQ(Writer) /\ Bytes(txq') = queued'
  BY <1>1, <1>5, PutAppends
<1>7. txq'.lock = txq.lock /\ txq'.not_full = q.not_full
  BY <1>1, <1>5 DEF Put, IntQ
<1>8. InterruptsFollowQueues' /\ ier' \subseteq {"XMIT", "RECV"}
  BY <1>1, <1>2, IerFollows
<1>9. SerialTypeOK'
  <2>1. queued' \in Seq(Byte)
    BY <1>1, <1>5, SMTT(60)
  <2>2. thre' \in BOOLEAN
    BY DEF SerialTypeOK, serial_putc_off
  <2> QED
    BY <1>2, <1>4, <1>6, <1>8, <2>1, <2>2 DEF SerialTypeOK
<1>10. ReaderInv'
  BY <1>2, <1>3, <1>4, ReaderFrame DEF SerialThread
<1>11. WriterInv'
  <2>1. CASE intq_full(txq)
    BY <1>2, <1>4, <1>5, <1>7, <2>1, RoomWakes DEF SerialThread
  <2>2. CASE ~intq_full(txq)
    <3>1. txq'.not_full = txq.not_full
      BY <1>7, <2>2 DEF q
    <3>2. \A w \in Writer : at'[w] = at[w]
      BY <1>4, <2>2 DEF SerialThread
    <3> QED
      BY <1>2, <1>7, <2>2, <3>1, <3>2 DEF WriterInv
  <2> QED
    BY <2>1, <2>2
<1>12. QueuesAreFifo'
  BY <1>2, <1>6 DEF QueuesAreFifo
<1> QED
  BY <1>8, <1>9, <1>10, <1>11, <1>12

\* The boot, the line and a step that changes nothing.
LEMMA LineKeeps ==
  ASSUME SerialIInv, serial_init_queue \/ LineByte \/ ByteSent \/ UNCHANGED svars
  PROVE  SerialIInv'
<1> USE DEF SerialIInv, serial_init_queue, LineByte, ByteSent, svars
<1>1. UNCHANGED <<inq, txq, console_lock, at, left, received, queued>>
  OBVIOUS
<1>2. InterruptsFollowQueues' /\ ier' \subseteq {"XMIT", "RECV"}
  <2>1. CASE serial_init_queue
    BY <1>1, <2>1, IerFollows
  <2>2. CASE UNCHANGED <<mode, ier>>
    BY <1>1, <2>2 DEF InterruptsFollowQueues, SerialTypeOK
  <2> QED
    BY <2>1, <2>2
<1>3. SerialTypeOK'
  <2>1. mode' \in {"POLL", "QUEUE"} /\ rbr' \in Key \cup {None} /\ thre' \in BOOLEAN
    BY DEF SerialTypeOK
  <2> QED
    BY <1>1, <1>2, <2>1 DEF SerialTypeOK
<1>4. ReaderInv' /\ WriterInv' /\ QueuesAreFifo'
  BY <1>1, ReaderFrame, WriterFrame DEF QueuesAreFifo
<1> QED
  BY <1>2, <1>3, <1>4

\* The invariant holds before serial_init_queue, with both queues empty.
LEMMA InitEstablishes == SerialInit => SerialIInv
<1> SUFFICES ASSUME SerialInit
             PROVE  SerialIInv
  OBVIOUS
<1> USE SerialAssumption, IntQAssumption DEF SerialInit
<1>1. \A T : intq_init \in IntQ(T)
  BY SMTT(60) DEF intq_init, IntQ
<1>2. Bytes(intq_init) = <<>>
  <2>1. Used(intq_init) = 0
    BY SMTT(60) DEF Used, intq_init
  <2> QED
    BY <1>1, <2>1, BytesIs, SMTT(60)
<1>3. SerialTypeOK
  BY <1>1, SMTT(60) DEF SerialTypeOK, Pc, SerialThread
<1>4. ReaderInv /\ WriterInv
  BY DEF ReaderInv, WriterInv, intq_init, SerialThread
<1>5. QueuesAreFifo /\ InterruptsFollowQueues
  BY <1>2 DEF QueuesAreFifo, InterruptsFollowQueues
<1> QED
  BY <1>3, <1>4, <1>5 DEF SerialIInv

\* The inductive invariant holds in every reachable state.
LEMMA Invariance == SerialSpec => []SerialIInv
<1>1. ASSUME SerialIInv, [SerialNext]_svars
      PROVE  SerialIInv'
  BY <1>1, ReadKeeps, WriteKeeps, serial_putc_offKeeps, keyboard_interruptKeeps,
     serial_interruptKeeps, LineKeeps DEF SerialNext
<1> QED
  BY <1>1, InitEstablishes, PTL DEF SerialSpec

\* For every size of the buffer, intq_getc returns the bytes that intq_putc was
\* given, once and in order, whatever threads and handlers do.
THEOREM FirstInFirstOut == SerialSpec => []QueuesAreFifo
  BY Invariance, PTL DEF SerialIInv

\* No reader or writer misses its wakeup, and the ASSERT in wait never fails on
\* the transmit queue.
THEOREM NoSleeperIsForgotten == SerialSpec => []SleepersAreKnown
<1>1. SerialIInv => SleepersAreKnown
  BY DEF SerialIInv, ReaderInv, WriterInv, SleepersAreKnown
<1> QED
  BY <1>1, Invariance, PTL

\* write_ier is called after every change of a queue that matters.
THEOREM RegisterFollows == SerialSpec => []InterruptsFollowQueues
  BY Invariance, PTL DEF SerialIInv
-----------------------------------------------------------------------------
(* Ide: the invariant                                                       *)

Actor == Thread \cup {Boot}

Place == {"start", "lock", "idle1", "select", "idle2", "sector", "command",
          "wait", "busy", "transfer", "unlock", "reset", "check", "probe", "up"}

Status == {"idle", "identifying", "reading", "data_in", "accepting", "data_out", "writing"}

TypeOK ==
  /\ pc \in [Actor -> Place]
  /\ request \in [Actor -> Request \cup {NULL}]
  /\ buffer \in [Thread -> Value]
  /\ lock \in Actor \cup {NULL}
  /\ is_ata \in [Device -> BOOLEAN]
  /\ DOMAIN blocks = Device
  /\ probe \in 0 .. 2
  /\ capacity \in [Device -> {0, DiskSize, MaxSize}]
  /\ disk \in [Device -> [1 .. DiskSize - 1 -> Value]]
  /\ reg \in [dev : Device, sector : Nat]
  /\ status \in Status
  /\ data \in Value
  /\ panic = FALSE

\* The file system's partition of a disk, as block_register gets it.
HomeBlock(dev) ==
  [type |-> BLOCK_FILESYS, start |-> Home(dev).offset, size |-> Home(dev).size]

\* A disk that is registered has its file system where the table says.
BlocksInv ==
  \A dev \in Device :
    \/ filesys_block(dev) = {}
    \/ filesys_block(dev) = {HomeBlock(dev)} /\ capacity[dev] = DiskSize

\* Where a sector of a file system is.
Address(s) == [dev |-> s[1], sector |-> Home(s[1]).offset + s[2]]

\* The boot looks at one disk after the other, before any request; it takes the
\* lock to read the partition table only.
BootInv ==
  /\ pc[Boot] \in Place \ {"start", "unlock"}
  /\ request[Boot] = NULL
  /\ pc[Boot] # "up" => /\ \A t \in Thread : pc[t] = "start"
                        /\ lock \in {Boot, NULL}
                        /\ status \notin {"accepting", "data_out", "writing"}
  /\ pc[Boot] \in {"reset", "check", "probe", "lock", "up"} => lock # Boot
  /\ pc[Boot] \notin {"probe", "up"} => probe \in Device
  /\ \A dev \in Device : is_ata[dev] => capacity[dev] # 0
  /\ pc[Boot] \notin {"reset", "check", "probe", "up"} => capacity[probe] # 0
  /\ lock = Boot \/ pc[Boot] = "lock" => capacity[probe] = DiskSize

\* A thread that is inside ide_read or ide_write has the channel's lock, and its
\* request until the sector is transferred.
OwnerOK(t) ==
  /\ pc[t] \notin {"reset", "check", "probe", "up"}
  /\ pc[t] \in {"start", "lock"} <=> lock # t
  /\ pc[t] \in {"start", "unlock"} => request[t] = NULL
  /\ pc[t] \notin {"start", "unlock", "wait"} => request[t] # NULL
  /\ request[t] # NULL => filesys_block(request[t].sector[1]) # {}

OwnerInv == \A t \in Thread : OwnerOK(t)

\* The controller does what the user of the channel has asked of it, and
\* nothing that takes time but the end of a write once it is given back.
StatusInv ==
  /\ (\A t \in Actor : ~Using(t)) => status \in {"idle", "writing"}
  /\ status = "writing" => reg.sector \in 1 .. DiskSize - 1
  /\ \A t \in Actor :
       /\ pc[t] \in {"idle1", "unlock"} => status \in {"idle", "writing"}
       /\ pc[t] \in {"select", "idle2", "sector", "command"} => status = "idle"

\* Boot's commands.
BootCommandInv ==
  /\ pc[Boot] \in {"wait", "busy"} =>
       status \in IF lock = Boot THEN {"reading", "data_in"}
                  ELSE {"identifying", "data_in", "idle"}
  /\ pc[Boot] = "transfer" => status = "data_in"
  /\ pc[Boot] \in {"command", "wait", "busy"} /\ lock = Boot => reg.sector = 0

\* The command of a thread: from select_sector on the registers hold the sector
\* of the request, and data that have come are that sector's.
ThreadCommand(t) ==
  LET r == request[t] IN
  /\ r # NULL /\ pc[t] \in {"command", "wait", "busy", "transfer"} => reg = Address(r.sector)
  /\ pc[t] = "wait" /\ r = NULL => status \in {"idle", "writing"}
  /\ pc[t] = "wait" /\ r # NULL => r.op = "read"
  /\ r # NULL /\ pc[t] \in {"wait", "busy", "transfer"} =>
       IF r.op = "write" THEN status \in {"accepting", "data_out"}
       ELSE status = "reading" \/ (status = "data_in" /\ data = disk[reg.dev][reg.sector])
  /\ pc[t] = "transfer" => status \in {"data_in", "data_out"}

CommandInv == \A t \in Thread : ThreadCommand(t)

IInv == TypeOK /\ BlocksInv /\ BootInv /\ OwnerInv /\ StatusInv /\ BootCommandInv /\ CommandInv

-----------------------------------------------------------------------------
(* Sectors, requests and jobs                                               *)

\* The constants, as the proofs use them.
LEMMA Constants ==
  /\ DiskSize \in Nat /\ MaxSize \in Nat /\ DiskSize < MaxSize
  /\ Boot \notin Thread /\ NULL \notin Actor /\ NULL \notin Request
  /\ FirstValue \in Value
BY IdeAssumption, NullAssumption DEF FirstValue, Actor

\* The file system's partition of a disk lies behind sector 0 and on the disk.
LEMMA HomeOnDisk ==
  ASSUME NEW dev \in Device
  PROVE  /\ Home(dev).offset \in Nat \ {0} /\ Home(dev).size \in Nat
         /\ Home(dev).offset + Home(dev).size <= DiskSize
         /\ Filesys(partition_scan(Table[dev], DiskSize)) = {HomeBlock(dev)}
BY TableAssumption DEF HomeBlock

\* A sector of a file system is a disk and a number, and has its place on the disk.
LEMMA SectorOnDisk ==
  ASSUME NEW s \in Sector
  PROVE  /\ s = <<s[1], s[2]>> /\ s[1] \in Device /\ s[2] \in 0 .. Home(s[1]).size - 1
         /\ Address(s) \in [dev : Device, sector : 1 .. DiskSize - 1]
<1>1. PICK dev \in Device : s \in {dev} \X (0 .. Home(dev).size - 1)
  BY DEF Sector
<1>2. s = <<s[1], s[2]>> /\ s[1] = dev /\ s[2] \in 0 .. Home(dev).size - 1
  BY <1>1, SMTT(60)
<1>3. Home(dev).offset + s[2] \in 1 .. DiskSize - 1
  BY <1>2, HomeOnDisk, Constants, SMTT(60)
<1> QED
  BY <1>2, <1>3 DEF Address

\* Two sectors have different places.
LEMMA AddressesDiffer ==
  ASSUME NEW s \in Sector, NEW u \in Sector, Address(s) = Address(u)
  PROVE  s = u
<1>1. s[1] = u[1] /\ Home(s[1]).offset + s[2] = Home(u[1]).offset + u[2]
  BY DEF Address
<1>2. s[2] = u[2]
  BY <1>1, SectorOnDisk, HomeOnDisk, SMTT(60)
<1> QED
  BY <1>1, <1>2, SectorOnDisk

\* The fields of a request.
LEMMA RequestFields ==
  ASSUME NEW r \in Request
  PROVE  /\ r.op \in {"read", "write"} /\ r.sector \in Sector /\ r.part \in Part
         /\ r.op = "write" => r.data \in Value
         /\ r # NULL
BY Constants DEF Request

\* partition_read and partition_write add the start of the partition.
LEMMA JobOfThread ==
  ASSUME IInv, NEW t \in Thread, request[t] # NULL
  PROVE  /\ Job(t).op = request[t].op
         /\ Job(t).dev = Address(request[t].sector).dev
         /\ Job(t).sector = Address(request[t].sector).sector
         /\ Address(request[t].sector) \in [dev : Device, sector : 1 .. DiskSize - 1]
<1> DEFINE dev == request[t].sector[1]
<1>1. request[t] \in Request /\ request[t].sector \in Sector
  BY RequestFields DEF IInv, TypeOK, Actor
<1>2. dev \in Device /\ filesys_block(dev) # {}
  BY <1>1, SectorOnDisk DEF IInv, OwnerInv, OwnerOK
<1>3. filesys_block(dev) = {HomeBlock(dev)}
  BY <1>2 DEF IInv, BlocksInv
<1>4. (CHOOSE b \in filesys_block(dev) : TRUE) = HomeBlock(dev)
  BY <1>3
<1>5. HomeBlock(dev).start = Home(dev).offset
  BY DEF HomeBlock
<1>6. Boot # t
  BY Constants
<1>7. Job(t) = [op |-> request[t].op, dev |-> dev, sector |-> HomeBlock(dev).start + request[t].sector[2]]
  BY <1>4, <1>6 DEF Job
<1> QED
  BY <1>1, <1>5, <1>7, SectorOnDisk, SMTT(60) DEF Address

\* What the boot asks of the channel: the identity, and then sector 0.
LEMMA JobOfBoot ==
  /\ Job(Boot).op = IF lock = Boot THEN "read" ELSE "identify"
  /\ Job(Boot).dev = probe /\ Job(Boot).sector = 0
BY DEF Job

\* One actor uses the channel at a time.
LEMMA OneUser ==
  ASSUME IInv, NEW t \in Actor, NEW u \in Actor, Using(t), Using(u)
  PROVE  t = u
<1>1. ASSUME NEW v \in Thread, Using(v)
      PROVE  lock = v /\ pc[Boot] = "up"
  BY <1>1 DEF IInv, OwnerInv, OwnerOK, BootInv, Using
<1> QED
  BY <1>1, SMTT(60) DEF Actor, Using

\* The others are outside when t uses the channel, and stay where they are.
LEMMA OthersOutside ==
  ASSUME IInv, NEW t \in Actor, Using(t), NEW l, pc' = [pc EXCEPT ![t] = l]
  PROVE  /\ pc'[t] = l
         /\ \A u \in Actor \ {t} : pc'[u] = pc[u] /\ ~Using(u)
                                    /\ pc[u] \in {"start", "lock", "reset", "check", "probe", "up"}
<1>1. \A u \in Actor \ {t} : ~Using(u)
  BY OneUser
<1> QED
  BY <1>1 DEF IInv, TypeOK, Using

-----------------------------------------------------------------------------
(* The hardware                                                             *)

\* A command that is not a write of the past belongs to the user of the channel.
LEMMA CommandHasUser ==
  ASSUME IInv, status \notin {"idle", "writing"}
  PROVE  \E t \in Actor : pc[t] \in {"wait", "busy", "transfer"}
<1>1. PICK t \in Actor : Using(t)
  BY DEF IInv, StatusInv
<1>2. pc[t] \in Place
  BY <1>1 DEF IInv, TypeOK
<1>3. pc[t] \notin {"idle1", "unlock", "select", "idle2", "sector", "command"}
  BY <1>1 DEF IInv, StatusInv
<1> QED
  BY <1>1, <1>2, <1>3 DEF Using, Place

\* A disk reads a sector that it has, or the partition table.
LEMMA ReadsOnDisk ==
  ASSUME IInv, status = "reading"
  PROVE  reg.sector \in 0 .. DiskSize - 1
<1>1. PICK t \in Actor : pc[t] \in {"wait", "busy", "transfer"}
  BY CommandHasUser
<1>2. CASE t = Boot
  BY <1>1, <1>2, Constants, SMTT(60) DEF IInv, BootCommandInv, BootInv, TypeOK
<1>3. CASE t \in Thread
  <2>1. request[t] # NULL /\ pc[t] # "transfer"
    BY <1>1, <1>3 DEF IInv, CommandInv, ThreadCommand, OwnerInv, OwnerOK
  <2>2. reg = Address(request[t].sector)
    BY <1>1, <1>3, <2>1 DEF IInv, CommandInv, ThreadCommand
  <2>3. QED
    BY <1>3, <2>1, <2>2, JobOfThread, Constants, SMTT(60)
<1> QED
  BY <1>2, <1>3 DEF Actor

\* What a step leaves alone when it changes no variable of the invariant.
LEMMA UnchangedKeeps ==
  ASSUME IInv,
         UNCHANGED <<pc, request, buffer, lock, is_ata, blocks, probe, panic,
                     capacity, disk, reg, status, data>>
  PROVE  IInv'
BY SMTT(60) DEF IInv, TypeOK, BlocksInv, BootInv, OwnerInv, OwnerOK, StatusInv, BootCommandInv, CommandInv, ThreadCommand,
   filesys_block, Using

LEMMA ControllerKeeps ==
  ASSUME IInv, Reliable, Controller
  PROVE  IInv'
<1> USE DEF Controller, Reliable
<1>1. /\ UNCHANGED <<pc, request, buffer, lock, is_ata, blocks, probe, panic, capacity, reg>>
      /\ status \in {"identifying", "reading", "accepting", "writing"}
  BY DEF driver, STA_BSY
<1>2. TypeOK'
  <2>1. CASE status = "writing"
    <3>1. reg.dev \in Device /\ reg.sector \in 1 .. DiskSize - 1 /\ data \in Value
      BY <2>1 DEF IInv, StatusInv, TypeOK
    <3>a. disk \in [Device -> [1 .. DiskSize - 1 -> Value]]
      BY DEF IInv, TypeOK
    <3>b. [disk[reg.dev] EXCEPT ![reg.sector] = data] \in [1 .. DiskSize - 1 -> Value]
      BY <3>1, <3>a
    <3>c. disk' = [disk EXCEPT ![reg.dev] = [disk[reg.dev] EXCEPT ![reg.sector] = data]]
      BY <2>1
    <3>2. disk' \in [Device -> [1 .. DiskSize - 1 -> Value]]
      BY <3>1, <3>a, <3>b, <3>c
    <3>3. status' = "idle" /\ data' \in Value
      BY <2>1, Constants
    <3>4. QED
      BY <1>1, <3>2, <3>3 DEF IInv, TypeOK, Status
  <2>2. CASE status = "reading"
    <3>a. reg.sector # 0 => disk[reg.dev][reg.sector] \in Value
      <4>1. reg.sector \in 0 .. DiskSize - 1
        BY <2>2, ReadsOnDisk
      <4>2. reg.sector # 0 => reg.sector \in 1 .. DiskSize - 1
        BY <4>1, Constants, SMTT(60)
      <4>3. disk \in [Device -> [1 .. DiskSize - 1 -> Value]] /\ reg.dev \in Device
        BY DEF IInv, TypeOK
      <4>4. QED
        BY <4>2, <4>3
    <3>b. data' = IF reg.sector = 0 THEN data ELSE disk[reg.dev][reg.sector]
      BY <2>2
    <3>1. data' \in Value
      BY <3>a, <3>b DEF IInv, TypeOK
    <3>2. status' = "data_in" /\ disk' = disk
      BY <2>2
    <3>3. QED
      BY <1>1, <3>1, <3>2 DEF IInv, TypeOK, Status
  <2>3. CASE status \in {"identifying", "accepting"}
    BY <1>1, <2>3 DEF IInv, TypeOK, Status
  <2>4. QED
    BY <1>1, <2>1, <2>2, <2>3
<1>3. BlocksInv' /\ OwnerInv'
  BY <1>1 DEF IInv, BlocksInv, OwnerInv, OwnerOK, filesys_block
<1>4. BootInv'
  BY <1>1 DEF IInv, BootInv
<1>5. StatusInv'
  BY <1>1, CommandHasUser DEF IInv, StatusInv, Using
<1>6. BootCommandInv'
  BY <1>1 DEF IInv, BootCommandInv
<1>7. CommandInv'
  <2> SUFFICES ASSUME NEW t \in Thread PROVE ThreadCommand(t)'
    BY DEF CommandInv
  <2>1. CASE request[t] = NULL \/ pc[t] \notin {"wait", "busy", "transfer"}
    BY <1>1, <2>1 DEF IInv, CommandInv, ThreadCommand, OwnerInv, OwnerOK
  <2>2. CASE request[t] # NULL /\ pc[t] \in {"wait", "busy", "transfer"}
    <3>1. reg = Address(request[t].sector) /\ reg.sector # 0
      BY <2>2, JobOfThread, Constants, SMTT(60) DEF IInv, CommandInv, ThreadCommand
    <3>2. status \in {"reading", "accepting"}
      BY <1>1, <2>2 DEF IInv, CommandInv, ThreadCommand
    <3>3. QED
      BY <1>1, <2>2, <3>1, <3>2 DEF IInv, CommandInv, ThreadCommand
  <2>3. QED
    BY <2>1, <2>2
<1> QED
  BY <1>2, <1>3, <1>4, <1>5, <1>6, <1>7 DEF IInv

LEMMA InterruptKeeps ==
  ASSUME IInv, Spurious \/ interrupt_handler
  PROVE  IInv'
BY UnchangedKeeps DEF Spurious, interrupt_handler, driver

-----------------------------------------------------------------------------
(* Reading and writing                                                      *)

LEMMA SubmitKeeps ==
  ASSUME IInv, NEW t \in Thread, Submit(t)
  PROVE  IInv'
<1>0. PICK r \in Request :
        /\ \E b \in filesys_block(r.sector[1]) :
             panic' = ~(r.sector[2] < b.size /\ b.start + r.sector[2] < capacity[r.sector[1]])
        /\ request' = [request EXCEPT ![t] = r]
  BY DEF Submit
<1>1. PICK b \in filesys_block(r.sector[1]) :
        panic' = ~(r.sector[2] < b.size /\ b.start + r.sector[2] < capacity[r.sector[1]])
  BY <1>0
<1>2. /\ pc[t] = "start" /\ pc[Boot] = "up" /\ pc' = [pc EXCEPT ![t] = "lock"]
      /\ UNCHANGED <<buffer, lock, is_ata, blocks, probe, capacity, disk, reg, status, data>>
  BY DEF Submit, At, Goto, driver, hardware
<1>3. panic' = FALSE
  <2>1. r.sector \in Sector
    BY RequestFields
  <2>2. b = HomeBlock(r.sector[1]) /\ capacity[r.sector[1]] = DiskSize
    BY <2>1, SectorOnDisk DEF IInv, BlocksInv
  <2>3. b.size = Home(r.sector[1]).size /\ b.start = Home(r.sector[1]).offset
    BY <2>2 DEF HomeBlock
  <2>4. Address(r.sector).sector = Home(r.sector[1]).offset + r.sector[2]
    BY DEF Address
  <2>5. r.sector[2] < b.size
    BY <2>1, <2>3, SectorOnDisk, HomeOnDisk, SMTT(60)
  <2>6. b.start + r.sector[2] < DiskSize
    BY <2>1, <2>3, SectorOnDisk, HomeOnDisk, Constants, SMTT(60)
  <2>7. QED
    BY <1>1, <2>2, <2>5, <2>6
<1>4. /\ t \in Actor /\ t # Boot /\ Boot \in Actor
      /\ pc'[t] = "lock" /\ request'[t] = r
      /\ \A u \in Actor \ {t} : pc'[u] = pc[u] /\ request'[u] = request[u]
  BY <1>0, <1>2, Constants DEF IInv, TypeOK, Actor
<1>5. TypeOK'
  BY <1>0, <1>2, <1>3, <1>4 DEF IInv, TypeOK, Place
<1>6. BlocksInv' /\ BootInv'
  BY <1>2, <1>4 DEF IInv, BlocksInv, BootInv, filesys_block
<1>7. OwnerInv'
  <2> SUFFICES ASSUME NEW u \in Thread PROVE OwnerOK(u)'
    BY DEF OwnerInv
  <2>1. CASE u = t
    <3>1. r # NULL /\ filesys_block(r.sector[1]) # {} /\ lock # t
      BY <1>1, <1>2, RequestFields DEF IInv, OwnerInv, OwnerOK
    <3>2. QED
      BY <1>2, <1>4, <2>1, <3>1 DEF OwnerOK, filesys_block
  <2>2. CASE u # t
    BY <1>2, <1>4, <2>2 DEF IInv, OwnerInv, OwnerOK, filesys_block, Actor
  <2>3. QED
    BY <2>1, <2>2
<1>8. StatusInv' /\ BootCommandInv'
  BY <1>2, <1>4 DEF IInv, StatusInv, BootCommandInv, Using
<1>9. CommandInv'
  BY <1>2, <1>4 DEF IInv, CommandInv, ThreadCommand, Actor
<1> QED
  BY <1>5, <1>6, <1>7, <1>8, <1>9 DEF IInv

LEMMA LockAcquireKeeps ==
  ASSUME IInv, NEW t \in Actor, lock_acquire(t)
  PROVE  IInv'
<1>1. /\ pc[t] = "lock" /\ lock = NULL /\ lock' = t /\ pc' = [pc EXCEPT ![t] = "idle1"]
      /\ UNCHANGED <<request, buffer, is_ata, blocks, probe, panic, capacity, disk, reg, status, data>>
  BY DEF lock_acquire, At, Goto, hardware
<1>2. /\ pc'[t] = "idle1" /\ \A u \in Actor \ {t} : pc'[u] = pc[u]
      /\ Boot \in Actor /\ Thread \subseteq Actor /\ NULL # t
  BY <1>1, Constants DEF IInv, TypeOK, Actor
<1>3. \A u \in Actor : ~Using(u)
  <2>1. \A u \in Thread : pc[u] \in {"start", "lock"}
    BY <1>1, Constants DEF IInv, OwnerInv, OwnerOK, Actor
  <2>2. pc[Boot] \in {"lock", "up"}
    BY <1>1 DEF IInv, BootInv, Actor
  <2>3. QED
    BY <2>1, <2>2 DEF Using, Actor
<1>4. status \in {"idle", "writing"}
  BY <1>3 DEF IInv, StatusInv
<1>5. TypeOK'
  BY <1>1 DEF IInv, TypeOK, Place
<1>6. BlocksInv'
  BY <1>1 DEF IInv, BlocksInv, filesys_block
<1>7. BootInv'
  <2>1. CASE t = Boot
    BY <1>1, <1>2, <2>1, Constants DEF IInv, BootInv, Place
  <2>2. CASE t # Boot
    <3>1. pc[Boot] = "up" /\ pc'[Boot] = "up"
      BY <1>1, <1>2, <2>2 DEF IInv, BootInv, Actor
    <3>2. QED
      BY <1>1, <2>2, <3>1 DEF IInv, BootInv, Place
  <2>3. QED
    BY <2>1, <2>2
<1>8. OwnerInv'
  BY <1>1, <1>2, Constants DEF IInv, OwnerInv, OwnerOK, filesys_block, Actor
<1>9. StatusInv'
  BY <1>1, <1>2, <1>3, <1>4 DEF IInv, StatusInv, Using
<1>10. BootCommandInv' /\ CommandInv'
  BY <1>1, <1>2, <1>3 DEF IInv, BootCommandInv, CommandInv, ThreadCommand, Using
<1> QED
  BY <1>5, <1>6, <1>7, <1>8, <1>9, <1>10 DEF IInv

\* A step of the user of the channel that leaves the requests, the lock, what
\* the boot has found and the disks alone: what it owes is about the command.
LEMMA UserStepKeeps ==
  ASSUME IInv, NEW t \in Actor, Using(t), NEW l, pc' = [pc EXCEPT ![t] = l],
         l \in {"select", "idle2", "sector", "command", "wait", "busy", "transfer", "unlock"},
         UNCHANGED <<request, buffer, lock, is_ata, blocks, probe, capacity, disk, data>>,
         panic' = FALSE, reg' \in [dev : Device, sector : Nat], status' \in Status,
         status' = "writing" => status = "writing" /\ reg' = reg,
         l \in {"select", "idle2", "sector", "command"} => status' = "idle",
         l = "unlock" => t # Boot /\ request[t] = NULL /\ status' \in {"idle", "writing"},
         t = Boot => BootCommandInv' /\ status' \notin {"accepting", "data_out"},
         t # Boot => ThreadCommand(t)' /\ (l \notin {"wait", "unlock"} => request[t] # NULL)
  PROVE  IInv'
<1>1. /\ pc'[t] = l
      /\ \A u \in Actor \ {t} : pc'[u] = pc[u] /\ ~Using(u)
                                 /\ pc[u] \in {"start", "lock", "reset", "check", "probe", "up"}
  BY OthersOutside
<1>2. Boot \in Actor /\ Thread \subseteq Actor /\ Boot \notin Thread
  BY Constants DEF Actor
<1>3. TypeOK'
  BY DEF IInv, TypeOK, Place
<1>4. BlocksInv'
  BY DEF IInv, BlocksInv, filesys_block
<1>5. BootInv'
  <2>1. CASE t = Boot
    BY <1>1, <1>2, <2>1 DEF IInv, BootInv, Using, Place
  <2>2. CASE t # Boot
    <3>1. pc[Boot] = "up" /\ pc'[Boot] = "up"
      BY <1>1, <1>2, <2>2 DEF IInv, BootInv, Using, Actor
    <3>2. QED
      BY <3>1 DEF IInv, BootInv, Place
  <2>3. QED
    BY <2>1, <2>2
<1>6. OwnerInv'
  <2> SUFFICES ASSUME NEW u \in Thread PROVE OwnerOK(u)'
    BY DEF OwnerInv, OwnerOK
  <2>1. CASE u = t
    BY <1>1, <1>2, <2>1 DEF IInv, OwnerInv, OwnerOK, filesys_block, Using
  <2>2. CASE u # t
    BY <1>1, <1>2, <2>2 DEF IInv, OwnerInv, OwnerOK, filesys_block
  <2>3. QED
    BY <2>1, <2>2
<1>7. StatusInv'
  <2>1. Using(t)'
    BY <1>1 DEF Using
  <2>2. \A u \in Actor : /\ pc'[u] \in {"idle1", "unlock"} => status' \in {"idle", "writing"}
                         /\ pc'[u] \in {"select", "idle2", "sector", "command"} => status' = "idle"
    BY <1>1
  <2>3. status' = "writing" => reg'.sector \in 1 .. DiskSize - 1
    BY DEF IInv, StatusInv
  <2>4. QED
    BY <2>1, <2>2, <2>3 DEF StatusInv
<1>8. BootCommandInv'
  BY <1>1, <1>2 DEF BootCommandInv
<1>9. CommandInv'
  BY <1>1, <1>2 DEF CommandInv, ThreadCommand
<1> QED
  BY <1>3, <1>4, <1>5, <1>6, <1>7, <1>8, <1>9 DEF IInv

\* The steps before the command.
LEMMA WaitUntilIdleKeeps ==
  ASSUME IInv, Reliable, NEW t \in Actor, wait_until_idle(t)
  PROVE  IInv'
<1>1. status \notin {"identifying", "reading", "accepting", "writing", "data_in", "data_out"}
  BY DEF wait_until_idle, STA_BSY, STA_DRQ, Reliable
<1>2. status = "idle"
  BY <1>1 DEF IInv, TypeOK, Status
<1>3. /\ pc[t] \in {"idle1", "idle2"} /\ Using(t) /\ panic = FALSE
      /\ UNCHANGED <<request, buffer, lock, is_ata, blocks, probe, panic, capacity, disk, reg,
                     status, data>>
  BY DEF wait_until_idle, At, driver, Using, IInv, TypeOK
<1>4. PICK l \in {"select", "command", "sector"} :
        /\ pc' = [pc EXCEPT ![t] = l]
        /\ l = "command" => Job(t).op = "identify"
  BY DEF wait_until_idle, Goto
<1>5. pc'[t] = l
  BY <1>3, <1>4, OthersOutside
<1>6. t = Boot => BootCommandInv'
  BY <1>3, <1>4, <1>5, JobOfBoot DEF BootCommandInv
<1>7. ASSUME t # Boot
      PROVE  ThreadCommand(t)' /\ request[t] # NULL
  <2>1. t \in Thread /\ request[t] # NULL
    BY <1>3, <1>7 DEF Actor, IInv, OwnerInv, OwnerOK
  <2>2. l # "command"
    BY <1>4, <2>1, JobOfThread, RequestFields DEF IInv, TypeOK, Actor
  <2>3. QED
    BY <1>5, <2>1, <2>2 DEF ThreadCommand
<1>8. reg' \in [dev : Device, sector : Nat] /\ status' \in Status
  BY <1>3 DEF IInv, TypeOK
<1> QED
  BY <1>2, <1>3, <1>4, <1>6, <1>7, <1>8, UserStepKeeps

LEMMA SelectKeeps ==
  ASSUME IInv, NEW t \in Actor, select_device(t) \/ select_sector(t)
  PROVE  IInv'
<1>1. /\ pc[t] \in {"select", "sector"} /\ Using(t) /\ panic = FALSE
      /\ UNCHANGED <<request, buffer, lock, is_ata, blocks, probe, panic, capacity, disk,
                     status, data>>
  BY DEF select_device, select_sector, At, driver, Using, IInv, TypeOK
<1>2. status = "idle"
  BY <1>1 DEF IInv, StatusInv
<1>3. t \in Thread => request[t] # NULL
  BY <1>1 DEF IInv, OwnerInv, OwnerOK
<1>4. Job(t).dev \in Device /\ Job(t).sector \in Nat
  <2>1. CASE t = Boot
    BY <1>1, <2>1, JobOfBoot, SMTT(60) DEF IInv, BootInv
  <2>2. CASE t \in Thread
    BY <1>3, <2>2, JobOfThread, Constants, SMTT(60)
  <2>3. QED
    BY <2>1, <2>2 DEF Actor
<1>5. reg' \in [dev : Device, sector : Nat]
  BY <1>4, SMTT(60) DEF select_device, select_sector, IInv, TypeOK
<1>6. PICK l \in {"idle2", "command"} :
        /\ pc' = [pc EXCEPT ![t] = l]
        /\ l = "command" => reg' = [dev |-> Job(t).dev, sector |-> Job(t).sector]
  BY DEF select_device, select_sector, Goto
<1>7. pc'[t] = l
  BY <1>1, <1>6, OthersOutside
<1>8. t = Boot => BootCommandInv'
  BY <1>6, <1>7, JobOfBoot, SMTT(60) DEF BootCommandInv
<1>9. ASSUME t # Boot
      PROVE  ThreadCommand(t)'
  <2>1. t \in Thread
    BY <1>9 DEF Actor
  <2>2. l = "command" => reg' = Address(request[t].sector)
    BY <1>3, <1>6, <2>1, JobOfThread
  <2>3. QED
    BY <1>1, <1>7, <2>2 DEF ThreadCommand
<1>10. t # Boot => request[t] # NULL
  BY <1>3 DEF Actor
<1>11. status' \in Status
  BY <1>1, <1>2 DEF Status
<1> QED
  BY <1>1, <1>2, <1>5, <1>6, <1>8, <1>9, <1>10, <1>11, UserStepKeeps

\* The controller is idle, so that it takes the command.
LEMMA IssueKeeps ==
  ASSUME IInv, NEW t \in Actor, issue_pio_command(t)
  PROVE  IInv'
<1>1. /\ pc[t] = "command" /\ Using(t) /\ panic = FALSE
      /\ UNCHANGED <<request, buffer, lock, is_ata, blocks, probe, panic, capacity, disk, reg, data>>
  BY DEF issue_pio_command, At, Using, IInv, TypeOK
<1>2. status = "idle"
  BY <1>1 DEF IInv, StatusInv
<1>3. /\ status' = CASE Job(t).op = "write" -> "accepting"
                      [] Job(t).op = "read" -> "reading"
                      [] Job(t).op = "identify" -> "identifying"
      /\ pc' = [pc EXCEPT ![t] = IF Job(t).op = "write" THEN "busy" ELSE "wait"]
  BY <1>2 DEF issue_pio_command, Goto, STA_BSY, STA_DRQ
<1>4. reg' \in [dev : Device, sector : Nat]
  BY <1>1 DEF IInv, TypeOK
<1>5. CASE t = Boot
  <2>1. /\ pc' = [pc EXCEPT ![t] = "wait"]
        /\ status' = IF lock = Boot THEN "reading" ELSE "identifying"
    BY <1>3, <1>5, JobOfBoot
  <2>2. pc'[t] = "wait"
    BY <1>1, <2>1, OthersOutside
  <2>3. BootCommandInv'
    BY <1>1, <1>5, <2>1, <2>2 DEF IInv, BootCommandInv
  <2>4. status' \in Status /\ status' \notin {"accepting", "data_out", "writing"}
    BY <2>1 DEF Status
  <2>5. QED
    BY <1>1, <1>4, <1>5, <2>1, <2>3, <2>4, UserStepKeeps
<1>6. CASE t \in Thread
  <2>1. request[t] # NULL /\ t # Boot /\ reg = Address(request[t].sector)
    BY <1>1, <1>6, Constants DEF IInv, OwnerInv, OwnerOK, CommandInv, ThreadCommand
  <2>2. request[t].op \in {"read", "write"} /\ Job(t).op = request[t].op
    BY <1>6, <2>1, JobOfThread, RequestFields DEF IInv, TypeOK, Actor
  <2>3. CASE request[t].op = "write"
    <3>1. pc' = [pc EXCEPT ![t] = "busy"] /\ status' = "accepting"
      BY <1>3, <2>2, <2>3
    <3>2. pc'[t] = "busy"
      BY <1>1, <3>1, OthersOutside
    <3>3. ThreadCommand(t)' /\ status' \in Status
      BY <1>1, <2>1, <2>3, <3>1, <3>2 DEF ThreadCommand, Status
    <3>4. QED
      BY <1>1, <1>4, <2>1, <3>1, <3>3, UserStepKeeps
  <2>4. CASE request[t].op = "read"
    <3>1. pc' = [pc EXCEPT ![t] = "wait"] /\ status' = "reading"
      BY <1>3, <2>2, <2>4
    <3>2. pc'[t] = "wait"
      BY <1>1, <3>1, OthersOutside
    <3>3. ThreadCommand(t)' /\ status' \in Status
      BY <1>1, <2>1, <2>4, <3>1, <3>2 DEF ThreadCommand, Status
    <3>4. QED
      BY <1>1, <1>4, <2>1, <3>1, <3>3, UserStepKeeps
  <2>5. QED
    BY <2>2, <2>3, <2>4
<1> QED
  BY <1>5, <1>6 DEF Actor

\* A completion, asked for or not, lets the waiting actor go on; what it does
\* next depends on the status, not on the interrupt.
LEMMA SemaDownKeeps ==
  ASSUME IInv, NEW t \in Actor, sema_down(t)
  PROVE  IInv'
<1>1. /\ pc[t] = "wait" /\ Using(t) /\ panic = FALSE
      /\ UNCHANGED <<request, buffer, lock, is_ata, blocks, probe, panic, capacity, disk, reg,
                     status, data>>
      /\ pc' = [pc EXCEPT ![t] = IF t # Boot /\ request[t] = NULL THEN "unlock" ELSE "busy"]
  BY DEF sema_down, At, Goto, Using, hardware, IInv, TypeOK
<1>2. reg' \in [dev : Device, sector : Nat] /\ status' \in Status
  BY <1>1 DEF IInv, TypeOK
<1>3. CASE t = Boot
  <2>1. pc' = [pc EXCEPT ![t] = "busy"]
    BY <1>1, <1>3
  <2>2. pc'[t] = "busy"
    BY <1>1, <2>1, OthersOutside
  <2>3. BootCommandInv' /\ status' \notin {"accepting", "data_out"}
    BY <1>1, <1>3, <2>2 DEF IInv, BootCommandInv, BootInv
  <2>4. QED
    BY <1>1, <1>2, <1>3, <2>1, <2>3, UserStepKeeps
<1>4. CASE t \in Thread /\ request[t] = NULL
  <2>1. pc' = [pc EXCEPT ![t] = "unlock"] /\ t # Boot
    BY <1>1, <1>4, Constants
  <2>2. pc'[t] = "unlock"
    BY <1>1, <2>1, OthersOutside
  <2>3. ThreadCommand(t)' /\ status' \in {"idle", "writing"}
    BY <1>1, <1>4, <2>2 DEF IInv, CommandInv, ThreadCommand
  <2>4. QED
    BY <1>1, <1>2, <1>4, <2>1, <2>3, UserStepKeeps
<1>5. CASE t \in Thread /\ request[t] # NULL
  <2>1. pc' = [pc EXCEPT ![t] = "busy"] /\ t # Boot
    BY <1>1, <1>5, Constants
  <2>2. pc'[t] = "busy"
    BY <1>1, <2>1, OthersOutside
  <2>3. ThreadCommand(t)'
    BY <1>1, <1>5, <2>2 DEF IInv, CommandInv, ThreadCommand
  <2>4. QED
    BY <1>1, <1>2, <1>5, <2>1, <2>3, UserStepKeeps
<1> QED
  BY <1>3, <1>4, <1>5 DEF Actor

\* A controller that is not busy has the data or wants them: wait_while_busy
\* returns true, and neither ide_read nor ide_write panics.
LEMMA WaitWhileBusyKeeps ==
  ASSUME IInv, Reliable, NEW t \in Actor, wait_while_busy(t)
  PROVE  IInv'
<1>1. /\ pc[t] = "busy" /\ Using(t)
      /\ UNCHANGED <<request, buffer, lock, is_ata, blocks, probe, capacity, disk, reg, status, data>>
      /\ pc' = [pc EXCEPT ![t] = "transfer"]
      /\ status \notin {"identifying", "reading", "accepting", "writing"}
      /\ status \in {"data_in", "data_out"} \/ Job(t).op # "identify"
      /\ panic' = (status \notin {"data_in", "data_out"})
  BY DEF wait_while_busy, NoData, Reliable, At, Goto, Using, driver, hardware, STA_BSY, STA_DRQ
<1>2. pc'[t] = "transfer"
  BY <1>1, OthersOutside
<1>3. reg' \in [dev : Device, sector : Nat] /\ status' \in Status
  BY <1>1 DEF IInv, TypeOK
<1>4. CASE t = Boot
  <2>1. status = "data_in"
    BY <1>1, <1>4, JobOfBoot DEF IInv, BootCommandInv
  <2>2. BootCommandInv' /\ panic' = FALSE
    BY <1>1, <1>2, <1>4, <2>1 DEF BootCommandInv
  <2>3. QED
    BY <1>1, <1>3, <1>4, <2>1, <2>2, UserStepKeeps
<1>5. CASE t \in Thread
  <2>1. request[t] # NULL /\ t # Boot
    BY <1>1, <1>5, Constants DEF IInv, OwnerInv, OwnerOK
  <2>2. status \in {"data_in", "data_out"}
    BY <1>1, <1>5, <2>1 DEF IInv, CommandInv, ThreadCommand
  <2>3. ThreadCommand(t)' /\ panic' = FALSE
    BY <1>1, <1>2, <1>5, <2>1, <2>2 DEF IInv, CommandInv, ThreadCommand
  <2>4. QED
    BY <1>1, <1>3, <2>1, <2>2, <2>3, UserStepKeeps
<1> QED
  BY <1>4, <1>5 DEF Actor

LEMMA TransferKeeps ==
  ASSUME IInv, NEW t \in Thread, Transfer(t)
  PROVE  IInv'
<1> DEFINE op == request[t].op
<1>1. /\ pc[t] = "transfer" /\ Using(t) /\ t \in Actor /\ t # Boot /\ panic = FALSE
      /\ UNCHANGED <<lock, is_ata, blocks, probe, panic, capacity, disk, reg>>
      /\ request' = [request EXCEPT ![t] = NULL]
  BY Constants DEF Transfer, At, Using, Actor, driver, IInv, TypeOK
<1>2. /\ request[t] # NULL /\ request[t] \in Request /\ Job(t).op = op
      /\ op \in {"read", "write"} /\ (op = "write" => request[t].data \in Value)
      /\ reg.sector \in 1 .. DiskSize - 1
  <2>1. request[t] # NULL /\ reg = Address(request[t].sector)
    BY <1>1 DEF IInv, OwnerInv, OwnerOK, CommandInv, ThreadCommand
  <2>2. request[t] \in Request
    BY <1>1, <2>1 DEF IInv, TypeOK
  <2>3. QED
    BY <2>1, <2>2, JobOfThread, RequestFields
<1>3. /\ status' = IF op = "write" THEN "writing" ELSE "idle"
      /\ data' = IF op = "write" THEN request[t].data ELSE FirstValue
      /\ buffer' = IF op = "write" THEN buffer ELSE [buffer EXCEPT ![t] = data]
      /\ pc' = [pc EXCEPT ![t] = IF op = "write" THEN "wait" ELSE "unlock"]
  BY <1>2 DEF Transfer, Goto
<1>4. PICK l \in {"wait", "unlock"} : pc' = [pc EXCEPT ![t] = l]
  BY <1>3
<1>5. /\ pc'[t] = l
      /\ \A u \in Actor \ {t} : pc'[u] = pc[u] /\ ~Using(u) /\ request'[u] = request[u]
                                 /\ pc[u] \in {"start", "lock", "reset", "check", "probe", "up"}
  BY <1>1, <1>4, OthersOutside DEF IInv, TypeOK
<1>6. Boot \in Actor /\ Thread \subseteq Actor /\ request'[t] = NULL /\ status' \in {"idle", "writing"}
  BY <1>1, <1>3 DEF Actor, IInv, TypeOK
<1>7. TypeOK'
  <2>1. pc' \in [Actor -> Place]
    BY <1>4 DEF IInv, TypeOK, Place
  <2>2. request' \in [Actor -> Request \cup {NULL}]
    BY <1>1 DEF IInv, TypeOK
  <2>3. buffer' \in [Thread -> Value] /\ data' \in Value
    BY <1>2, <1>3, Constants DEF IInv, TypeOK
  <2>4. QED
    BY <1>1, <1>6, <2>1, <2>2, <2>3 DEF IInv, TypeOK, Status
<1>8. BlocksInv'
  BY <1>1 DEF IInv, BlocksInv, filesys_block
<1>9. BootInv'
  <2>1. pc[Boot] = "up" /\ pc'[Boot] = "up" /\ request'[Boot] = request[Boot]
    BY <1>1, <1>5, <1>6 DEF IInv, BootInv
  <2>2. QED
    BY <1>1, <2>1 DEF IInv, BootInv, Place
<1>10. OwnerInv'
  BY <1>1, <1>5, <1>6 DEF IInv, OwnerInv, OwnerOK, filesys_block
<1>11. StatusInv'
  <2>1. Using(t)'
    BY <1>5 DEF Using
  <2>2. QED
    BY <1>1, <1>2, <1>5, <1>6, <2>1 DEF StatusInv
<1>12. BootCommandInv'
  BY <1>1, <1>5, <1>6 DEF BootCommandInv
<1>13. CommandInv'
  BY <1>1, <1>5, <1>6 DEF CommandInv, ThreadCommand
<1> QED
  BY <1>7, <1>8, <1>9, <1>10, <1>11, <1>12, <1>13 DEF IInv

LEMMA LockReleaseKeeps ==
  ASSUME IInv, NEW t \in Thread, lock_release(t)
  PROVE  IInv'
<1>1. /\ pc[t] = "unlock" /\ Using(t) /\ t \in Actor /\ t # Boot /\ lock' = NULL
      /\ pc' = [pc EXCEPT ![t] = "start"]
      /\ UNCHANGED <<request, buffer, is_ata, blocks, probe, panic, capacity, disk, reg, status, data>>
  BY Constants DEF lock_release, At, Goto, Using, Actor, hardware
<1>2. /\ pc'[t] = "start"
      /\ \A u \in Actor \ {t} : pc'[u] = pc[u] /\ ~Using(u)
                                 /\ pc[u] \in {"start", "lock", "reset", "check", "probe", "up"}
  BY <1>1, OthersOutside
<1>3. Boot \in Actor /\ Thread \subseteq Actor /\ NULL \notin Actor
  BY Constants DEF Actor
<1>4. status \in {"idle", "writing"} /\ lock = t /\ request[t] = NULL
  BY <1>1 DEF IInv, StatusInv, OwnerInv, OwnerOK
<1>5. TypeOK'
  BY <1>1 DEF IInv, TypeOK, Place
<1>6. BlocksInv'
  BY <1>1 DEF IInv, BlocksInv, filesys_block
<1>7. BootInv'
  <2>1. pc[Boot] = "up" /\ pc'[Boot] = "up"
    BY <1>1, <1>2, <1>3 DEF IInv, BootInv
  <2>2. QED
    BY <1>1, <1>3, <2>1 DEF IInv, BootInv, Place
<1>8. OwnerInv'
  BY <1>1, <1>2, <1>3, <1>4 DEF IInv, OwnerInv, OwnerOK, filesys_block
<1>9. StatusInv'
  BY <1>1, <1>2, <1>3, <1>4 DEF IInv, StatusInv
<1>10. BootCommandInv' /\ CommandInv'
  BY <1>1, <1>2, <1>3, <1>4 DEF BootCommandInv, CommandInv, ThreadCommand
<1> QED
  BY <1>5, <1>6, <1>7, <1>8, <1>9, <1>10 DEF IInv

-----------------------------------------------------------------------------
(* Booting                                                                  *)

\* A step of the boot after which it is not inside a command.
LEMMA BootStepKeeps ==
  ASSUME IInv, pc[Boot] # "up", NEW l, pc' = [pc EXCEPT ![Boot] = l],
         l \in {"check", "probe", "lock", "idle1", "up"},
         UNCHANGED <<request, buffer, panic, capacity, disk, data>>,
         lock' = NULL, status' = "idle", reg' \in [dev : Device, sector : Nat],
         DOMAIN blocks' = Device, BlocksInv', is_ata' \in [Device -> BOOLEAN],
         \A dev \in Device : is_ata'[dev] => capacity[dev] # 0,
         probe' \in 0 .. 2,
         l \in {"check", "lock", "idle1"} => probe' \in Device,
         l \in {"lock", "idle1"} => capacity[probe'] # 0,
         l = "lock" => capacity[probe'] = DiskSize
  PROVE  IInv'
<1>1. /\ Boot \in Actor /\ Thread \subseteq Actor /\ Boot \notin Thread /\ NULL \notin Actor
      /\ Actor = Thread \cup {Boot}
  BY Constants DEF Actor
<1>2. /\ pc'[Boot] = l
      /\ \A t \in Thread : pc'[t] = "start" /\ pc[t] = "start" /\ request[t] = NULL
  BY <1>1 DEF IInv, TypeOK, BootInv, OwnerInv, OwnerOK
<1>3. TypeOK'
  BY DEF IInv, TypeOK, Place, Status
<1>4. BootInv'
  BY <1>1, <1>2 DEF IInv, BootInv, Place
<1>5. OwnerInv'
  BY <1>1, <1>2 DEF OwnerInv, OwnerOK
<1>6. StatusInv' /\ BootCommandInv' /\ CommandInv'
  BY <1>1, <1>2 DEF StatusInv, BootCommandInv, CommandInv, ThreadCommand
<1> QED
  BY <1>3, <1>4, <1>5, <1>6 DEF IInv

\* Outside of commands the boot has no lock, and the controller is idle.
LEMMA BootIdle ==
  ASSUME IInv, pc[Boot] \in {"reset", "check", "probe"}
  PROVE  lock = NULL /\ status = "idle"
<1>1. \A t \in Actor : ~Using(t)
  BY DEF IInv, BootInv, Using, Actor
<1> QED
  BY <1>1 DEF IInv, BootInv, StatusInv

LEMMA ResetKeeps ==
  ASSUME IInv, Reset
  PROVE  IInv'
<1>1. /\ pc[Boot] = "reset" /\ status' = "idle" /\ pc' = [pc EXCEPT ![Boot] = "check"]
      /\ UNCHANGED <<request, buffer, lock, is_ata, blocks, probe, panic, capacity, disk, reg, data>>
  BY DEF Reset, At, Goto, driver
<1>2. BlocksInv'
  BY <1>1 DEF IInv, BlocksInv, filesys_block
<1>3. /\ lock = NULL /\ probe \in Device /\ probe \in 0 .. 2
      /\ reg \in [dev : Device, sector : Nat] /\ DOMAIN blocks = Device
      /\ is_ata \in [Device -> BOOLEAN] /\ \A dev \in Device : is_ata[dev] => capacity[dev] # 0
  BY <1>1, BootIdle DEF IInv, TypeOK, BootInv
<1> QED
  BY <1>1, <1>2, <1>3, BootStepKeeps

\* Only a device that is there is taken for a disk.
LEMMA CheckKeeps ==
  ASSUME IInv, check_device_type
  PROVE  IInv'
<1>1. PICK a \in Answer(probe), bad \in BOOLEAN :
        /\ ~a.ready => bad
        /\ is_ata' = [is_ata EXCEPT ![probe] = ~bad /\ a.signature]
        /\ reg' = [reg EXCEPT !.dev = probe]
        /\ \/ probe' = 1 /\ pc' = [pc EXCEPT ![Boot] = "check"]
           \/ probe' = 0 /\ pc' = [pc EXCEPT ![Boot] = "probe"]
  BY DEF check_device_type, Goto
<1>2. /\ pc[Boot] = "check"
      /\ UNCHANGED <<request, buffer, lock, blocks, panic, capacity, disk, status, data>>
  BY DEF check_device_type, At
<1>3. /\ probe \in Device /\ lock = NULL /\ status = "idle"
      /\ capacity[probe] \in Nat /\ is_ata \in [Device -> BOOLEAN]
      /\ \A dev \in Device : is_ata[dev] => capacity[dev] # 0
  <2>1. probe \in Device /\ lock = NULL /\ status = "idle"
    BY <1>2, BootIdle DEF IInv, BootInv
  <2>2. capacity[probe] \in Nat
    BY <2>1, Constants, SMTT(60) DEF IInv, TypeOK
  <2>3. QED
    BY <2>1, <2>2 DEF IInv, TypeOK, BootInv
<1>4. ~bad /\ a.signature => capacity[probe] # 0
  BY <1>1, <1>3, SMTT(60) DEF Answer
<1>5. a.signature \in BOOLEAN
  BY DEF Answer
<1>6. is_ata' \in [Device -> BOOLEAN] /\ \A dev \in Device : is_ata'[dev] => capacity[dev] # 0
  BY <1>1, <1>3, <1>4, <1>5
<1>7. reg' \in [dev : Device, sector : Nat]
  BY <1>1, <1>3 DEF IInv, TypeOK
<1>8. BlocksInv' /\ DOMAIN blocks' = Device
  BY <1>2 DEF IInv, TypeOK, BlocksInv, filesys_block
<1>9. probe' \in Device /\ probe' \in 0 .. 2
  BY <1>1, SMTT(60) DEF Device
<1>10. PICK l \in {"check", "probe"} : pc' = [pc EXCEPT ![Boot] = l]
  BY <1>1
<1> QED
  BY <1>2, <1>3, <1>6, <1>7, <1>8, <1>9, <1>10, BootStepKeeps

LEMMA ProbeKeeps ==
  ASSUME IInv, Probe
  PROVE  IInv'
<1>1. /\ pc[Boot] = "probe"
      /\ UNCHANGED <<request, buffer, lock, is_ata, blocks, panic, capacity, disk, reg, status, data>>
      /\ pc' = [pc EXCEPT ![Boot] = IF probe > 1 THEN "up"
                                    ELSE IF is_ata[probe] THEN "idle1" ELSE "probe"]
      /\ probe' = IF probe <= 1 /\ ~is_ata[probe] THEN probe + 1 ELSE probe
  BY DEF Probe, At, Goto, hardware
<1>2. /\ lock = NULL /\ status = "idle" /\ probe \in 0 .. 2
      /\ reg \in [dev : Device, sector : Nat] /\ DOMAIN blocks = Device
      /\ is_ata \in [Device -> BOOLEAN] /\ \A dev \in Device : is_ata[dev] => capacity[dev] # 0
  BY <1>1, BootIdle DEF IInv, TypeOK, BootInv
<1>3. BlocksInv'
  BY <1>1 DEF IInv, BlocksInv, filesys_block
<1>4. PICK l \in {"up", "idle1", "probe"} :
        /\ pc' = [pc EXCEPT ![Boot] = l]
        /\ l = "idle1" => probe \in Device /\ is_ata[probe] /\ probe' = probe
  <2>1. CASE probe > 1
    BY <1>1, <2>1
  <2>2. CASE ~(probe > 1) /\ is_ata[probe]
    BY <1>1, <1>2, <2>2, SMTT(60) DEF Device
  <2>3. CASE ~(probe > 1) /\ ~is_ata[probe]
    BY <1>1, <2>3
  <2>4. QED
    BY <2>1, <2>2, <2>3
<1>5. probe' \in 0 .. 2
  BY <1>1, <1>2, SMTT(60)
<1> QED
  BY <1>1, <1>2, <1>3, <1>4, <1>5, BootStepKeeps

LEMMA RefusedKeeps ==
  ASSUME IInv, Reliable, Refused
  PROVE  IInv'
<1>1. /\ pc[Boot] = "busy" /\ lock # Boot
      /\ status \notin {"identifying", "reading", "accepting", "writing", "data_in", "data_out"}
      /\ is_ata' = [is_ata EXCEPT ![probe] = FALSE] /\ probe' = probe + 1
      /\ pc' = [pc EXCEPT ![Boot] = "probe"]
      /\ UNCHANGED <<request, buffer, lock, blocks, panic, capacity, disk, reg, status, data>>
  BY DEF Refused, NoData, Reliable, At, Goto, hardware, STA_BSY, STA_DRQ
<1>2. /\ status = "idle" /\ lock = NULL /\ probe' \in 0 .. 2
      /\ reg \in [dev : Device, sector : Nat] /\ DOMAIN blocks = Device
  BY <1>1, SMTT(60) DEF IInv, TypeOK, Status, BootInv, Device
<1>3. is_ata' \in [Device -> BOOLEAN] /\ \A dev \in Device : is_ata'[dev] => capacity[dev] # 0
  BY <1>1 DEF IInv, TypeOK, BootInv
<1>4. BlocksInv'
  BY <1>1 DEF IInv, BlocksInv, filesys_block
<1> QED
  BY <1>1, <1>2, <1>3, <1>4, BootStepKeeps

\* A disk that is not too large is one of DiskSize sectors.
LEMMA IdentifiedKeeps ==
  ASSUME IInv, Identified
  PROVE  IInv'
<1>1. /\ pc[Boot] = "transfer" /\ lock # Boot /\ status' = "idle"
      /\ \/ /\ capacity[probe] >= MaxSize /\ is_ata' = [is_ata EXCEPT ![probe] = FALSE]
            /\ probe' = probe + 1 /\ pc' = [pc EXCEPT ![Boot] = "probe"]
         \/ /\ ~(capacity[probe] >= MaxSize) /\ UNCHANGED <<is_ata, probe>>
            /\ pc' = [pc EXCEPT ![Boot] = "lock"]
      /\ UNCHANGED <<request, buffer, lock, blocks, panic, capacity, disk, reg, data>>
  BY DEF Identified, At, Goto
<1>2. /\ lock = NULL /\ probe \in Device /\ probe + 1 \in 0 .. 2 /\ probe \in 0 .. 2
      /\ capacity[probe] \in {DiskSize, MaxSize}
      /\ reg \in [dev : Device, sector : Nat] /\ DOMAIN blocks = Device
  BY <1>1, SMTT(60) DEF IInv, TypeOK, BootInv, Device
<1>3. is_ata' \in [Device -> BOOLEAN] /\ \A dev \in Device : is_ata'[dev] => capacity[dev] # 0
  BY <1>1 DEF IInv, TypeOK, BootInv
<1>4. BlocksInv'
  BY <1>1 DEF IInv, BlocksInv, filesys_block
<1>5. CASE capacity[probe] >= MaxSize
  BY <1>1, <1>2, <1>3, <1>4, <1>5, BootStepKeeps
<1>6. CASE ~(capacity[probe] >= MaxSize)
  <2>1. capacity[probe] = DiskSize /\ capacity[probe] # 0
    BY <1>1, <1>2, <1>6, Constants, SMTT(60) DEF IInv, BootInv
  <2>2. QED
    BY <1>1, <1>2, <1>3, <1>4, <1>6, <2>1, BootStepKeeps
<1> QED
  BY <1>5, <1>6

LEMMA ScannedKeeps ==
  ASSUME IInv, Scanned
  PROVE  IInv'
<1>1. /\ pc[Boot] = "transfer" /\ lock = Boot /\ status' = "idle" /\ lock' = NULL
      /\ blocks' = [blocks EXCEPT ![probe] = partition_scan(Table[probe], capacity[probe])]
      /\ probe' = probe + 1 /\ pc' = [pc EXCEPT ![Boot] = "probe"]
      /\ UNCHANGED <<request, buffer, is_ata, panic, capacity, disk, reg, data>>
  BY DEF Scanned, At, Goto
<1>2. /\ probe \in Device /\ probe' \in 0 .. 2 /\ capacity[probe] = DiskSize
      /\ reg \in [dev : Device, sector : Nat] /\ DOMAIN blocks = Device
      /\ is_ata \in [Device -> BOOLEAN] /\ \A dev \in Device : is_ata[dev] => capacity[dev] # 0
  BY <1>1, SMTT(60) DEF IInv, TypeOK, BootInv, Device
<1>3. /\ DOMAIN blocks' = Device
      /\ blocks'[probe] = partition_scan(Table[probe], DiskSize)
      /\ \A dev \in Device : dev # probe => blocks'[dev] = blocks[dev]
  BY <1>1, <1>2
<1>4. BlocksInv'
  <2> SUFFICES ASSUME NEW dev \in Device
               PROVE  \/ filesys_block(dev)' = {}
                      \/ filesys_block(dev)' = {HomeBlock(dev)} /\ capacity[dev] = DiskSize
    BY <1>1 DEF BlocksInv
  <2>1. CASE dev = probe
    <3>1. filesys_block(dev)' = Filesys(partition_scan(Table[dev], DiskSize))
      BY <1>3, <2>1 DEF filesys_block
    <3>2. QED
      BY <1>2, <2>1, <3>1, HomeOnDisk
  <2>2. CASE dev # probe
    BY <1>3, <2>2 DEF IInv, BlocksInv, filesys_block
  <2>3. QED
    BY <2>1, <2>2
<1> QED
  BY <1>1, <1>2, <1>3, <1>4, BootStepKeeps

-----------------------------------------------------------------------------
LEMMA InitIInv == Init => IInv
<1> SUFFICES ASSUME Init PROVE IInv
  OBVIOUS
<1> USE DEF Init
<1>1. Boot \in Actor /\ Boot \notin Thread /\ Actor = Thread \cup {Boot} /\ NULL \notin Actor
  BY Constants DEF Actor
<1>2. TypeOK
  <2>1. pc \in [Actor -> Place] /\ request \in [Actor -> Request \cup {NULL}]
    BY <1>1 DEF Place
  <2>2. QED
    BY <1>1, <2>1, Constants, SMTT(60) DEF TypeOK, Status, Device
<1>3. BlocksInv
  BY SMTT(60) DEF BlocksInv, filesys_block, Filesys
<1>4. /\ pc[Boot] = "reset" /\ \A t \in Thread : pc[t] = "start"
      /\ \A t \in Actor : request[t] = NULL
  BY <1>1
<1>5. BootInv /\ OwnerInv
  BY <1>1, <1>4 DEF BootInv, OwnerInv, OwnerOK, Place, Device
<1>6. StatusInv /\ BootCommandInv /\ CommandInv
  BY <1>1, <1>4 DEF StatusInv, BootCommandInv, CommandInv, ThreadCommand
<1> QED
  BY <1>2, <1>3, <1>5, <1>6 DEF IInv

LEMMA NextIInv ==
  ASSUME IInv, Reliable, [Next]_vars
  PROVE  IInv'
<1>1. CASE Controller \/ Spurious \/ interrupt_handler
  BY <1>1, ControllerKeeps, InterruptKeeps
<1>2. CASE Booting
  BY <1>2, ResetKeeps, CheckKeeps, ProbeKeeps, RefusedKeeps, IdentifiedKeeps, ScannedKeeps DEF Booting
<1>3. ASSUME NEW t \in Thread, Submit(t) PROVE IInv'
  BY <1>3, SubmitKeeps
<1>4. ASSUME NEW t \in Actor, Steps(t) PROVE IInv'
  <2>1. Transfer(t) \/ lock_release(t) => t \in Thread
    BY DEF Transfer, lock_release, Actor
  <2>2. QED
    BY <1>4, <2>1, LockAcquireKeeps, WaitUntilIdleKeeps, SelectKeeps, IssueKeeps, SemaDownKeeps,
       WaitWhileBusyKeeps, TransferKeeps, LockReleaseKeeps DEF Steps
<1>5. CASE UNCHANGED vars
  BY <1>5, UnchangedKeeps DEF vars, driver, hardware
<1> QED
  BY <1>1, <1>2, <1>3, <1>4, <1>5 DEF Next, Actor

-----------------------------------------------------------------------------
(* The driver implements the store                                          *)

\* What a reader of sector s would get.
Seen(s) ==
  IF status = "writing" /\ reg = Address(s) THEN data
  ELSE disk[Address(s).dev][Address(s).sector]

LEMMA ContentsSeen ==
  /\ Contents = [s \in Sector |-> [p \in Part |-> Seen(s)]]
  /\ Contents' = [s \in Sector |-> [p \in Part |-> Seen(s)']]
BY DEF Contents, Seen, Address

\* A step that leaves the disks alone and begins and ends no write is not seen.
LEMMA StepUnseen ==
  ASSUME disk' = disk,
         \/ status # "writing" /\ status' # "writing"
         \/ UNCHANGED <<status, reg, data>>
  PROVE  Contents' = Contents
<1>1. \A s \in Sector : Seen(s)' = Seen(s)
  BY DEF Seen
<1> QED
  BY <1>1, ContentsSeen

\* Neither is the end of a write: the sector counts as written since the
\* transfer.
LEMMA ControllerUnseen ==
  ASSUME IInv, Controller
  PROVE  Contents' = Contents
<1>1. CASE status = "writing"
  <2>1. /\ disk' = [disk EXCEPT ![reg.dev][reg.sector] = data] /\ status' = "idle" /\ reg' = reg
        /\ reg.dev \in Device /\ reg.sector \in 1 .. DiskSize - 1
        /\ reg = [dev |-> reg.dev, sector |-> reg.sector]
        /\ disk \in [Device -> [1 .. DiskSize - 1 -> Value]]
    BY <1>1 DEF Controller, IInv, TypeOK, StatusInv
  <2>2. ASSUME NEW s \in Sector
        PROVE  Seen(s)' = Seen(s)
    <3>1. /\ Address(s).dev \in Device /\ Address(s).sector \in 1 .. DiskSize - 1
          /\ Address(s) = [dev |-> Address(s).dev, sector |-> Address(s).sector]
      BY <2>2, SectorOnDisk
    <3>2. Seen(s)' = disk'[Address(s).dev][Address(s).sector]
      BY <2>1 DEF Seen
    <3>3. CASE reg = Address(s)
      BY <1>1, <2>1, <3>1, <3>2, <3>3 DEF Seen
    <3>4. CASE reg # Address(s)
      <4>1. reg.dev # Address(s).dev \/ reg.sector # Address(s).sector
        BY <2>1, <3>1, <3>4
      <4>2. QED
        BY <1>1, <2>1, <3>1, <3>2, <3>4, <4>1 DEF Seen
    <3>5. QED
      BY <3>3, <3>4
  <2>3. QED
    BY <2>2, ContentsSeen
<1>2. CASE status # "writing"
  BY <1>2, StepUnseen DEF Controller, STA_BSY
<1> QED
  BY <1>1, <1>2

\* input_sector and output_sector are the moments at which a request takes effect.
LEMMA TransferRefines ==
  ASSUME IInv, \A p, q \in Part : p = q, NEW t \in Thread, Transfer(t)
  PROVE  Store!SNext
<1> DEFINE r == request[t]
           Req == [u \in Thread |-> request[u]]
<1>1. /\ pc[t] = "transfer" /\ UNCHANGED <<disk, reg>>
      /\ request' = [request EXCEPT ![t] = NULL]
  BY DEF Transfer, At, driver
<1>2. r # NULL /\ r \in Request /\ reg = Address(r.sector)
  BY <1>1 DEF IInv, TypeOK, OwnerInv, OwnerOK, CommandInv, ThreadCommand, Actor
<1>3. r.sector \in Sector /\ r.part \in Part /\ r.op \in {"read", "write"} /\ Job(t).op = r.op
  BY <1>2, JobOfThread, RequestFields
<1>4. Req' = [Req EXCEPT ![t] = NULL] /\ Req[t] = r
  BY <1>1 DEF IInv, TypeOK, Actor
<1>5. CASE r.op = "read"
  <2>1. status = "data_in" /\ data = disk[reg.dev][reg.sector]
    BY <1>1, <1>2, <1>5 DEF IInv, CommandInv, ThreadCommand
  <2>2. buffer' = [buffer EXCEPT ![t] = data] /\ status' = "idle"
    BY <1>3, <1>5 DEF Transfer
  <2>3. Contents' = Contents
    BY <1>1, <2>1, <2>2, StepUnseen
  <2>4. Contents[r.sector][r.part] = data
    BY <1>2, <1>3, <2>1, ContentsSeen DEF Seen
  <2>5. r \in [op : {"read"}, sector : Sector, part : Part]
    BY <1>2, <1>5 DEF Request
  <2>6. Store!ReadSector(t)
    BY <1>4, <2>2, <2>3, <2>4, <2>5 DEF Store!ReadSector
  <2>7. QED
    BY <2>6 DEF Store!SNext
<1>6. CASE r.op = "write"
  <2>1. status \in {"accepting", "data_out"}
    BY <1>1, <1>2, <1>6 DEF IInv, CommandInv, ThreadCommand
  <2>2. buffer' = buffer /\ status' = "writing" /\ data' = r.data
    BY <1>3, <1>6 DEF Transfer
  <2>3. \A s \in Sector : Seen(s)' = IF s = r.sector THEN r.data ELSE Seen(s)
    BY <1>1, <1>2, <1>3, <2>1, <2>2, AddressesDiffer DEF Seen
  <2>4. Contents' = [Contents EXCEPT ![r.sector][r.part] = r.data]
    BY <1>3, <2>3, ContentsSeen, SMTT(60)
  <2>5. r \in [op : {"write"}, sector : Sector, part : Part, data : Value]
    BY <1>2, <1>6 DEF Request
  <2>6. Store!WriteSector(t)
    BY <1>4, <2>2, <2>4, <2>5 DEF Store!WriteSector
  <2>7. QED
    BY <2>6 DEF Store!SNext
<1> QED
  BY <1>3, <1>5, <1>6

LEMMA SubmitRefines ==
  ASSUME IInv, NEW t \in Thread, Submit(t)
  PROVE  Store!SNext
<1> DEFINE Req == [u \in Thread |-> request[u]]
<1>1. PICK r \in Request : request' = [request EXCEPT ![t] = r]
  BY DEF Submit
<1>2. pc[t] = "start" /\ UNCHANGED <<buffer, disk, status, reg, data>>
  BY DEF Submit, At, hardware
<1>3. Req[t] = NULL /\ Req' = [Req EXCEPT ![t] = r]
  BY <1>1, <1>2 DEF IInv, TypeOK, OwnerInv, OwnerOK, Actor
<1>4. Contents' = Contents
  BY <1>2, StepUnseen
<1>5. r \in Store!Request
  BY DEF Request, Store!Request
<1> QED
  BY <1>2, <1>3, <1>4, <1>5 DEF Store!SNext, Store!Submit

LEMMA NextRefines ==
  ASSUME IInv, Reliable, \A p, q \in Part : p = q, [Next]_vars
  PROVE  [Store!SNext]_(Store!svars)
<1>1. ASSUME UNCHANGED <<request, buffer>>, Contents' = Contents
      PROVE  UNCHANGED Store!svars
  BY <1>1 DEF Store!svars
<1>2. CASE Controller
  BY <1>1, <1>2, ControllerUnseen DEF Controller
<1>3. CASE Spurious \/ interrupt_handler \/ UNCHANGED vars
  BY <1>1, <1>3, StepUnseen DEF Spurious, interrupt_handler, vars, hardware
<1>4. CASE Booting
  <2>1. pc[Boot] # "up" /\ UNCHANGED <<request, buffer, disk>>
    BY <1>4 DEF Booting, Reset, check_device_type, Probe, Refused, Identified, Scanned, At, hardware
  <2>2. status # "writing" /\ (status' = "idle" \/ status' = status)
    BY <1>4, <2>1 DEF IInv, BootInv, Booting, Reset, check_device_type, Probe, Refused, Identified,
       Scanned, hardware
  <2>3. QED
    BY <1>1, <2>1, <2>2, StepUnseen
<1>5. ASSUME NEW t \in Thread, Submit(t) PROVE Store!SNext
  BY <1>5, SubmitRefines
<1>6. ASSUME NEW t \in Actor, Steps(t)
      PROVE  [Store!SNext]_(Store!svars)
  <2>1. CASE Transfer(t)
    BY <2>1, TransferRefines DEF Transfer, Actor
  <2>2. CASE select_device(t) \/ select_sector(t) \/ issue_pio_command(t)
    <3>1. status # "writing"
      BY <2>2 DEF select_device, select_sector, issue_pio_command, At, IInv, StatusInv
    <3>2. status' # "writing" /\ UNCHANGED <<request, buffer, disk>>
      <4>1. CASE select_device(t) \/ select_sector(t)
        BY <3>1, <4>1 DEF select_device, select_sector
      <4>2. CASE issue_pio_command(t)
        <5>1. Job(t).op \in {"read", "write", "identify"}
          <6>1. CASE t = Boot
            BY <6>1, JobOfBoot
          <6>2. CASE t \in Thread
            <7>1. request[t] # NULL /\ request[t] \in Request
              BY <4>2, <6>2 DEF issue_pio_command, At, IInv, TypeOK, OwnerInv, OwnerOK, Actor
            <7>2. QED
              BY <6>2, <7>1, JobOfThread, RequestFields
          <6>3. QED
            BY <6>1, <6>2 DEF Actor
        <5>2. QED
          BY <3>1, <4>2, <5>1 DEF issue_pio_command
      <4>3. QED
        BY <2>2, <4>1, <4>2
    <3>3. QED
      BY <1>1, <3>1, <3>2, StepUnseen
  <2>3. CASE lock_acquire(t) \/ wait_until_idle(t) \/ sema_down(t) \/ wait_while_busy(t) \/ lock_release(t)
    <3>1. UNCHANGED <<request, buffer, disk, status, reg, data>>
      BY <2>3 DEF lock_acquire, wait_until_idle, sema_down, wait_while_busy, lock_release, hardware
    <3>2. QED
      BY <1>1, <3>1, StepUnseen
  <2>4. QED
    BY <1>6, <2>1, <2>2, <2>3 DEF Steps
<1> QED
  BY <1>2, <1>3, <1>4, <1>5, <1>6 DEF Next, Actor

LEMMA InitRefines == Init => Store!SInit
<1> SUFFICES ASSUME Init PROVE Store!SInit
  OBVIOUS
<1>1. \A s \in Sector : Seen(s) \in Value
  BY SectorOnDisk, Constants DEF Init, Seen
<1>2. Contents \in [Sector -> [Part -> Value]]
  BY <1>1, ContentsSeen
<1> QED
  BY <1>2, Constants DEF Init, Store!SInit

\* No check_sector, no transfer of ide_read or ide_write panics, on formatted
\* disks that refuse no read or write and do not keep the driver waiting for
\* longer than it is ready to wait.
THEOREM NoRequestPanics ==
  ASSUME Reliable
  PROVE  Spec => []~panic
<1>1. IInv /\ [Next]_vars => IInv'
  BY NextIInv
<1>2. IInv => ~panic
  BY DEF IInv, TypeOK
<1> QED
  BY <1>1, <1>2, InitIInv, PTL DEF Spec

\* The sectors of the file systems on both disks are a store: each read returns
\* the last write to that sector of that disk, whoever uses the channel in
\* between, however late the disk is with a write that has returned, and
\* whatever interrupts come without reason.  The driver moves whole sectors.
THEOREM DiskIsAStore ==
  ASSUME Reliable, \A p, q \in Part : p = q
  PROVE  Spec => ImplementsStore
<1>1. IInv /\ [Next]_vars => IInv'
  BY NextIInv
<1>2. IInv /\ [Next]_vars => [Store!SNext]_(Store!svars)
  BY NextRefines
<1> QED
  BY <1>1, <1>2, InitIInv, InitRefines, PTL DEF Spec, ImplementsStore, Store!SSpec
=============================================================================
