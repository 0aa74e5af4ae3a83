------------------------------- MODULE Serial -------------------------------
(***************************************************************************)
(* Keyboard and serial input, and console output: the input buffer of      *)
(* devices/input.c, the transmit queue and the interrupt handler of        *)
(* devices/serial.c, the handler of devices/kbd.c, and the console lock of *)
(* lib/kernel/console.c.                                                   *)
(*                                                                         *)
(* Threads enter and leave the queues with interrupts off and lose the CPU *)
(* only where they sleep, so a step goes from one sleep to the next.  An   *)
(* interrupt handler is one step.  The UART holds one received byte and    *)
(* one byte to send.                                                       *)
(***************************************************************************)
EXTENDS IntQ

CONSTANTS Reader,  \* threads that read the keyboard: system call read on fd 0
          Writer,  \* threads that print: putbuf and printf
          PutMax,  \* the bytes of one putbuf
          Key      \* the bytes that are typed or come in over the line

ASSUME SerialAssumption ==
  /\ PutMax \in Nat /\ Key \subseteq Byte
  /\ Reader \cap Writer = {} /\ None \notin Reader \cup Writer

VARIABLES
  mode,          \* how serial_putc sends
  inq,           \* input.c's queue
  txq,           \* serial.c's queue
  ier,           \* the UART's interrupt enable register
  rbr,           \* its receive buffer, None when there is no data
  thre,          \* its transmit holding register is empty
  console_lock,
  at,            \* where each thread is
  left,          \* the bytes each writer has still to print
  received,      \* the bytes put in inq and not yet taken, in order
  queued         \* the same for txq

svars == <<mode, inq, txq, ier, rbr, thre, console_lock, at, left, received,
          queued>>

SerialThread == Reader \cup Writer

Pc == {"idle", "console", "put", "lock", "asleep", "woken", "wait_failed"}

SerialTypeOK ==
  /\ mode \in {"POLL", "QUEUE"}
  /\ inq \in IntQ(Reader) /\ txq \in IntQ(Writer)
  /\ ier \subseteq {"XMIT", "RECV"}
  /\ rbr \in Key \cup {None} /\ thre \in BOOLEAN
  /\ console_lock \in Writer \cup {None}
  /\ at \in [SerialThread -> Pc]
  /\ left \in [Writer -> 0 .. PutMax]
  /\ received \in Seq(Key) /\ queued \in Seq(Byte)

SerialInit ==
  /\ mode = "POLL"
  /\ inq = intq_init /\ txq = intq_init
  /\ ier = {}
  /\ rbr = None /\ thre = TRUE
  /\ console_lock = None
  /\ at = [t \in SerialThread |-> "idle"]
  /\ left = [t \in Writer |-> 0]
  /\ received = <<>> /\ queued = <<>>

\* A failed ASSERT panics.
Halted == \E t \in SerialThread : at[t] = "wait_failed"

SerialAt(t, l) == ~Halted /\ at[t] = l

\* Mutant: receive interrupts stay off once the input buffer has been full.
write_ier_sticky(in, tx) ==
  ier' = (IF intq_empty(tx) THEN {} ELSE {"XMIT"})
         \cup (IF intq_full(in) \/ intq_full(inq) THEN {} ELSE {"RECV"})

\* The last thing that serial_putc, serial_interrupt and serial_notify do,
\* when the queues have become in and tx.
write_ier(in, tx) ==
  ier' = (IF intq_empty(tx) THEN {} ELSE {"XMIT"})
         \cup (IF intq_full(in) THEN {} ELSE {"RECV"})

serial_notify(in) == IF mode = "QUEUE" THEN write_ier(in, txq) ELSE UNCHANGED ier

\* Mutant: the waiting thread is forgotten, not unblocked.
Woken_nobody(waiter, p) == p

\* The thread that signal wakes, if any.
Woken(waiter, p) == IF waiter = None THEN p ELSE [p EXCEPT ![waiter] = "woken"]

-----------------------------------------------------------------------------
(* input_getc                                                               *)

\* intq_getc on a buffer that is not empty; p is `at' with the caller moved on.
\* Nobody ever sleeps on inq.not_full.
GetKey(q, p) ==
  /\ ~intq_empty(q)
  /\ inq' = [Get(q) EXCEPT !.not_full = None]
  /\ received' = Tail(received)
  /\ at' = p
  /\ serial_notify(Get(q))

\* Its wait, with q.lock held: an ASSERT, then thread_block.
WaitKey(t, q) ==
  /\ inq' = [q EXCEPT !.lock = t, !.not_empty = IF intq_empty(q) THEN t ELSE @]
  /\ at' = [at EXCEPT ![t] = IF intq_empty(q) THEN "asleep" ELSE "wait_failed"]
  /\ UNCHANGED <<ier, received>>

\* From the call to the first sleep.
input_getc(t) ==
  /\ SerialAt(t, "idle")
  /\ \/ GetKey(inq, at)
     \/ intq_empty(inq) /\ inq.lock = None /\ WaitKey(t, inq)
     \/ /\ intq_empty(inq) /\ inq.lock # None
        /\ at' = [at EXCEPT ![t] = "lock"]
        /\ UNCHANGED <<inq, ier, received>>
  /\ UNCHANGED <<mode, txq, rbr, thre, console_lock, left, queued>>

\* lock_acquire returns, perhaps long after the queue was found empty.
KeyLocked(t) ==
  /\ SerialAt(t, "lock")
  /\ inq.lock = None
  /\ WaitKey(t, inq)
  /\ UNCHANGED <<mode, txq, rbr, thre, console_lock, left, queued>>

\* thread_block returns: the lock is released and the condition is tested
\* again.
KeyWoken(t) ==
  LET q == [inq EXCEPT !.lock = None] IN
  /\ SerialAt(t, "woken")
  /\ \/ GetKey(q, [at EXCEPT ![t] = "idle"])
     \/ intq_empty(q) /\ WaitKey(t, q)
  /\ UNCHANGED <<mode, txq, rbr, thre, console_lock, left, queued>>

-----------------------------------------------------------------------------
(* Output                                                                   *)

\* putbuf, puts and vprintf take the console lock ...
putbuf(t) ==
  /\ SerialAt(t, "idle")
  /\ \E n \in 1 .. PutMax : left' = [left EXCEPT ![t] = n]
  /\ at' = [at EXCEPT ![t] = "console"]
  /\ UNCHANGED <<mode, inq, txq, ier, rbr, thre, console_lock, received,
                 queued>>

acquire_console(t) ==
  /\ SerialAt(t, "console")
  /\ console_lock = None
  /\ console_lock' = t
  /\ at' = [at EXCEPT ![t] = "put"]
  /\ UNCHANGED <<mode, inq, txq, ier, rbr, thre, left, received, queued>>

\* Mutant: the lock is taken for a nested one, and kept.
release_console_nested(t) ==
  /\ SerialAt(t, "put")
  /\ left[t] = 0
  /\ at' = [at EXCEPT ![t] = "idle"]
  /\ UNCHANGED <<mode, inq, txq, ier, rbr, thre, console_lock, left, received, queued>>

\* ... and give it back after the last byte.
release_console(t) ==
  /\ SerialAt(t, "put")
  /\ left[t] = 0
  /\ console_lock' = None
  /\ at' = [at EXCEPT ![t] = "idle"]
  /\ UNCHANGED <<mode, inq, txq, ier, rbr, thre, left, received, queued>>

\* intq_putc on a transmit queue that is not full, and write_ier.  Nobody ever
\* sleeps on txq.not_empty.
PutByte(t, q) ==
  /\ ~intq_full(q)
  /\ \E byte \in Byte :
       /\ txq' = Put(q, byte)
       /\ queued' = Append(queued, byte)
       /\ write_ier(inq, Put(q, byte))
  /\ left' = [left EXCEPT ![t] = @ - 1]
  /\ at' = [at EXCEPT ![t] = "put"]
  /\ UNCHANGED inq

\* The wait of intq_putc.
WaitRoom(t, q) ==
  /\ txq' = [q EXCEPT !.lock = t, !.not_full = IF intq_full(q) THEN t ELSE @]
  /\ at' = [at EXCEPT ![t] = IF intq_full(q) THEN "asleep" ELSE "wait_failed"]
  /\ UNCHANGED <<inq, ier, left, queued>>

\* serial_putc in a thread, interrupts on: putc_poll before serial_init_queue,
\* and then a byte for the queue.  No writer has to wait for txq.lock
\* (SleepersAreKnown), so no action goes on from there.
serial_putc(t) ==
  /\ SerialAt(t, "put")
  /\ left[t] > 0
  /\ \/ /\ mode = "POLL"
        /\ thre
        /\ thre' = FALSE
        /\ left' = [left EXCEPT ![t] = @ - 1]
        /\ UNCHANGED <<inq, txq, ier, at, queued>>
     \/ /\ mode = "QUEUE"
        /\ \/ PutByte(t, txq)
           \/ intq_full(txq) /\ txq.lock = None /\ WaitRoom(t, txq)
           \/ /\ intq_full(txq) /\ txq.lock # None
              /\ at' = [at EXCEPT ![t] = "lock"]
              /\ UNCHANGED <<inq, txq, ier, left, queued>>
        /\ UNCHANGED thre
  /\ UNCHANGED <<mode, rbr, console_lock, received>>

RoomWoken(t) ==
  LET q == [txq EXCEPT !.lock = None] IN
  /\ SerialAt(t, "woken")
  /\ PutByte(t, q) \/ (intq_full(q) /\ WaitRoom(t, q))
  /\ UNCHANGED <<mode, rbr, thre, console_lock, received>>

\* serial_putc with interrupts off, in an interrupt handler: it may not sleep,
\* so it makes room by sending the oldest byte itself.
serial_putc_off ==
  LET q == IF intq_full(txq) THEN [Get(txq) EXCEPT !.not_full = None] ELSE txq IN
  /\ ~Halted
  /\ mode = "QUEUE"
  /\ intq_full(txq) => thre
  /\ thre' = (thre /\ ~intq_full(txq))
  /\ at' = IF intq_full(txq) THEN Woken(txq.not_full, at) ELSE at
  /\ \E byte \in Byte :
       /\ txq' = Put(q, byte)
       /\ queued' = Append(IF intq_full(txq) THEN Tail(queued) ELSE queued, byte)
       /\ write_ier(inq, Put(q, byte))
  /\ UNCHANGED <<mode, inq, rbr, console_lock, left, received>>

serial_init_queue ==
  /\ ~Halted
  /\ mode = "POLL"
  /\ mode' = "QUEUE"
  /\ UNCHANGED <<inq, txq, rbr, thre, console_lock, at, left, received,
                 queued>>
  /\ write_ier(inq, txq)

-----------------------------------------------------------------------------
(* Interrupts                                                               *)

\* input_putc on a buffer that is not full: a sleeping reader is woken.
input_putc(byte) ==
  /\ inq' = [Put(inq, byte) EXCEPT !.not_empty = None]
  /\ received' = Append(received, byte)

\* A key is pressed; when the buffer is full it is lost.
keyboard_interrupt ==
  /\ ~Halted
  /\ ~intq_full(inq)
  /\ \E c \in Key : input_putc(c) /\ serial_notify(Put(inq, c))
  /\ at' = Woken(inq.not_empty, at)
  /\ UNCHANGED <<mode, txq, rbr, thre, console_lock, left, queued>>

\* The UART has a byte for us or can take one: the handler does what it can of
\* both.
serial_interrupt ==
  LET recv == ~intq_full(inq) /\ rbr # None
      xmit == ~intq_empty(txq) /\ thre
      heard == IF recv THEN Woken(inq.not_empty, at) ELSE at IN
  /\ ~Halted
  /\ mode = "QUEUE"
  /\ ("RECV" \in ier /\ rbr # None) \/ ("XMIT" \in ier /\ thre)
  /\ IF recv THEN input_putc(rbr) ELSE UNCHANGED <<inq, received>>
  /\ rbr' = IF recv THEN None ELSE rbr
  /\ txq' = IF xmit THEN [Get(txq) EXCEPT !.not_full = None] ELSE txq
  /\ queued' = IF xmit THEN Tail(queued) ELSE queued
  /\ thre' = (thre /\ ~xmit)
  /\ at' = IF xmit THEN Woken(txq.not_full, heard) ELSE heard
  /\ write_ier(IF recv THEN Put(inq, rbr) ELSE inq,
               IF xmit THEN Get(txq) ELSE txq)
  /\ UNCHANGED <<mode, console_lock, left>>

\* The UART: a byte comes in over the line, and a byte has gone out.
LineByte ==
  /\ ~Halted
  /\ rbr = None
  /\ rbr' \in Key
  /\ UNCHANGED <<mode, inq, txq, ier, thre, console_lock, at, left,
                 received, queued>>

ByteSent ==
  /\ ~Halted
  /\ ~thre
  /\ thre' = TRUE
  /\ UNCHANGED <<mode, inq, txq, ier, rbr, console_lock, at, left, received,
                 queued>>

-----------------------------------------------------------------------------
Read(t) == input_getc(t) \/ KeyLocked(t) \/ KeyWoken(t)

Write(t) ==
  \/ acquire_console(t) \/ release_console(t)
  \/ serial_putc(t) \/ RoomWoken(t)

SerialNext ==
  \/ \E t \in Reader : Read(t)
  \/ \E t \in Writer : putbuf(t) \/ Write(t)
  \/ serial_putc_off \/ serial_init_queue
  \/ keyboard_interrupt \/ serial_interrupt
  \/ LineByte \/ ByteSent

SerialSpec == SerialInit /\ [][SerialNext]_svars

\* The UART and its interrupts keep going, a thread that can run does, and the
\* boot goes on to serial_init_queue.
FairSpec ==
  /\ SerialSpec
  /\ WF_svars(serial_interrupt) /\ WF_svars(ByteSent) /\ WF_svars(serial_init_queue)
  /\ \A t \in Writer : WF_svars(Write(t))
  /\ \A t \in Reader : WF_svars(KeyLocked(t) \/ KeyWoken(t))
-----------------------------------------------------------------------------
(* Properties                                                               *)

\* The circular buffers are queues: whatever mix of threads, handlers and
\* polling fills and empties them, bytes come out once, in the order in which
\* they went in, also when head and tail wrap around.
QueuesAreFifo == Bytes(inq) = received /\ Bytes(txq) = queued

\* A thread sleeps in wait only while its condition is false and signal knows
\* it: no wakeup is lost between the test of the queue and thread_block.  The
\* console lock lets one writer wait at a time, so the ASSERT in wait holds on
\* the transmit queue.
SleepersAreKnown ==
  /\ \A t \in Reader : at[t] = "asleep" => intq_empty(inq) /\ inq.not_empty = t
  /\ \A t \in Writer : at[t] = "asleep" => intq_full(txq) /\ txq.not_full = t
  /\ \A t \in Writer : at[t] \notin {"lock", "wait_failed"}

\* The interrupt enable register follows the queues: there is a transmit
\* interrupt to come for every queued byte, and a receive interrupt while and
\* only while there is room.
InterruptsFollowQueues ==
  mode = "QUEUE" =>
    /\ ~intq_empty(txq) => "XMIT" \in ier
    /\ "RECV" \in ier <=> ~intq_full(inq)

\* Whoever takes the console prints to the end, asleep on a full queue or not,
\* and gives it back, unless interrupt handlers print for ever: intr_handler
\* prints for an unexpected interrupt only.
OutputEnds ==
  <>[][~serial_putc_off]_svars =>
    \A t \in Writer : console_lock = t ~> (console_lock # t \/ Halted)

\* The ASSERT in wait, on the input buffer: "waiter == &q->not_empty &&
\* intq_empty (q)".
InputWaitAssert == \A t \in Reader : at[t] # "wait_failed"
=============================================================================
