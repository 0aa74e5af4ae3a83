------------------------------- MODULE Monitor -------------------------------
(***************************************************************************)
(* What threads/synch.h promises to its callers: a lock is owned by at     *)
(* most one thread, waiting on a condition variable gives up the lock and  *)
(* starts to sleep in one step, and a sleeper is woken only by a thread    *)
(* that owns the lock of the condition.  Threads.tla implements it.        *)
(***************************************************************************)

CONSTANTS Thread, Lock, Cond,
          LockOf,        \* the one lock each condition variable is used with
          NoThread

VARIABLES owner,         \* the thread inside each lock, or NoThread
          sleeping       \* the threads asleep on each condition variable

mvars == <<owner, sleeping>>

MInit ==
  /\ owner = [l \in Lock |-> NoThread]
  /\ sleeping = [c \in Cond |-> {}]

Asleep(t) == \E c \in Cond : t \in sleeping[c]

Acquire(t, l) ==
  /\ owner[l] = NoThread
  /\ ~Asleep(t)
  /\ owner' = [owner EXCEPT ![l] = t]
  /\ UNCHANGED sleeping

Release(t, l) ==
  /\ owner[l] = t
  /\ owner' = [owner EXCEPT ![l] = NoThread]
  /\ UNCHANGED sleeping

\* "Atomically releases LOCK and waits for COND to be signaled"
Wait(t, c) ==
  /\ owner[LockOf[c]] = t
  /\ ~Asleep(t)
  /\ owner' = [owner EXCEPT ![LockOf[c]] = NoThread]
  /\ sleeping' = [sleeping EXCEPT ![c] = @ \cup {t}]

Signal(t, c) ==
  /\ owner[LockOf[c]] = t
  /\ \E w \in sleeping[c] : sleeping' = [sleeping EXCEPT ![c] = @ \ {w}]
  /\ UNCHANGED owner

MNext ==
  \E t \in Thread :
    \/ \E l \in Lock : Acquire(t, l) \/ Release(t, l)
    \/ \E c \in Cond : Wait(t, c) \/ Signal(t, c)

MSpec == MInit /\ [][MNext]_mvars
=============================================================================
