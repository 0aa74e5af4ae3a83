------------------------------- MODULE Threads -------------------------------
(***************************************************************************)
(* The scheduler (threads/thread.c), the timer preemption that drives it   *)
(* (threads/interrupt.c) and the semaphores, locks and condition variables *)
(* built on it (threads/synch.c).                                          *)
(*                                                                         *)
(* The machine has one processor, so the only thread that takes steps is   *)
(* the one in running.  An action is what that thread does between two     *)
(* points at which an interrupt can be taken; code that runs with          *)
(* interrupts off is one action.  pc[t] says where in a primitive thread t *)
(* will continue, arg[t] which object the primitive works on.  The code    *)
(* that calls the primitives is arbitrary: a thread whose pc is "user" may *)
(* call any of them next, within the discipline that their ASSERTs demand. *)
(***************************************************************************)
EXTENDS Integers, Sequences, FiniteSets

CONSTANTS Thread,       \* the pages that can hold a struct thread
          Main, Idle,   \* the initial thread and the idle thread
          Sema, Lock, Cond,
          LockOf,       \* the lock each condition variable is used with
          IdleStarted,  \* the semaphore thread_start waits on
          TIME_SLICE,   \* timer ticks given to a thread
          MaxValue,     \* bound: a semaphore is not upped beyond this value
          NoThread      \* a null struct thread pointer

ASSUME ThreadsAssumption ==
  /\ Main \in Thread /\ Idle \in Thread /\ Main # Idle
  /\ NoThread \notin Thread
  /\ IdleStarted \in Sema
  /\ Sema \cap Lock = {} /\ Sema \cap Thread = {} /\ Lock \cap Thread = {}
  /\ Thread \cap Cond = {} /\ Sema \cap Cond = {} /\ Lock \cap Cond = {}
  /\ NoThread \notin Sema \cup Lock \cup Cond
  /\ LockOf \in [Cond -> Lock]
  /\ TIME_SLICE \in Nat \ {0}
  /\ MaxValue \in Nat \ {0}

VARIABLES
  status,        \* t->status; "none" when the page holds no thread
  running,       \* the thread on the processor
  ready_list,    \* the run queue
  thread_ticks,  \* timer ticks since the running thread was switched to
  idle_thread,   \* the idle thread once it has started
  value,         \* sema->value
  waiters,       \* sema->waiters
  holder,        \* lock->holder
  cond_waiters,  \* cond->waiters: the threads whose semaphore_elem is listed
  pc, arg        \* where each thread is, and on what object

sched == <<status, running, ready_list, thread_ticks>>
sema  == <<value, waiters>>
vars  == <<status, running, ready_list, thread_ticks, idle_thread, value,
           waiters, holder, cond_waiters, pc, arg>>

\* Every lock contains a semaphore, and the semaphore_elem of cond_wait is on
\* the stack of the waiting thread: there is one for each thread.
Semaphore == Sema \cup Lock \cup Thread

\* A thread that has slept in sema_down finds interrupts off when it is
\* switched to, and leaves them off until the semaphore is its own or it
\* sleeps again.
InDown == {"sema_down", "lock_down", "cond_down"}

Pc == InDown \cup
      {"boot", "boot_wait", "idle_init", "idle_up", "idle_loop", "hlt", "user",
       "unblock", "lock_set", "lock_up", "cond_up", "cond_enter",
       "lock_enter", "broadcast"}

Status == {"none", "blocked", "ready", "running", "dying"}

TypeOK ==
  /\ status \in [Thread -> Status]
  /\ running \in Thread
  /\ ready_list \in Seq(Thread)
  /\ thread_ticks \in 0 .. TIME_SLICE
  /\ idle_thread \in {Idle, NoThread}
  /\ value \in [Semaphore -> Nat]
  /\ waiters \in [Semaphore -> Seq(Thread)]
  /\ holder \in [Lock -> Thread \cup {NoThread}]
  /\ cond_waiters \in [Cond -> Seq(Thread)]
  /\ pc \in [Thread -> Pc]
  /\ arg \in [Thread -> Sema \cup Lock \cup Cond \cup Thread \cup {NoThread}]

-----------------------------------------------------------------------------
(* thread_init has run: main is the only thread, interrupts are off.        *)
Init ==
  /\ status = [t \in Thread |-> IF t = Main THEN "running" ELSE "none"]
  /\ running = Main
  /\ ready_list = << >>
  /\ thread_ticks = 0
  /\ idle_thread = NoThread
  /\ value = [s \in Semaphore |-> IF s \in Lock THEN 1 ELSE 0]
  /\ waiters = [s \in Semaphore |-> << >>]
  /\ holder = [l \in Lock |-> NoThread]
  /\ cond_waiters = [c \in Cond |-> << >>]
  /\ pc = [t \in Thread |-> IF t = Main THEN "boot" ELSE "user"]
  /\ arg = [t \in Thread |-> NoThread]

-----------------------------------------------------------------------------
(* The scheduler.  st and rl are the statuses and the run queue that the    *)
(* caller has left behind; the thread that is switched to is running.       *)

next_thread_to_run(rl) == IF rl = << >> THEN idle_thread ELSE Head(rl)

schedule(st, rl) ==
  /\ next_thread_to_run(rl) # NoThread
  /\ running' = next_thread_to_run(rl)
  /\ ready_list' = IF rl = << >> THEN rl ELSE Tail(rl)
  /\ status' = [st EXCEPT ![next_thread_to_run(rl)] = "running"]
  /\ thread_ticks' = 0

thread_block(t) == schedule([status EXCEPT ![t] = "blocked"], ready_list)

\* Mutant: the thread that yields goes to the front of the run queue.
thread_yield_to_front(t) ==
  schedule([status EXCEPT ![t] = "ready"],
           IF t = idle_thread THEN ready_list ELSE <<t>> \o ready_list)

\* Mutant: the test for the idle thread is inverted.
thread_yield_inverted(t) ==
  schedule([status EXCEPT ![t] = "ready"],
           IF t # idle_thread THEN ready_list ELSE Append(ready_list, t))

thread_yield(t) ==
  schedule([status EXCEPT ![t] = "ready"],
           IF t = idle_thread THEN ready_list ELSE Append(ready_list, t))

thread_unblock(t) ==
  /\ status' = [status EXCEPT ![t] = "ready"]
  /\ ready_list' = Append(ready_list, t)
  /\ UNCHANGED <<running, thread_ticks>>

-----------------------------------------------------------------------------
(* Semaphores                                                               *)

\* One turn of the loop of sema_down: t sleeps at `asleep', or takes the
\* semaphore and continues at `done'.
sema_down(t, s, asleep, done) ==
  /\ \/ /\ value[s] = 0
        /\ waiters' = [waiters EXCEPT ![s] = Append(@, t)]
        /\ pc' = [pc EXCEPT ![t] = asleep]
        /\ thread_block(t)
        /\ UNCHANGED value
     \/ /\ value[s] > 0
        /\ value' = [value EXCEPT ![s] = @ - 1]
        /\ pc' = [pc EXCEPT ![t] = done]
        /\ UNCHANGED <<waiters, sched>>
  /\ UNCHANGED <<idle_thread, holder>>

\* Mutant: the thread that is woken stays on the wait list.
sema_up_no_pop(s) ==
  /\ value' = [value EXCEPT ![s] = @ + 1]
  /\ \/ /\ waiters[s] = << >>
        /\ UNCHANGED sched
     \/ /\ waiters[s] # << >>
        /\ thread_unblock(Head(waiters[s]))
  /\ UNCHANGED <<idle_thread, waiters>>

\* Mutant: a thread is woken only when the value was 0.
sema_up_at_zero(s) ==
  /\ value' = [value EXCEPT ![s] = @ + 1]
  /\ \/ /\ waiters[s] = << >> \/ value[s] > 0
        /\ UNCHANGED <<waiters, sched>>
     \/ /\ waiters[s] # << >> /\ value[s] = 0
        /\ waiters' = [waiters EXCEPT ![s] = Tail(@)]
        /\ thread_unblock(Head(waiters[s]))
  /\ UNCHANGED idle_thread

sema_up(s) ==
  /\ value' = [value EXCEPT ![s] = @ + 1]
  /\ \/ /\ waiters[s] = << >>
        /\ UNCHANGED <<waiters, sched>>
     \/ /\ waiters[s] # << >>
        /\ waiters' = [waiters EXCEPT ![s] = Tail(@)]
        /\ thread_unblock(Head(waiters[s]))
  /\ UNCHANGED idle_thread

\* t runs and is at p.
At(t, p) == t = running /\ pc[t] = p

Goto(t, p) == pc' = [pc EXCEPT ![t] = p]

SemaDown(t, s) ==
  /\ At(t, "user")
  /\ sema_down(t, s, "sema_down", "user")
  /\ arg' = [arg EXCEPT ![t] = s]
  /\ UNCHANGED cond_waiters

\* t has been woken inside sema_down and looks at the value again.
SemaDownAgain(t) ==
  /\ At(t, "sema_down")
  /\ sema_down(t, arg[t], "sema_down", "user")
  /\ UNCHANGED <<arg, cond_waiters>>

\* Mutant: the value is not looked at.
sema_try_down_always(t, s) ==
  /\ At(t, "user")
  /\ value' = [value EXCEPT ![s] = @ - 1]
  /\ UNCHANGED <<sched, idle_thread, waiters, holder, cond_waiters, pc, arg>>

sema_try_down(t, s) ==
  /\ At(t, "user")
  /\ value[s] > 0
  /\ value' = [value EXCEPT ![s] = @ - 1]
  /\ UNCHANGED <<sched, idle_thread, waiters, holder, cond_waiters, pc, arg>>

SemaUp(t, s) ==
  /\ At(t, "user")
  /\ value[s] < MaxValue
  /\ sema_up(s)
  /\ UNCHANGED <<holder, cond_waiters, pc, arg>>

-----------------------------------------------------------------------------
(* Locks: a semaphore of value 1, and the holder that the ASSERTs look at.  *)

lock_acquire(t, l) ==
  /\ At(t, "user")
  /\ holder[l] # t
  /\ sema_down(t, l, "lock_down", "lock_set")
  /\ arg' = [arg EXCEPT ![t] = l]
  /\ UNCHANGED cond_waiters

\* The rest of sema_down inside lock_acquire, called by the user or at the
\* end of cond_wait.
LockDown(t) ==
  /\ At(t, "lock_down") \/ At(t, "lock_enter")
  /\ sema_down(t, arg[t], "lock_down", "lock_set")
  /\ UNCHANGED <<arg, cond_waiters>>

LockSetHolder(t) ==
  /\ At(t, "lock_set")
  /\ holder' = [holder EXCEPT ![arg[t]] = t]
  /\ Goto(t, "user")
  /\ UNCHANGED <<sched, idle_thread, sema, cond_waiters, arg>>

lock_try_acquire(t, l) ==
  /\ At(t, "user")
  /\ holder[l] # t
  /\ value[l] > 0
  /\ value' = [value EXCEPT ![l] = @ - 1]
  /\ arg' = [arg EXCEPT ![t] = l]
  /\ Goto(t, "lock_set")
  /\ UNCHANGED <<sched, idle_thread, waiters, holder, cond_waiters>>

\* Mutant: a thread may release a lock that it does not hold.
lock_release_unheld(t, l) ==
  /\ At(t, "user")
  /\ holder' = [holder EXCEPT ![l] = NoThread]
  /\ arg' = [arg EXCEPT ![t] = l]
  /\ Goto(t, "lock_up")
  /\ UNCHANGED <<sched, idle_thread, sema, cond_waiters>>

lock_release(t, l) ==
  /\ At(t, "user")
  /\ holder[l] = t
  /\ holder' = [holder EXCEPT ![l] = NoThread]
  /\ arg' = [arg EXCEPT ![t] = l]
  /\ Goto(t, "lock_up")
  /\ UNCHANGED <<sched, idle_thread, sema, cond_waiters>>

LockUp(t) ==
  /\ At(t, "lock_up")
  /\ sema_up(arg[t])
  /\ Goto(t, "user")
  /\ UNCHANGED <<holder, cond_waiters, arg>>

-----------------------------------------------------------------------------
(* Condition variables                                                      *)

cond_wait(t, c) ==
  LET l == LockOf[c] IN
  /\ At(t, "user")
  /\ holder[l] = t
  /\ value' = [value EXCEPT ![t] = 0]
  /\ cond_waiters' = [cond_waiters EXCEPT ![c] = Append(@, t)]
  /\ holder' = [holder EXCEPT ![l] = NoThread]
  /\ arg' = [arg EXCEPT ![t] = l]
  /\ Goto(t, "cond_up")
  /\ UNCHANGED <<sched, idle_thread, waiters>>

CondUp(t) ==
  /\ At(t, "cond_up")
  /\ sema_up(arg[t])
  /\ Goto(t, "cond_enter")
  /\ UNCHANGED <<holder, cond_waiters, arg>>

CondDown(t) ==
  /\ At(t, "cond_enter") \/ At(t, "cond_down")
  /\ sema_down(t, t, "cond_down", "lock_enter")
  /\ UNCHANGED <<arg, cond_waiters>>

\* Take the first waiter off the list and up its semaphore.
WakeFirst(c) ==
  /\ cond_waiters' = [cond_waiters EXCEPT ![c] = Tail(@)]
  /\ sema_up(Head(cond_waiters[c]))

\* Mutant: the lock is not needed to signal.
cond_signal_unlocked(t, c) ==
  /\ At(t, "user")
  /\ cond_waiters[c] # << >>
  /\ WakeFirst(c)
  /\ UNCHANGED <<holder, pc, arg>>

cond_signal(t, c) ==
  /\ At(t, "user")
  /\ holder[LockOf[c]] = t
  /\ cond_waiters[c] # << >>
  /\ WakeFirst(c)
  /\ UNCHANGED <<holder, pc, arg>>

cond_broadcast(t, c) ==
  /\ At(t, "user")
  /\ holder[LockOf[c]] = t
  /\ arg' = [arg EXCEPT ![t] = c]
  /\ Goto(t, "broadcast")
  /\ UNCHANGED <<sched, idle_thread, sema, holder, cond_waiters>>

Broadcasting(t) ==
  /\ At(t, "broadcast")
  /\ \/ /\ cond_waiters[arg[t]] # << >>
        /\ WakeFirst(arg[t])
        /\ UNCHANGED pc
     \/ /\ cond_waiters[arg[t]] = << >>
        /\ Goto(t, "user")
        /\ UNCHANGED <<sched, idle_thread, sema, cond_waiters>>
  /\ UNCHANGED <<holder, arg>>

-----------------------------------------------------------------------------
(* Threads come and go.                                                     *)

Holds(t) == {l \in Lock : holder[l] = t}

\* palloc_get_page and init_thread: u exists, blocked and on no list, until
\* its creator reaches thread_unblock.
thread_create(t, u) ==
  /\ At(t, "user")
  /\ status[u] = "none"
  /\ status' = [status EXCEPT ![u] = "blocked"]
  /\ pc' = [pc EXCEPT ![t] = "unblock", ![u] = "user"]
  /\ arg' = [arg EXCEPT ![t] = u, ![u] = NoThread]
  /\ UNCHANGED <<running, ready_list, thread_ticks, idle_thread, sema, holder,
                 cond_waiters>>

CreateUnblock(t) ==
  /\ At(t, "unblock")
  /\ thread_unblock(arg[t])
  /\ Goto(t, "user")
  /\ UNCHANGED <<idle_thread, sema, holder, cond_waiters, arg>>

\* The thread that is switched to frees the page, unless it is main's.
\* No thread exits inside a lock (no caller of thread_exit holds one).  What
\* process_exit and the wait_status add to it is in Process.
thread_exit(t) ==
  /\ At(t, "user")
  /\ Holds(t) = {}
  /\ schedule([status EXCEPT ![t] = IF t = Main THEN "dying" ELSE "none"],
              ready_list)
  /\ UNCHANGED <<idle_thread, sema, holder, cond_waiters, pc, arg>>

Yield(t) ==
  /\ At(t, "user")
  /\ thread_yield(t)
  /\ UNCHANGED <<idle_thread, sema, holder, cond_waiters, pc, arg>>

-----------------------------------------------------------------------------
(* thread_start and the idle thread                                         *)

thread_start ==
  /\ At(Main, "boot")
  /\ status' = [status EXCEPT ![Idle] = "ready"]
  /\ ready_list' = Append(ready_list, Idle)
  /\ pc' = [pc EXCEPT ![Main] = "boot_wait", ![Idle] = "idle_init"]
  /\ arg' = [arg EXCEPT ![Main] = IdleStarted]
  /\ UNCHANGED <<running, thread_ticks, idle_thread, sema, holder,
                 cond_waiters>>

BootWait ==
  /\ At(Main, "boot_wait")
  /\ sema_down(Main, IdleStarted, "sema_down", "user")
  /\ UNCHANGED <<arg, cond_waiters>>

IdleInit ==
  /\ At(Idle, "idle_init")
  /\ idle_thread' = Idle
  /\ Goto(Idle, "idle_up")
  /\ UNCHANGED <<sched, sema, holder, cond_waiters, arg>>

IdleUp ==
  /\ At(Idle, "idle_up")
  /\ sema_up(IdleStarted)
  /\ Goto(Idle, "idle_loop")
  /\ UNCHANGED <<holder, cond_waiters, arg>>

\* When it is switched to again the idle thread halts the processor until
\* the next interrupt.
IdleBlock ==
  /\ At(Idle, "idle_loop")
  /\ thread_block(Idle)
  /\ Goto(Idle, "hlt")
  /\ UNCHANGED <<idle_thread, sema, holder, cond_waiters, arg>>

-----------------------------------------------------------------------------
(* Interrupts.  They are taken only when the running thread has them on.    *)

Interruptible == pc[running] \notin InDown \cup {"boot"}

\* An interrupt ends the idle thread's hlt instruction.
EndHlt ==
  pc' = [pc EXCEPT ![running] = IF @ = "hlt" THEN "idle_loop" ELSE @]

\* timer_interrupt, thread_tick, and the yield on the return path.
TimerInterrupt ==
  /\ Interruptible
  /\ EndHlt
  /\ \/ /\ thread_ticks + 1 >= TIME_SLICE
        /\ thread_yield(running)
     \/ /\ thread_ticks + 1 < TIME_SLICE
        /\ thread_ticks' = thread_ticks + 1
        /\ UNCHANGED <<status, running, ready_list>>
  /\ UNCHANGED <<idle_thread, sema, holder, cond_waiters, arg>>

\* A device's handler ups the semaphore its driver waits on.
DeviceInterrupt(s) ==
  /\ Interruptible
  /\ value[s] < MaxValue
  /\ EndHlt
  /\ sema_up(s)
  /\ UNCHANGED <<holder, cond_waiters, arg>>

-----------------------------------------------------------------------------
UserSema == Sema \ {IdleStarted}

\* The calls the code above the primitives makes.
Call(t) ==
  \/ \E s \in UserSema : SemaDown(t, s) \/ sema_try_down(t, s) \/ SemaUp(t, s)
  \/ \E l \in Lock :
       lock_acquire(t, l) \/ lock_try_acquire(t, l) \/ lock_release(t, l)
  \/ \E c \in Cond : cond_wait(t, c) \/ cond_signal(t, c) \/ cond_broadcast(t, c)
  \/ \E u \in Thread \ {Idle} : thread_create(t, u)
  \/ thread_exit(t)
  \/ Yield(t)

\* The rest of a call that has begun.
Continue(t) ==
  \/ SemaDownAgain(t)
  \/ LockDown(t) \/ LockSetHolder(t) \/ LockUp(t)
  \/ CondUp(t) \/ CondDown(t) \/ Broadcasting(t)
  \/ CreateUnblock(t)

Boot == thread_start \/ BootWait \/ IdleInit \/ IdleUp \/ IdleBlock

Next ==
  \/ \E t \in Thread : Call(t) \/ Continue(t)
  \/ Boot
  \/ TimerInterrupt
  \/ \E s \in UserSema : DeviceInterrupt(s)

Spec == Init /\ [][Next]_vars

\* The timer goes on ticking, and a thread inside a primitive goes on.
Fairness ==
  /\ WF_vars(TimerInterrupt)
  /\ WF_vars(Boot)
  /\ WF_vars(\E t \in Thread : Continue(t))

FairSpec == Spec /\ Fairness
-----------------------------------------------------------------------------
(* Properties                                                               *)

Listed(list) == {list[i] : i \in DOMAIN list}

NoDuplicates(list) == \A i, j \in DOMAIN list : list[i] = list[j] => i = j

\* thread.h says that `elem' may serve the run queue and the semaphore wait
\* lists alike because the two uses exclude each other: a thread is in at
\* most one list and at one place of it, the threads of the run queue are
\* ready, those of a wait list are blocked (thread_unblock's ASSERT), and
\* exactly one thread is running (thread_current's ASSERT).
ElemExclusive ==
  /\ \A t \in Thread : status[t] = "running" <=> t = running
  /\ NoDuplicates(ready_list)
  /\ \A t \in Listed(ready_list) : status[t] = "ready"
  /\ \A s \in Semaphore :
       /\ NoDuplicates(waiters[s])
       /\ \A t \in Listed(waiters[s]) :
            /\ status[t] = "blocked"
            /\ \A r \in Semaphore : t \in Listed(waiters[r]) => r = s

\* A thread that is ready is in the run queue, and a thread that is blocked is
\* in the wait list of a semaphore or in the hands of its creator: schedule,
\* sema_up and thread_create never lose one.  The idle thread is the
\* exception: once it has started it is in no list ("the idle thread never
\* appears in the ready list").
NoThreadLost ==
  /\ \A t \in Thread \ {idle_thread} :
       /\ status[t] = "ready" => t \in Listed(ready_list)
       /\ status[t] = "blocked" =>
            \/ \E s \in Semaphore : t \in Listed(waiters[s])
            \/ \E u \in Thread : pc[u] = "unblock" /\ arg[u] = t
  /\ idle_thread \notin Listed(ready_list)

\* The threads that sema_up has taken off the wait list of s and that have not
\* yet looked at its value again.
Woken(s) ==
  {t \in Thread :
     /\ status[t] \in {"ready", "running"}
     /\ \/ pc[t] \in {"sema_down", "lock_down"} /\ arg[t] = s
        \/ pc[t] = "cond_down" /\ t = s}

\* No wakeup of sema_up is lost although another thread may take the semaphore
\* before the thread that was woken: while threads wait, every unit of the
\* value has a woken thread on its way to it.
NoLostWakeup ==
  \A s \in Semaphore :
    waiters[s] # << >> => value[s] <= Cardinality(Woken(s))

\* The threads between the two ends of the lock's semaphore: past sema_down in
\* lock_acquire and not yet past sema_up in lock_release.
Inside(l) ==
  {t \in Thread : \/ holder[l] = t
                  \/ pc[t] \in {"lock_set", "lock_up", "cond_up"} /\ arg[t] = l}

\* The thread that owns each lock, and the threads asleep on each condition
\* variable: one that has not yet released the lock is not asleep.
OnlyOf(S) == IF S = {} THEN NoThread ELSE CHOOSE t \in S : TRUE
Owner == [l \in Lock |-> OnlyOf(Inside(l))]
Sleeping == [c \in Cond |-> {t \in Listed(cond_waiters[c]) : pc[t] # "cond_up"}]

\* The locks and condition variables implement Monitor: lock_acquire lets one
\* thread in at a time, and cond_wait's release of the lock and its sleep are
\* one step for every thread that signals with the lock held.
M == INSTANCE Monitor WITH owner <- Owner, sleeping <- Sleeping

ImplementsMonitor == M!MSpec

\* The value of a lock's semaphore says whether a thread is inside
\* lock_acquire ... lock_release, and there is never more than one.
LockExclusion ==
  \A l \in Lock :
    \/ value[l] = 1 /\ Inside(l) = {}
    \/ value[l] = 0 /\ \E t \in Thread : Inside(l) = {t}

\* The scheduler is round robin: the timer preempts whoever runs, and every
\* thread in the run queue gets the processor (thread_tick, thread_yield,
\* next_thread_to_run).
ReadyRuns ==
  \A t \in Thread : t \in Listed(ready_list) ~> running = t
-----------------------------------------------------------------------------
(* The inductive invariant behind ElemExclusive, NoThreadLost and           *)
(* LockExclusion                                                            *)

IdlePc == {"idle_init", "idle_up", "idle_loop", "hlt"}

LockPc == {"lock_down", "lock_set", "lock_up", "lock_enter", "cond_up",
           "cond_enter", "cond_down"}

\* What arg[t] is at each place of a primitive; a thread in a lock's primitive
\* is not recorded as the holder of that lock.
ArgAt(t) ==
  /\ pc[t] = "boot_wait" => arg[t] = IdleStarted
  /\ pc[t] = "sema_down" => arg[t] \in Sema
  /\ pc[t] \in LockPc => arg[t] \in Lock /\ holder[arg[t]] # t
  /\ pc[t] = "broadcast" => arg[t] \in Cond

ArgOK == \A t \in Thread : ArgAt(t)

\* The thread that another one is creating is blocked and has one creator.
CreateOK ==
  \A t \in Thread :
    pc[t] = "unblock" =>
      /\ arg[t] \in Thread \ {Idle}
      /\ status[arg[t]] = "blocked"
      /\ pc[arg[t]] = "user"
      /\ \A u \in Thread : pc[u] = "unblock" /\ arg[u] = arg[t] => u = t

\* Only the idle thread runs idle(), and it does nothing else.
IdleOK ==
  /\ \A t \in Thread : pc[t] \in IdlePc => t = Idle
  /\ pc[Idle] \in IdlePc \/ (pc[Idle] = "user" /\ status[Idle] = "none")
  /\ pc[Main] = "boot" => status[Idle] = "none"
  /\ idle_thread = Idle <=> pc[Idle] \in IdlePc \ {"idle_init"}
  /\ \A t \in Thread : pc[t] \in {"boot", "boot_wait"} => t = Main
  /\ status[Main] # "none"
  /\ \A t \in Thread : status[t] = "none" => pc[t] = "user"

\* The semaphore a thread sleeps on.
SemaOf(t) == IF pc[t] = "cond_down" THEN t ELSE arg[t]

\* A thread on a wait list is asleep in the sema_down of that semaphore.
WaitOK ==
  \A s \in Semaphore : \A t \in Listed(waiters[s]) :
    pc[t] \in InDown /\ SemaOf(t) = s

\* What cond_waiters says of a thread: its semaphore_elem is in one list, at
\* one place of it, from cond_wait until a signal takes it off, and until then
\* nobody has upped its semaphore.
CondOK ==
  /\ \A c \in Cond :
       /\ NoDuplicates(cond_waiters[c])
       /\ \A t \in Listed(cond_waiters[c]) :
            /\ pc[t] \in {"cond_up", "cond_enter", "cond_down"}
            /\ arg[t] = LockOf[c]
            /\ value[t] = 0
            /\ \A d \in Cond : t \in Listed(cond_waiters[d]) => d = c
  /\ \A t \in Thread :
       /\ pc[t] = "cond_up" => \E c \in Cond : t \in Listed(cond_waiters[c])
       /\ pc[t] = "broadcast" => holder[LockOf[arg[t]]] = t

IInv ==
  /\ TypeOK
  /\ ArgOK /\ CreateOK /\ IdleOK /\ WaitOK
  /\ ElemExclusive /\ NoThreadLost /\ LockExclusion
=============================================================================
