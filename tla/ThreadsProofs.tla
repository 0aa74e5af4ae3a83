---------------------------- MODULE ThreadsProofs ----------------------------
(***************************************************************************)
(* Proofs about Threads: its type invariant, the exclusive use of `elem',  *)
(* that no thread is lost, that a lock admits one thread at a time, that   *)
(* sema_up's wakeups are kept, and that locks and condition variables      *)
(* implement Monitor.                                                      *)
(***************************************************************************)
EXTENDS ThreadsSteps, FiniteSetTheorems

\* Leaves are for Zenon; the ones for an SMT solver say so.
USE ZenonT(60)

-----------------------------------------------------------------------------
(* The invariant, and the theorems that follow from it.                     *)

\* thread_start and the idle thread.
LEMMA BootKeeps ==
  ASSUME IInv, Boot
  PROVE  IInv'
  <1>a. TypeOK /\ ListInv /\ LockInv
    BY Parts
  <1>b. /\ pc \in [Thread -> Pc] /\ arg \in [Thread -> Arg]
        /\ IdleStarted \in Semaphore /\ IdleStarted \in Arg
    BY <1>a, ThreadsAssumption DEF TypeOK, Arg, Semaphore
  <1> USE MainAndIdle
  <1>1. CASE thread_start
    <2>1. Main = running /\ pc[Main] = "boot" /\ status[Idle] = "none" /\ pc[Idle] = "user"
      BY <1>1, <1>a DEF thread_start, At, ListInv, IdleOK
    <2>2. Idle \notin Listed(ready_list)
      BY <1>a, <2>1 DEF ListInv, ElemExclusive
    <2>s. \A u \in Thread : status'[u] = IF u = Idle THEN "ready" ELSE status[u]
      BY <1>1, <1>a DEF thread_start, TypeOK
    <2>p. \A u \in Thread : pc'[u] = IF u = Main THEN "boot_wait"
                                     ELSE IF u = Idle THEN "idle_init" ELSE pc[u]
      BY <1>1, <1>a DEF thread_start, TypeOK
    <2>a. \A u \in Thread : arg'[u] = IF u = Main THEN IdleStarted ELSE arg[u]
      BY <1>1, <1>a DEF thread_start, TypeOK
    <2>3. /\ UNCHANGED <<running, thread_ticks, idle_thread, value, waiters, holder,
                         cond_waiters>>
          /\ ready_list' = Append(ready_list, Idle)
      BY <1>1 DEF thread_start, sema
    <2>g. /\ Listed(ready_list) \subseteq Thread
          /\ \A r \in Semaphore : Listed(waiters[r]) \subseteq Thread
          /\ \A r \in Semaphore : Main \notin Listed(waiters[r]) /\ Idle \notin Listed(waiters[r])
          /\ \A u \in Thread : pc[u] = "unblock" => arg[u] # Main
      BY <1>a, <2>1, RunningThread
    <2>4. /\ ready_list' \in Seq(Thread) /\ NoDuplicates(ready_list')
          /\ Listed(ready_list') = Listed(ready_list) \cup {Idle}
      BY <1>a, <2>2, <2>3, PushBack, SMTT(60) DEF TypeOK, ListInv, ElemExclusive
    <2>5. TypeOK'
      BY <1>1, <1>a, <1>b, <2>3, <2>4 DEF thread_start, TypeOK, Status, Pc, Arg
    <2>6. CreateOK'
      BY <1>a, <2>1, <2>s, <2>p, <2>a, <2>g, SMTT(60) DEF ListInv, CreateOK
    <2>7. IdleOK'
      BY <1>a, <2>1, <2>s, <2>p, <2>3 DEF ListInv, IdleOK, IdlePc
    <2>8. WaitOK'
      BY <1>a, <2>p, <2>a, <2>3, <2>g, SMTT(60) DEF ListInv, WaitOK, SemaOf
    <2>9. ElemExclusive'
      <3>1. \A u \in Thread : status'[u] = "running" <=> u = running'
        BY <1>a, <2>1, <2>s, <2>3 DEF ListInv, ElemExclusive
      <3>2. \A u \in Listed(ready_list') : status'[u] = "ready"
        BY <1>a, <2>s, <2>4, <2>g DEF ListInv, ElemExclusive
      <3>3. \A r \in Semaphore : \A u \in Listed(waiters'[r]) : status'[u] = "blocked"
        BY <1>a, <2>s, <2>3, <2>g, SMTT(60) DEF ListInv, ElemExclusive
      <3>4. QED
        BY <1>a, <2>3, <2>4, <3>1, <3>2, <3>3 DEF ListInv, ElemExclusive
    <2>10. NoThreadLost'
      <3>1. idle_thread' # Idle
        BY <1>a, <2>1, <2>3 DEF ListInv, IdleOK, IdlePc
      <3>2. QED
        BY <1>a, <2>1, <2>s, <2>p, <2>a, <2>3, <2>4, <3>1, SMTT(60)
          DEF ListInv, NoThreadLost
    <2>11. ArgOK'
      BY <1>a, <2>1, <2>p, <2>a, <2>3 DEF LockInv, ArgOK, ArgAt, LockPc
    <2>12. \A l \in Lock : Inside(l)' = Inside(l)
      BY <2>1, <2>p, <2>a, <2>3 DEF Inside
    <2>13. LockExclusion'
      BY <1>a, <2>3, <2>12 DEF LockInv, LockExclusion
    <2>14. QED
      BY <2>5, <2>6, <2>7, <2>8, <2>9, <2>10, <2>11, <2>13 DEF IInv
  <1>2. CASE BootWait
    <2>1. arg[Main] = IdleStarted
      BY <1>2, <1>a DEF BootWait, At, LockInv, ArgOK, ArgAt
    <2>2. QED
      BY <1>2, <1>b, <2>1, SemaDownKeeps, ThreadsAssumption DEF BootWait, At
  <1>3. CASE IdleInit
    <2>1. Idle = running /\ pc[Idle] = "idle_init"
      BY <1>3 DEF IdleInit, At
    <2>2. /\ pc' \in [Thread -> Pc] /\ pc'[Idle] = "idle_up" /\ Others(Idle)
          /\ UNCHANGED <<status, running, ready_list, thread_ticks, value, waiters,
                         holder, cond_waiters, arg>>
          /\ idle_thread' = Idle
      BY <1>3, <1>b DEF IdleInit, Goto, Others, sched, sema, Pc
    <2>3. TypeOK'
      BY <1>a, <2>2 DEF TypeOK
    <2>4. CreateOK'
      BY <1>a, <2>1, <2>2, SMTT(60) DEF ListInv, CreateOK, Others
    <2>5. IdleOK'
      BY <1>a, <2>1, <2>2 DEF ListInv, IdleOK, IdlePc, Others
    <2>6. WaitOK'
      BY <1>a, <2>1, <2>2, RunningThread, SMTT(60) DEF ListInv, WaitOK, SemaOf, Others
    <2>7. ElemExclusive'
      BY <1>a, <2>2 DEF ListInv, ElemExclusive
    <2>8. NoThreadLost'
      <3>1. idle_thread = Idle \/ idle_thread \notin Thread
        BY <1>a, ThreadsAssumption DEF TypeOK
      <3>2. \A u \in Thread : pc[u] = "unblock" => pc'[u] = "unblock"
        BY <2>1, <2>2 DEF Others
      <3>3. QED
        BY <1>a, <2>1, <2>2, <3>1, <3>2, RunningThread, SMTT(60) DEF ListInv, NoThreadLost
    <2>9. LockInv'
      BY <1>a, <2>1, <2>2, NoLockStep DEF Critical, ArgAt, LockPc
    <2>10. QED
      BY <2>3, <2>4, <2>5, <2>6, <2>7, <2>8, <2>9 DEF IInv, LockInv
  <1>4. CASE IdleUp
    <2>1. /\ Idle = running /\ pc[Idle] = "idle_up" /\ pc'[Idle] = "idle_loop"
          /\ pc' \in [Thread -> Pc] /\ Moves(Idle)
      BY <1>4, <1>b DEF IdleUp, At, Goto, Pc, Moves, IdlePc
    <2>2. QED
      BY <1>4, <1>a, <2>1, SemaUpKeeps, ThreadsAssumption DEF IdleUp, Critical, IdlePc, TypeOK
  <1>5. CASE IdleBlock
    <2>1. /\ Idle = running /\ pc[Idle] = "idle_loop" /\ pc'[Idle] = "hlt"
          /\ pc' \in [Thread -> Pc] /\ Moves(Idle)
      BY <1>5, <1>b DEF IdleBlock, At, Goto, Pc, Moves, IdlePc
    <2>2. idle_thread = Idle
      BY <1>a, <2>1 DEF ListInv, IdleOK, IdlePc
    <2>3. QED
      BY <1>5, <2>1, <2>2, SwitchKeeps DEF IdleBlock, thread_block, Status, IdlePc
  <1>6. QED
    BY <1>1, <1>2, <1>3, <1>4, <1>5 DEF Boot

\* The state that thread_init leaves satisfies the invariant.
LEMMA InitIInv == Init => IInv
  <1> SUFFICES ASSUME Init PROVE IInv
    OBVIOUS
  <1> USE ThreadsAssumption
  <1>1. TypeOK
    BY SMTT(60) DEF Init, TypeOK, Semaphore, Status, Pc
  <1>2. ArgOK /\ CreateOK
    BY DEF Init, ArgOK, ArgAt, LockPc, CreateOK
  <1>3. IdleOK
    BY DEF Init, IdleOK, IdlePc
  <1>4. WaitOK /\ ElemExclusive
    BY EmptyList DEF Init, WaitOK, ElemExclusive
  <1>5. NoThreadLost
    BY EmptyList DEF Init, NoThreadLost
  <1>6. \A l \in Lock : value[l] = 1 /\ Inside(l) = {}
    BY DEF Init, Inside, Semaphore
  <1>7. LockExclusion
    BY <1>6 DEF LockExclusion
  <1>8. QED
    BY <1>1, <1>2, <1>3, <1>4, <1>5, <1>7 DEF IInv

\* Every step of every thread and every interrupt preserves the invariant.
LEMMA NextIInv == IInv /\ [Next]_vars => IInv'
  <1> SUFFICES ASSUME IInv, [Next]_vars PROVE IInv'
    OBVIOUS
  <1>1. ASSUME NEW t \in Thread, Call(t) PROVE IInv'
    <2>1. CASE \E u \in Thread \ {Idle} : thread_create(t, u)
      BY <2>1, CreateKeeps
    <2>2. CASE thread_exit(t)
      <3>1. t = running /\ pc[t] = "user" /\ pc \in [Thread -> Pc]
        BY <2>2 DEF thread_exit, At, IInv, TypeOK
      <3>2. Moves(t)
        BY <2>2 DEF thread_exit, Moves
      <3>3. CASE t = Main
        BY <2>2, <3>1, <3>2, <3>3, SwitchKeeps DEF thread_exit, Status
      <3>4. CASE t # Main
        BY <2>2, <3>1, <3>2, <3>4, SwitchKeeps DEF thread_exit, Status
      <3>5. QED
        BY <3>3, <3>4
    <2>3. CASE Yield(t)
      <3>1. t = running /\ pc \in [Thread -> Pc] /\ Moves(t)
        BY <2>3 DEF Yield, At, IInv, TypeOK, Moves
      <3>2. QED
        BY <2>3, <3>1, YieldKeeps DEF Yield
    <2>4. QED
      BY <1>1, <2>1, <2>2, <2>3, SynchCallKeeps DEF Call
  <1>2. ASSUME NEW t \in Thread, Continue(t) PROVE IInv'
    BY <1>2, SynchContinueKeeps, CreateUnblockKeeps DEF Continue
  <1>3. CASE Boot
    BY <1>3, BootKeeps
  <1>4. CASE TimerInterrupt \/ \E s \in UserSema : DeviceInterrupt(s)
    BY <1>4, InterruptKeeps
  <1>5. CASE UNCHANGED vars
    <2>1. TypeOK /\ ListInv /\ LockInv
      BY Parts
    <2>2. PICK t \in Thread : t = running
      BY <2>1 DEF TypeOK
    <2>3. TypeOK'
      BY <1>5, <2>1 DEF vars, TypeOK
    <2>4. ListInv'
      BY <1>5, <2>1, QuietStep DEF vars, Moves
    <2>5. LockInv'
      BY <1>5, <2>1, NoLockStep DEF vars, Others
    <2>6. QED
      BY <2>3, <2>4, <2>5 DEF IInv, ListInv, LockInv
  <1>6. QED
    BY <1>1, <1>2, <1>3, <1>4, <1>5 DEF Next

\* The inductive invariant holds for every number of threads, semaphores,
\* locks and condition variables.
THEOREM Invariance == Spec => []IInv
  BY InitIInv, NextIInv, PTL DEF Spec

\* Every variable of the scheduler and of the primitives keeps its type; in
\* particular sema_down never takes a semaphore below 0.
THEOREM TypeCorrect == Spec => []TypeOK
  <1>1. IInv => TypeOK
    BY DEF IInv
  <1>2. QED
    BY <1>1, Invariance, PTL

\* thread.h's claim about `elem': no thread is ever in two lists, or at two
\* places of one, and exactly one thread has the status "running".
THEOREM ElemIsExclusive == Spec => []ElemExclusive
  <1>1. IInv => ElemExclusive
    BY DEF IInv
  <1>2. QED
    BY <1>1, Invariance, PTL

\* schedule, sema_up and thread_create lose no thread, and the idle thread is
\* never in the run queue.
THEOREM NoThreadIsLost == Spec => []NoThreadLost
  <1>1. IInv => NoThreadLost
    BY DEF IInv
  <1>2. QED
    BY <1>1, Invariance, PTL

\* lock_acquire admits one thread at a time, in every interleaving.
THEOREM MutualExclusion == Spec => []LockExclusion
  <1>1. IInv => LockExclusion
    BY DEF IInv
  <1>2. QED
    BY <1>1, Invariance, PTL

-----------------------------------------------------------------------------
(* Wakeups                                                                  *)

\* The invariant: NoLostWakeup, with the finiteness that its count needs.  Only
\* finitely many threads have ever been woken, however many there may be.
WakeInv ==
  \A s \in Semaphore :
    /\ IsFiniteSet(Woken(s))
    /\ waiters[s] # << >> => value[s] <= Cardinality(Woken(s))

\* A step of this kind keeps a woken thread for every unit.
LEMMA SemaStepWakes ==
  ASSUME TypeOK, TypeOK', WakeInv, \A s \in Semaphore : SemaStep(s)
  PROVE  WakeInv'
  <1> SUFFICES ASSUME NEW s \in Semaphore
               PROVE  /\ IsFiniteSet(Woken(s))'
                      /\ (waiters[s] # << >> => value[s] <= Cardinality(Woken(s)))'
    BY DEF WakeInv
  <1>1. /\ IsFiniteSet(Woken(s)) /\ Cardinality(Woken(s)) \in Nat
        /\ waiters[s] # << >> => value[s] <= Cardinality(Woken(s))
        /\ value[s] \in Nat /\ value'[s] \in Nat
    BY FS_CardinalityType DEF WakeInv, TypeOK
  <1>2. CASE /\ value'[s] <= value[s] /\ waiters'[s] = waiters[s]
             /\ Woken(s)' = Woken(s)
    BY <1>1, <1>2, SMTT(60)
  <1>3. CASE /\ value'[s] = 0 \/ waiters'[s] = << >>
             /\ Woken(s)' \subseteq Woken(s)
    <2>1. IsFiniteSet(Woken(s)') /\ Cardinality(Woken(s)') \in Nat
      BY <1>1, <1>3, FS_Subset, FS_CardinalityType
    <2>2. QED
      BY <1>3, <2>1, SMTT(60)
  <1>4. CASE /\ value'[s] = value[s] - 1 /\ waiters'[s] = waiters[s]
             /\ \E t \in Thread : Woken(s)' = Woken(s) \ {t}
    <2>1. PICK t \in Thread : Woken(s)' = Woken(s) \ {t}
      BY <1>4
    <2>2. /\ IsFiniteSet(Woken(s) \ {t})
          /\ Cardinality(Woken(s) \ {t}) = IF t \in Woken(s) THEN Cardinality(Woken(s)) - 1
                                           ELSE Cardinality(Woken(s))
      BY <1>1, FS_RemoveElement
    <2>3. IsFiniteSet(Woken(s)') /\ Cardinality(Woken(s)') = Cardinality(Woken(s) \ {t})
      BY <2>1, <2>2
    <2>4. waiters[s] # << >> => value[s] - 1 <= Cardinality(Woken(s) \ {t})
      BY <1>1, <2>2, SMTT(60)
    <2>5. QED
      BY <1>4, <2>3, <2>4
  <1>5. CASE /\ value'[s] = value[s] + 1 /\ waiters[s] # << >>
             /\ \E w \in Thread \ Woken(s) : Woken(s)' = Woken(s) \cup {w}
    <2>1. PICK w \in Thread \ Woken(s) : Woken(s)' = Woken(s) \cup {w}
      BY <1>5
    <2>2. /\ IsFiniteSet(Woken(s) \cup {w})
          /\ Cardinality(Woken(s) \cup {w}) = Cardinality(Woken(s)) + 1
      BY <1>1, <2>1, FS_AddElement
    <2>3. IsFiniteSet(Woken(s)') /\ Cardinality(Woken(s)') = Cardinality(Woken(s)) + 1
      BY <2>1, <2>2
    <2>4. value[s] + 1 <= Cardinality(Woken(s)) + 1
      BY <1>1, <1>5, SMTT(60)
    <2>5. QED
      BY <1>5, <2>3, <2>4
  <1>6. QED
    BY <1>2, <1>3, <1>4, <1>5 DEF SemaStep

\* No wakeup of sema_up is lost: for any number of threads and semaphores, while
\* threads wait on a semaphore every unit of its value has a woken thread on its
\* way to it, even though a third thread may take the unit first.
THEOREM WakeupsAreKept == Spec => []NoLostWakeup
  <1>1. Init => WakeInv
    <2>1. SUFFICES ASSUME Init, NEW s \in Semaphore
                   PROVE  IsFiniteSet(Woken(s)) /\ waiters[s] = << >>
      BY DEF WakeInv
    <2>2. Woken(s) = {}
      BY <2>1 DEF Init, Woken
    <2>3. QED
      BY <2>1, <2>2, FS_EmptySet DEF Init
  <1>2. IInv /\ IInv' /\ WakeInv /\ [Next]_vars => WakeInv'
    <2>1. SUFFICES ASSUME IInv, IInv', WakeInv, [Next]_vars PROVE WakeStep
      BY SemaStepWakes DEF IInv, WakeStep
    <2>2. CASE UNCHANGED vars
      <3>1. value \in [Semaphore -> Nat]
        BY <2>1 DEF IInv, TypeOK
      <3>2. \A s \in Semaphore : value'[s] <= value[s]
        BY <2>2, <3>1, SMTT(60) DEF vars
      <3>3. QED
        BY <2>1, <2>2, <3>2, QuietWakes DEF vars
    <2>3. QED
      BY <2>1, <2>2, CallWakes, ContinueWakes, BootWakes DEF Next
  <1>3. WakeInv => NoLostWakeup
    BY DEF WakeInv, NoLostWakeup
  <1>4. QED
    BY <1>1, <1>2, <1>3, Invariance, PTL DEF Spec

-----------------------------------------------------------------------------
(* The monitor: every action is a step of Monitor, or a stuttering step.    *)

\* The calls of the primitives.
LEMMA CallSimulates ==
  ASSUME IInv, IInv', CondOK, NEW t \in Thread, Call(t)
  PROVE  Simulates
  <1> USE ThreadsAssumption
  <1>a. TypeOK /\ LockOf \in [Cond -> Lock]
    BY DEF IInv
  <1>b. /\ pc \in [Thread -> Pc] /\ arg \in [Thread -> Arg]
        /\ value \in [Semaphore -> Nat] /\ t = running /\ pc[t] = "user"
    BY <1>a DEF TypeOK, Arg, Call, At, SemaDown, sema_try_down, SemaUp, lock_acquire,
       lock_try_acquire, lock_release, cond_wait, cond_signal, cond_broadcast,
       thread_create, thread_exit, Yield
  <1>c. UserSema \subseteq Sema /\ Sema \subseteq Semaphore /\ Lock \subseteq Semaphore
        /\ Thread \subseteq Semaphore
    BY DEF UserSema, Semaphore
  <1>d. ASSUME NEW l \in Lock, M!Acquire(t, l) PROVE M!MNext
    BY <1>d DEF M!MNext
  <1>1. ASSUME NEW s \in UserSema, SemaDown(t, s) PROVE Simulates
    <2>1. /\ sema_down(t, s, "sema_down", "user") /\ pc'[t] \in {"sema_down", "user"}
          /\ Others(t) /\ UNCHANGED cond_waiters /\ s \in Semaphore /\ s \notin Thread
      BY <1>1, <1>b, <1>c DEF SemaDown, sema_down, Others
    <2>2. QED
      BY <1>a, <1>b, <2>1, SemaDownFar DEF Simulates, Critical
  <1>2. ASSUME NEW s \in UserSema, sema_try_down(t, s) PROVE Simulates
    <2>1. \A u \in Thread : value'[u] = value[u]
      BY <1>2, <1>b, <1>c DEF sema_try_down, Semaphore
    <2>2. QED
      BY <1>2, <1>a, <2>1, OutsideFar DEF sema_try_down, Simulates
  <1>3. ASSUME NEW s \in UserSema, SemaUp(t, s) PROVE Simulates
    BY <1>3, <1>a, <1>c, SemaUpValue, OutsideFar DEF SemaUp, Simulates
  <1>4. ASSUME NEW l \in Lock, lock_acquire(t, l) PROVE Simulates
    <2>1. /\ sema_down(t, l, "lock_down", "lock_set") /\ l \in Semaphore /\ l \notin Thread
          /\ arg'[t] = l /\ Others(t) /\ UNCHANGED <<cond_waiters, holder>>
      BY <1>4, <1>b, <1>c DEF lock_acquire, sema_down, Others
    <2>2. CASE value[l] = 0
      <3>1. pc'[t] = "lock_down"
        BY <1>b, <2>1, <2>2, SMTT(60) DEF sema_down
      <3>2. QED
        BY <1>a, <1>b, <2>1, <3>1, SemaDownFar DEF Simulates, Critical
    <2>3. CASE value[l] > 0
      <3>1. pc'[t] = "lock_set" /\ \A u \in Thread : value'[u] = value[u]
        BY <1>b, <1>c, <2>1, <2>3, SMTT(60) DEF sema_down
      <3>2. QED
        BY <1>b, <1>d, <2>1, <2>3, <3>1, EnterImplements DEF Simulates
    <2>4. QED
      BY <1>b, <2>1, <2>2, <2>3, SMTT(60)
  <1>5. ASSUME NEW l \in Lock, lock_try_acquire(t, l) PROVE Simulates
    <2>1. /\ value[l] > 0 /\ pc'[t] = "lock_set" /\ arg'[t] = l /\ Others(t)
          /\ UNCHANGED <<cond_waiters, holder>> /\ \A u \in Thread : value'[u] = value[u]
      BY <1>5, <1>b, <1>c DEF lock_try_acquire, Goto, Others
    <2>2. QED
      BY <1>b, <1>d, <2>1, EnterImplements DEF Simulates
  <1>6. ASSUME NEW l \in Lock, lock_release(t, l) PROVE Simulates
    <2>1. /\ holder[l] = t /\ holder' = [holder EXCEPT ![l] = NoThread]
          /\ pc'[t] = "lock_up" /\ arg'[t] = l /\ Others(t) /\ UNCHANGED <<cond_waiters, value>>
      BY <1>6, <1>b DEF lock_release, Goto, Others, sema
    <2>2. QED
      BY <1>b, <2>1, HolderImplements DEF Simulates
  <1>7. ASSUME NEW c \in Cond, cond_wait(t, c) PROVE Simulates
    BY <1>7, CondWaitImplements DEF Simulates
  <1>8. ASSUME NEW c \in Cond, cond_signal(t, c) PROVE Simulates
    <2>1. CondOK' /\ M!Signal(t, c)
      BY <1>8, <1>b, WakeImplements DEF cond_signal
    <2>2. QED
      BY <2>1 DEF Simulates, M!MNext
  <1>9. ASSUME NEW c \in Cond, cond_broadcast(t, c) PROVE Simulates
    <2>1. /\ holder[LockOf[c]] = t /\ pc'[t] = "broadcast" /\ arg'[t] = c /\ Others(t)
          /\ UNCHANGED <<holder, cond_waiters, value>>
      BY <1>9, <1>b DEF cond_broadcast, Goto, Others, sema
    <2>2. QED
      BY <1>a, <1>b, <2>1, OutsideFar DEF Simulates, Others, LockPc, Critical
  <1>10. ASSUME NEW u \in Thread \ {Idle}, thread_create(t, u) PROVE Simulates
    <2>1. pc[u] = "user" /\ UNCHANGED <<holder, cond_waiters, value>>
      BY <1>10 DEF thread_create, IInv, IdleOK, sema
    <2>2. /\ pc'[t] \in {"unblock", "user"} /\ pc'[u] = "user"
          /\ \A x \in Thread \ {t, u} : pc'[x] = pc[x] /\ arg'[x] = arg[x]
      BY <1>10, <1>b DEF thread_create
    <2>3. QED
      BY <1>a, <1>b, <2>1, <2>2, OutsideFar DEF Simulates, LockPc, Critical
  <1>11. CASE thread_exit(t) \/ Yield(t)
    BY <1>11, <1>a, OutsideFar DEF thread_exit, Yield, sema, Simulates
  <1>12. QED
    BY <1>1, <1>2, <1>3, <1>4, <1>5, <1>6, <1>7, <1>8, <1>9, <1>10, <1>11 DEF Call

\* The rest of a call.
LEMMA ContinueSimulates ==
  ASSUME IInv, IInv', CondOK, NEW t \in Thread, Continue(t)
  PROVE  Simulates
  <1> USE ThreadsAssumption
  <1>a. TypeOK /\ ArgAt(t) /\ LockOf \in [Cond -> Lock]
    BY DEF IInv, ArgOK
  <1>b. /\ pc \in [Thread -> Pc] /\ arg \in [Thread -> Arg] /\ value \in [Semaphore -> Nat]
    BY <1>a DEF TypeOK, Arg
  <1>c. Sema \subseteq Semaphore /\ Lock \subseteq Semaphore /\ Thread \subseteq Semaphore
    BY DEF Semaphore
  <1>1. CASE SemaDownAgain(t)
    <2>1. /\ pc[t] = "sema_down" /\ arg[t] \in Sema
          /\ sema_down(t, arg[t], "sema_down", "user") /\ pc'[t] \in {"sema_down", "user"}
          /\ Others(t) /\ UNCHANGED <<arg, cond_waiters>>
      BY <1>1, <1>a, <1>b DEF SemaDownAgain, At, ArgAt, sema_down, Others
    <2>2. arg[t] \in Semaphore /\ arg[t] \notin Thread
      BY <1>c, <2>1
    <2>3. QED
      BY <1>a, <2>1, <2>2, SemaDownFar DEF Simulates, Critical
  <1>2. CASE LockDown(t)
    <2>1. /\ pc[t] \in {"lock_down", "lock_enter"} /\ arg[t] \in Lock
          /\ sema_down(t, arg[t], "lock_down", "lock_set")
          /\ Others(t) /\ UNCHANGED <<arg, cond_waiters, holder>>
      BY <1>2, <1>a, <1>b DEF LockDown, At, ArgAt, sema_down, Others, LockPc
    <2>2. arg[t] \in Semaphore /\ arg[t] \notin Thread
      BY <1>c, <2>1
    <2>3. CASE value[arg[t]] = 0
      <3>1. pc'[t] = "lock_down"
        BY <1>b, <2>1, <2>3, SMTT(60) DEF sema_down
      <3>2. QED
        BY <1>a, <2>1, <2>2, <3>1, SemaDownFar DEF Simulates, Critical
    <2>4. CASE value[arg[t]] > 0
      <3>1. pc'[t] = "lock_set" /\ \A u \in Thread : value'[u] = value[u]
        BY <1>b, <1>c, <2>1, <2>2, <2>4, SMTT(60) DEF sema_down
      <3>2. CondOK' /\ M!Acquire(t, arg[t])
        BY <2>1, <2>4, <3>1, EnterImplements
      <3>3. QED
        BY <2>1, <3>2 DEF Simulates, M!MNext
    <2>5. QED
      BY <1>b, <2>2, <2>3, <2>4, SMTT(60)
  <1>3. CASE LockSetHolder(t)
    <2>1. /\ pc[t] = "lock_set" /\ arg[t] \in Lock /\ pc'[t] = "user"
          /\ holder' = [holder EXCEPT ![arg[t]] = t]
          /\ Others(t) /\ UNCHANGED <<value, cond_waiters>>
      BY <1>3, <1>a, <1>b DEF LockSetHolder, At, Goto, ArgAt, LockPc, Others, sema
    <2>2. QED
      BY <2>1, HolderImplements DEF Simulates
  <1>4. CASE LockUp(t)
    <2>1. CondOK' /\ M!Release(t, arg[t]) /\ arg[t] \in Lock
      BY <1>4, <1>a, LeaveImplements DEF LockUp, At, ArgAt, LockPc
    <2>2. QED
      BY <2>1 DEF Simulates, M!MNext
  <1>5. CASE CondUp(t)
    BY <1>5, LeaveImplements DEF Simulates, M!MNext
  <1>6. CASE CondDown(t)
    <2>1. /\ pc[t] \in {"cond_enter", "cond_down"} /\ t \in Semaphore
          /\ sema_down(t, t, "cond_down", "lock_enter") /\ Others(t)
          /\ UNCHANGED <<arg, cond_waiters>>
          /\ pc'[t] = "cond_down" \/ (pc'[t] = "lock_enter" /\ value[t] > 0)
      BY <1>6, <1>b, <1>c DEF CondDown, At, sema_down, Others
    <2>2. QED
      BY <1>a, <2>1, SemaDownFar DEF Simulates, Critical
  <1>7. CASE Broadcasting(t)
    <2>0. arg[t] \in Cond /\ pc[t] = "broadcast" /\ holder[LockOf[arg[t]]] = t
      BY <1>7, <1>a DEF Broadcasting, At, ArgAt, CondOK
    <2>1. CASE cond_waiters[arg[t]] # << >>
      <3>1. CondOK' /\ M!Signal(t, arg[t])
        BY <1>7, <2>0, <2>1, WakeImplements DEF Broadcasting
      <3>2. QED
        BY <2>0, <3>1 DEF Simulates, M!MNext
    <2>2. CASE cond_waiters[arg[t]] = << >>
      <3>1. pc'[t] = "user" /\ Others(t) /\ UNCHANGED <<holder, cond_waiters, value>>
        BY <1>7, <1>b, <2>2 DEF Broadcasting, Goto, Others, sema
      <3>2. QED
        BY <1>a, <2>0, <3>1, OutsideFar DEF Simulates, Others, LockPc, Critical
    <2>3. QED
      BY <2>1, <2>2
  <1>8. CASE CreateUnblock(t)
    <2>1. pc[t] = "unblock" /\ pc'[t] = "user" /\ Others(t)
          /\ UNCHANGED <<holder, cond_waiters, value>>
      BY <1>8, <1>b DEF CreateUnblock, At, Goto, Others, sema
    <2>2. QED
      BY <1>a, <2>1, OutsideFar DEF Simulates, Others, LockPc, Critical
  <1>9. QED
    BY <1>1, <1>2, <1>3, <1>4, <1>5, <1>6, <1>7, <1>8 DEF Continue

\* The boot, the idle thread and the interrupts are outside the monitor.
LEMMA BootSimulates ==
  ASSUME IInv, IInv', CondOK,
         Boot \/ TimerInterrupt \/ \E s \in UserSema : DeviceInterrupt(s)
  PROVE  Simulates
  <1> USE MainAndIdle
  <1>a. TypeOK /\ pc \in [Thread -> Pc] /\ arg \in [Thread -> Arg] /\ running \in Thread
        /\ value \in [Semaphore -> Nat]
    BY DEF IInv, TypeOK, Arg
  <1>c. IdleStarted \in Sema /\ IdleStarted \in Semaphore /\ IdleStarted \notin Thread
        /\ UserSema \subseteq Sema
    BY ThreadsAssumption DEF Semaphore, UserSema
  <1>d. ASSUME EndHlt, UNCHANGED arg, UNCHANGED <<holder, cond_waiters>>,
               \A u \in Thread : value'[u] = value[u]
        PROVE  Simulates
    BY <1>a, <1>d, OutsideFar DEF EndHlt, Simulates, LockPc, Critical
  <1>1. CASE thread_start
    <2>1. /\ pc[Idle] = "user" /\ pc[Main] = "boot" /\ UNCHANGED <<holder, cond_waiters, value>>
          /\ \A x \in Thread \ {Main, Idle} : pc'[x] = pc[x] /\ arg'[x] = arg[x]
          /\ pc'[Main] = "boot_wait" /\ pc'[Idle] = "idle_init"
      BY <1>1, <1>a DEF thread_start, At, IInv, IdleOK, IdlePc, sema
    <2>2. QED
      BY <1>a, <2>1, OutsideFar DEF Simulates, LockPc, Critical
  <1>2. CASE BootWait
    <2>1. /\ pc[Main] = "boot_wait" /\ sema_down(Main, IdleStarted, "sema_down", "user")
          /\ pc'[Main] \in {"sema_down", "user"} /\ Others(Main) /\ UNCHANGED cond_waiters
      BY <1>2, <1>a DEF BootWait, At, sema_down, Others
    <2>2. QED
      BY <1>a, <1>c, <2>1, SemaDownFar DEF Simulates, Critical
  <1>3. CASE IdleInit
    <2>1. /\ pc[Idle] = "idle_init" /\ pc'[Idle] = "idle_up" /\ Others(Idle)
          /\ UNCHANGED <<holder, cond_waiters, value>>
      BY <1>3, <1>a DEF IdleInit, At, Goto, Others, sema
    <2>2. QED
      BY <1>a, <2>1, OutsideFar DEF Simulates, Others, LockPc, Critical
  <1>4. CASE IdleUp
    <2>1. /\ pc[Idle] = "idle_up" /\ pc'[Idle] = "idle_loop" /\ Others(Idle)
          /\ UNCHANGED <<holder, cond_waiters>> /\ \A u \in Thread : value'[u] = value[u]
      BY <1>4, <1>a, <1>c, SemaUpValue DEF IdleUp, At, Goto, Others
    <2>2. QED
      BY <1>a, <2>1, OutsideFar DEF Simulates, Others, LockPc, Critical
  <1>5. CASE IdleBlock
    <2>1. /\ pc[Idle] = "idle_loop" /\ pc'[Idle] = "hlt" /\ Others(Idle)
          /\ UNCHANGED <<holder, cond_waiters, value>>
      BY <1>5, <1>a DEF IdleBlock, At, Goto, Others, sema
    <2>2. QED
      BY <1>a, <2>1, OutsideFar DEF Simulates, Others, LockPc, Critical
  <1>6. CASE TimerInterrupt
    BY <1>6, <1>d DEF TimerInterrupt, sema
  <1>7. ASSUME NEW s \in UserSema, DeviceInterrupt(s) PROVE Simulates
    BY <1>7, <1>a, <1>c, <1>d, SemaUpValue DEF DeviceInterrupt
  <1>8. QED
    BY <1>1, <1>2, <1>3, <1>4, <1>5, <1>6, <1>7 DEF Boot

\* The locks and condition variables of synch.c implement Monitor, for any
\* number of threads, locks and condition variables and in every interleaving:
\* a lock has one owner, the release of the lock and the sleep of cond_wait are
\* one step for every thread that signals with the lock held, and a sleeper is
\* woken only by the owner of its lock.
THEOREM MonitorIsImplemented == Spec => ImplementsMonitor
  <1>1. Init => CondOK /\ M!MInit
    <2>1. SUFFICES ASSUME Init PROVE CondOK /\ M!MInit
      OBVIOUS
    <2>2. CondOK
      BY <2>1, EmptyList DEF Init, CondOK
    <2>3. \A l \in Lock : Inside(l) = {}
      BY <2>1, ThreadsAssumption DEF Init, Inside
    <2>4. \A c \in Cond : Listed(cond_waiters[c]) = {}
      BY <2>1, EmptyList DEF Init
    <2>5. QED
      BY <2>2, <2>3, <2>4, OnlyThread DEF M!MInit, Owner, Sleeping
  <1>2. IInv /\ IInv' /\ CondOK /\ [Next]_vars => CondOK' /\ [M!MNext]_(M!mvars)
    <2>1. SUFFICES ASSUME IInv, IInv', CondOK, [Next]_vars PROVE Simulates
      BY DEF Simulates, M!mvars
    <2>2. CASE UNCHANGED vars
      <3>1. UNCHANGED <<holder, cond_waiters, value, pc, arg>> /\ TypeOK
        BY <2>1, <2>2 DEF vars, IInv
      <3>2. QED
        BY <2>1, <3>1, OutsideFar DEF Simulates
    <2>3. QED
      BY <2>1, <2>2, CallSimulates, ContinueSimulates, BootSimulates DEF Next
  <1>3. QED
    BY <1>1, <1>2, Invariance, PTL DEF Spec, ImplementsMonitor, M!MSpec
=============================================================================
