---------------------------- MODULE ThreadsSteps ----------------------------
(***************************************************************************)
(* Lemmas about Threads: what the list operations do, and what a step does *)
(* that puts a thread to sleep, requeues it, wakes it, or enters or leaves *)
(* a lock; what each action does to the woken threads of a semaphore, and  *)
(* which step of Monitor it is.  ThreadsProofs draws the conclusions.      *)
(***************************************************************************)
EXTENDS Threads, TLAPS

\* Leaves are for Zenon; the ones for an SMT solver say so.
USE ZenonT(60)

-----------------------------------------------------------------------------
(* Lists                                                                    *)

\* list_push_back adds one element and no duplicate of an absent one.
LEMMA PushBack ==
  ASSUME NEW S, NEW list \in Seq(S), NEW x \in S
  PROVE  /\ Append(list, x) \in Seq(S)
         /\ Append(list, x) # << >>
         /\ Listed(Append(list, x)) = Listed(list) \cup {x}
         /\ NoDuplicates(list) /\ x \notin Listed(list)
              => NoDuplicates(Append(list, x))
  <1>1. /\ Append(list, x) \in Seq(S)
        /\ DOMAIN Append(list, x) = 1 .. Len(list) + 1
        /\ \A i \in 1 .. Len(list) : Append(list, x)[i] = list[i]
        /\ Append(list, x)[Len(list) + 1] = x
        /\ DOMAIN list = 1 .. Len(list)
        /\ Len(list) \in Nat
    BY SMTT(60)
  <1>2. Append(list, x) # << >>
    <2>1. Len(Append(list, x)) = Len(list) + 1 /\ Len(<< >>) = 0
      BY SMTT(60)
    <2>2. QED
      BY <1>1, <2>1, SMTT(60)
  <1>3. Listed(Append(list, x)) = Listed(list) \cup {x}
    BY <1>1, SMTT(60) DEF Listed
  <1>4. NoDuplicates(list) /\ x \notin Listed(list)
          => NoDuplicates(Append(list, x))
    BY <1>1, SMTT(60) DEF Listed, NoDuplicates
  <1>5. QED
    BY <1>1, <1>2, <1>3, <1>4

\* list_pop_front removes exactly the first element.
LEMMA PopFront ==
  ASSUME NEW S, NEW list \in Seq(S), list # << >>
  PROVE  /\ Head(list) \in S
         /\ Head(list) \in Listed(list)
         /\ Tail(list) \in Seq(S)
         /\ NoDuplicates(list) =>
              /\ NoDuplicates(Tail(list))
              /\ Listed(Tail(list)) = Listed(list) \ {Head(list)}
  <1>1. /\ Tail(list) \in Seq(S)
        /\ Head(list) = list[1]
        /\ Len(list) \in Nat \ {0}
        /\ DOMAIN Tail(list) = 1 .. Len(list) - 1
        /\ \A i \in 1 .. Len(list) - 1 : Tail(list)[i] = list[i + 1]
        /\ DOMAIN list = 1 .. Len(list)
    BY SMTT(60)
  <1>2. Head(list) \in S /\ Head(list) \in Listed(list)
    BY <1>1, SMTT(60) DEF Listed
  <1>3. ASSUME NoDuplicates(list)
        PROVE  NoDuplicates(Tail(list))
    BY <1>1, <1>3, SMTT(60) DEF NoDuplicates
  <1>4. ASSUME NoDuplicates(list)
        PROVE  Listed(Tail(list)) = Listed(list) \ {Head(list)}
    <2>1. \A x \in Listed(Tail(list)) : x \in Listed(list) /\ x # Head(list)
      BY <1>1, <1>4, SMTT(60) DEF Listed, NoDuplicates
    <2>2. ASSUME NEW i \in 1 .. Len(list), list[i] # Head(list)
          PROVE  list[i] \in Listed(Tail(list))
      <3>1. i - 1 \in 1 .. Len(list) - 1 /\ Tail(list)[i - 1] = list[i]
        BY <1>1, <2>2, SMTT(60)
      <3>2. QED
        BY <1>1, <3>1 DEF Listed
    <2>3. \A x \in Listed(list) : x # Head(list) => x \in Listed(Tail(list))
      BY <1>1, <2>2 DEF Listed
    <2>4. QED
      BY <2>1, <2>3
  <1>5. QED
    BY <1>1, <1>2, <1>3, <1>4

\* An empty list has no element.
LEMMA EmptyList == Listed(<< >>) = {} /\ NoDuplicates(<< >>)
  BY SMTT(60) DEF Listed, NoDuplicates

\* The elements of a list of threads are threads.
LEMMA ListedType ==
  ASSUME NEW S, NEW list \in Seq(S)
  PROVE  Listed(list) \subseteq S
  BY SMTT(60) DEF Listed

-----------------------------------------------------------------------------
(* The steps of the scheduler                                               *)

\* What schedule does to the run queue and to the statuses it is handed.
LEMMA ScheduleEffect ==
  ASSUME NEW st \in [Thread -> Status], NEW rl \in Seq(Thread),
         NoDuplicates(rl), idle_thread \in {Idle, NoThread}, schedule(st, rl)
  PROVE  /\ running' \in Thread
         /\ status' \in [Thread -> Status]
         /\ status' = [st EXCEPT ![running'] = "running"]
         /\ ready_list' \in Seq(Thread)
         /\ NoDuplicates(ready_list')
         /\ Listed(ready_list') = Listed(rl) \ {running'}
         /\ \/ running' \in Listed(rl)
            \/ rl = << >> /\ Listed(rl) = {} /\ running' = Idle /\ idle_thread = Idle
         /\ thread_ticks' \in 0 .. TIME_SLICE
  <1> USE ThreadsAssumption
  <1>1. CASE rl = << >>
    BY <1>1, EmptyList, SMTT(60) DEF schedule, next_thread_to_run, Status
  <1>2. CASE rl # << >>
    <2>1. running' = Head(rl) /\ ready_list' = Tail(rl)
      BY <1>2 DEF schedule, next_thread_to_run
    <2>2. running' \in Thread /\ running' \in Listed(rl)
      BY <1>2, <2>1, PopFront
    <2>3. /\ ready_list' \in Seq(Thread)
          /\ NoDuplicates(ready_list')
          /\ Listed(ready_list') = Listed(rl) \ {running'}
      BY <1>2, <2>1, PopFront
    <2>4. status' = [st EXCEPT ![running'] = "running"] /\ thread_ticks' = 0
      BY DEF schedule
    <2>5. QED
      BY <2>2, <2>3, <2>4, SMTT(60) DEF Status
  <1>3. QED
    BY <1>1, <1>2

\* What a step of the running thread t does to pc and arg: they stay the same,
\* or t moves from one place of a primitive to another.  Creating a thread and
\* the first step of the boot are not of this kind.
Moves(t) ==
  /\ \A u \in Thread \ {t} : pc'[u] = pc[u] /\ arg'[u] = arg[u]
  /\ \/ pc'[t] = pc[t] /\ arg'[t] = arg[t]
     \/ /\ pc[t] \notin {"unblock", "boot", "idle_init"}
        /\ pc'[t] \notin {"boot", "boot_wait", "unblock", "idle_init"}
        /\ pc[t] \in IdlePc <=> pc'[t] \in IdlePc

\* The part of the invariant that is about the lists of threads.
ListInv == CreateOK /\ IdleOK /\ WaitOK /\ ElemExclusive /\ NoThreadLost

\* The initial thread and the idle thread are two threads.
LEMMA MainAndIdle == Main \in Thread /\ Idle \in Thread /\ Main # Idle
  BY ThreadsAssumption

\* What the inductive invariant says of the running thread.
LEMMA RunningThread ==
  ASSUME TypeOK, ListInv
  PROVE  /\ running \in Thread /\ status[running] = "running"
         /\ running \notin Listed(ready_list)
         /\ \A s \in Semaphore : running \notin Listed(waiters[s])
         /\ \A s \in Semaphore : Idle \notin Listed(waiters[s])
         /\ Listed(ready_list) \subseteq Thread
         /\ \A s \in Semaphore : Listed(waiters[s]) \subseteq Thread
         /\ \A u \in Thread : pc[u] = "unblock" => arg[u] # running
  <1>1. running \in Thread /\ status[running] = "running"
    BY DEF TypeOK, ListInv, ElemExclusive
  <1>2. /\ running \notin Listed(ready_list)
        /\ \A s \in Semaphore : running \notin Listed(waiters[s])
    BY <1>1 DEF ListInv, ElemExclusive
  <1>3. \A s \in Semaphore : Idle \notin Listed(waiters[s])
    BY DEF ListInv, WaitOK, IdleOK, InDown, IdlePc
  <1>4. /\ Listed(ready_list) \subseteq Thread
        /\ \A s \in Semaphore : Listed(waiters[s]) \subseteq Thread
    BY ListedType DEF TypeOK
  <1>5. \A u \in Thread : pc[u] = "unblock" => arg[u] # running
    BY <1>1 DEF ListInv, CreateOK
  <1>6. QED
    BY <1>1, <1>2, <1>3, <1>4, <1>5

\* A step that leaves every list alone.
LEMMA QuietStep ==
  ASSUME TypeOK, ListInv, Moves(running),
         UNCHANGED <<status, running, ready_list, waiters, idle_thread>>
  PROVE  ListInv'
  <1>1. CreateOK'
    BY RunningThread, SMTT(60) DEF ListInv, CreateOK, Moves
  <1>2. IdleOK'
    BY RunningThread, ThreadsAssumption DEF ListInv, IdleOK, IdlePc, Moves
  <1>3. WaitOK'
    BY RunningThread DEF ListInv, WaitOK, SemaOf, Moves
  <1>4. ElemExclusive'
    BY DEF ListInv, ElemExclusive
  <1>5. NoThreadLost'
    BY RunningThread, SMTT(60) DEF ListInv, NoThreadLost, Moves
  <1>6. QED
    BY <1>1, <1>2, <1>3, <1>4, <1>5 DEF ListInv

\* What thread_block, thread_yield and thread_exit do: the running thread gets
\* the status new, the run queue rl is what is left to schedule.
LEMMA SwitchEffect ==
  ASSUME TypeOK, ListInv, NEW new \in Status \ {"running"}, NEW rl,
         \/ rl = ready_list
         \/ rl = Append(ready_list, running) /\ new = "ready",
         schedule([status EXCEPT ![running] = new], rl)
  PROVE  /\ running' \in Thread
         /\ ready_list' \in Seq(Thread)
         /\ NoDuplicates(ready_list')
         /\ Listed(ready_list') = Listed(rl) \ {running'}
         /\ status' \in [Thread -> Status]
         /\ \A u \in Thread : status'[u] = IF u = running' THEN "running"
                                           ELSE IF u = running THEN new ELSE status[u]
         /\ \/ running' \in Listed(ready_list) /\ status[running'] = "ready"
            \/ running' = running /\ rl # ready_list
            \/ running' = Idle /\ idle_thread = Idle /\ Listed(rl) = {}
         /\ thread_ticks' \in 0 .. TIME_SLICE
  <1>1. /\ status \in [Thread -> Status]
        /\ ready_list \in Seq(Thread)
        /\ idle_thread \in {Idle, NoThread}
        /\ [status EXCEPT ![running] = new] \in [Thread -> Status]
    BY DEF TypeOK
  <1>2. /\ rl \in Seq(Thread) /\ NoDuplicates(rl)
        /\ rl # ready_list => Listed(rl) = Listed(ready_list) \cup {running}
    <2>1. NoDuplicates(ready_list) /\ running \notin Listed(ready_list) /\ running \in Thread
      BY RunningThread DEF ListInv, ElemExclusive
    <2>2. CASE rl = ready_list
      BY <1>1, <2>1, <2>2
    <2>3. CASE rl = Append(ready_list, running)
      BY <1>1, <2>1, <2>3, PushBack
    <2>4. QED
      BY <2>2, <2>3
  <1>3. /\ running' \in Thread
        /\ status' = [[status EXCEPT ![running] = new] EXCEPT ![running'] = "running"]
        /\ ready_list' \in Seq(Thread)
        /\ NoDuplicates(ready_list')
        /\ Listed(ready_list') = Listed(rl) \ {running'}
        /\ \/ running' \in Listed(rl)
           \/ rl = << >> /\ Listed(rl) = {} /\ running' = Idle /\ idle_thread = Idle
        /\ status' \in [Thread -> Status]
        /\ thread_ticks' \in 0 .. TIME_SLICE
    BY <1>1, <1>2, ScheduleEffect
  <1>4. \A u \in Thread : status'[u] = IF u = running' THEN "running"
                                       ELSE IF u = running THEN new ELSE status[u]
    BY <1>1, <1>3
  <1>5. \/ running' \in Listed(ready_list) /\ status[running'] = "ready"
        \/ running' = running /\ rl # ready_list
        \/ running' = Idle /\ idle_thread = Idle /\ Listed(rl) = {}
    BY <1>2, <1>3 DEF ListInv, ElemExclusive
  <1>6. QED
    BY <1>3, <1>4, <1>5

\* The running thread goes to sleep on s: it is in no list but the wait list
\* it is put on.
LEMMA SleepStep ==
  ASSUME TypeOK, ListInv, NEW t \in Thread, t = running, NEW s \in Semaphore,
         Moves(t), pc'[t] \in InDown, SemaOf(t)' = s,
         waiters' = [waiters EXCEPT ![s] = Append(@, t)],
         thread_block(t),
         UNCHANGED idle_thread
  PROVE  ListInv'
  <1> DEFINE Went == /\ running' \in Thread
                     /\ NoDuplicates(ready_list')
                     /\ Listed(ready_list') = Listed(ready_list) \ {running'}
                     /\ \A u \in Thread :
                          status'[u] = IF u = running' THEN "running"
                                       ELSE IF u = t THEN "blocked" ELSE status[u]
                     /\ \/ running' \in Listed(ready_list) /\ status[running'] = "ready"
                        \/ running' = Idle /\ idle_thread = Idle
                     /\ t # Idle
                     /\ t # running'
             Lists == /\ \A r \in Semaphore \ {s} : waiters'[r] = waiters[r]
                      /\ Listed(waiters'[s]) = Listed(waiters[s]) \cup {t}
                      /\ NoDuplicates(waiters'[s])
  <1>1. Went
    <2>1. t # Idle
      BY ThreadsAssumption DEF ListInv, IdleOK, IdlePc, InDown, Moves, ElemExclusive
    <2>2. QED
      BY <2>1, SwitchEffect, RunningThread DEF thread_block, Status
  <1>2. Lists
    <2>1. t \notin Listed(waiters[s]) /\ NoDuplicates(waiters[s])
      BY RunningThread DEF ListInv, ElemExclusive
    <2>2. QED
      BY <2>1, PushBack, SMTT(60) DEF TypeOK
  <1> HIDE DEF Went, Lists
  <1>3. CreateOK'
    BY <1>1, RunningThread, SMTT(60) DEF Went, ListInv, CreateOK, Moves, InDown
  <1>4. IdleOK'
    BY <1>1, RunningThread, ThreadsAssumption DEF Went, ListInv, IdleOK, IdlePc, Moves
  <1>5. WaitOK'
    BY <1>2, RunningThread, SMTT(60) DEF Lists, ListInv, WaitOK, SemaOf, Moves
  <1>6. ElemExclusive'
    <2>1. /\ \A u \in Thread : status'[u] = "running" <=> u = running'
          /\ NoDuplicates(ready_list')
          /\ \A u \in Listed(ready_list') : status'[u] = "ready"
      BY <1>1, RunningThread, SMTT(60) DEF Went, ListInv, ElemExclusive
    <2>2. \A r \in Semaphore : NoDuplicates(waiters'[r])
      BY <1>2 DEF Lists, ListInv, ElemExclusive
    <2>3. \A r \in Semaphore : \A u \in Listed(waiters'[r]) : status'[u] = "blocked"
      BY <1>1, <1>2, RunningThread, SMTT(60) DEF Went, Lists, ListInv, ElemExclusive
    <2>4. \A r, q \in Semaphore : \A u \in Listed(waiters'[r]) :
            u \in Listed(waiters'[q]) => q = r
      BY <1>2, RunningThread, SMTT(60) DEF Lists, ListInv, ElemExclusive
    <2>5. QED
      BY <2>1, <2>2, <2>3, <2>4 DEF ElemExclusive
  <1>7. NoThreadLost'
    BY <1>1, <1>2, RunningThread, SMTT(60) DEF Went, Lists, ListInv, NoThreadLost, Moves, InDown
  <1>8. QED
    BY <1>3, <1>4, <1>5, <1>6, <1>7 DEF ListInv

\* The running thread is switched away from without going to sleep on a
\* semaphore: it yields, or exits, or is the idle thread and blocks.
LEMMA SwitchStep ==
  ASSUME TypeOK, ListInv, NEW t \in Thread, t = running, Moves(t),
         NEW new \in Status \ {"running"}, NEW rl,
         \/ rl = ready_list
         \/ rl = Append(ready_list, t) /\ new = "ready",
         schedule([status EXCEPT ![t] = new], rl),
         \/ new = "ready" /\ (t = idle_thread <=> rl = ready_list)
         \/ new = "blocked" /\ t = idle_thread
         \/ new = "none" /\ t # Main /\ pc'[t] = "user"
         \/ new = "dying",
         UNCHANGED <<waiters, idle_thread>>
  PROVE  ListInv'
  <1> DEFINE Went == /\ running' \in Thread
                     /\ NoDuplicates(ready_list')
                     /\ Listed(ready_list') = Listed(rl) \ {running'}
                     /\ \A u \in Thread :
                          status'[u] = IF u = running' THEN "running"
                                       ELSE IF u = t THEN new ELSE status[u]
                     /\ \/ running' \in Listed(ready_list) /\ status[running'] = "ready"
                        \/ running' = t
                        \/ running' = Idle /\ idle_thread = Idle
                     /\ Listed(rl) = IF rl = ready_list THEN Listed(ready_list)
                                     ELSE Listed(ready_list) \cup {t}
                     /\ running' # t => status[running'] # "blocked" \/ running' = Idle
  <1>1. Went
    <2>1. Listed(rl) = IF rl = ready_list THEN Listed(ready_list)
                       ELSE Listed(ready_list) \cup {t}
      <3>1. ready_list \in Seq(Thread)
        BY DEF TypeOK
      <3>2. Listed(Append(ready_list, t)) = Listed(ready_list) \cup {t}
        BY <3>1, PushBack, SMTT(60)
      <3>3. QED
        BY <3>2
    <2>2. /\ schedule([status EXCEPT ![running] = new], rl)
          /\ \/ rl = ready_list
             \/ rl = Append(ready_list, running) /\ new = "ready"
      OBVIOUS
    <2>3. /\ running' \in Thread
          /\ NoDuplicates(ready_list')
          /\ Listed(ready_list') = Listed(rl) \ {running'}
          /\ \A u \in Thread : status'[u] = IF u = running' THEN "running"
                                            ELSE IF u = running THEN new ELSE status[u]
          /\ \/ running' \in Listed(ready_list) /\ status[running'] = "ready"
             \/ running' = running
             \/ running' = Idle /\ idle_thread = Idle
      BY ONLY TypeOK, ListInv, new \in Status \ {"running"}, <2>2, SwitchEffect
    <2>4. QED
      BY <2>1, <2>3
  <1> HIDE DEF Went
  <1>2. CreateOK'
    BY <1>1, RunningThread, SMTT(60) DEF Went, ListInv, CreateOK, Moves
  <1>3. IdleOK'
    BY <1>1, RunningThread, ThreadsAssumption, SMTT(60) DEF Went, ListInv, IdleOK, IdlePc, Moves
  <1>4. WaitOK'
    BY RunningThread, SMTT(60) DEF ListInv, WaitOK, SemaOf, Moves
  <1>5. ElemExclusive'
    <2>1. /\ \A u \in Thread : status'[u] = "running" <=> u = running'
          /\ NoDuplicates(ready_list')
      BY <1>1, RunningThread, SMTT(60) DEF Went, ListInv, ElemExclusive
    <2>2. \A u \in Listed(ready_list') : status'[u] = "ready"
      BY <1>1, RunningThread, SMTT(60) DEF Went, ListInv, ElemExclusive
    <2>3. \A r \in Semaphore : \A u \in Listed(waiters[r]) : status'[u] = "blocked"
      BY <1>1, RunningThread, SMTT(60) DEF Went, ListInv, ElemExclusive
    <2>4. QED
      BY <2>1, <2>2, <2>3 DEF ListInv, ElemExclusive
  <1>6. NoThreadLost'
    BY <1>1, RunningThread, SMTT(60) DEF Went, ListInv, NoThreadLost, Moves
  <1>7. QED
    BY <1>2, <1>3, <1>4, <1>5, <1>6 DEF ListInv

\* The blocked thread w moves to the run queue, from a wait list or from the
\* hands of its creator.
LEMMA RequeueStep ==
  ASSUME TypeOK, ListInv, NEW w \in Thread, w # Idle, status[w] = "blocked",
         \A u \in Thread \ {running} : pc[u] = "unblock" => arg[u] # w,
         \A u \in Thread \ {running} : pc'[u] = pc[u] /\ arg'[u] = arg[u],
         \/ /\ pc'[running] = pc[running] /\ arg'[running] = arg[running]
            /\ pc[running] = "unblock" => arg[running] # w
         \/ /\ pc[running] = "unblock" => arg[running] = w
            /\ pc[running] \notin {"boot", "idle_init"}
            /\ pc'[running] \notin {"boot", "boot_wait", "unblock", "idle_init"}
            /\ pc[running] \in IdlePc <=> pc'[running] \in IdlePc,
         \A u \in Thread : status'[u] = IF u = w THEN "ready" ELSE status[u],
         NoDuplicates(ready_list'),
         Listed(ready_list') = Listed(ready_list) \cup {w},
         \A r \in Semaphore : /\ NoDuplicates(waiters'[r])
                              /\ Listed(waiters'[r]) = Listed(waiters[r]) \ {w},
         UNCHANGED <<running, idle_thread>>
  PROVE  ListInv'
  <1>1. CreateOK'
    BY RunningThread, SMTT(60) DEF ListInv, CreateOK
  <1>2. IdleOK'
    BY RunningThread, MainAndIdle DEF ListInv, IdleOK, IdlePc
  <1>3. WaitOK'
    BY RunningThread, SMTT(60) DEF ListInv, WaitOK, SemaOf
  <1>4. ElemExclusive'
    <2>1. /\ \A u \in Thread : status'[u] = "running" <=> u = running'
          /\ \A u \in Listed(ready_list') : status'[u] = "ready"
      BY RunningThread, SMTT(60) DEF ListInv, ElemExclusive
    <2>2. \A r \in Semaphore : \A u \in Listed(waiters'[r]) : status'[u] = "blocked"
      BY RunningThread, SMTT(60) DEF ListInv, ElemExclusive
    <2>3. \A r, q \in Semaphore : \A u \in Listed(waiters'[r]) :
            u \in Listed(waiters'[q]) => q = r
      BY SMTT(60) DEF ListInv, ElemExclusive
    <2>4. QED
      BY <2>1, <2>2, <2>3 DEF ElemExclusive
  <1>5. NoThreadLost'
    <2>1. \A u \in Thread \ {idle_thread} :
            status'[u] = "ready" => u \in Listed(ready_list')
      BY DEF ListInv, NoThreadLost
    <2>2. ASSUME NEW u \in Thread \ {idle_thread}, status'[u] = "blocked"
          PROVE  \/ \E r \in Semaphore : u \in Listed(waiters'[r])
                 \/ \E x \in Thread : pc'[x] = "unblock" /\ arg'[x] = u
      BY <2>2, SMTT(60) DEF ListInv, NoThreadLost
    <2>3. idle_thread \notin Listed(ready_list')
      BY ThreadsAssumption, SMTT(60) DEF ListInv, NoThreadLost, TypeOK
    <2>4. QED
      BY <2>1, <2>2, <2>3 DEF NoThreadLost
  <1>6. QED
    BY <1>1, <1>2, <1>3, <1>4, <1>5 DEF ListInv

\* sema_up: the first thread of the wait list of s, if there is one, leaves it
\* for the run queue.
LEMMA SemaUpStep ==
  ASSUME TypeOK, ListInv, Moves(running), NEW s \in Semaphore, sema_up(s)
  PROVE  ListInv'
  <1>1. CASE waiters[s] = << >>
    <2>1. UNCHANGED <<status, running, ready_list, waiters, idle_thread>>
      BY <1>1 DEF sema_up, sched
    <2>2. QED
      BY <2>1, QuietStep
  <1>2. CASE waiters[s] # << >>
    <2>1. PICK w : w = Head(waiters[s])
      OBVIOUS
    <2>2. /\ waiters \in [Semaphore -> Seq(Thread)] /\ ready_list \in Seq(Thread)
          /\ status \in [Thread -> Status]
          /\ \A r \in Semaphore : NoDuplicates(waiters[r])
          /\ NoDuplicates(ready_list)
      BY DEF TypeOK, ListInv, ElemExclusive
    <2>3. /\ w \in Thread /\ w \in Listed(waiters[s])
          /\ NoDuplicates(Tail(waiters[s]))
          /\ Listed(Tail(waiters[s])) = Listed(waiters[s]) \ {w}
      BY <1>2, <2>1, <2>2, PopFront
    <2>4. /\ w # Idle /\ status[w] = "blocked" /\ w \notin Listed(ready_list)
          /\ pc[w] \in InDown
      BY <2>3, RunningThread, SMTT(60) DEF ListInv, ElemExclusive, WaitOK
    <2>5. \A u \in Thread : pc[u] = "unblock" => arg[u] # w
      BY <2>4 DEF ListInv, CreateOK, InDown
    <2>6. /\ status' = [status EXCEPT ![w] = "ready"]
          /\ ready_list' = Append(ready_list, w)
          /\ waiters' = [waiters EXCEPT ![s] = Tail(@)]
          /\ UNCHANGED <<running, idle_thread>>
      BY <1>2, <2>1 DEF sema_up, thread_unblock
    <2>7. /\ NoDuplicates(ready_list')
          /\ Listed(ready_list') = Listed(ready_list) \cup {w}
      BY <2>2, <2>3, <2>4, <2>6, PushBack, SMTT(60)
    <2>8. \A r \in Semaphore : /\ NoDuplicates(waiters'[r])
                               /\ Listed(waiters'[r]) = Listed(waiters[r]) \ {w}
      BY <2>2, <2>3, <2>6, SMTT(60) DEF ListInv, ElemExclusive
    <2>9. \A u \in Thread : status'[u] = IF u = w THEN "ready" ELSE status[u]
      BY <2>2, <2>6
    <2>10. QED
      BY <2>3, <2>4, <2>5, <2>6, <2>7, <2>8, <2>9, RunningThread, RequeueStep DEF Moves
  <1>3. QED
    BY <1>1, <1>2

\* sema_up keeps the types of the state it changes.
LEMMA SemaUpType ==
  ASSUME TypeOK, NEW s \in Semaphore, sema_up(s)
  PROVE  /\ status' \in [Thread -> Status] /\ running' = running
         /\ ready_list' \in Seq(Thread) /\ thread_ticks' = thread_ticks
         /\ idle_thread' = idle_thread /\ value' \in [Semaphore -> Nat]
         /\ waiters' \in [Semaphore -> Seq(Thread)]
  <1>1. CASE waiters[s] = << >>
    BY <1>1, SMTT(60) DEF sema_up, sched, TypeOK
  <1>2. CASE waiters[s] # << >>
    <2>1. /\ waiters \in [Semaphore -> Seq(Thread)] /\ ready_list \in Seq(Thread)
          /\ status \in [Thread -> Status] /\ value \in [Semaphore -> Nat]
      BY DEF TypeOK
    <2>2. Head(waiters[s]) \in Thread /\ Tail(waiters[s]) \in Seq(Thread)
      BY <1>2, <2>1, PopFront
    <2>3. /\ value' = [value EXCEPT ![s] = @ + 1]
          /\ waiters' = [waiters EXCEPT ![s] = Tail(@)]
          /\ status' = [status EXCEPT ![Head(waiters[s])] = "ready"]
          /\ ready_list' = Append(ready_list, Head(waiters[s]))
          /\ UNCHANGED <<running, thread_ticks, idle_thread>>
      BY <1>2 DEF sema_up, thread_unblock
    <2>4. QED
      BY <2>1, <2>2, <2>3, PushBack, SMTT(60) DEF Status
  <1>3. QED
    BY <1>1, <1>2

Arg == Sema \cup Lock \cup Cond \cup Thread \cup {NoThread}

\* One turn of sema_down's loop: the running thread sleeps or takes s.
LEMMA SemaDownStep ==
  ASSUME TypeOK, ListInv, NEW t \in Thread, t = running, NEW s \in Semaphore,
         NEW asleep \in InDown, NEW done \in {"user", "lock_set", "lock_enter"},
         pc[t] \in InDown \cup {"user", "boot_wait", "lock_enter", "cond_enter"},
         sema_down(t, s, asleep, done),
         arg' \in [Thread -> Arg],
         \A u \in Thread \ {t} : arg'[u] = arg[u],
         s = IF asleep = "cond_down" THEN t ELSE arg'[t],
         UNCHANGED cond_waiters
  PROVE  TypeOK' /\ ListInv'
  <1>1. UNCHANGED <<idle_thread, holder>>
    BY DEF sema_down
  <1>2. CASE value[s] = 0
    <2>1. /\ waiters' = [waiters EXCEPT ![s] = Append(@, t)]
          /\ pc' = [pc EXCEPT ![t] = asleep]
          /\ thread_block(t)
          /\ UNCHANGED value
      BY <1>2, SMTT(60) DEF sema_down
    <2>2. pc'[t] = asleep /\ pc' \in [Thread -> Pc] /\ \A u \in Thread \ {t} : pc'[u] = pc[u]
      BY <2>1 DEF TypeOK, Pc
    <2>3. Moves(t)
      BY <2>2 DEF Moves, InDown, IdlePc
    <2>4. SemaOf(t)' = s
      BY <2>2 DEF SemaOf
    <2>5. waiters' \in [Semaphore -> Seq(Thread)]
      BY <2>1, PushBack DEF TypeOK
    <2>6. /\ running' \in Thread /\ ready_list' \in Seq(Thread)
          /\ status' \in [Thread -> Status] /\ thread_ticks' \in 0 .. TIME_SLICE
      BY <2>1, SwitchEffect DEF thread_block, Status
    <2>7. TypeOK'
      BY <1>1, <2>1, <2>2, <2>5, <2>6 DEF TypeOK, Arg
    <2>8. ListInv'
      BY <1>1, <2>1, <2>2, <2>3, <2>4, SleepStep
    <2>9. QED
      BY <2>7, <2>8
  <1>3. CASE value[s] > 0
    <2>1. /\ value' = [value EXCEPT ![s] = @ - 1]
          /\ pc' = [pc EXCEPT ![t] = done]
          /\ UNCHANGED <<waiters, sched>>
      BY <1>3, SMTT(60) DEF sema_down
    <2>2. pc'[t] = done /\ pc' \in [Thread -> Pc] /\ \A u \in Thread \ {t} : pc'[u] = pc[u]
      BY <2>1 DEF TypeOK, Pc
    <2>3. Moves(t)
      BY <2>2 DEF Moves, InDown, IdlePc
    <2>4. value' \in [Semaphore -> Nat]
      BY <1>3, <2>1, SMTT(60) DEF TypeOK
    <2>5. TypeOK'
      BY <1>1, <2>1, <2>2, <2>4 DEF TypeOK, Arg, sched
    <2>6. ListInv'
      BY <1>1, <2>1, <2>3, QuietStep DEF sched
    <2>7. QED
      BY <2>5, <2>6
  <1>4. value[s] \in Nat
    BY DEF TypeOK
  <1>5. QED
    BY <1>2, <1>3, <1>4, SMTT(60)

-----------------------------------------------------------------------------
(* The steps of the locks                                                   *)

\* The places of lock_acquire and lock_release that are inside the lock.
Critical == {"lock_set", "lock_up", "cond_up"}

LockInv == ArgOK /\ LockExclusion

\* Only t moves.
Others(t) == \A u \in Thread \ {t} : pc'[u] = pc[u] /\ arg'[u] = arg[u]

\* A step in which no thread enters or leaves a lock.
LEMMA NoLockStep ==
  ASSUME LockInv, NEW t \in Thread, Others(t), holder' = holder,
         \A l \in Lock : value'[l] = value[l],
         \/ pc'[t] = pc[t] /\ arg'[t] = arg[t]
         \/ pc[t] \notin Critical /\ pc'[t] \notin Critical /\ ArgAt(t)'
  PROVE  LockInv'
  <1>1. ArgOK'
    BY SMTT(60) DEF LockInv, ArgOK, ArgAt, Others
  <1>2. \A l \in Lock : Inside(l)' = Inside(l)
    BY DEF Inside, Others, Critical
  <1>3. LockExclusion'
    BY <1>2 DEF LockInv, LockExclusion
  <1>4. QED
    BY <1>1, <1>3 DEF LockInv

\* The running thread takes the semaphore of lock l: nobody was inside.
LEMMA EnterStep ==
  ASSUME TypeOK, LockInv, NEW t \in Thread, NEW l \in Lock, Others(t),
         holder[l] # t, pc[t] \notin Critical,
         value[l] > 0, value' = [value EXCEPT ![l] = @ - 1],
         pc'[t] = "lock_set", arg'[t] = l, UNCHANGED holder
  PROVE  LockInv'
  <1>1. ArgOK'
    BY DEF LockInv, ArgOK, ArgAt, Others, LockPc
  <1>2. value \in [Semaphore -> Nat] /\ l \in Semaphore /\ Lock \subseteq Semaphore
    BY DEF TypeOK, Semaphore
  <1>3. value[l] = 1 /\ Inside(l) = {} /\ value'[l] = 0
    BY <1>2, SMTT(60) DEF LockInv, LockExclusion
  <1>4. Inside(l)' = {t}
    BY <1>3, SMTT(60) DEF Inside, Others, Critical
  <1>5. \A k \in Lock \ {l} : Inside(k)' = Inside(k) /\ value'[k] = value[k]
    BY <1>2 DEF Inside, Others, Critical
  <1>6. LockExclusion'
    BY <1>3, <1>4, <1>5, SMTT(60) DEF LockInv, LockExclusion
  <1>7. QED
    BY <1>1, <1>6 DEF LockInv

\* The running thread ups the semaphore of lock l: it was the one inside.
LEMMA LeaveStep ==
  ASSUME TypeOK, LockInv, NEW t \in Thread, NEW l \in Lock, Others(t),
         pc[t] \in {"lock_up", "cond_up"}, arg[t] = l,
         value' = [value EXCEPT ![l] = @ + 1],
         pc'[t] \notin Critical, ArgAt(t)', UNCHANGED holder
  PROVE  LockInv'
  <1>1. ArgOK'
    BY DEF LockInv, ArgOK, ArgAt, Others
  <1>2. value \in [Semaphore -> Nat] /\ l \in Semaphore /\ Lock \subseteq Semaphore
    BY DEF TypeOK, Semaphore
  <1>3. t \in Inside(l) /\ holder[l] # t
    BY DEF Inside, LockInv, ArgOK, ArgAt, LockPc
  <1>4. value[l] = 0 /\ Inside(l) = {t} /\ value'[l] = 1
    BY <1>2, <1>3, SMTT(60) DEF LockInv, LockExclusion
  <1>5. Inside(l)' = {}
    BY <1>3, <1>4 DEF Inside, Others, Critical
  <1>6. \A k \in Lock \ {l} : Inside(k)' = Inside(k) /\ value'[k] = value[k]
    BY <1>2 DEF Inside, Others, Critical
  <1>7. LockExclusion'
    BY <1>4, <1>5, <1>6, SMTT(60) DEF LockInv, LockExclusion
  <1>8. QED
    BY <1>1, <1>7 DEF LockInv

\* The running thread, inside lock l, writes l's holder.
LEMMA HolderStep ==
  ASSUME TypeOK, LockInv, NEW t \in Thread, NEW l \in Lock, Others(t),
         \A k \in Lock : value'[k] = value[k],
         \/ /\ pc[t] = "lock_set" /\ arg[t] = l
            /\ holder' = [holder EXCEPT ![l] = t]
            /\ pc'[t] = "user"
         \/ /\ pc[t] \notin Critical /\ holder[l] = t
            /\ holder' = [holder EXCEPT ![l] = NoThread]
            /\ pc'[t] \in {"lock_up", "cond_up"} /\ arg'[t] = l
  PROVE  LockInv'
  <1>1. holder \in [Lock -> Thread \cup {NoThread}]
    BY DEF TypeOK
  <1>2. t \in Inside(l)
    BY DEF Inside
  <1>3. Inside(l) = {t}
    BY <1>2 DEF LockInv, LockExclusion
  <1>4. ArgOK'
    BY <1>1, ThreadsAssumption, SMTT(60) DEF LockInv, ArgOK, ArgAt, Others, LockPc
  <1>5. Inside(l)' = {t}
    BY <1>1, <1>3, ThreadsAssumption, SMTT(60) DEF Inside, Others, Critical
  <1>6. \A k \in Lock \ {l} : Inside(k)' = Inside(k)
    BY <1>1, SMTT(60) DEF Inside, Others, Critical
  <1>7. LockExclusion'
    BY <1>3, <1>5, <1>6, SMTT(60) DEF LockInv, LockExclusion
  <1>8. QED
    BY <1>4, <1>7 DEF LockInv

-----------------------------------------------------------------------------
(* Actions that preserve the invariant                                      *)

\* The invariant in the three parts that the lemmas are about.
LEMMA Parts == IInv <=> TypeOK /\ ListInv /\ LockInv
  BY DEF IInv, ListInv, LockInv

\* The turns of sema_down's loop on a semaphore that is not a lock's.
LEMMA SemaDownKeeps ==
  ASSUME IInv, NEW t \in Thread, t = running, NEW s \in Sema,
         pc[t] \in {"user", "boot_wait", "sema_down"},
         sema_down(t, s, "sema_down", "user"),
         arg' \in [Thread -> Arg], arg'[t] = s,
         \A u \in Thread \ {t} : arg'[u] = arg[u],
         UNCHANGED cond_waiters
  PROVE  IInv'
  <1>1. s \in Semaphore /\ TypeOK /\ ListInv /\ LockInv
    BY Parts DEF Semaphore
  <1>2. TypeOK' /\ ListInv'
    BY <1>1, SemaDownStep DEF InDown
  <1>3. /\ pc'[t] \in {"sema_down", "user"} /\ Others(t) /\ holder' = holder
        /\ \A l \in Lock : value'[l] = value[l]
    BY <1>1, ThreadsAssumption, SMTT(60) DEF sema_down, TypeOK, Others, Semaphore
  <1>4. LockInv'
    BY <1>1, <1>3, NoLockStep DEF Critical, ArgAt, LockPc
  <1>5. QED
    BY <1>2, <1>4 DEF IInv, ListInv, LockInv

\* The turns of sema_down's loop inside lock_acquire.
LEMMA LockDownKeeps ==
  ASSUME IInv, NEW t \in Thread, t = running, NEW l \in Lock,
         pc[t] \in {"user", "lock_down", "lock_enter"}, holder[l] # t,
         sema_down(t, l, "lock_down", "lock_set"),
         arg' \in [Thread -> Arg], arg'[t] = l,
         \A u \in Thread \ {t} : arg'[u] = arg[u],
         UNCHANGED cond_waiters
  PROVE  IInv'
  <1>1. l \in Semaphore /\ TypeOK /\ ListInv /\ LockInv
    BY Parts DEF Semaphore
  <1>2. TypeOK' /\ ListInv'
    BY <1>1, SemaDownStep DEF InDown
  <1>3. CASE value[l] = 0
    <2>1. /\ pc'[t] = "lock_down" /\ Others(t) /\ holder' = holder
          /\ \A k \in Lock : value'[k] = value[k]
      BY <1>1, <1>3, SMTT(60) DEF sema_down, TypeOK, Others
    <2>2. LockInv'
      BY <1>1, <2>1, NoLockStep DEF Critical, ArgAt, LockPc
    <2>3. QED
      BY <1>2, <2>2 DEF IInv, ListInv, LockInv
  <1>4. CASE value[l] > 0
    <2>1. /\ pc'[t] = "lock_set" /\ Others(t) /\ holder' = holder
          /\ value' = [value EXCEPT ![l] = @ - 1]
      BY <1>1, <1>4, SMTT(60) DEF sema_down, TypeOK, Others
    <2>2. LockInv'
      BY <1>1, <1>4, <2>1, EnterStep DEF Critical
    <2>3. QED
      BY <1>2, <2>2 DEF IInv, ListInv, LockInv
  <1>5. value[l] \in Nat
    BY <1>1 DEF TypeOK
  <1>6. QED
    BY <1>3, <1>4, <1>5, SMTT(60)

\* sema_up of a semaphore that is not a lock's, by a thread or an interrupt
\* handler.
LEMMA SemaUpKeeps ==
  ASSUME IInv, NEW s \in Sema \cup Thread, sema_up(s),
         Moves(running), pc' \in [Thread -> Pc], UNCHANGED <<holder, arg>>,
         cond_waiters' \in [Cond -> Seq(Thread)],
         \/ pc'[running] = pc[running]
         \/ /\ pc[running] \notin Critical
            /\ pc'[running] \in IdlePc
  PROVE  IInv'
  <1>1. s \in Semaphore /\ TypeOK /\ ListInv /\ LockInv /\ running \in Thread
    BY Parts DEF Semaphore, TypeOK
  <1>2. TypeOK'
    BY <1>1, SemaUpType DEF TypeOK
  <1>3. ListInv'
    BY <1>1, SemaUpStep
  <1>4. \A l \in Lock : value'[l] = value[l]
    BY <1>1, ThreadsAssumption, SMTT(60) DEF sema_up, TypeOK, Semaphore
  <1>5. PICK t \in Thread : t = running
    BY <1>1
  <1>6. Others(t)
    BY <1>5 DEF Moves, Others
  <1>7. pc'[t] = pc[t] \/ (pc[t] \notin Critical /\ pc'[t] \notin Critical /\ ArgAt(t)')
    BY <1>5 DEF Critical, IdlePc, ArgAt, LockPc
  <1>8. LockInv'
    BY <1>1, <1>4, <1>6, <1>7, NoLockStep
  <1>9. QED
    BY <1>2, <1>3, <1>8 DEF IInv, ListInv, LockInv

\* sema_up of lock l at the end of lock_release.
LEMMA LockUpKeeps ==
  ASSUME IInv, NEW t \in Thread, t = running,
         \/ pc[t] = "lock_up" /\ pc' = [pc EXCEPT ![t] = "user"]
         \/ pc[t] = "cond_up" /\ pc' = [pc EXCEPT ![t] = "cond_enter"],
         sema_up(arg[t]), UNCHANGED <<holder, cond_waiters, arg>>
  PROVE  IInv'
  <1>1. TypeOK /\ ListInv /\ LockInv
    BY Parts
  <1>2. /\ arg[t] \in Lock /\ arg[t] \in Semaphore /\ holder[arg[t]] # t
        /\ value' = [value EXCEPT ![arg[t]] = @ + 1]
    BY <1>1 DEF LockInv, ArgOK, ArgAt, LockPc, Semaphore, sema_up
  <1>3. /\ pc' \in [Thread -> Pc] /\ pc'[t] \in {"user", "cond_enter"}
        /\ Others(t) /\ Moves(t)
    BY <1>1 DEF TypeOK, Pc, Others, Moves, IdlePc
  <1>4. TypeOK'
    BY <1>1, <1>2, <1>3, SemaUpType DEF TypeOK
  <1>5. ListInv'
    BY <1>1, <1>2, <1>3, SemaUpStep
  <1>6. LockInv'
    BY <1>1, <1>2, <1>3, LeaveStep DEF Critical, ArgAt, LockPc
  <1>7. QED
    BY <1>4, <1>5, <1>6 DEF IInv, ListInv, LockInv

\* A step that leaves the semaphores and the scheduler alone.
LEMMA PcKeeps ==
  ASSUME IInv, NEW t \in Thread, t = running, Moves(t), LockInv',
         pc' \in [Thread -> Pc], arg' \in [Thread -> Arg],
         holder' \in [Lock -> Thread \cup {NoThread}],
         cond_waiters' \in [Cond -> Seq(Thread)],
         value' \in [Semaphore -> Nat],
         UNCHANGED <<sched, idle_thread, waiters>>
  PROVE  IInv'
  <1>1. TypeOK /\ ListInv
    BY Parts
  <1>2. TypeOK'
    BY <1>1 DEF TypeOK, sched, Arg
  <1>3. ListInv'
    BY <1>1, QuietStep DEF sched
  <1>4. QED
    BY <1>2, <1>3 DEF IInv, ListInv, LockInv

\* The calls of semaphores, locks and condition variables.
LEMMA SynchCallKeeps ==
  ASSUME IInv, NEW t \in Thread,
         \/ \E s \in UserSema : SemaDown(t, s) \/ sema_try_down(t, s) \/ SemaUp(t, s)
         \/ \E l \in Lock :
              lock_acquire(t, l) \/ lock_try_acquire(t, l) \/ lock_release(t, l)
         \/ \E c \in Cond :
              cond_wait(t, c) \/ cond_signal(t, c) \/ cond_broadcast(t, c)
  PROVE  IInv'
  <1> USE ThreadsAssumption
  <1>a. TypeOK /\ ListInv /\ LockInv
    BY Parts
  <1>b. /\ pc \in [Thread -> Pc] /\ arg \in [Thread -> Arg]
        /\ holder \in [Lock -> Thread \cup {NoThread}]
        /\ cond_waiters \in [Cond -> Seq(Thread)]
        /\ value \in [Semaphore -> Nat]
    BY <1>a DEF TypeOK, Arg
  <1>c. UserSema \subseteq Sema /\ Sema \subseteq Semaphore /\ Lock \subseteq Semaphore
        /\ Thread \subseteq Semaphore /\ \A x \in Sema \cup Lock \cup Cond : x \in Arg
    BY DEF UserSema, Semaphore, Arg
  <1>1. ASSUME NEW s \in UserSema, SemaDown(t, s) PROVE IInv'
    BY <1>1, <1>b, <1>c, SemaDownKeeps DEF SemaDown, At
  <1>2. ASSUME NEW s \in UserSema, sema_try_down(t, s) PROVE IInv'
    <2>1. /\ t = running /\ Moves(t) /\ Others(t) /\ value' \in [Semaphore -> Nat]
          /\ \A l \in Lock : value'[l] = value[l]
          /\ UNCHANGED <<sched, idle_thread, waiters, holder, cond_waiters, pc, arg>>
      BY <1>2, <1>b, <1>c, SMTT(60) DEF sema_try_down, At, Moves, Others
    <2>2. LockInv'
      BY <1>a, <2>1, NoLockStep
    <2>3. QED
      BY <1>b, <2>1, <2>2, PcKeeps
  <1>3. ASSUME NEW s \in UserSema, SemaUp(t, s) PROVE IInv'
    BY <1>3, <1>b, <1>c, SemaUpKeeps DEF SemaUp, At, Moves
  <1>4. ASSUME NEW l \in Lock, lock_acquire(t, l) PROVE IInv'
    BY <1>4, <1>b, <1>c, LockDownKeeps DEF lock_acquire, At
  <1>5. ASSUME NEW l \in Lock, lock_try_acquire(t, l) PROVE IInv'
    <2>1. /\ t = running /\ pc[t] = "user" /\ value' \in [Semaphore -> Nat]
          /\ pc' \in [Thread -> Pc] /\ arg' \in [Thread -> Arg]
          /\ pc'[t] = "lock_set" /\ arg'[t] = l /\ Others(t)
      BY <1>5, <1>b, <1>c, SMTT(60) DEF lock_try_acquire, At, Goto, Others, Pc
    <2>2. Moves(t)
      BY <2>1 DEF Moves, Others, IdlePc
    <2>3. LockInv'
      BY <1>5, <1>a, <2>1, EnterStep DEF lock_try_acquire, Critical
    <2>4. QED
      BY <1>5, <1>b, <2>1, <2>2, <2>3, PcKeeps DEF lock_try_acquire
  <1>6. ASSUME NEW l \in Lock, lock_release(t, l) PROVE IInv'
    <2>1. /\ t = running /\ pc[t] = "user"
          /\ holder' \in [Lock -> Thread \cup {NoThread}]
          /\ pc' \in [Thread -> Pc] /\ arg' \in [Thread -> Arg]
          /\ pc'[t] = "lock_up" /\ arg'[t] = l /\ Others(t)
          /\ UNCHANGED <<sched, idle_thread, value, waiters, cond_waiters>>
      BY <1>6, <1>b, <1>c DEF lock_release, At, Goto, Others, Pc, sema
    <2>2. Moves(t)
      BY <2>1 DEF Moves, Others, IdlePc
    <2>3. LockInv'
      BY <1>6, <1>a, <2>1, HolderStep DEF lock_release, Critical
    <2>4. QED
      BY <1>b, <2>1, <2>2, <2>3, PcKeeps
  <1>7. ASSUME NEW c \in Cond, cond_wait(t, c) PROVE IInv'
    <2>0. LockOf[c] \in Lock
      OBVIOUS
    <2>1. /\ t = running /\ pc[t] = "user" /\ value' \in [Semaphore -> Nat]
          /\ \A k \in Lock : value'[k] = value[k]
          /\ holder' \in [Lock -> Thread \cup {NoThread}]
          /\ pc' \in [Thread -> Pc] /\ arg' \in [Thread -> Arg]
          /\ pc'[t] = "cond_up" /\ arg'[t] = LockOf[c] /\ Others(t)
          /\ UNCHANGED <<sched, idle_thread, waiters>>
      BY <1>7, <1>b, <1>c, <2>0 DEF cond_wait, At, Goto, Others, Pc
    <2>2. cond_waiters' \in [Cond -> Seq(Thread)]
      BY <1>7, <1>b, PushBack DEF cond_wait
    <2>3. Moves(t)
      BY <2>1 DEF Moves, Others, IdlePc
    <2>4. LockInv'
      BY <1>7, <1>a, <2>0, <2>1, HolderStep DEF cond_wait, Critical
    <2>5. QED
      BY <2>1, <2>2, <2>3, <2>4, PcKeeps
  <1>8. ASSUME NEW c \in Cond, cond_signal(t, c) PROVE IInv'
    <2>1. /\ Head(cond_waiters[c]) \in Thread
          /\ cond_waiters' \in [Cond -> Seq(Thread)]
      BY <1>8, <1>b, PopFront, SMTT(60) DEF cond_signal, WakeFirst
    <2>2. QED
      BY <1>8, <1>b, <1>c, <2>1, SemaUpKeeps DEF cond_signal, WakeFirst, At, Moves
  <1>9. ASSUME NEW c \in Cond, cond_broadcast(t, c) PROVE IInv'
    <2>1. /\ t = running /\ pc[t] = "user"
          /\ pc' \in [Thread -> Pc] /\ arg' \in [Thread -> Arg]
          /\ pc'[t] = "broadcast" /\ arg'[t] = c /\ Others(t)
          /\ UNCHANGED <<sched, idle_thread, value, waiters, holder, cond_waiters>>
      BY <1>9, <1>b, <1>c DEF cond_broadcast, At, Goto, Others, Pc, sema
    <2>2. Moves(t)
      BY <2>1 DEF Moves, Others, IdlePc
    <2>3. LockInv'
      BY <1>a, <2>1, NoLockStep DEF Critical, ArgAt, LockPc
    <2>4. QED
      BY <1>b, <2>1, <2>2, <2>3, PcKeeps
  <1>10. QED
    BY <1>1, <1>2, <1>3, <1>4, <1>5, <1>6, <1>7, <1>8, <1>9

\* The rest of a call of a semaphore, a lock or a condition variable.
LEMMA SynchContinueKeeps ==
  ASSUME IInv, NEW t \in Thread,
         \/ SemaDownAgain(t) \/ LockDown(t) \/ LockSetHolder(t) \/ LockUp(t)
         \/ CondUp(t) \/ CondDown(t) \/ Broadcasting(t)
  PROVE  IInv'
  <1> USE ThreadsAssumption
  <1>a. TypeOK /\ ListInv /\ LockInv
    BY Parts
  <1>b. /\ pc \in [Thread -> Pc] /\ arg \in [Thread -> Arg]
        /\ holder \in [Lock -> Thread \cup {NoThread}]
        /\ cond_waiters \in [Cond -> Seq(Thread)]
        /\ value \in [Semaphore -> Nat]
    BY <1>a DEF TypeOK, Arg
  <1>c. ArgAt(t)
    BY <1>a DEF LockInv, ArgOK
  <1>1. CASE SemaDownAgain(t)
    BY <1>1, <1>b, <1>c, SemaDownKeeps DEF SemaDownAgain, At, ArgAt
  <1>2. CASE LockDown(t)
    BY <1>2, <1>b, <1>c, LockDownKeeps DEF LockDown, At, ArgAt, LockPc
  <1>3. CASE LockSetHolder(t)
    <2>1. /\ t = running /\ pc[t] = "lock_set" /\ arg[t] \in Lock
          /\ holder' = [holder EXCEPT ![arg[t]] = t]
          /\ holder' \in [Lock -> Thread \cup {NoThread}]
          /\ pc' \in [Thread -> Pc] /\ pc'[t] = "user" /\ Others(t)
          /\ UNCHANGED <<sched, idle_thread, value, waiters, cond_waiters, arg>>
      BY <1>3, <1>b, <1>c DEF LockSetHolder, At, Goto, Others, Pc, sema, ArgAt, LockPc
    <2>2. Moves(t)
      BY <2>1 DEF Moves, Others, IdlePc
    <2>3. LockInv'
      BY <1>a, <2>1, HolderStep
    <2>4. QED
      BY <1>b, <2>1, <2>2, <2>3, PcKeeps
  <1>4. CASE LockUp(t)
    BY <1>4, LockUpKeeps DEF LockUp, At, Goto
  <1>5. CASE CondUp(t)
    BY <1>5, LockUpKeeps DEF CondUp, At, Goto
  <1>6. CASE CondDown(t)
    <2>1. /\ t = running /\ pc[t] \in {"cond_enter", "cond_down"}
          /\ sema_down(t, t, "cond_down", "lock_enter") /\ UNCHANGED <<arg, cond_waiters>>
      BY <1>6 DEF CondDown, At
    <2>2. t \in Semaphore
      BY DEF Semaphore
    <2>3. TypeOK' /\ ListInv'
      BY <1>a, <1>b, <2>1, <2>2, SemaDownStep DEF InDown
    <2>4. /\ pc'[t] \in {"cond_down", "lock_enter"} /\ Others(t) /\ holder' = holder
          /\ \A l \in Lock : value'[l] = value[l]
      BY <1>b, <2>1, <2>2, SMTT(60) DEF sema_down, Others, Semaphore
    <2>5. LockInv'
      BY <1>a, <1>c, <2>1, <2>4, NoLockStep DEF Critical, ArgAt, LockPc
    <2>6. QED
      BY <2>3, <2>5 DEF IInv, ListInv, LockInv
  <1>7. CASE Broadcasting(t)
    <2>0. t = running /\ pc[t] = "broadcast" /\ arg[t] \in Cond /\ UNCHANGED <<holder, arg>>
      BY <1>7, <1>c DEF Broadcasting, At, ArgAt
    <2>1. CASE cond_waiters[arg[t]] # << >>
      <3>1. WakeFirst(arg[t]) /\ UNCHANGED pc
        BY <1>7, <2>1 DEF Broadcasting
      <3>2. /\ Head(cond_waiters[arg[t]]) \in Thread
            /\ cond_waiters' \in [Cond -> Seq(Thread)]
        BY <1>b, <2>0, <2>1, <3>1, PopFront, SMTT(60) DEF WakeFirst
      <3>3. QED
        BY <1>b, <2>0, <3>1, <3>2, SemaUpKeeps DEF WakeFirst, Moves
    <2>2. CASE cond_waiters[arg[t]] = << >>
      <3>1. /\ pc' \in [Thread -> Pc] /\ pc'[t] = "user" /\ Others(t)
            /\ UNCHANGED <<sched, idle_thread, value, waiters, cond_waiters>>
        BY <1>7, <1>b, <2>0, <2>2 DEF Broadcasting, Goto, Others, Pc, sema
      <3>2. Moves(t)
        BY <2>0, <3>1 DEF Moves, Others, IdlePc
      <3>3. LockInv'
        BY <1>a, <2>0, <3>1, NoLockStep DEF Critical, ArgAt, LockPc
      <3>4. QED
        BY <1>b, <2>0, <3>1, <3>2, <3>3, PcKeeps
    <2>3. QED
      BY <2>1, <2>2
  <1>8. QED
    BY <1>1, <1>2, <1>3, <1>4, <1>5, <1>6, <1>7

\* A switch that leaves the locks alone: thread_yield, thread_exit and the
\* idle thread's thread_block.
LEMMA SwitchKeeps ==
  ASSUME IInv, NEW t \in Thread, t = running, Moves(t), UNCHANGED arg,
         pc' \in [Thread -> Pc],
         pc'[t] = pc[t] \/ (pc[t] \in IdlePc /\ pc'[t] \in IdlePc),
         NEW new \in Status \ {"running"}, NEW rl,
         \/ rl = ready_list
         \/ rl = Append(ready_list, t) /\ new = "ready",
         schedule([status EXCEPT ![t] = new], rl),
         \/ new = "ready" /\ (t = idle_thread <=> rl = ready_list)
         \/ new = "blocked" /\ t = idle_thread
         \/ new = "none" /\ t # Main /\ pc'[t] = "user"
         \/ new = "dying",
         UNCHANGED <<idle_thread, sema, holder, cond_waiters>>
  PROVE  IInv'
  <1>1. TypeOK /\ ListInv /\ LockInv /\ UNCHANGED <<value, waiters>>
    BY Parts DEF sema
  <1>2. ListInv'
    BY <1>1, SwitchStep
  <1>3. /\ running' \in Thread /\ ready_list' \in Seq(Thread)
        /\ status' \in [Thread -> Status] /\ thread_ticks' \in 0 .. TIME_SLICE
    BY <1>1, SwitchEffect
  <1>4. TypeOK'
    BY <1>1, <1>3 DEF TypeOK
  <1>5. Others(t)
    BY DEF Moves, Others
  <1>6. LockInv'
    BY <1>1, <1>5, NoLockStep DEF Critical, IdlePc, ArgAt, LockPc
  <1>7. QED
    BY <1>2, <1>4, <1>6 DEF IInv, ListInv, LockInv

\* thread_yield, called by a thread or on the return path of the timer
\* interrupt.
LEMMA YieldKeeps ==
  ASSUME IInv, NEW t \in Thread, t = running, Moves(t), UNCHANGED arg,
         pc' \in [Thread -> Pc],
         pc'[t] = pc[t] \/ (pc[t] \in IdlePc /\ pc'[t] \in IdlePc),
         thread_yield(t),
         UNCHANGED <<idle_thread, sema, holder, cond_waiters>>
  PROVE  IInv'
  <1>1. ready_list \in Seq(Thread)
    BY DEF IInv, TypeOK
  <1>2. Append(ready_list, t) # ready_list
    <2>1. Len(Append(ready_list, t)) = Len(ready_list) + 1 /\ Len(ready_list) \in Nat
      BY <1>1, SMTT(60)
    <2>2. QED
      BY <2>1, SMTT(60)
  <1>3. CASE t = idle_thread
    <2>1. schedule([status EXCEPT ![t] = "ready"], ready_list)
      BY <1>3 DEF thread_yield
    <2>2. QED
      BY <1>3, <2>1, SwitchKeeps DEF Status
  <1>4. CASE t # idle_thread
    <2>1. schedule([status EXCEPT ![t] = "ready"], Append(ready_list, t))
      BY <1>4 DEF thread_yield
    <2>2. QED
      BY <1>2, <1>4, <2>1, SwitchKeeps DEF Status
  <1>5. QED
    BY <1>3, <1>4

\* thread_create: the new thread is in nobody's list until it is unblocked.
LEMMA CreateKeeps ==
  ASSUME IInv, NEW t \in Thread, NEW x \in Thread \ {Idle}, thread_create(t, x)
  PROVE  IInv'
  <1>a. TypeOK /\ ListInv /\ LockInv
    BY Parts
  <1>b. /\ t = running /\ pc[t] = "user" /\ status[t] = "running"
        /\ status[x] = "none" /\ pc[x] = "user" /\ x # t
    BY <1>a, RunningThread DEF thread_create, At, ListInv, IdleOK
  <1>c. \A u \in Thread : status'[u] = IF u = x THEN "blocked" ELSE status[u]
    BY <1>a DEF thread_create, TypeOK
  <1>d. \A u \in Thread : pc'[u] = IF u = t THEN "unblock" ELSE pc[u]
    BY <1>a, <1>b DEF thread_create, TypeOK
  <1>e. \A u \in Thread : arg'[u] = IF u = t THEN x ELSE IF u = x THEN NoThread ELSE arg[u]
    BY <1>a, <1>b DEF thread_create, TypeOK
  <1>f. UNCHANGED <<running, ready_list, thread_ticks, idle_thread, value, waiters,
                    holder, cond_waiters>>
    BY DEF thread_create, sema
  <1>g. /\ Listed(ready_list) \subseteq Thread
        /\ \A s \in Semaphore : Listed(waiters[s]) \subseteq Thread
    BY <1>a, RunningThread
  <1>1. TypeOK'
    BY <1>a, <1>f DEF thread_create, TypeOK, Status, Pc
  <1>2. CreateOK'
    BY <1>a, <1>b, <1>c, <1>d, <1>e, SMTT(60) DEF ListInv, CreateOK
  <1>3. IdleOK'
    BY <1>a, <1>b, <1>c, <1>d, <1>f, MainAndIdle DEF ListInv, IdleOK, IdlePc
  <1>4. WaitOK'
    <2>1. SUFFICES ASSUME NEW s \in Semaphore, NEW u \in Listed(waiters[s])
                   PROVE  u # x /\ u # t
      BY <1>a, <1>d, <1>e, <1>f, <1>g, SMTT(60) DEF ListInv, WaitOK, SemaOf, InDown
    <2>2. QED
      BY <1>a, <1>b DEF ListInv, ElemExclusive
  <1>5. ElemExclusive'
    <2>1. \A u \in Thread : status'[u] = "running" <=> u = running'
      BY <1>a, <1>b, <1>c, <1>f DEF ListInv, ElemExclusive
    <2>2. /\ \A u \in Listed(ready_list) : status'[u] = "ready"
          /\ \A s \in Semaphore : \A u \in Listed(waiters[s]) : status'[u] = "blocked"
      BY <1>a, <1>b, <1>c, <1>g, SMTT(60) DEF ListInv, ElemExclusive
    <2>3. QED
      BY <1>a, <1>f, <2>1, <2>2 DEF ListInv, ElemExclusive
  <1>6. NoThreadLost'
    BY <1>a, <1>b, <1>c, <1>d, <1>e, <1>f, SMTT(60) DEF ListInv, NoThreadLost
  <1>7. ArgOK'
    BY <1>a, <1>b, <1>d, <1>e, <1>f DEF LockInv, ArgOK, ArgAt, LockPc
  <1>8. \A l \in Lock : Inside(l)' = Inside(l)
    BY <1>b, <1>d, <1>e, <1>f DEF Inside
  <1>9. LockExclusion'
    BY <1>a, <1>f, <1>8 DEF LockInv, LockExclusion
  <1>10. QED
    BY <1>1, <1>2, <1>3, <1>4, <1>5, <1>6, <1>7, <1>9 DEF IInv

\* The end of thread_create: the new thread becomes ready.
LEMMA CreateUnblockKeeps ==
  ASSUME IInv, NEW t \in Thread, CreateUnblock(t)
  PROVE  IInv'
  <1>a. TypeOK /\ ListInv /\ LockInv
    BY Parts
  <1>b. /\ t = running /\ pc[t] = "unblock"
        /\ status' = [status EXCEPT ![arg[t]] = "ready"]
        /\ ready_list' = Append(ready_list, arg[t])
        /\ UNCHANGED <<running, thread_ticks, idle_thread, value, waiters, holder,
                       cond_waiters, arg>>
        /\ pc' \in [Thread -> Pc] /\ pc'[t] = "user" /\ Others(t)
    BY <1>a DEF CreateUnblock, At, Goto, thread_unblock, sema, TypeOK, Pc, Others
  <1>c. PICK w \in Thread : w = arg[t] /\ w # Idle /\ status[w] = "blocked" /\ pc[w] = "user"
                            /\ \A u \in Thread \ {t} : pc[u] = "unblock" => arg[u] # w
    BY <1>a, <1>b, SMTT(60) DEF ListInv, CreateOK
  <1>d. w \notin Listed(ready_list) /\ \A s \in Semaphore : w \notin Listed(waiters[s])
    BY <1>a, <1>c DEF ListInv, ElemExclusive, WaitOK, InDown
  <1>e. /\ ready_list' \in Seq(Thread) /\ NoDuplicates(ready_list')
        /\ Listed(ready_list') = Listed(ready_list) \cup {w}
    BY <1>a, <1>b, <1>c, <1>d, PushBack, SMTT(60) DEF TypeOK, ListInv, ElemExclusive
  <1>f. \A u \in Thread : status'[u] = IF u = w THEN "ready" ELSE status[u]
    BY <1>a, <1>b, <1>c DEF TypeOK
  <1>1. TypeOK'
    BY <1>a, <1>b, <1>c, <1>e DEF TypeOK, Status
  <1>2. \A r \in Semaphore : /\ NoDuplicates(waiters'[r])
                             /\ Listed(waiters'[r]) = Listed(waiters[r]) \ {w}
    <2>1. waiters' = waiters /\ \A r \in Semaphore : NoDuplicates(waiters[r])
      BY <1>a, <1>b DEF ListInv, ElemExclusive
    <2>2. \A r \in Semaphore : Listed(waiters[r]) = Listed(waiters[r]) \ {w}
      BY <1>d
    <2>3. QED
      BY <2>1, <2>2
  <1>3. ListInv'
    BY <1>a, <1>b, <1>c, <1>e, <1>f, <1>2, RequeueStep DEF Others, IdlePc
  <1>4. LockInv'
    BY <1>a, <1>b, NoLockStep DEF Critical, ArgAt, LockPc
  <1>5. QED
    BY <1>1, <1>3, <1>4 DEF IInv, ListInv, LockInv

\* An interrupt handler runs on the stack of whichever thread is running.
LEMMA InterruptKeeps ==
  ASSUME IInv, TimerInterrupt \/ \E s \in UserSema : DeviceInterrupt(s)
  PROVE  IInv'
  <1>a. TypeOK /\ ListInv /\ LockInv
    BY Parts
  <1>b. PICK t \in Thread : t = running
    BY <1>a DEF TypeOK
  <1>c. ASSUME EndHlt, UNCHANGED arg
        PROVE  /\ Moves(t) /\ Others(t) /\ pc' \in [Thread -> Pc]
               /\ pc'[t] = pc[t] \/ (pc[t] \in IdlePc \ {"idle_init"} /\ pc'[t] \in IdlePc)
    BY <1>a, <1>b, <1>c DEF EndHlt, TypeOK, Pc, Moves, Others, IdlePc
  <1>1. CASE TimerInterrupt
    <2>1. EndHlt /\ UNCHANGED <<idle_thread, sema, holder, cond_waiters, arg>>
      BY <1>1 DEF TimerInterrupt
    <2>2. CASE thread_yield(running)
      BY <1>b, <1>c, <2>1, <2>2, YieldKeeps
    <2>3. CASE /\ thread_ticks + 1 < TIME_SLICE
               /\ thread_ticks' = thread_ticks + 1
               /\ UNCHANGED <<status, running, ready_list>>
      <3>1. TypeOK'
        BY <1>a, <1>c, <2>1, <2>3, ThreadsAssumption, SMTT(60) DEF TypeOK, sema
      <3>2. ListInv'
        BY <1>a, <1>b, <1>c, <2>1, <2>3, QuietStep DEF sema
      <3>3. LockInv'
        BY <1>a, <1>c, <2>1, NoLockStep DEF sema, Critical, IdlePc, ArgAt, LockPc
      <3>4. QED
        BY <3>1, <3>2, <3>3 DEF IInv, ListInv, LockInv
    <2>4. QED
      BY <1>1, <2>2, <2>3 DEF TimerInterrupt
  <1>2. ASSUME NEW s \in UserSema, DeviceInterrupt(s) PROVE IInv'
    <2>1. EndHlt /\ sema_up(s) /\ UNCHANGED <<holder, cond_waiters, arg>> /\ s \in Sema
      BY <1>2 DEF DeviceInterrupt, UserSema
    <2>2. QED
      BY <1>a, <1>b, <1>c, <2>1, SemaUpKeeps DEF TypeOK, Critical, IdlePc
  <1>3. QED
    BY <1>1, <1>2

-----------------------------------------------------------------------------
(* The theorems                                                             *)
-----------------------------------------------------------------------------
(* Wakeups                                                                  *)

\* What a step may do to one semaphore: nothing, or lower its value; leave it
\* without a unit or without a waiter; take one unit by one woken thread; or
\* add one unit and one woken thread.
SemaStep(s) ==
  \/ /\ value'[s] <= value[s] /\ waiters'[s] = waiters[s]
     /\ Woken(s)' = Woken(s)
  \/ /\ value'[s] = 0 \/ waiters'[s] = << >>
     /\ Woken(s)' \subseteq Woken(s)
  \/ /\ value'[s] = value[s] - 1 /\ waiters'[s] = waiters[s]
     /\ \E t \in Thread : Woken(s)' = Woken(s) \ {t}
  \/ /\ value'[s] = value[s] + 1 /\ waiters[s] # << >>
     /\ \E w \in Thread \ Woken(s) : Woken(s)' = Woken(s) \cup {w}

WakeStep == \A s \in Semaphore : SemaStep(s)

\* No thread is woken or falls asleep, and no semaphore is upped.
LEMMA QuietWakes ==
  ASSUME IInv, IInv', UNCHANGED waiters,
         \A s \in Semaphore : value'[s] <= value[s],
         \A u \in Thread :
           \/ pc[u] \notin InDown /\ pc'[u] \notin InDown
           \/ /\ pc'[u] = pc[u] /\ arg'[u] = arg[u]
              /\ status[u] \in {"ready", "running"} <=> status'[u] \in {"ready", "running"}
  PROVE  WakeStep
  <1>1. \A s \in Semaphore : Woken(s)' = Woken(s)
    BY DEF Woken, InDown
  <1>2. \A s \in Semaphore : SemaStep(s)
    BY <1>1 DEF SemaStep
  <1>3. QED
    BY <1>2 DEF WakeStep

\* The running thread is switched away from outside sema_down.
LEMMA SwitchWakes ==
  ASSUME IInv, IInv', UNCHANGED <<waiters, value>>,
         NEW new \in Status \ {"running"}, NEW rl,
         \/ rl = ready_list
         \/ rl = Append(ready_list, running) /\ new = "ready",
         schedule([status EXCEPT ![running] = new], rl),
         pc[running] \notin InDown, pc'[running] \notin InDown,
         \A u \in Thread \ {running} : pc'[u] = pc[u] /\ arg'[u] = arg[u]
  PROVE  WakeStep
  <1>1. TypeOK /\ ListInv
    BY Parts
  <1>2. /\ \A u \in Thread : status'[u] = IF u = running' THEN "running"
                                           ELSE IF u = running THEN new ELSE status[u]
        /\ \/ running' \in Listed(ready_list) /\ status[running'] = "ready"
           \/ running' = running
           \/ running' = Idle
    BY <1>1, SwitchEffect
  <1>3. pc[Idle] \notin InDown /\ (Idle # running => pc'[Idle] \notin InDown)
    BY <1>1, MainAndIdle DEF ListInv, IdleOK, IdlePc, InDown
  <1>4. \A u \in Thread :
           \/ pc[u] \notin InDown /\ pc'[u] \notin InDown
           \/ /\ pc'[u] = pc[u] /\ arg'[u] = arg[u]
              /\ status[u] \in {"ready", "running"} <=> status'[u] \in {"ready", "running"}
    BY <1>2, <1>3
  <1>5. \A s \in Semaphore : value'[s] <= value[s]
    BY <1>1, SMTT(60) DEF TypeOK
  <1>6. QED
    BY <1>4, <1>5, QuietWakes

\* One turn of sema_down's loop: a thread goes to sleep only where there is no
\* unit, and takes at most its own.
LEMMA SemaDownWakes ==
  ASSUME IInv, IInv', NEW t \in Thread, t = running, NEW s \in Semaphore,
         NEW asleep \in InDown, NEW done \in Pc \ InDown,
         pc[t] \in InDown => SemaOf(t) = s,
         sema_down(t, s, asleep, done),
         \A u \in Thread \ {t} : arg'[u] = arg[u],
         s = IF asleep = "cond_down" THEN t ELSE arg'[t]
  PROVE  WakeStep
  <1>1. TypeOK /\ ListInv
    BY Parts
  <1>2. CASE value[s] = 0
    <2>1. /\ waiters' = [waiters EXCEPT ![s] = Append(@, t)]
          /\ pc' = [pc EXCEPT ![t] = asleep]
          /\ schedule([status EXCEPT ![running] = "blocked"], ready_list)
          /\ value' = value
      BY <1>2, SMTT(60) DEF sema_down, thread_block
    <2>2. /\ \A u \in Thread : status'[u] = IF u = running' THEN "running"
                                             ELSE IF u = running THEN "blocked" ELSE status[u]
          /\ \/ running' \in Listed(ready_list) /\ status[running'] = "ready"
             \/ running' = Idle
      BY <1>1, <2>1, SwitchEffect DEF Status
    <2>3. pc[Idle] \notin InDown /\ pc'[Idle] \notin InDown
      BY <1>1, MainAndIdle DEF IInv, IdleOK, IdlePc, InDown
    <2>4. t # running'
      BY <1>1, <2>1, <2>2, <2>3, RunningThread, SMTT(60) DEF TypeOK
    <2>5. \A u \in Thread \ {t} : pc'[u] = pc[u]
      BY <1>1, <2>1 DEF TypeOK
    <2>6. \A u \in Thread \ {t} : \A r \in Semaphore : u \in Woken(r)' <=> u \in Woken(r)
      BY <2>2, <2>3, <2>5 DEF Woken, InDown
    <2>7. \A r \in Semaphore : t \notin Woken(r)'
      BY <2>2, <2>4 DEF Woken
    <2>8. \A r \in Semaphore \ {s} : t \notin Woken(r)
      BY DEF Woken, SemaOf, InDown
    <2>9. \A r \in Semaphore \ {s} : Woken(r)' = Woken(r)
      BY <2>6, <2>7, <2>8, SMTT(60) DEF Woken
    <2>10. Woken(s)' \subseteq Woken(s)
      BY <2>6, <2>7, SMTT(60) DEF Woken
    <2>11. /\ \A r \in Semaphore \ {s} : waiters'[r] = waiters[r] /\ value'[r] <= value[r]
           /\ value'[s] = 0
      BY <1>1, <1>2, <2>1, SMTT(60) DEF TypeOK
    <2>12. \A r \in Semaphore : SemaStep(r)
      BY <2>9, <2>10, <2>11 DEF SemaStep
    <2>13. QED
      BY <2>12 DEF WakeStep
  <1>3. CASE value[s] > 0
    <2>1. /\ value' = [value EXCEPT ![s] = @ - 1]
          /\ pc' = [pc EXCEPT ![t] = done]
          /\ UNCHANGED <<waiters, status>>
      BY <1>3, SMTT(60) DEF sema_down, sched
    <2>2. pc'[t] \notin InDown /\ \A u \in Thread \ {t} : pc'[u] = pc[u]
      BY <1>1, <2>1 DEF TypeOK
    <2>3. \A r \in Semaphore : t \notin Woken(r)'
      BY <2>2 DEF Woken, InDown
    <2>4. \A r \in Semaphore \ {s} : t \notin Woken(r)
      BY DEF Woken, SemaOf, InDown
    <2>5. \A u \in Thread \ {t} : \A r \in Semaphore : u \in Woken(r)' <=> u \in Woken(r)
      BY <2>1, <2>2 DEF Woken
    <2>6. \A r \in Semaphore \ {s} : Woken(r)' = Woken(r)
      BY <2>3, <2>4, <2>5, SMTT(60) DEF Woken
    <2>7. Woken(s)' = Woken(s) \ {t}
      BY <2>3, <2>5, SMTT(60) DEF Woken
    <2>8. /\ \A r \in Semaphore \ {s} : waiters'[r] = waiters[r] /\ value'[r] <= value[r]
          /\ value'[s] = value[s] - 1 /\ waiters'[s] = waiters[s]
      BY <1>1, <2>1, SMTT(60) DEF TypeOK
    <2>9. \A r \in Semaphore : SemaStep(r)
      BY <2>6, <2>7, <2>8 DEF SemaStep
    <2>10. QED
      BY <2>9 DEF WakeStep
  <1>4. QED
    BY <1>1, <1>2, <1>3, SMTT(60) DEF TypeOK

\* sema_up: the thread it wakes has the unit it adds.
LEMMA SemaUpWakes ==
  ASSUME IInv, IInv', NEW s \in Semaphore, sema_up(s),
         pc[running] \notin InDown, pc'[running] \notin InDown,
         \A u \in Thread \ {running} : pc'[u] = pc[u] /\ arg'[u] = arg[u]
  PROVE  WakeStep
  <1>1. TypeOK /\ ListInv
    BY Parts
  <1>2. /\ value'[s] = value[s] + 1
        /\ \A r \in Semaphore \ {s} : value'[r] <= value[r] /\ waiters'[r] = waiters[r]
    BY <1>1, SMTT(60) DEF sema_up, TypeOK
  <1>3. CASE waiters[s] = << >>
    <2>1. waiters' = waiters /\ status' = status
      BY <1>3 DEF sema_up, sched
    <2>2. \A r \in Semaphore : Woken(r)' = Woken(r)
      BY <2>1 DEF Woken, InDown
    <2>3. \A r \in Semaphore : SemaStep(r)
      BY <1>2, <1>3, <2>1, <2>2 DEF SemaStep
    <2>4. QED
      BY <2>3 DEF WakeStep
  <1>4. CASE waiters[s] # << >>
    <2>1. PICK w \in Thread : w = Head(waiters[s]) /\ w \in Listed(waiters[s])
      BY <1>1, <1>4, PopFront DEF TypeOK
    <2>2. /\ pc[w] \in InDown /\ SemaOf(w) = s /\ status[w] = "blocked" /\ w # running
      BY <1>1, <2>1, RunningThread DEF ListInv, WaitOK, ElemExclusive
    <2>3. \A u \in Thread : status'[u] = IF u = w THEN "ready" ELSE status[u]
      BY <1>1, <1>4, <2>1 DEF sema_up, thread_unblock, TypeOK
    <2>4. \A u \in Thread \ {w} : \A r \in Semaphore : u \in Woken(r)' <=> u \in Woken(r)
      BY <2>3 DEF Woken, InDown
    <2>5. \A r \in Semaphore : w \notin Woken(r)
      BY <2>2 DEF Woken
    <2>6. w \in Woken(s)' /\ \A r \in Semaphore \ {s} : w \notin Woken(r)'
      BY <2>2, <2>3 DEF Woken, SemaOf, InDown
    <2>7. \A r \in Semaphore \ {s} : Woken(r)' = Woken(r)
      BY <2>4, <2>5, <2>6, SMTT(60) DEF Woken
    <2>8. Woken(s)' = Woken(s) \cup {w}
      BY <2>4, <2>6, SMTT(60) DEF Woken
    <2>9. \A r \in Semaphore : SemaStep(r)
      BY <1>2, <1>4, <2>5, <2>7, <2>8 DEF SemaStep
    <2>10. QED
      BY <2>9 DEF WakeStep
  <1>5. QED
    BY <1>3, <1>4

\* A thread that calls a primitive.
LEMMA CallWakes ==
  ASSUME IInv, IInv', NEW t \in Thread, Call(t)
  PROVE  WakeStep
  <1> USE ThreadsAssumption
  <1>a. TypeOK /\ ListInv /\ LockInv
    BY Parts
  <1>b. /\ pc \in [Thread -> Pc] /\ arg \in [Thread -> Arg]
        /\ value \in [Semaphore -> Nat] /\ t = running /\ pc[t] = "user"
    BY <1>a DEF TypeOK, Arg, Call, At, SemaDown, sema_try_down, SemaUp, lock_acquire,
       lock_try_acquire, lock_release, cond_wait, cond_signal, cond_broadcast,
       thread_create, thread_exit, Yield
  <1>c. UserSema \subseteq Semaphore /\ Lock \subseteq Semaphore /\ Thread \subseteq Semaphore
        /\ UserSema \cap Thread = {}
    BY DEF UserSema, Semaphore
  <1>1. ASSUME NEW s \in UserSema, SemaDown(t, s) PROVE WakeStep
    BY <1>1, <1>b, <1>c, SemaDownWakes DEF SemaDown, InDown, Pc
  <1>2. ASSUME NEW s \in UserSema, sema_try_down(t, s) PROVE WakeStep
    <2>1. \A r \in Semaphore : value'[r] <= value[r]
      BY <1>2, <1>b, <1>c, SMTT(60) DEF sema_try_down
    <2>2. QED
      BY <1>2, <2>1, QuietWakes DEF sema_try_down, sched
  <1>3. ASSUME NEW s \in UserSema, SemaUp(t, s) PROVE WakeStep
    BY <1>3, <1>b, <1>c, SemaUpWakes DEF SemaUp, InDown
  <1>4. ASSUME NEW l \in Lock, lock_acquire(t, l) PROVE WakeStep
    BY <1>4, <1>b, <1>c, SemaDownWakes DEF lock_acquire, InDown, Pc
  <1>5. ASSUME NEW l \in Lock, lock_try_acquire(t, l) PROVE WakeStep
    <2>1. \A r \in Semaphore : value'[r] <= value[r]
      BY <1>5, <1>b, <1>c, SMTT(60) DEF lock_try_acquire
    <2>2. QED
      BY <1>5, <1>b, <2>1, QuietWakes DEF lock_try_acquire, sched, Goto, InDown
  <1>6. ASSUME NEW l \in Lock, lock_release(t, l) PROVE WakeStep
    <2>1. \A r \in Semaphore : value'[r] <= value[r]
      BY <1>6, <1>b, SMTT(60) DEF lock_release, sema
    <2>2. QED
      BY <1>6, <1>b, <2>1, QuietWakes DEF lock_release, sched, sema, Goto, InDown
  <1>7. ASSUME NEW c \in Cond, cond_wait(t, c) PROVE WakeStep
    <2>1. \A r \in Semaphore : value'[r] <= value[r]
      BY <1>7, <1>b, <1>c, SMTT(60) DEF cond_wait
    <2>2. QED
      BY <1>7, <1>b, <2>1, QuietWakes DEF cond_wait, sched, Goto, InDown
  <1>8. ASSUME NEW c \in Cond, cond_signal(t, c) PROVE WakeStep
    <2>1. Head(cond_waiters[c]) \in Semaphore
      BY <1>8, <1>a, <1>c, PopFront, SMTT(60) DEF cond_signal, TypeOK
    <2>2. QED
      BY <1>8, <1>b, <2>1, SemaUpWakes DEF cond_signal, WakeFirst, InDown
  <1>9. ASSUME NEW c \in Cond, cond_broadcast(t, c) PROVE WakeStep
    <2>1. \A r \in Semaphore : value'[r] <= value[r]
      BY <1>9, <1>b, SMTT(60) DEF cond_broadcast, sema
    <2>2. QED
      BY <1>9, <1>b, <2>1, QuietWakes DEF cond_broadcast, sched, sema, Goto, InDown
  <1>10. ASSUME NEW u \in Thread \ {Idle}, thread_create(t, u) PROVE WakeStep
    <2>1. \A r \in Semaphore : value'[r] <= value[r]
      BY <1>10, <1>b, SMTT(60) DEF thread_create, sema
    <2>2. pc[u] = "user" /\ u # t
      BY <1>10, <1>a, <1>b, RunningThread DEF thread_create, ListInv, IdleOK
    <2>3. \A x \in Thread : /\ pc'[x] = IF x = t THEN "unblock" ELSE pc[x]
                            /\ x \notin {t, u} => arg'[x] = arg[x] /\ status'[x] = status[x]
      BY <1>10, <1>a, <1>b, <2>2 DEF thread_create, TypeOK
    <2>4. QED
      BY <1>10, <1>b, <2>1, <2>2, <2>3, QuietWakes DEF thread_create, sema, InDown
  <1>11. CASE thread_exit(t)
    <2>1. CASE t = Main
      BY <1>11, <1>b, <2>1, SwitchWakes DEF thread_exit, sema, InDown, Status
    <2>2. CASE t # Main
      BY <1>11, <1>b, <2>2, SwitchWakes DEF thread_exit, sema, InDown, Status
    <2>3. QED
      BY <2>1, <2>2
  <1>12. CASE Yield(t)
    <2>1. CASE t = idle_thread
      BY <1>12, <1>b, <2>1, SwitchWakes DEF Yield, thread_yield, sema, InDown, Status
    <2>2. CASE t # idle_thread
      BY <1>12, <1>b, <2>2, SwitchWakes DEF Yield, thread_yield, sema, InDown, Status
    <2>3. QED
      BY <2>1, <2>2
  <1>13. QED
    BY <1>1, <1>2, <1>3, <1>4, <1>5, <1>6, <1>7, <1>8, <1>9, <1>10, <1>11, <1>12 DEF Call

\* A thread inside a primitive.
LEMMA ContinueWakes ==
  ASSUME IInv, IInv', NEW t \in Thread, Continue(t)
  PROVE  WakeStep
  <1> USE ThreadsAssumption
  <1>a. TypeOK /\ ListInv /\ LockInv /\ ArgAt(t)
    BY Parts DEF LockInv, ArgOK
  <1>b. /\ pc \in [Thread -> Pc] /\ arg \in [Thread -> Arg]
        /\ value \in [Semaphore -> Nat] /\ t = running
    BY <1>a DEF TypeOK, Arg, Continue, At, SemaDownAgain, LockDown, LockSetHolder,
       LockUp, CondUp, CondDown, Broadcasting, CreateUnblock
  <1>c. Sema \subseteq Semaphore /\ Lock \subseteq Semaphore /\ Thread \subseteq Semaphore
    BY DEF Semaphore
  <1>1. CASE SemaDownAgain(t)
    BY <1>1, <1>a, <1>b, <1>c, SemaDownWakes
      DEF SemaDownAgain, At, InDown, Pc, SemaOf, ArgAt
  <1>2. CASE LockDown(t)
    BY <1>2, <1>a, <1>b, <1>c, SemaDownWakes DEF LockDown, At, InDown, Pc, SemaOf, ArgAt, LockPc
  <1>3. CASE LockSetHolder(t)
    <2>1. \A r \in Semaphore : value'[r] <= value[r]
      BY <1>3, <1>b, SMTT(60) DEF LockSetHolder, sema
    <2>2. QED
      BY <1>3, <1>b, <2>1, QuietWakes DEF LockSetHolder, At, sched, sema, Goto, InDown
  <1>4. CASE LockUp(t)
    BY <1>4, <1>a, <1>b, <1>c, SemaUpWakes DEF LockUp, At, Goto, InDown, ArgAt, LockPc
  <1>5. CASE CondUp(t)
    BY <1>5, <1>a, <1>b, <1>c, SemaUpWakes DEF CondUp, At, Goto, InDown, ArgAt, LockPc
  <1>6. CASE CondDown(t)
    BY <1>6, <1>a, <1>b, <1>c, SemaDownWakes DEF CondDown, At, InDown, Pc, SemaOf
  <1>7. CASE Broadcasting(t)
    <2>0. arg[t] \in Cond /\ pc[t] = "broadcast"
      BY <1>7, <1>a DEF Broadcasting, At, ArgAt
    <2>1. CASE cond_waiters[arg[t]] # << >>
      <3>1. Head(cond_waiters[arg[t]]) \in Semaphore
        BY <1>a, <1>c, <2>0, <2>1, PopFront, SMTT(60) DEF TypeOK
      <3>2. QED
        BY <1>7, <1>b, <2>0, <2>1, <3>1, SemaUpWakes DEF Broadcasting, WakeFirst, InDown
    <2>2. CASE cond_waiters[arg[t]] = << >>
      <3>1. \A r \in Semaphore : value'[r] <= value[r]
        BY <1>7, <1>b, <2>2, SMTT(60) DEF Broadcasting, sema
      <3>2. QED
        BY <1>7, <1>b, <2>0, <2>2, <3>1, QuietWakes DEF Broadcasting, sched, sema, Goto, InDown
    <2>3. QED
      BY <2>1, <2>2
  <1>8. CASE CreateUnblock(t)
    <2>1. \A r \in Semaphore : value'[r] <= value[r]
      BY <1>8, <1>b, SMTT(60) DEF CreateUnblock, sema
    <2>2. arg[t] \in Thread /\ pc[arg[t]] = "user" /\ pc[t] = "unblock"
      BY <1>8, <1>a DEF CreateUnblock, At, ListInv, CreateOK
    <2>3. \A x \in Thread : /\ pc'[x] = IF x = t THEN "user" ELSE pc[x]
                            /\ x # arg[t] => status'[x] = status[x]
      BY <1>8, <1>a, <1>b DEF CreateUnblock, thread_unblock, Goto, TypeOK
    <2>4. UNCHANGED <<waiters, arg>>
      BY <1>8 DEF CreateUnblock, sema
    <2>5. \A x \in Thread : \/ pc[x] \notin InDown /\ pc'[x] \notin InDown
                            \/ pc'[x] = pc[x] /\ status'[x] = status[x]
      BY <2>2, <2>3 DEF InDown
    <2>6. QED
      BY <2>1, <2>4, <2>5, QuietWakes
  <1>9. QED
    BY <1>1, <1>2, <1>3, <1>4, <1>5, <1>6, <1>7, <1>8 DEF Continue

\* The boot, the idle thread and the interrupts.
LEMMA BootWakes ==
  ASSUME IInv, IInv',
         Boot \/ TimerInterrupt \/ \E s \in UserSema : DeviceInterrupt(s)
  PROVE  WakeStep
  <1> USE MainAndIdle
  <1>a. TypeOK /\ ListInv /\ LockInv
    BY Parts
  <1>b. /\ pc \in [Thread -> Pc] /\ arg \in [Thread -> Arg] /\ running \in Thread
        /\ value \in [Semaphore -> Nat] /\ \A r \in Semaphore : value[r] <= value[r]
    BY <1>a, SMTT(60) DEF TypeOK, Arg
  <1>c. IdleStarted \in Semaphore /\ UserSema \subseteq Semaphore
    BY ThreadsAssumption DEF Semaphore, UserSema
  <1>d. ASSUME EndHlt, Interruptible
        PROVE  /\ pc[running] \notin InDown /\ pc'[running] \notin InDown
               /\ \A u \in Thread \ {running} : pc'[u] = pc[u]
    BY <1>b, <1>d DEF EndHlt, Interruptible, InDown
  <1>1. CASE thread_start
    <2>1. pc[Idle] = "user" /\ pc[Main] = "boot"
      BY <1>1, <1>a DEF thread_start, At, ListInv, IdleOK, IdlePc
    <2>2. \A x \in Thread \ {Main, Idle} :
            pc'[x] = pc[x] /\ status'[x] = status[x] /\ arg'[x] = arg[x]
      BY <1>1, <1>a DEF thread_start, TypeOK
    <2>3. pc'[Main] = "boot_wait" /\ pc'[Idle] = "idle_init"
      BY <1>1, <1>b DEF thread_start
    <2>4. QED
      BY <1>1, <1>b, <2>1, <2>2, <2>3, QuietWakes DEF thread_start, sema, InDown
  <1>2. CASE BootWait
    <2>1. arg[Main] = IdleStarted
      BY <1>2, <1>a DEF BootWait, At, LockInv, ArgOK, ArgAt
    <2>2. QED
      BY <1>2, <1>b, <1>c, <2>1, SemaDownWakes DEF BootWait, At, InDown, Pc
  <1>3. CASE IdleInit
    BY <1>3, <1>b, QuietWakes DEF IdleInit, At, Goto, sched, sema, InDown
  <1>4. CASE IdleUp
    BY <1>4, <1>b, <1>c, SemaUpWakes DEF IdleUp, At, Goto, InDown
  <1>5. CASE IdleBlock
    BY <1>5, <1>b, SwitchWakes DEF IdleBlock, At, Goto, thread_block, sema, InDown, Status
  <1>6. CASE TimerInterrupt
    <2>1. CASE thread_yield(running)
      <3>1. CASE running = idle_thread
        BY <1>6, <1>d, <2>1, <3>1, SwitchWakes DEF TimerInterrupt, thread_yield, sema, Status
      <3>2. CASE running # idle_thread
        BY <1>6, <1>d, <2>1, <3>2, SwitchWakes DEF TimerInterrupt, thread_yield, sema, Status
      <3>3. QED
        BY <3>1, <3>2
    <2>2. CASE UNCHANGED <<status, running, ready_list>>
      BY <1>6, <1>b, <1>d, <2>2, QuietWakes DEF TimerInterrupt, sema
    <2>3. QED
      BY <1>6, <2>1, <2>2 DEF TimerInterrupt
  <1>7. ASSUME NEW s \in UserSema, DeviceInterrupt(s) PROVE WakeStep
    BY <1>7, <1>c, <1>d, SemaUpWakes DEF DeviceInterrupt
  <1>8. QED
    BY <1>1, <1>2, <1>3, <1>4, <1>5, <1>6, <1>7 DEF Boot

-----------------------------------------------------------------------------
(* The monitor                                                              *)

\* LockExclusion makes the owner of a lock the one thread inside it.
LEMMA OnlyThread ==
  OnlyOf({}) = NoThread /\ \A t : OnlyOf({t}) = t
  <1>1. ASSUME NEW t PROVE (CHOOSE x \in {t} : TRUE) = t
    <2>1. \A x \in {t} : x = t
      OBVIOUS
    <2>2. QED
      BY <2>1
  <1>2. QED
    BY <1>1 DEF OnlyOf

\* What CondOK says of a thread that is at no place of cond_wait.
LEMMA NotListed ==
  ASSUME CondOK, NEW t \in Thread, pc[t] \notin {"cond_up", "cond_enter", "cond_down"}
  PROVE  \A c \in Cond : t \notin Listed(cond_waiters[c])
  BY DEF CondOK

\* A step of u that is not a step of the monitor: it does not enter or leave a
\* lock, and if u is on a list of waiters it stays there.
Far(u) ==
  \/ pc'[u] = pc[u] /\ arg'[u] = arg[u]
  \/ /\ pc[u] \notin Critical /\ pc'[u] \notin Critical
     /\ \A c \in Cond : u \in Listed(cond_waiters[c]) =>
          pc'[u] \in {"cond_enter", "cond_down"} /\ arg'[u] = arg[u]
     /\ pc'[u] = "broadcast" => holder[LockOf[arg'[u]]] = u

\* Such a step leaves the monitor alone.
LEMMA FarStep ==
  ASSUME TypeOK, CondOK, UNCHANGED <<holder, cond_waiters>>,
         \A u \in Thread : Far(u),
         \A u \in Thread : value'[u] = value[u] \/ \A c \in Cond : u \notin Listed(cond_waiters[c])
  PROVE  CondOK' /\ UNCHANGED <<Owner, Sleeping>>
  <1>1. \A c \in Cond : Listed(cond_waiters[c]) \subseteq Thread
    BY ListedType DEF TypeOK
  <1>2. CondOK'
    <2>1. ASSUME NEW c \in Cond, NEW t \in Listed(cond_waiters[c])
          PROVE  /\ pc'[t] \in {"cond_up", "cond_enter", "cond_down"}
                 /\ arg'[t] = LockOf[c]
                 /\ value'[t] = 0
                 /\ \A d \in Cond : t \in Listed(cond_waiters[d]) => d = c
      BY <1>1, <2>1 DEF CondOK, Far
    <2>2. ASSUME NEW t \in Thread
          PROVE  /\ pc'[t] = "cond_up" => \E c \in Cond : t \in Listed(cond_waiters[c])
                 /\ pc'[t] = "broadcast" => holder[LockOf[arg'[t]]] = t
      BY DEF CondOK, Far, Critical
    <2>3. \A c \in Cond : NoDuplicates(cond_waiters[c])
      BY DEF CondOK
    <2>4. QED
      BY <2>1, <2>2, <2>3, SMTT(60) DEF CondOK
  <1>3. \A l \in Lock : Inside(l)' = Inside(l)
    BY DEF Inside, Far, Critical
  <1>4. \A c \in Cond : \A t \in Listed(cond_waiters[c]) :
          pc'[t] = "cond_up" <=> pc[t] = "cond_up"
    BY <1>1 DEF Far, Critical
  <1>5. Owner' = Owner
    BY <1>3 DEF Owner
  <1>6. Sleeping' = Sleeping
    BY <1>4 DEF Sleeping
  <1>7. QED
    BY <1>2, <1>5, <1>6

\* t takes the semaphore of lock l: it becomes the owner.
LEMMA EnterImplements ==
  ASSUME IInv, IInv', CondOK, NEW t \in Thread, NEW l \in Lock,
         UNCHANGED <<holder, cond_waiters>>, Others(t),
         pc[t] \in {"user", "lock_down", "lock_enter"},
         pc'[t] = "lock_set", arg'[t] = l, value[l] > 0,
         \A u \in Thread : value'[u] = value[u]
  PROVE  CondOK' /\ M!Acquire(t, l)
  <1>1. TypeOK /\ LockExclusion /\ LockExclusion' /\ \A c \in Cond : Listed(cond_waiters[c]) \subseteq Thread
    BY ListedType DEF IInv, TypeOK
  <1>2. \A c \in Cond : t \notin Listed(cond_waiters[c])
    BY NotListed
  <1>3. Inside(l) = {} /\ Inside(l)' = {t}
    <2>1. value[l] # 0
      BY SMTT(60)
    <2>2. Inside(l) = {}
      BY <1>1, <2>1 DEF LockExclusion
    <2>3. t \in Inside(l)'
      BY DEF Inside
    <2>4. QED
      BY <1>1, <2>2, <2>3 DEF LockExclusion
  <1>4. \A k \in Lock \ {l} : Inside(k)' = Inside(k)
    BY DEF Inside, Others
  <1>5. Owner[l] = NoThread /\ Owner' = [Owner EXCEPT ![l] = t]
    <2>1. Owner[l] = NoThread /\ Owner'[l] = t
      BY <1>3, OnlyThread DEF Owner
    <2>2. \A k \in Lock \ {l} : Owner'[k] = Owner[k]
      BY <1>4 DEF Owner
    <2>3. QED
      BY <2>1, <2>2 DEF Owner
  <1>6. Sleeping' = Sleeping /\ \A c \in Cond : t \notin Sleeping[c]
    BY <1>1, <1>2 DEF Sleeping, Others
  <1>7. CondOK'
    BY <1>1, <1>2, SMTT(60) DEF CondOK, Others
  <1>8. QED
    BY <1>5, <1>6, <1>7 DEF M!Acquire, M!Asleep

\* t, inside lock l before and after the step, writes its holder: the owner is
\* the same, and no broadcast loses the lock it holds.
LEMMA HolderOwns ==
  ASSUME IInv, IInv', CondOK, NEW t \in Thread, NEW l \in Lock, Others(t),
         t \in Inside(l), t \in Inside(l)',
         \A k \in Lock \ {l} : holder'[k] = holder[k],
         pc[t] \in Critical => arg[t] = l, pc'[t] \in Critical => arg'[t] = l
  PROVE  /\ Owner' = Owner
         /\ \A u \in Thread \ {t} : pc[u] = "broadcast" => holder'[LockOf[arg[u]]] = u
  <1>1. Inside(l) = {t} /\ Inside(l)' = {t}
    BY DEF IInv, LockExclusion
  <1>2. \A k \in Lock \ {l} : Inside(k)' = Inside(k)
    BY SMTT(60) DEF Inside, Others, Critical
  <1>3. Owner' = Owner
    BY <1>1, <1>2 DEF Owner
  <1>4. ASSUME NEW u \in Thread \ {t}, pc[u] = "broadcast"
        PROVE  holder'[LockOf[arg[u]]] = u
    <2>1. arg[u] \in Cond /\ LockOf[arg[u]] \in Lock /\ holder[LockOf[arg[u]]] = u
      BY <1>4, ThreadsAssumption, SMTT(60) DEF CondOK, IInv, ArgOK, ArgAt
    <2>2. u \in Inside(LockOf[arg[u]])
      BY <2>1 DEF Inside
    <2>3. QED
      BY <1>1, <2>1, <2>2
  <1>5. QED
    BY <1>3, <1>4

\* lock_acquire's and lock_release's write of the holder.
LEMMA HolderImplements ==
  ASSUME IInv, IInv', CondOK, NEW t \in Thread, NEW l \in Lock, Others(t),
         UNCHANGED <<cond_waiters, value>>,
         \/ /\ pc[t] = "lock_set" /\ arg[t] = l
            /\ holder' = [holder EXCEPT ![l] = t]
            /\ pc'[t] = "user"
         \/ /\ pc[t] = "user" /\ holder[l] = t
            /\ holder' = [holder EXCEPT ![l] = NoThread]
            /\ pc'[t] = "lock_up" /\ arg'[t] = l
  PROVE  CondOK' /\ UNCHANGED <<Owner, Sleeping>>
  <1>1. TypeOK /\ \A c \in Cond : Listed(cond_waiters[c]) \subseteq Thread
    BY ListedType DEF IInv, TypeOK
  <1>2. t \in Inside(l) /\ t \in Inside(l)' /\ \A k \in Lock \ {l} : holder'[k] = holder[k]
    BY <1>1 DEF Inside, TypeOK
  <1>3. /\ Owner' = Owner
        /\ \A u \in Thread \ {t} : pc[u] = "broadcast" => holder'[LockOf[arg[u]]] = u
    BY <1>2, HolderOwns DEF Critical
  <1>4. \A c \in Cond : t \notin Listed(cond_waiters[c])
    BY NotListed
  <1>5. Sleeping' = Sleeping
    BY <1>1, <1>4, SMTT(60) DEF Sleeping, Others
  <1>6. CondOK'
    BY <1>1, <1>3, <1>4, SMTT(60) DEF CondOK, Others
  <1>7. QED
    BY <1>3, <1>5, <1>6

\* cond_wait lists the caller, which is not asleep before it has released the
\* lock.
LEMMA CondWaitImplements ==
  ASSUME IInv, IInv', CondOK, NEW t \in Thread, NEW c \in Cond, cond_wait(t, c)
  PROVE  CondOK' /\ UNCHANGED <<Owner, Sleeping>>
  <1> USE ThreadsAssumption
  <1>1. TypeOK /\ \A d \in Cond : Listed(cond_waiters[d]) \subseteq Thread
    BY ListedType DEF IInv, TypeOK
  <1>2. /\ pc[t] = "user" /\ pc'[t] = "cond_up" /\ arg'[t] = LockOf[c] /\ Others(t)
        /\ holder[LockOf[c]] = t /\ holder' = [holder EXCEPT ![LockOf[c]] = NoThread]
        /\ LockOf[c] \in Lock
    BY <1>1 DEF cond_wait, At, Goto, TypeOK, Others
  <1>3. value'[t] = 0 /\ \A u \in Thread \ {t} : value'[u] = value[u]
    BY <1>1 DEF cond_wait, TypeOK, Semaphore
  <1>4. \A d \in Cond : t \notin Listed(cond_waiters[d])
    BY <1>2, NotListed
  <1>5. /\ \A d \in Cond \ {c} : cond_waiters'[d] = cond_waiters[d]
        /\ Listed(cond_waiters'[c]) = Listed(cond_waiters[c]) \cup {t}
        /\ NoDuplicates(cond_waiters'[c])
    <2>1. cond_waiters' = [cond_waiters EXCEPT ![c] = Append(@, t)]
      BY DEF cond_wait
    <2>2. NoDuplicates(cond_waiters[c])
      BY DEF CondOK
    <2>3. QED
      BY <1>1, <1>4, <2>1, <2>2, PushBack DEF TypeOK
  <1>6. /\ Owner' = Owner
        /\ \A u \in Thread \ {t} : pc[u] = "broadcast" => holder'[LockOf[arg[u]]] = u
    <2>1. /\ t \in Inside(LockOf[c]) /\ t \in Inside(LockOf[c])'
          /\ \A k \in Lock \ {LockOf[c]} : holder'[k] = holder[k]
      BY <1>1, <1>2 DEF Inside, TypeOK
    <2>2. QED
      BY <1>2, <2>1, HolderOwns DEF Critical
  <1>7. Sleeping' = Sleeping
    <2>1. ASSUME NEW d \in Cond
          PROVE  {u \in Listed(cond_waiters[d]) : pc[u] # "cond_up"}' =
                   {u \in Listed(cond_waiters[d]) : pc[u] # "cond_up"}
      BY <1>1, <1>2, <1>4, <1>5, SMTT(60) DEF Others
    <2>2. QED
      BY <2>1 DEF Sleeping
  <1>8. CondOK'
    <2>1. \A d \in Cond : NoDuplicates(cond_waiters'[d])
      BY <1>5 DEF CondOK
    <2>2. ASSUME NEW d \in Cond, NEW u \in Listed(cond_waiters'[d])
          PROVE  /\ pc'[u] \in {"cond_up", "cond_enter", "cond_down"}
                 /\ arg'[u] = LockOf[d]
                 /\ value'[u] = 0
                 /\ \A e \in Cond : u \in Listed(cond_waiters'[e]) => e = d
      BY <1>1, <1>2, <1>3, <1>4, <1>5, <2>2, SMTT(60) DEF CondOK, Others
    <2>3. \A u \in Thread : pc'[u] = "cond_up" => \E d \in Cond : u \in Listed(cond_waiters'[d])
      <3>1. \A u \in Thread \ {t} : pc'[u] = pc[u]
        BY <1>2 DEF Others
      <3>2. \A d \in Cond : Listed(cond_waiters[d]) \subseteq Listed(cond_waiters'[d])
        BY <1>5
      <3>3. \A u \in Thread : pc[u] = "cond_up" => \E d \in Cond : u \in Listed(cond_waiters[d])
        BY DEF CondOK
      <3>4. t \in Listed(cond_waiters'[c])
        BY <1>5
      <3>5. QED
        BY <3>1, <3>2, <3>3, <3>4
    <2>4. \A u \in Thread : pc'[u] = "broadcast" => holder'[LockOf[arg'[u]]] = u
      BY <1>2, <1>6, SMTT(60) DEF Others
    <2>5. QED
      BY <2>1, <2>2, <2>3, <2>4 DEF CondOK
  <1>9. QED
    BY <1>6, <1>7, <1>8

\* sema_up at the end of lock_release, and inside cond_wait: the lock is free,
\* and the caller of cond_wait is asleep from this step on.
LEMMA LeaveImplements ==
  ASSUME IInv, IInv', CondOK, NEW t \in Thread, LockUp(t) \/ CondUp(t)
  PROVE  /\ CondOK'
         /\ LockUp(t) => M!Release(t, arg[t])
         /\ CondUp(t) => \E c \in Cond : M!Wait(t, c)
  <1> USE ThreadsAssumption
  <1>1. TypeOK /\ \A d \in Cond : Listed(cond_waiters[d]) \subseteq Thread
    BY ListedType DEF IInv, TypeOK
  <1>2. /\ arg[t] \in Lock /\ pc[t] \in {"lock_up", "cond_up"} /\ holder[arg[t]] # t
        /\ pc'[t] = (IF pc[t] = "lock_up" THEN "user" ELSE "cond_enter")
        /\ Others(t) /\ UNCHANGED <<holder, cond_waiters, arg>>
    <2>1. /\ pc[t] \in {"lock_up", "cond_up"} /\ UNCHANGED <<holder, cond_waiters, arg>>
          /\ pc' = [pc EXCEPT ![t] = IF pc[t] = "lock_up" THEN "user" ELSE "cond_enter"]
      BY DEF LockUp, CondUp, At, Goto
    <2>2. arg[t] \in Lock /\ holder[arg[t]] # t
      BY <2>1 DEF IInv, ArgOK, ArgAt, LockPc
    <2>3. QED
      BY <1>1, <2>1, <2>2 DEF Others, TypeOK
  <1>3. \A u \in Thread : value'[u] = value[u]
    <2>1. value' = [value EXCEPT ![arg[t]] = @ + 1]
      BY DEF LockUp, CondUp, sema_up
    <2>2. QED
      BY <1>1, <1>2, <2>1 DEF TypeOK, Semaphore
  <1>4. Inside(arg[t]) = {t} /\ Inside(arg[t])' = {}
    <2>1. t \in Inside(arg[t])
      BY <1>2 DEF Inside
    <2>2. Inside(arg[t]) = {t}
      BY <1>2, <2>1, SMTT(60) DEF IInv, LockExclusion
    <2>3. QED
      BY <1>2, <2>2, SMTT(60) DEF Inside, Others
  <1>5. \A k \in Lock \ {arg[t]} : Inside(k)' = Inside(k)
    BY <1>2, SMTT(60) DEF Inside, Others
  <1>6. Owner[arg[t]] = t /\ Owner' = [Owner EXCEPT ![arg[t]] = NoThread]
    <2>1. Owner[arg[t]] = t /\ Owner'[arg[t]] = NoThread
      BY <1>2, <1>4, OnlyThread DEF Owner
    <2>2. \A k \in Lock \ {arg[t]} : Owner'[k] = Owner[k]
      BY <1>5 DEF Owner
    <2>3. QED
      BY <1>2, <2>1, <2>2 DEF Owner
  <1>7. CondOK'
    BY <1>1, <1>2, <1>3, SMTT(60) DEF CondOK, Others
  <1>8. ASSUME LockUp(t) PROVE M!Release(t, arg[t])
    <2>1. \A c \in Cond : t \notin Listed(cond_waiters[c])
      BY <1>8, NotListed DEF LockUp, At
    <2>2. Sleeping' = Sleeping
      BY <1>1, <1>2, <2>1, SMTT(60) DEF Sleeping, Others
    <2>3. QED
      BY <1>6, <2>2 DEF M!Release
  <1>9. ASSUME CondUp(t) PROVE \E c \in Cond : M!Wait(t, c)
    <2>0. pc[t] = "cond_up" /\ pc'[t] = "cond_enter"
      BY <1>2, <1>9 DEF CondUp, At
    <2>1. PICK c \in Cond : t \in Listed(cond_waiters[c])
      BY <2>0 DEF CondOK
    <2>2. LockOf[c] = arg[t] /\ \A d \in Cond \ {c} : t \notin Listed(cond_waiters[d])
      BY <2>1 DEF CondOK
    <2>3. \A d \in Cond : t \notin Sleeping[d]
      BY <2>0 DEF Sleeping
    <2>4. /\ Sleeping'[c] = Sleeping[c] \cup {t}
          /\ \A d \in Cond \ {c} : Sleeping'[d] = Sleeping[d]
      BY <1>1, <1>2, <2>0, <2>1, <2>2, SMTT(60) DEF Sleeping, Others
    <2>5. Sleeping' = [Sleeping EXCEPT ![c] = @ \cup {t}]
      BY <2>4 DEF Sleeping
    <2>6. QED
      BY <1>6, <2>2, <2>3, <2>5 DEF M!Wait, M!Asleep
  <1>10. QED
    BY <1>7, <1>8, <1>9

\* cond_signal and each turn of cond_broadcast's loop: the thread that is taken
\* off the list is asleep, since whoever has not released the lock yet would be
\* inside it together with the caller.
LEMMA WakeImplements ==
  ASSUME IInv, IInv', CondOK, NEW t \in Thread, NEW c \in Cond,
         pc[t] \in {"user", "broadcast"}, holder[LockOf[c]] = t,
         cond_waiters[c] # << >>, WakeFirst(c), UNCHANGED <<holder, pc, arg>>
  PROVE  CondOK' /\ M!Signal(t, c)
  <1> USE ThreadsAssumption
  <1>1. TypeOK /\ \A d \in Cond : Listed(cond_waiters[d]) \subseteq Thread
    BY ListedType DEF IInv, TypeOK
  <1>2. PICK w \in Thread :
           /\ w = Head(cond_waiters[c]) /\ w \in Listed(cond_waiters[c])
           /\ NoDuplicates(Tail(cond_waiters[c]))
           /\ Listed(Tail(cond_waiters[c])) = Listed(cond_waiters[c]) \ {w}
    <2>1. NoDuplicates(cond_waiters[c]) /\ cond_waiters[c] \in Seq(Thread)
      BY <1>1, SMTT(60) DEF CondOK, TypeOK
    <2>2. QED
      BY <2>1, PopFront, SMTT(60)
  <1>3. /\ \A d \in Cond \ {c} : cond_waiters'[d] = cond_waiters[d]
        /\ Listed(cond_waiters'[c]) = Listed(cond_waiters[c]) \ {w}
        /\ NoDuplicates(cond_waiters'[c])
    BY <1>1, <1>2 DEF WakeFirst, TypeOK
  <1>4. \A u \in Thread \ {w} : value'[u] = value[u]
    BY <1>1, <1>2 DEF WakeFirst, sema_up, TypeOK, Semaphore
  <1>5. pc[w] # "cond_up"
    <2>1. LockOf[c] \in Lock /\ arg[w] = LockOf[c]
      BY <1>2 DEF CondOK
    <2>2. t \in Inside(LockOf[c]) /\ (pc[w] = "cond_up" => w \in Inside(LockOf[c]))
      BY <2>1 DEF Inside
    <2>3. Inside(LockOf[c]) = {t}
      BY <2>1, <2>2 DEF IInv, LockExclusion
    <2>4. QED
      BY <2>2, <2>3
  <1>6. \A d \in Cond \ {c} : w \notin Listed(cond_waiters[d])
    BY <1>2 DEF CondOK
  <1>7. Owner' = Owner /\ Owner[LockOf[c]] = t
    <2>1. \A l \in Lock : Inside(l)' = Inside(l)
      BY DEF Inside
    <2>2. LockOf[c] \in Lock /\ t \in Inside(LockOf[c])
      BY DEF Inside
    <2>3. Inside(LockOf[c]) = {t}
      BY <2>2, SMTT(60) DEF IInv, LockExclusion
    <2>4. QED
      BY <2>1, <2>2, <2>3, OnlyThread DEF Owner
  <1>8. w \in Sleeping[c] /\ Sleeping' = [Sleeping EXCEPT ![c] = @ \ {w}]
    <2>1. /\ Sleeping'[c] = Sleeping[c] \ {w}
          /\ \A d \in Cond \ {c} : Sleeping'[d] = Sleeping[d]
          /\ w \in Sleeping[c]
      BY <1>2, <1>3, <1>5 DEF Sleeping
    <2>2. Sleeping = [d \in Cond |-> Sleeping[d]] /\ Sleeping' = [d \in Cond |-> Sleeping'[d]]
      BY DEF Sleeping
    <2>3. QED
      BY <2>1, <2>2, SMTT(60)
  <1>9. CondOK'
    <2>1. \A d \in Cond : NoDuplicates(cond_waiters'[d])
      BY <1>3 DEF CondOK
    <2>2. \A d \in Cond : \A u \in Listed(cond_waiters'[d]) :
            u # w /\ u \in Listed(cond_waiters[d]) /\ value'[u] = value[u]
      BY <1>1, <1>3, <1>4, <1>6, SMTT(60)
    <2>3. \A u \in Thread \ {w} : \A d \in Cond :
            u \in Listed(cond_waiters[d]) => u \in Listed(cond_waiters'[d])
      BY <1>3
    <2>4. QED
      BY <1>5, <2>1, <2>2, <2>3, SMTT(60) DEF CondOK
  <1>10. QED
    BY <1>7, <1>8, <1>9 DEF M!Signal

\* A turn of sema_down's loop that does not enter a lock.
LEMMA SemaDownFar ==
  ASSUME TypeOK, CondOK, NEW t \in Thread, NEW s \in Semaphore, NEW asleep, NEW done,
         sema_down(t, s, asleep, done), UNCHANGED cond_waiters, Others(t),
         pc[t] \notin Critical, pc'[t] \in {asleep, done}, pc'[t] \notin Critical \cup {"broadcast"},
         \/ s \notin Thread /\ pc[t] \notin {"cond_enter", "cond_down"}
         \/ /\ s = t /\ arg'[t] = arg[t]
            /\ pc'[t] = "cond_down" \/ value[t] > 0
  PROVE  CondOK' /\ UNCHANGED <<Owner, Sleeping>>
  <1>1. UNCHANGED <<holder, cond_waiters>>
    BY DEF sema_down
  <1>2. \A u \in Thread : value'[u] = value[u] \/ (u = s /\ value[s] > 0)
    BY DEF sema_down, TypeOK, Semaphore
  <1>3. \A c \in Cond : t \in Listed(cond_waiters[c]) => s = t /\ value[t] = 0
    BY DEF CondOK, Critical
  <1>4. \A u \in Thread \ {t} : Far(u)
    BY DEF Far, Others
  <1>5. Far(t)
    BY <1>3, SMTT(60) DEF Far, TypeOK
  <1>6. \A u \in Thread : value'[u] = value[u] \/ \A c \in Cond : u \notin Listed(cond_waiters[c])
    <2>1. SUFFICES ASSUME NEW u \in Thread, u = s, value[s] > 0, NEW c \in Cond,
                          u \in Listed(cond_waiters[c])
                   PROVE  FALSE
      BY <1>2
    <2>2. value[s] = 0
      BY <2>1 DEF CondOK
    <2>3. ~(0 > 0)
      BY SMTT(60)
    <2>4. QED
      BY <2>1, <2>2, <2>3
  <1>7. QED
    BY <1>1, <1>4, <1>5, <1>6, FarStep

\* A step that leaves the locks' holders and the lists alone, by threads that
\* are outside the monitor.
LEMMA OutsideFar ==
  ASSUME TypeOK, CondOK, UNCHANGED <<holder, cond_waiters>>,
         \A u \in Thread : value'[u] = value[u],
         \A u \in Thread :
           \/ pc'[u] = pc[u] /\ arg'[u] = arg[u]
           \/ /\ pc[u] \notin LockPc \ {"lock_down", "lock_enter"}
              /\ pc'[u] \notin Critical
              /\ pc'[u] = "broadcast" => holder[LockOf[arg'[u]]] = u
  PROVE  CondOK' /\ UNCHANGED <<Owner, Sleeping>>
  <1>1. \A u \in Thread : Far(u)
    BY DEF Far, CondOK, Critical, LockPc
  <1>2. QED
    BY <1>1, FarStep

\* sema_up of a semaphore that is no lock's and no waiter's.
LEMMA SemaUpValue ==
  ASSUME TypeOK, NEW s \in Sema, sema_up(s)
  PROVE  \A u \in Thread : value'[u] = value[u]
  BY ThreadsAssumption, SMTT(60) DEF sema_up, TypeOK, Semaphore

\* The step simulates a step of Monitor, or none.
Simulates == CondOK' /\ (UNCHANGED <<Owner, Sleeping>> \/ M!MNext)
=============================================================================
