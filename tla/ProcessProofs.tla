---------------------------- MODULE ProcessProofs ----------------------------
(***************************************************************************)
(* Proofs about Process, for any set of processes: the reference count of  *)
(* a wait_status is right, whoever of parent and child goes first, and     *)
(* exec and wait return what the child did.                                *)
(***************************************************************************)
EXTENDS Process, TLAPS

\* Leaves are for Zenon; the ones for an SMT solver say so.
USE ZenonT(60)

\* The processes that have, or had, a wait_status.
Born(c) == pc[c] # "none" /\ c # Main

\* Where wait_status_mod_ref is called.
Drops(p) == pc[p] \in {"ref", "free"}

\* A wait_status is on the list of the parent only, and the initial thread
\* never gets far into its exit.
TreeInv ==
  /\ pc[Main] \notin {"none", "load", "signal", "exit_cwd", "exit_children", "dead"}
  /\ Drops(Main) => return[Main] = "user"
  /\ \A c \in Proc : Born(c) => creator[c] \in Proc /\ creator[c] # c
  /\ \A p \in Proc : \A c \in children[p] : Born(c) /\ creator[c] = p

\* What the place of a process says about its local variables.
CallInv ==
  \A p \in Proc :
    /\ pc[p] = "wait" => target[p] \in children[p]
    /\ Drops(p) /\ return[p] # "dead" =>
         /\ target[p] \in Proc /\ Born(target[p])
         /\ creator[target[p]] = p
         /\ target[p] \notin children[p]
    /\ Drops(p) /\ return[p] = "dead" => target[p] = p
    /\ ~Drops(p) => return[p] = "user"
    /\ shouldFree[p] => pc[p] = "free"

\* The parent's reference to the wait_status of c, and that of c itself.
ParentHolds(c) ==
  LET p == creator[c] IN
  c \in children[p] \/ (pc[p] = "ref" /\ return[p] # "dead" /\ target[p] = c)

SelfHolds(c) == pc[c] # "dead" /\ ~(pc[c] = "free" /\ return[c] = "dead")

\* o_reference_count counts them.
RefInv ==
  \A c \in Proc : Born(c) =>
    ws[c].ref = (IF ParentHolds(c) THEN 1 ELSE 0) + (IF SelfHolds(c) THEN 1 ELSE 0)

\* p is about to free the wait_status of c.
Frees(p, c) == pc[p] = "free" /\ shouldFree[p] /\ target[p] = c

\* Nobody's wait_status has been freed, or exactly one process is about to
\* free it.
FreeInv ==
  /\ \A c \in freed : Born(c) /\ ws[c].ref = 0
  /\ \A p, c \in Proc : Frees(p, c) => Born(c) /\ ws[c].ref = 0 /\ c \notin freed
  /\ \A p, q, c \in Proc : Frees(p, c) /\ Frees(q, c) => p = q
  /\ \A c \in Proc : Born(c) /\ ws[c].ref = 0 =>
       c \in freed \/ \E p \in Proc : Frees(p, c)

\* What has been reported so far, and what is about to be reported.
ResultInv ==
  /\ \A c \in Proc :
       /\ pc[c] = "exit_signal" \/ Exited(c) => c \notin files
       /\ ws[c].exited > 0 => Exited(c)
       /\ reaped[c] # NULL => Exited(c) /\ reaped[c] = ExitCode(c)
       /\ pc[c] \in {"none", "load"} => c \notin loaded
       /\ pc[c] = "signal" => (succeed[creator[c]] <=> c \in loaded)
       /\ c \in loaded /\ c \notin told =>
            creator[c] \in Proc /\ pc[creator[c]] = "exec_wait" /\ target[creator[c]] = c
  /\ \A p \in Proc : pc[p] = "exec_wait" /\ load_sema[p] > 0 =>
       /\ target[p] \in Proc
       /\ pc[target[p]] \notin {"none", "load", "signal"}
       /\ succeed[p] <=> target[p] \in loaded
  /\ told \subseteq loaded

IInv ==
  /\ TypeOK /\ TreeInv /\ CallInv /\ RefInv /\ FreeInv /\ ArgSetLive /\ ResultInv

\* What the updates of a wait_status leave of its type.
LEMMA StatusTypes ==
  ASSUME NEW r \in WaitStatus
  PROVE  /\ [r EXCEPT !.exited = @ + 1] \in WaitStatus
         /\ r.exited > 0 => [r EXCEPT !.exited = @ - 1] \in WaitStatus
         /\ [r EXCEPT !.ref = @ - 1] \in WaitStatus
         /\ [r EXCEPT !.killed = TRUE] \in WaitStatus
         /\ \A k \in Code : [r EXCEPT !.code = k] \in WaitStatus
<1>1. [r EXCEPT !.exited = @ + 1] \in WaitStatus
  BY SMTT(60) DEF WaitStatus
<1>2. r.exited > 0 => [r EXCEPT !.exited = @ - 1] \in WaitStatus
  BY SMTT(60) DEF WaitStatus
<1>3. [r EXCEPT !.ref = @ - 1] \in WaitStatus
  BY SMTT(60) DEF WaitStatus
<1>4. [r EXCEPT !.killed = TRUE] \in WaitStatus
  BY DEF WaitStatus
<1>5. \A k \in Code : [r EXCEPT !.code = k] \in WaitStatus
  BY DEF WaitStatus
<1> QED
  BY <1>1, <1>2, <1>3, <1>4, <1>5

\* process_execute creates a child with two references to its wait_status.
LEMMA process_executeKeeps ==
  ASSUME IInv, NEW p \in Proc, NEW c \in Proc, process_execute(p, c)
  PROVE  IInv'
<1> USE ProcessAssumption DEF IInv, TypeOK, process_execute, Idle, At, resources
<1>1. TypeOK'
  <2>1. pc' \in [Proc -> Pc]
    BY DEF Pc
  <2>2. children' \in [Proc -> SUBSET Proc]
    OBVIOUS
  <2>3. ws' \in [Proc -> WaitStatus]
    BY SMTT(60) DEF WaitStatus, NewStatus
  <2>4. target' \in [Proc -> Proc \cup {NULL}]
    OBVIOUS
  <2>5. creator' \in [Proc -> Proc \cup {NULL}]
    OBVIOUS
  <2>6. load_sema' \in [Proc -> Nat]
    OBVIOUS
  <2> QED
    BY <2>1, <2>2, <2>3, <2>4, <2>5, <2>6
<1>2. TreeInv'
  BY SMTT(60) DEF TreeInv, Born, CallInv
<1>3. CallInv'
  BY SMTT(60) DEF CallInv, Born, Drops
<1>4. RefInv'
  BY SMTT(60) DEF TreeInv, RefInv, Born, ParentHolds, SelfHolds, NewStatus
<1>5. FreeInv'
  <2>1. \A d \in freed' : Born(d)' /\ ws'[d].ref = 0
    BY DEF FreeInv, Born
  <2>2. \A q, d \in Proc : Frees(q, d)' => Born(d)' /\ ws'[d].ref = 0 /\ d \notin freed'
    BY SMTT(60) DEF FreeInv, Frees, Born
  <2>3. \A q, r, d \in Proc : Frees(q, d)' /\ Frees(r, d)' => q = r
    BY SMTT(60) DEF FreeInv, Frees
  <2>4. ASSUME NEW d \in Proc, Born(d)', ws'[d].ref = 0
        PROVE  d \in freed' \/ \E q \in Proc : Frees(q, d)'
    <3>1. Born(d) /\ ws[d].ref = 0
      BY <2>4, SMTT(60) DEF Born, NewStatus
    <3>2. ASSUME NEW q \in Proc, Frees(q, d)
          PROVE  Frees(q, d)'
      BY <3>2 DEF Frees
    <3> QED
      BY <3>1, <3>2 DEF FreeInv
  <2> QED
    BY <2>1, <2>2, <2>3, <2>4 DEF FreeInv
<1>6. ArgSetLive'
  BY SMTT(60) DEF TreeInv, ArgSetLive, Born
<1>7. ResultInv'
  <2>1. ASSUME NEW d \in Proc
        PROVE  /\ pc'[d] = "exit_signal" \/ Exited(d)' => d \notin files'
               /\ ws'[d].exited > 0 => Exited(d)'
               /\ reaped'[d] # NULL => Exited(d)' /\ reaped'[d] = ExitCode(d)'
               /\ pc'[d] \in {"none", "load"} => d \notin loaded'
               /\ pc'[d] = "signal" => (succeed'[creator'[d]] <=> d \in loaded')
               /\ d \in loaded' /\ d \notin told' =>
                    creator'[d] \in Proc /\ pc'[creator'[d]] = "exec_wait" /\ target'[creator'[d]] = d
    <3>1. pc'[d] = "exit_signal" \/ Exited(d)' => d \notin files'
      BY SMTT(60) DEF ResultInv, Exited
    <3>2. ws'[d].exited > 0 => Exited(d)'
      <4>1. ws'[d].exited > 0 => d # c /\ ws[d].exited > 0
        BY SMTT(60) DEF NewStatus
      <4> QED
        BY <4>1, SMTT(60) DEF ResultInv, Exited
    <3>3. reaped'[d] # NULL => Exited(d)' /\ reaped'[d] = ExitCode(d)'
      BY SMTT(60) DEF TreeInv, CallInv, ResultInv, Drops, Exited, ExitCode
    <3>4. pc'[d] \in {"none", "load"} => d \notin loaded'
      BY SMTT(60) DEF ResultInv
    <3>5. pc'[d] = "signal" => (succeed'[creator'[d]] <=> d \in loaded')
      BY SMTT(60) DEF ResultInv
    <3>6. d \in loaded' /\ d \notin told' =>
          creator'[d] \in Proc /\ pc'[creator'[d]] = "exec_wait" /\ target'[creator'[d]] = d
      BY SMTT(60) DEF ResultInv
    <3> QED
      BY <3>1, <3>2, <3>3, <3>4, <3>5, <3>6
  <2>2. ASSUME NEW q \in Proc, pc'[q] = "exec_wait", load_sema'[q] > 0
        PROVE  /\ target'[q] \in Proc
               /\ pc'[target'[q]] \notin {"none", "load", "signal"}
               /\ succeed'[q] <=> target'[q] \in loaded'
    BY <2>2, SMTT(60) DEF ResultInv
  <2>3. told' \subseteq loaded'
    BY DEF ResultInv
  <2> QED
    BY <2>1, <2>2, <2>3 DEF ResultInv
<1> QED
  BY <1>1, <1>2, <1>3, <1>4, <1>5, <1>6, <1>7

\* thread_create fails: nothing has been created.
LEMMA ThreadCreateFailsKeeps ==
  ASSUME IInv, NEW p \in Proc, ThreadCreateFails(p)
  PROVE  IInv'
<1> USE ProcessAssumption DEF IInv, TypeOK, ThreadCreateFails, Idle, At, Goto, resources
<1>1. TypeOK'
  BY DEF Pc
<1>2. TreeInv'
  BY SMTT(60) DEF TreeInv, Born, CallInv
<1>3. CallInv'
  BY DEF CallInv, Born, Drops
<1>4. RefInv'
  BY SMTT(60) DEF RefInv, Born, ParentHolds, SelfHolds
<1>5. FreeInv'
  BY SMTT(60) DEF FreeInv, Frees, Born
<1>6. ArgSetLive'
  BY SMTT(60) DEF ArgSetLive
<1>7. ResultInv'
  BY SMTT(60) DEF ResultInv, Exited, ExitCode
<1> QED
  BY <1>1, <1>2, <1>3, <1>4, <1>5, <1>6, <1>7

\* The wait_status cannot be allocated: exec fails.
LEMMA StatusAllocFailsKeeps ==
  ASSUME IInv, NEW p \in Proc, StatusAllocFails(p)
  PROVE  IInv'
<1> USE ProcessAssumption DEF IInv, TypeOK, StatusAllocFails, Idle, At, Goto, locals, resources
<1>1. TypeOK'
  BY DEF Pc
<1>2. TreeInv'
  BY SMTT(60) DEF TreeInv, Born, CallInv
<1>3. CallInv'
  BY DEF CallInv, Born, Drops
<1>4. RefInv'
  BY SMTT(60) DEF RefInv, Born, ParentHolds, SelfHolds
<1>5. FreeInv'
  BY SMTT(60) DEF FreeInv, Frees, Born
<1>6. ArgSetLive'
  BY SMTT(60) DEF ArgSetLive
<1>7. ResultInv'
  BY SMTT(60) DEF ResultInv, Exited, ExitCode
<1> QED
  BY <1>1, <1>2, <1>3, <1>4, <1>5, <1>6, <1>7

\* start_process loads the executable, or fails to.
LEMMA start_processKeeps ==
  ASSUME IInv, NEW p \in Proc, start_process(p)
  PROVE  IInv'
<1> USE ProcessAssumption DEF IInv, TypeOK, start_process, At, Goto
<1>1. TypeOK'
  <2>1. pc' \in [Proc -> Pc]
    BY DEF Pc
  <2>2. succeed' \in [Proc -> BOOLEAN]
    BY DEF TypeOK
  <2>3. loaded' \subseteq Proc
    OBVIOUS
  <2>4. files' \subseteq Proc
    OBVIOUS
  <2> QED
    BY <2>1, <2>2, <2>3, <2>4
<1>2. TreeInv'
  BY SMTT(60) DEF TreeInv, Born, CallInv
<1>3. CallInv'
  BY SMTT(60) DEF CallInv, Born, Drops
<1>4. RefInv'
  BY SMTT(60) DEF RefInv, Born, ParentHolds, SelfHolds
<1>5. FreeInv'
  BY SMTT(60) DEF FreeInv, Frees, Born
<1>6. ArgSetLive'
  BY SMTT(60) DEF ArgSetLive
<1>7. ResultInv'
  BY SMTT(60) DEF TreeInv, ArgSetLive, ResultInv, Born, Exited, ExitCode
<1> QED
  BY <1>1, <1>2, <1>3, <1>4, <1>5, <1>6, <1>7

\* The child tells its creator how the load went.
LEMMA SignalLoadKeeps ==
  ASSUME IInv, NEW p \in Proc, SignalLoad(p)
  PROVE  IInv'
<1> USE ProcessAssumption DEF IInv, TypeOK, SignalLoad, At, Goto
<1>1. TypeOK'
  <2>1. pc' \in [Proc -> Pc]
    BY DEF Pc
  <2>2. load_sema' \in [Proc -> Nat]
    BY SMTT(60) DEF TreeInv, Born
  <2>3. cwd' \subseteq Proc
    OBVIOUS
  <2> QED
    BY <2>1, <2>2, <2>3
<1>2. TreeInv'
  BY SMTT(60) DEF TreeInv, Born, CallInv
<1>3. CallInv'
  BY DEF CallInv, Born, Drops
<1>4. RefInv'
  <2> SUFFICES ASSUME NEW d \in Proc, Born(d)'
               PROVE  /\ Born(d) /\ (ParentHolds(d)' <=> ParentHolds(d))
                      /\ SelfHolds(d)' <=> SelfHolds(d)
                      /\ ws'[d].ref = ws[d].ref
    BY DEF RefInv
  <2>1. Born(d)
    BY DEF Born
  <2>2. ParentHolds(d)' <=> ParentHolds(d)
    BY <2>1, SMTT(60) DEF ParentHolds
  <2>3. SelfHolds(d)' <=> SelfHolds(d)
    BY DEF SelfHolds
  <2>4. ws'[d].ref = ws[d].ref
    OBVIOUS
  <2> QED
    BY <2>1, <2>2, <2>3, <2>4
<1>5. FreeInv'
  BY SMTT(60) DEF FreeInv, Frees, Born
<1>6. ArgSetLive'
  BY SMTT(60) DEF ArgSetLive
<1>7. ResultInv'
  BY SMTT(60) DEF ArgSetLive, ResultInv, Exited, ExitCode
<1> QED
  BY <1>1, <1>2, <1>3, <1>4, <1>5, <1>6, <1>7

\* process_execute returns what the child has told it.
LEMMA ExecReturnKeeps ==
  ASSUME IInv, NEW p \in Proc, ExecReturn(p)
  PROVE  IInv'
<1> USE ProcessAssumption DEF IInv, TypeOK, ExecReturn, At, Goto
<1>1. TypeOK'
  <2>1. pc' \in [Proc -> Pc]
    BY DEF Pc
  <2>2. load_sema' \in [Proc -> Nat]
    BY SMTT(60)
  <2>3. told' \subseteq Proc
    BY SMTT(60) DEF ResultInv
  <2>4. target' \in [Proc -> Proc \cup {NULL}]
    OBVIOUS
  <2> QED
    BY <2>1, <2>2, <2>3, <2>4
<1>2. TreeInv'
  BY SMTT(60) DEF TreeInv, Born, CallInv
<1>3. CallInv'
  BY DEF CallInv, Born, Drops
<1>4. RefInv'
  <2> SUFFICES ASSUME NEW d \in Proc, Born(d)'
               PROVE  /\ Born(d) /\ (ParentHolds(d)' <=> ParentHolds(d))
                      /\ SelfHolds(d)' <=> SelfHolds(d)
                      /\ ws'[d].ref = ws[d].ref
    BY DEF RefInv
  <2>1. Born(d)
    BY DEF Born
  <2>2. ParentHolds(d)' <=> ParentHolds(d)
    BY <2>1, SMTT(60) DEF ParentHolds
  <2>3. SelfHolds(d)' <=> SelfHolds(d)
    BY DEF SelfHolds
  <2>4. ws'[d].ref = ws[d].ref
    OBVIOUS
  <2> QED
    BY <2>1, <2>2, <2>3, <2>4
<1>5. FreeInv'
  BY SMTT(60) DEF FreeInv, Frees, Born
<1>6. ArgSetLive'
  BY SMTT(60) DEF ArgSetLive
<1>7. ResultInv'
  BY SMTT(60) DEF ResultInv, Exited, ExitCode
<1> QED
  BY <1>1, <1>2, <1>3, <1>4, <1>5, <1>6, <1>7

\* process_wait finds the child on the list.
LEMMA process_waitKeeps ==
  ASSUME IInv, NEW p \in Proc, NEW c \in Proc, process_wait(p, c)
  PROVE  IInv'
<1> USE ProcessAssumption DEF IInv, TypeOK, process_wait, At, Goto, resources
<1>1. TypeOK'
  BY DEF Pc
<1>2. TreeInv'
  BY SMTT(60) DEF TreeInv, Born, CallInv
<1>3. CallInv'
  BY DEF CallInv, Born, Drops
<1>4. RefInv'
  BY SMTT(60) DEF RefInv, Born, ParentHolds, SelfHolds
<1>5. FreeInv'
  BY SMTT(60) DEF FreeInv, Frees, Born
<1>6. ArgSetLive'
  BY SMTT(60) DEF ArgSetLive
<1>7. ResultInv'
  BY SMTT(60) DEF ResultInv, Exited, ExitCode
<1> QED
  BY <1>1, <1>2, <1>3, <1>4, <1>5, <1>6, <1>7

\* process_wait gets the exit code of a child that has exited, and takes it
\* off the list.
LEMMA WaitDownKeeps ==
  ASSUME IInv, NEW p \in Proc, WaitDown(p)
  PROVE  IInv'
<1> USE ProcessAssumption DEF IInv, TypeOK, WaitDown, At, Goto, locals
<1>1. TypeOK'
  <2>1. pc' \in [Proc -> Pc]
    BY DEF Pc
  <2>2. ws' \in [Proc -> WaitStatus]
    <3>1. target[p] \in Proc
      BY DEF CallInv
    <3>2. [ws[target[p]] EXCEPT !.exited = @ - 1] \in WaitStatus
      BY <3>1, StatusTypes
    <3>3. ws' = [ws EXCEPT ![target[p]] = [ws[target[p]] EXCEPT !.exited = @ - 1]]
      BY <3>1
    <3> QED
      BY <3>1, <3>2, <3>3, SMTT(60)
  <2>3. reaped' \in [Proc -> Int \cup {NULL}]
    BY SMTT(60) DEF ExitCode, WaitStatus, CallInv
  <2>4. children' \in [Proc -> SUBSET Proc]
    OBVIOUS
  <2> QED
    BY <2>1, <2>2, <2>3, <2>4
<1>2. TreeInv'
  BY SMTT(60) DEF TreeInv, Born, CallInv
<1>3. CallInv'
  BY SMTT(60) DEF TreeInv, CallInv, Born, Drops
<1>4. RefInv'
  BY SMTT(60) DEF CallInv, RefInv, Born, Drops, ParentHolds, SelfHolds
<1>5. FreeInv'
  BY SMTT(60) DEF FreeInv, Frees, Born
<1>6. ArgSetLive'
  BY SMTT(60) DEF ArgSetLive
<1>7. ResultInv'
  BY SMTT(60) DEF CallInv, ResultInv, Exited, ExitCode
<1> QED
  BY <1>1, <1>2, <1>3, <1>4, <1>5, <1>6, <1>7

\* wait_status_mod_ref takes one reference away; the last one is to free.
LEMMA ModRefKeeps ==
  ASSUME IInv, NEW p \in Proc, ModRef(p)
  PROVE  IInv'
<1> USE ProcessAssumption DEF IInv, TypeOK, ModRef, At, Goto, resources
<1>1. TypeOK'
  <2>1. pc' \in [Proc -> Pc]
    BY DEF Pc
  <2>2. ws' \in [Proc -> WaitStatus]
    <3>1. target[p] \in Proc
      BY DEF CallInv, Drops
    <3>2. [ws[target[p]] EXCEPT !.ref = @ - 1] \in WaitStatus
      BY <3>1, StatusTypes
    <3>3. ws' = [ws EXCEPT ![target[p]] = [ws[target[p]] EXCEPT !.ref = @ - 1]]
      BY <3>1
    <3> QED
      BY <3>1, <3>2, <3>3, SMTT(60)
  <2>3. shouldFree' \in [Proc -> BOOLEAN]
    OBVIOUS
  <2> QED
    BY <2>1, <2>2, <2>3
<1>2. TreeInv'
  BY SMTT(60) DEF TreeInv, Born, CallInv
<1>3. CallInv'
  BY SMTT(60) DEF CallInv, Born, Drops
<1>4. RefInv'
  BY SMTT(60) DEF CallInv, RefInv, Born, Drops, ParentHolds, SelfHolds
<1>5. FreeInv'
  <2>0. target[p] \in Proc /\ ws[target[p]].ref > 0 /\ Born(target[p])
    BY SMTT(60) DEF TreeInv, CallInv, RefInv, Born, Drops, ParentHolds, SelfHolds
  <2>1. \A d \in freed' : Born(d)' /\ ws'[d].ref = 0
    BY <2>0, SMTT(60) DEF FreeInv, Born
  <2>2. \A q, d \in Proc : Frees(q, d)' => Born(d)' /\ ws'[d].ref = 0 /\ d \notin freed'
    BY SMTT(60) DEF TreeInv, CallInv, RefInv, FreeInv, Frees, Born, Drops, ParentHolds, SelfHolds
  <2>3. \A q, r, d \in Proc : Frees(q, d)' /\ Frees(r, d)' => q = r
    BY SMTT(60) DEF CallInv, FreeInv, Frees
  <2>4. ASSUME NEW d \in Proc, Born(d)', ws'[d].ref = 0
        PROVE  d \in freed' \/ \E q \in Proc : Frees(q, d)'
    <3>1. CASE d = target[p]
      <4>1. ws[d].ref = 1
        BY <2>4, <3>1, SMTT(60)
      <4>2. Frees(p, d)'
        BY <3>1, <4>1 DEF Frees
      <4> QED
        BY <4>2
    <3>2. CASE d # target[p]
      <4>1. Born(d) /\ ws[d].ref = 0
        BY <2>4, <3>2 DEF Born
      <4>2. ASSUME NEW q \in Proc, Frees(q, d)
            PROVE  Frees(q, d)'
        BY <4>2 DEF Frees
      <4> QED
        BY <4>1, <4>2 DEF FreeInv
    <3> QED
      BY <3>1, <3>2
  <2> QED
    BY <2>1, <2>2, <2>3, <2>4 DEF FreeInv
<1>6. ArgSetLive'
  BY SMTT(60) DEF ArgSetLive
<1>7. ResultInv'
  BY SMTT(60) DEF ResultInv, Exited, ExitCode
<1> QED
  BY <1>1, <1>2, <1>3, <1>4, <1>5, <1>6, <1>7

\* The wait_status is freed by whoever took the last reference away.
LEMMA FreeKeeps ==
  ASSUME IInv, NEW p \in Proc, Free(p)
  PROVE  IInv'
<1> USE ProcessAssumption DEF IInv, TypeOK, Free, At, Goto, resources
<1>1. TypeOK'
  <2>1. pc' \in [Proc -> Pc]
    BY DEF Pc
  <2>2. freed' \subseteq Proc
    BY SMTT(60) DEF CallInv, Drops
  <2>3. target' \in [Proc -> Proc \cup {NULL}]
    OBVIOUS
  <2>4. return' \in [Proc -> {"user", "exit_children", "dead"}]
    OBVIOUS
  <2>5. shouldFree' \in [Proc -> BOOLEAN]
    OBVIOUS
  <2> QED
    BY <2>1, <2>2, <2>3, <2>4, <2>5
<1>2. TreeInv'
  BY SMTT(60) DEF TreeInv, Born, CallInv
<1>3. CallInv'
  BY SMTT(60) DEF CallInv, Born, Drops
<1>4. RefInv'
  BY SMTT(60) DEF RefInv, Born, ParentHolds, SelfHolds, WaitStatus
<1>5. FreeInv'
  BY SMTT(60) DEF TreeInv, CallInv, FreeInv, Frees, Born, Drops
<1>6. ArgSetLive'
  BY SMTT(60) DEF ArgSetLive
<1>7. ResultInv'
  <2>1. ASSUME NEW d \in Proc
        PROVE  /\ pc'[d] = "exit_signal" \/ Exited(d)' => d \notin files'
               /\ ws'[d].exited > 0 => Exited(d)'
               /\ reaped'[d] # NULL => Exited(d)' /\ reaped'[d] = ExitCode(d)'
               /\ pc'[d] \in {"none", "load"} => d \notin loaded'
               /\ pc'[d] = "signal" => (succeed'[creator'[d]] <=> d \in loaded')
               /\ d \in loaded' /\ d \notin told' =>
                    creator'[d] \in Proc /\ pc'[creator'[d]] = "exec_wait" /\ target'[creator'[d]] = d
    <3>1. pc'[d] = "exit_signal" \/ Exited(d)' => d \notin files'
      BY SMTT(60) DEF ResultInv, Exited
    <3>2. ws'[d].exited > 0 => Exited(d)'
      BY SMTT(60) DEF ResultInv, Exited
    <3>3. reaped'[d] # NULL => Exited(d)' /\ reaped'[d] = ExitCode(d)'
      BY SMTT(60) DEF ResultInv, Exited, ExitCode
    <3>4. pc'[d] \in {"none", "load"} => d \notin loaded'
      BY SMTT(60) DEF ResultInv, Exited
    <3>5. pc'[d] = "signal" => (succeed'[creator'[d]] <=> d \in loaded')
      <4>1. pc'[d] = "signal" => pc[d] = "signal"
        OBVIOUS
      <4> QED
        BY <4>1 DEF ResultInv
    <3>6. d \in loaded' /\ d \notin told' =>
          creator'[d] \in Proc /\ pc'[creator'[d]] = "exec_wait" /\ target'[creator'[d]] = d
      BY DEF ResultInv
    <3> QED
      BY <3>1, <3>2, <3>3, <3>4, <3>5, <3>6
  <2>2. ASSUME NEW q \in Proc, pc'[q] = "exec_wait", load_sema'[q] > 0
        PROVE  /\ target'[q] \in Proc
               /\ pc'[target'[q]] \notin {"none", "load", "signal"}
               /\ succeed'[q] <=> target'[q] \in loaded'
    <3>1. q # p /\ pc[q] = "exec_wait" /\ load_sema[q] > 0 /\ target'[q] = target[q]
      BY <2>2
    <3>2. /\ target[q] \in Proc
          /\ pc[target[q]] \notin {"none", "load", "signal"}
          /\ succeed[q] <=> target[q] \in loaded
      BY <3>1 DEF ResultInv
    <3>3. pc'[target[q]] \notin {"none", "load", "signal"}
      BY <3>2
    <3> QED
      BY <3>1, <3>2, <3>3
  <2>3. told' \subseteq loaded'
    BY DEF ResultInv
  <2> QED
    BY <2>1, <2>2, <2>3 DEF ResultInv
<1> QED
  BY <1>1, <1>2, <1>3, <1>4, <1>5, <1>6, <1>7

\* A process calls exit and leaves its code.
LEMMA ExitKeeps ==
  ASSUME IInv, NEW p \in Proc, NEW k \in Code, Exit(p, k)
  PROVE  IInv'
<1> USE ProcessAssumption DEF IInv, TypeOK, Exit, At, Goto, locals, resources
<1>1. TypeOK'
  BY SMTT(60) DEF Pc, WaitStatus
<1>2. TreeInv'
  BY SMTT(60) DEF TreeInv, Born, CallInv
<1>3. CallInv'
  BY DEF CallInv, Born, Drops
<1>4. RefInv'
  BY SMTT(60) DEF RefInv, Born, ParentHolds, SelfHolds
<1>5. FreeInv'
  BY SMTT(60) DEF FreeInv, Frees, Born
<1>6. ArgSetLive'
  BY SMTT(60) DEF ArgSetLive
<1>7. ResultInv'
  BY SMTT(60) DEF ResultInv, Exited, ExitCode
<1> QED
  BY <1>1, <1>2, <1>3, <1>4, <1>5, <1>6, <1>7

\* kill: an exception ends the process.
LEMMA killKeeps ==
  ASSUME IInv, NEW p \in Proc, kill(p)
  PROVE  IInv'
<1> USE ProcessAssumption DEF IInv, TypeOK, kill, At, Goto, locals, resources
<1>1. TypeOK'
  <2>1. pc' \in [Proc -> Pc]
    BY DEF Pc
  <2>2. ws' \in [Proc -> WaitStatus]
    BY StatusTypes
  <2> QED
    BY <2>1, <2>2
<1>2. TreeInv'
  BY SMTT(60) DEF TreeInv, Born, CallInv
<1>3. CallInv'
  BY DEF CallInv, Born, Drops
<1>4. RefInv'
  BY SMTT(60) DEF RefInv, Born, ParentHolds, SelfHolds
<1>5. FreeInv'
  BY SMTT(60) DEF FreeInv, Frees, Born
<1>6. ArgSetLive'
  BY SMTT(60) DEF ArgSetLive
<1>7. ResultInv'
  BY SMTT(60) DEF ResultInv, Exited, ExitCode
<1> QED
  BY <1>1, <1>2, <1>3, <1>4, <1>5, <1>6, <1>7

\* process_exit closes the files of the process.
LEMMA process_exitKeeps ==
  ASSUME IInv, NEW p \in Proc, process_exit(p)
  PROVE  IInv'
<1> USE ProcessAssumption DEF IInv, TypeOK, process_exit, At, Goto, locals
<1>1. TypeOK'
  BY DEF Pc
<1>2. TreeInv'
  BY SMTT(60) DEF TreeInv, Born, CallInv
<1>3. CallInv'
  BY DEF CallInv, Born, Drops
<1>4. RefInv'
  BY SMTT(60) DEF RefInv, Born, ParentHolds, SelfHolds
<1>5. FreeInv'
  BY SMTT(60) DEF FreeInv, Frees, Born
<1>6. ArgSetLive'
  BY SMTT(60) DEF ArgSetLive
<1>7. ResultInv'
  BY SMTT(60) DEF ResultInv, Exited, ExitCode
<1> QED
  BY <1>1, <1>2, <1>3, <1>4, <1>5, <1>6, <1>7

\* process_exit tells the parent that the process has exited.
LEMMA ExitSignalKeeps ==
  ASSUME IInv, NEW p \in Proc, ExitSignal(p)
  PROVE  IInv'
<1> USE ProcessAssumption DEF IInv, TypeOK, ExitSignal, At, Goto, locals, resources
<1>1. TypeOK'
  <2>1. pc' \in [Proc -> Pc]
    BY SMTT(60) DEF Pc
  <2>2. ws' \in [Proc -> WaitStatus]
    <3>1. [ws[p] EXCEPT !.exited = @ + 1] \in WaitStatus
      BY StatusTypes
    <3>2. CASE p # Main
      <4>1. ws' = [ws EXCEPT ![p] = [ws[p] EXCEPT !.exited = @ + 1]]
        BY <3>2
      <4> QED
        BY <3>1, <4>1
    <3>3. CASE p = Main
      BY <3>3
    <3> QED
      BY <3>2, <3>3
  <2> QED
    BY <2>1, <2>2
<1>2. TreeInv'
  BY SMTT(60) DEF TreeInv, Born, CallInv
<1>3. CallInv'
  BY SMTT(60) DEF CallInv, Born, Drops
<1>4. RefInv'
  <2> SUFFICES ASSUME NEW d \in Proc, Born(d)'
               PROVE  /\ Born(d) /\ (ParentHolds(d)' <=> ParentHolds(d))
                      /\ SelfHolds(d)' <=> SelfHolds(d)
                      /\ ws'[d].ref = ws[d].ref
    BY DEF RefInv
  <2>1. Born(d)
    BY DEF Born
  <2>2. ParentHolds(d)' <=> ParentHolds(d)
    BY <2>1, SMTT(60) DEF ParentHolds, TreeInv
  <2>3. SelfHolds(d)' <=> SelfHolds(d)
    BY SMTT(60) DEF SelfHolds
  <2>4. ws'[d].ref = ws[d].ref
    <3>1. CASE d = p /\ p # Main
      <4>1. ws'[d] = [ws[d] EXCEPT !.exited = @ + 1]
        BY <3>1
      <4> QED
        BY <4>1, SMTT(60)
    <3>2. CASE d # p \/ p = Main
      BY <3>2
    <3> QED
      BY <3>1, <3>2
  <2> QED
    BY <2>1, <2>2, <2>3, <2>4
<1>5. FreeInv'
  <2>1. \A d \in freed' : Born(d)' /\ ws'[d].ref = 0
    BY SMTT(60) DEF FreeInv, Born, WaitStatus
  <2>2. \A q, d \in Proc : Frees(q, d)' => Born(d)' /\ ws'[d].ref = 0 /\ d \notin freed'
    BY SMTT(60) DEF FreeInv, Frees, Born, WaitStatus
  <2>3. \A q, r, d \in Proc : Frees(q, d)' /\ Frees(r, d)' => q = r
    BY SMTT(60) DEF FreeInv, Frees
  <2>4. ASSUME NEW d \in Proc, Born(d)', ws'[d].ref = 0
        PROVE  d \in freed' \/ \E q \in Proc : Frees(q, d)'
    BY <2>4, SMTT(60) DEF FreeInv, Frees, Born, WaitStatus
  <2> QED
    BY <2>1, <2>2, <2>3, <2>4 DEF FreeInv
<1>6. ArgSetLive'
  BY SMTT(60) DEF TreeInv, ArgSetLive, Born
<1>7. ResultInv'
  BY SMTT(60) DEF TreeInv, ResultInv, Exited, ExitCode
<1> QED
  BY <1>1, <1>2, <1>3, <1>4, <1>5, <1>6, <1>7

\* process_exit closes the current directory.
LEMMA CloseCwdKeeps ==
  ASSUME IInv, NEW p \in Proc, CloseCwd(p)
  PROVE  IInv'
<1> USE ProcessAssumption DEF IInv, TypeOK, CloseCwd, At, Goto, locals
<1>1. TypeOK'
  BY DEF Pc
<1>2. TreeInv'
  BY SMTT(60) DEF TreeInv, Born, CallInv
<1>3. CallInv'
  BY DEF CallInv, Born, Drops
<1>4. RefInv'
  BY SMTT(60) DEF RefInv, Born, ParentHolds, SelfHolds
<1>5. FreeInv'
  BY SMTT(60) DEF FreeInv, Frees, Born
<1>6. ArgSetLive'
  BY SMTT(60) DEF ArgSetLive
<1>7. ResultInv'
  BY SMTT(60) DEF ResultInv, Exited, ExitCode
<1> QED
  BY <1>1, <1>2, <1>3, <1>4, <1>5, <1>6, <1>7

\* A process drops its children one by one, then its own wait_status.
LEMMA thread_exitKeeps ==
  ASSUME IInv, NEW p \in Proc, thread_exit(p)
  PROVE  IInv'
<1> USE ProcessAssumption DEF IInv, TypeOK, thread_exit, At, Goto, resources
<1>1. TypeOK'
  <2>1. pc' \in [Proc -> Pc]
    BY DEF Pc
  <2>2. children' \in [Proc -> SUBSET Proc]
    BY SMTT(60)
  <2>3. target' \in [Proc -> Proc \cup {NULL}]
    BY SMTT(60)
  <2>4. return' \in [Proc -> {"user", "exit_children", "dead"}]
    OBVIOUS
  <2> QED
    BY <2>1, <2>2, <2>3, <2>4
<1>2. TreeInv'
  BY SMTT(60) DEF TreeInv, Born, CallInv
<1>3. CallInv'
  BY SMTT(60) DEF TreeInv, CallInv, Born, Drops
<1>4. RefInv'
  BY SMTT(60) DEF TreeInv, RefInv, Born, ParentHolds, SelfHolds
<1>5. FreeInv'
  <2>1. \A d \in freed' : Born(d)' /\ ws'[d].ref = 0
    BY DEF FreeInv, Born
  <2>2. \A q, d \in Proc : Frees(q, d)' => Born(d)' /\ ws'[d].ref = 0 /\ d \notin freed'
    BY SMTT(60) DEF FreeInv, Frees, Born
  <2>3. \A q, r, d \in Proc : Frees(q, d)' /\ Frees(r, d)' => q = r
    BY SMTT(60) DEF FreeInv, Frees
  <2>4. ASSUME NEW d \in Proc, Born(d)', ws'[d].ref = 0
        PROVE  d \in freed' \/ \E q \in Proc : Frees(q, d)'
    <3>1. Born(d) /\ ws[d].ref = 0
      BY <2>4 DEF Born
    <3>2. ASSUME NEW q \in Proc, Frees(q, d)
          PROVE  Frees(q, d)'
      BY <3>2 DEF Frees
    <3> QED
      BY <3>1, <3>2 DEF FreeInv
  <2> QED
    BY <2>1, <2>2, <2>3, <2>4 DEF FreeInv
<1>6. ArgSetLive'
  BY SMTT(60) DEF TreeInv, ArgSetLive, Born
<1>7. ResultInv'
  BY SMTT(60) DEF ResultInv, Exited, ExitCode
<1> QED
  BY <1>1, <1>2, <1>3, <1>4, <1>5, <1>6, <1>7
\* The initial thread begins to exit, without a wait_status.
LEMMA MainExitKeeps ==
  ASSUME IInv, MainExit
  PROVE  IInv'
<1> USE ProcessAssumption DEF IInv, TypeOK, MainExit, Idle, At, Goto, locals, resources
<1>1. TypeOK'
  BY DEF Pc
<1>2. TreeInv'
  BY SMTT(60) DEF TreeInv, Born, Drops
<1>3. CallInv'
  BY DEF CallInv, Born, Drops
<1>4. RefInv'
  BY SMTT(60) DEF RefInv, Born, ParentHolds, SelfHolds
<1>5. FreeInv'
  BY SMTT(60) DEF FreeInv, Frees, Born
<1>6. ArgSetLive'
  BY SMTT(60) DEF ArgSetLive
<1>7. ResultInv'
  BY SMTT(60) DEF ResultInv, Exited, ExitCode
<1> QED
  BY <1>1, <1>2, <1>3, <1>4, <1>5, <1>6, <1>7

\* A step that changes nothing keeps the invariant.
LEMMA StutterKeeps ==
  ASSUME IInv, UNCHANGED vars
  PROVE  IInv'
<1> USE DEF vars, IInv
<1>1. TypeOK' /\ TreeInv' /\ CallInv'
  BY SMTT(60) DEF TypeOK, TreeInv, CallInv, Born, Drops
<1>2. RefInv'
  BY DEF RefInv, Born, ParentHolds, SelfHolds
<1>3. FreeInv'
  BY DEF FreeInv, Frees, Born
<1>4. ArgSetLive' /\ ResultInv'
  BY DEF ArgSetLive, ResultInv, Exited, ExitCode
<1> QED
  BY <1>1, <1>2, <1>3, <1>4

\* The invariant holds when only the initial thread exists.
LEMMA InitEstablishes == Init => IInv
<1> SUFFICES ASSUME Init
             PROVE  IInv
  OBVIOUS
<1> USE ProcessAssumption DEF Init
<1>1. TypeOK
  BY SMTT(60) DEF TypeOK, Pc, WaitStatus, NewStatus
<1>2. TreeInv /\ CallInv
  BY DEF TreeInv, CallInv, Born, Drops
<1>3. RefInv /\ FreeInv
  BY DEF RefInv, FreeInv, Born, Frees
<1>4. ArgSetLive /\ ResultInv
  BY SMTT(60) DEF ArgSetLive, ResultInv, NewStatus
<1> QED
  BY <1>1, <1>2, <1>3, <1>4 DEF IInv

\* Every step keeps the invariant.
LEMMA NextKeeps ==
  ASSUME IInv, [Next]_vars
  PROVE  IInv'
<1>1. CASE MainExit
  BY <1>1, MainExitKeeps
<1>2. ASSUME NEW p \in Proc, Call(p)
      PROVE  IInv'
  BY <1>2, process_executeKeeps, process_waitKeeps, ThreadCreateFailsKeeps,
     StatusAllocFailsKeeps, ExitKeeps, killKeeps DEF Call
<1>3. ASSUME NEW p \in Proc, Step(p)
      PROVE  IInv'
  BY <1>3, start_processKeeps, SignalLoadKeeps, ExecReturnKeeps, WaitDownKeeps,
     ModRefKeeps, FreeKeeps, process_exitKeeps, ExitSignalKeeps, CloseCwdKeeps,
     thread_exitKeeps DEF Step
<1>4. CASE UNCHANGED vars
  BY <1>4, StutterKeeps
<1> QED
  BY <1>1, <1>2, <1>3, <1>4 DEF Next

\* The inductive invariant holds in every reachable state.
LEMMA Invariance == Spec => []IInv
  BY InitEstablishes, NextKeeps, PTL DEF Spec

\* In every behaviour of any number of processes, wait_status_mod_ref frees a
\* wait_status after its last use and once, and start_process uses only an
\* arg_set that is still there.
THEOREM ReferencesAreLive == Spec => []NoUseAfterFree
<1>1. ASSUME IInv
      PROVE  NoUseAfterFree
  <2>1. ASSUME NEW p \in Proc, NEW c \in Touched(p)
        PROVE  c \notin freed
    BY <1>1, <2>1, ProcessAssumption, SMTT(60)
       DEF IInv, TypeOK, Touched, TreeInv, CallInv, RefInv, FreeInv, Born, Drops, ParentHolds,
           SelfHolds, Frees
  <2> QED
    BY <1>1, <2>1 DEF NoUseAfterFree, IInv
<1> QED
  BY <1>1, Invariance, PTL

\* And every wait_status is freed: once the child is dead and the parent has
\* dropped its reference in process_wait or thread_exit, it is gone.
THEOREM NothingLeaks == Spec => []NoLeak
<1>1. ASSUME IInv
      PROVE  NoLeak
  <2> SUFFICES ASSUME NEW c \in Proc, pc[c] = "dead",
                      \A p \in Proc : c \notin children[p] /\ ~(Drops(p) /\ target[p] = c)
               PROVE  c \in freed
    BY DEF NoLeak, Drops
  <2>1. Born(c) /\ ~ParentHolds(c) /\ ~SelfHolds(c)
    BY <1>1, ProcessAssumption DEF IInv, TreeInv, Born, ParentHolds, SelfHolds, Drops
  <2>2. ws[c].ref = 0
    BY <1>1, <2>1, SMTT(60) DEF IInv, RefInv
  <2>3. \A p \in Proc : ~Frees(p, c)
    BY DEF Frees, Drops
  <2> QED
    BY <1>1, <2>1, <2>2, <2>3 DEF IInv, FreeInv
<1> QED
  BY <1>1, Invariance, PTL

\* process_wait returns the last word of a child that has exited and closed its
\* files, and process_execute returns exactly the children that were loaded.
THEOREM ReportsAreTrue == Spec => []ResultsAreTrue
<1>1. ASSUME IInv
      PROVE  ResultsAreTrue
  BY <1>1 DEF IInv, TypeOK, ResultInv, ResultsAreTrue
<1> QED
  BY <1>1, Invariance, PTL
=============================================================================
