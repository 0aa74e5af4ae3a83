------------------------------- MODULE Process -------------------------------
(***************************************************************************)
(* exec, wait and exit: process_execute, start_process, process_wait and   *)
(* process_exit of userprog/process.c, the wait_status that a parent and   *)
(* its child share (threads/thread.c), and the system calls and the        *)
(* exception handler that end a process.                                   *)
(*                                                                         *)
(* A semaphore is its value; sema_down waits until it is positive.  The    *)
(* critical section of o_reference_count_lock is one step.  thread_exit    *)
(* runs with interrupts off, but a lock_acquire inside it can block, so    *)
(* other processes may run between its steps.                              *)
(***************************************************************************)
EXTENDS Integers, FiniteSets

CONSTANTS Proc,  \* tids; a tid is never used twice
          Main,  \* the initial thread
          Code,  \* what is passed to exit, by the program or by exit_error
          NULL

ASSUME ProcessAssumption ==
  /\ Main \in Proc /\ NULL \notin Proc
  /\ Code \subseteq Int
  /\ NULL \notin Int

VARIABLES
  pc,
  children,    \* o_children_wait_status_list, as the tids in it
  ws,          \* the wait_status of each tid
  freed,       \* the tids whose wait_status has been freed
  creator,     \* whose arg_set start_process was handed
  load_sema,   \* arg_set.my_load_semaphore on the stack of process_execute
  succeed,     \* arg_set.succeed
  target,      \* the wait_status a process works on, by tid
  return,      \* where it goes on after wait_status_mod_ref
  shouldFree,  \* the local variable of wait_status_mod_ref
  loaded,      \* the processes whose load succeeded: success in start_process
  files,       \* the processes whose executable and descriptors are open
  cwd,         \* the processes whose working directory is open
  told,        \* the tids that process_execute has returned
  reaped       \* what process_wait returned for each tid

vars == <<pc, children, ws, freed, creator, load_sema, succeed, target, return,
          shouldFree, loaded, files, cwd, told, reaped>>

Pc == {"none", "load", "signal", "user", "exec_wait", "wait", "exit",
       "exit_signal", "exit_cwd", "exit_children", "ref", "free", "dead",
       "null_create", "null_exit"}

\* o_sem_exited, o_exit_code, o_kernel_killed and o_reference_count.
WaitStatus ==
  [exited : Nat, code : Code \cup {0}, killed : BOOLEAN, ref : Int]

TypeOK ==
  /\ pc \in [Proc -> Pc]
  /\ children \in [Proc -> SUBSET Proc]
  /\ ws \in [Proc -> WaitStatus]
  /\ freed \subseteq Proc
  /\ creator \in [Proc -> Proc \cup {NULL}]
  /\ load_sema \in [Proc -> Nat]
  /\ succeed \in [Proc -> BOOLEAN]
  /\ target \in [Proc -> Proc \cup {NULL}]
  /\ return \in [Proc -> {"user", "exit_children", "dead"}]
  /\ shouldFree \in [Proc -> BOOLEAN]
  /\ loaded \subseteq Proc /\ files \subseteq Proc /\ cwd \subseteq Proc
  /\ told \subseteq Proc
  /\ reaped \in [Proc -> Int \cup {NULL}]

NewStatus == [exited |-> 0, code |-> 0, killed |-> FALSE, ref |-> 2]

Init ==
  /\ pc = [p \in Proc |-> IF p = Main THEN "user" ELSE "none"]
  /\ children = [p \in Proc |-> {}]
  /\ ws = [p \in Proc |-> NewStatus]
  /\ freed = {}
  /\ creator = [p \in Proc |-> NULL]
  /\ load_sema = [p \in Proc |-> 0]
  /\ succeed = [p \in Proc |-> FALSE]
  /\ target = [p \in Proc |-> NULL]
  /\ return = [p \in Proc |-> "user"]
  /\ shouldFree = [p \in Proc |-> FALSE]
  /\ loaded = {} /\ files = {} /\ cwd = {}
  /\ told = {}
  /\ reaped = [p \in Proc |-> NULL]

\* A page fault in the kernel panics.
Halted == \E p \in Proc : pc[p] \in {"null_create", "null_exit"}

At(p, l) == ~Halted /\ pc[p] = l

Goto(p, l) == pc' = [pc EXCEPT ![p] = l]

\* Open files and directories, and what the callers have been told.
resources == <<loaded, files, cwd, told, reaped>>

\* The local state of the calls a process makes.
locals == <<creator, load_sema, succeed, target, return, shouldFree>>

\* A process is in user code.  The initial thread runs run_task, which waits
\* for each program it has started before it goes on.
Idle(p) == At(p, "user") /\ (p = Main => children[p] \cap told = {})

-----------------------------------------------------------------------------
(* exec                                                                     *)

\* process_execute up to its sema_down: thread_create makes the child c and
\* its wait_status, with one reference for each of the two.
process_execute(p, c) ==
  /\ Idle(p)
  /\ pc[c] = "none"
  /\ pc' = [pc EXCEPT ![p] = "exec_wait", ![c] = "load"]
  /\ children' = [children EXCEPT ![p] = @ \cup {c}]
  /\ ws' = [ws EXCEPT ![c] = NewStatus]
  /\ creator' = [creator EXCEPT ![c] = p]
  /\ load_sema' = [load_sema EXCEPT ![p] = 0]
  /\ target' = [target EXCEPT ![p] = c]
  /\ UNCHANGED <<freed, succeed, return, shouldFree, resources>>

\* thread_create finds no page for the thread: process_execute goes on to its
\* sema_down all the same.
ThreadCreateFails(p) ==
  /\ Idle(p)
  /\ Goto(p, "exec_wait")
  /\ load_sema' = [load_sema EXCEPT ![p] = 0]
  /\ UNCHANGED <<children, ws, freed, creator, succeed, target, return,
                 shouldFree, resources>>

\* thread_create finds a page, but malloc finds no memory for the wait_status,
\* and the result is not looked at.
StatusAllocFails(p) ==
  /\ Idle(p)
  /\ Goto(p, "null_create")
  /\ UNCHANGED <<children, ws, freed, locals, resources>>

\* start_process up to its sema_up: load opens the executable or not, may
\* fail afterwards too, and the result is written into the parent's arg_set.
start_process(c) ==
  /\ At(c, "load")
  /\ \E success, opened \in BOOLEAN :
       /\ success => opened
       /\ succeed' = [succeed EXCEPT ![creator[c]] = success]
       /\ loaded' = IF success THEN loaded \cup {c} ELSE loaded
       /\ files' = IF opened THEN files \cup {c} ELSE files
  /\ Goto(c, "signal")
  /\ UNCHANGED <<children, ws, freed, creator, load_sema, target, return,
                 shouldFree, cwd, told, reaped>>

\* The sema_up, and then either user code with the root directory open, or
\* thread_exit.
SignalLoad(c) ==
  /\ At(c, "signal")
  /\ load_sema' = [load_sema EXCEPT ![creator[c]] = @ + 1]
  /\ cwd' = IF c \in loaded THEN cwd \cup {c} ELSE cwd
  /\ Goto(c, IF c \in loaded THEN "user" ELSE "exit")
  /\ UNCHANGED <<children, ws, freed, creator, succeed, target, return,
                 shouldFree, loaded, files, told, reaped>>

ExecReturn(p) ==
  /\ At(p, "exec_wait")
  /\ load_sema[p] > 0
  /\ load_sema' = [load_sema EXCEPT ![p] = @ - 1]
  /\ told' = IF succeed[p] THEN told \cup {target[p]} ELSE told
  /\ target' = [target EXCEPT ![p] = NULL]
  /\ Goto(p, "user")
  /\ UNCHANGED <<children, ws, freed, creator, succeed, return, shouldFree,
                 loaded, files, cwd, reaped>>

-----------------------------------------------------------------------------
(* wait                                                                     *)

\* thread_get_wait_status finds c; when it does not, the call returns -1 and
\* changes nothing.
process_wait(p, c) ==
  /\ At(p, "user")
  /\ p = Main => c \in told
  /\ c \in children[p]
  /\ target' = [target EXCEPT ![p] = c]
  /\ Goto(p, "wait")
  /\ UNCHANGED <<children, ws, freed, creator, load_sema, succeed, return,
                 shouldFree, resources>>

\* What process_wait returns for c.
ExitCode(c) == IF ws[c].killed THEN -1 ELSE ws[c].code

\* Mutant: the wait_status stays on the parent's list.
WaitDown_listed(p) ==
  LET c == target[p] IN
  /\ At(p, "wait")
  /\ ws[c].exited > 0
  /\ ws' = [ws EXCEPT ![c].exited = @ - 1]
  /\ reaped' = [reaped EXCEPT ![c] = ExitCode(c)]
  /\ Goto(p, "ref")
  /\ UNCHANGED <<children, freed, locals, loaded, files, cwd, told>>

\* sema_down on o_sem_exited, the exit code, and the removal from the list.
WaitDown(p) ==
  LET c == target[p] IN
  /\ At(p, "wait")
  /\ ws[c].exited > 0
  /\ ws' = [ws EXCEPT ![c].exited = @ - 1]
  /\ reaped' = [reaped EXCEPT ![c] = ExitCode(c)]
  /\ children' = [children EXCEPT ![p] = @ \ {c}]
  /\ Goto(p, "ref")
  /\ UNCHANGED <<freed, locals, loaded, files, cwd, told>>

-----------------------------------------------------------------------------
(* wait_status_mod_ref(ws, -1)                                              *)

\* The critical section of o_reference_count_lock.
ModRef(p) ==
  /\ At(p, "ref")
  /\ ws' = [ws EXCEPT ![target[p]].ref = @ - 1]
  /\ shouldFree' = [shouldFree EXCEPT ![p] = ws[target[p]].ref = 1]
  /\ Goto(p, "free")
  /\ UNCHANGED <<children, freed, creator, load_sema, succeed, target, return,
                 resources>>

Free(p) ==
  /\ At(p, "free")
  /\ freed' = IF shouldFree[p] THEN freed \cup {target[p]} ELSE freed
  /\ shouldFree' = [shouldFree EXCEPT ![p] = FALSE]
  /\ target' = [target EXCEPT ![p] = NULL]
  /\ return' = [return EXCEPT ![p] = "user"]
  /\ Goto(p, return[p])
  /\ UNCHANGED <<children, ws, creator, load_sema, succeed, resources>>

-----------------------------------------------------------------------------
(* exit                                                                     *)

\* exit_with_code.
Exit(p, code) ==
  /\ At(p, "user")
  /\ p # Main
  /\ ws' = [ws EXCEPT ![p].code = code]
  /\ Goto(p, "exit")
  /\ UNCHANGED <<children, freed, locals, resources>>

\* An exception ends the process.
kill(p) ==
  /\ At(p, "user")
  /\ p # Main
  /\ ws' = [ws EXCEPT ![p].killed = TRUE]
  /\ Goto(p, "exit")
  /\ UNCHANGED <<children, freed, locals, resources>>

\* main calls thread_exit when shutdown returns.
MainExit ==
  /\ Idle(Main)
  /\ Goto(Main, "exit")
  /\ UNCHANGED <<children, ws, freed, locals, resources>>

\* Mutant: the descriptors are left to thread_exit.
process_exit_late(p) ==
  /\ At(p, "exit")
  /\ Goto(p, "exit_signal")
  /\ UNCHANGED <<children, ws, freed, locals, resources>>

\* process_exit: the executable, the descriptors and the page directory go.
process_exit(p) ==
  /\ At(p, "exit")
  /\ files' = files \ {p}
  /\ Goto(p, "exit_signal")
  /\ UNCHANGED <<children, ws, freed, locals, loaded, cwd, told, reaped>>

\* Mutant: a process does not signal a parent.
ExitSignal_silent(p) ==
  /\ At(p, "exit_signal")
  /\ Goto(p, IF p = Main THEN "null_exit" ELSE "exit_cwd")
  /\ UNCHANGED <<children, ws, freed, locals, resources>>

\* Its sema_up.  Nobody ever gave the initial thread a wait_status.
ExitSignal(p) ==
  /\ At(p, "exit_signal")
  /\ \/ /\ p # Main
        /\ ws' = [ws EXCEPT ![p].exited = @ + 1]
        /\ Goto(p, "exit_cwd")
     \/ /\ p = Main
        /\ Goto(p, "null_exit")
        /\ UNCHANGED ws
  /\ UNCHANGED <<children, freed, locals, resources>>

\* Its dir_close.
CloseCwd(p) ==
  /\ At(p, "exit_cwd")
  /\ cwd' = cwd \ {p}
  /\ Goto(p, "exit_children")
  /\ UNCHANGED <<children, ws, freed, locals, loaded, files, told, reaped>>

\* Mutant: thread_exit keeps its own reference.
thread_exit_leaking(p) ==
  /\ At(p, "exit_children")
  /\ \/ \E c \in children[p] :
          /\ children' = [children EXCEPT ![p] = @ \ {c}]
          /\ target' = [target EXCEPT ![p] = c]
          /\ return' = [return EXCEPT ![p] = "exit_children"]
          /\ Goto(p, "ref")
     \/ /\ children[p] = {}
        /\ Goto(p, "dead")
        /\ UNCHANGED <<children, target, return>>
  /\ UNCHANGED <<ws, freed, creator, load_sema, succeed, shouldFree, resources>>

\* The loop of thread_exit over the children's wait_status, then its own.
thread_exit(p) ==
  /\ At(p, "exit_children")
  /\ \/ \E c \in children[p] :
          /\ children' = [children EXCEPT ![p] = @ \ {c}]
          /\ target' = [target EXCEPT ![p] = c]
          /\ return' = [return EXCEPT ![p] = "exit_children"]
     \/ /\ children[p] = {}
        /\ target' = [target EXCEPT ![p] = p]
        /\ return' = [return EXCEPT ![p] = "dead"]
        /\ UNCHANGED children
  /\ Goto(p, "ref")
  /\ UNCHANGED <<ws, freed, creator, load_sema, succeed, shouldFree, resources>>

-----------------------------------------------------------------------------
\* The system calls of a user program, and an exception.
Call(p) ==
  \/ \E c \in Proc : process_execute(p, c) \/ process_wait(p, c)
  \/ ThreadCreateFails(p) \/ StatusAllocFails(p)
  \/ \E code \in Code : Exit(p, code)
  \/ kill(p)

\* The kernel's part of a call that has begun.
Step(p) ==
  \/ start_process(p) \/ SignalLoad(p) \/ ExecReturn(p)
  \/ WaitDown(p) \/ ModRef(p) \/ Free(p)
  \/ process_exit(p) \/ ExitSignal(p) \/ CloseCwd(p) \/ thread_exit(p)

Next == (\E p \in Proc : Call(p) \/ Step(p)) \/ MainExit

Spec == Init /\ [][Next]_vars

\* A process in the kernel is scheduled again and again.
FairSpec == Spec /\ \A p \in Proc : WF_vars(Step(p))
-----------------------------------------------------------------------------
(* Properties                                                               *)

\* The tids whose wait_status the next step of p reads, writes or frees.
Touched(p) ==
  CASE pc[p] \in {"wait", "ref"} -> {target[p]}
    [] pc[p] = "free" /\ shouldFree[p] -> {target[p]}
    [] pc[p] \in {"user", "exit_signal"} /\ p # Main -> {p}
    [] OTHER -> {}

ArgSetLive ==
  \A c \in Proc : pc[c] \in {"load", "signal"} =>
    /\ pc[creator[c]] = "exec_wait"
    /\ target[creator[c]] = c
    /\ load_sema[creator[c]] = 0

\* A wait_status is never used or freed again once it has been freed,
\* whichever of parent and child exits first, and whether or not the parent
\* has waited: the reference count of wait_status_mod_ref is right.  And
\* start_process uses the arg_set on the stack of process_execute only while
\* process_execute waits for it.
NoUseAfterFree == (\A p \in Proc : Touched(p) \cap freed = {}) /\ ArgSetLive

\* And it is freed: none is left when the child has exited and the parent has
\* dropped it in process_wait or thread_exit.
NoLeak ==
  \A c \in Proc :
    /\ pc[c] = "dead"
    /\ \A p \in Proc :
         c \notin children[p] /\ ~(pc[p] \in {"ref", "free"} /\ target[p] = c)
    => c \in freed

\* A process that has signalled its parent.
Exited(c) ==
  \/ pc[c] \in {"exit_cwd", "exit_children", "dead"}
  \/ pc[c] \in {"ref", "free"} /\ return[c] # "user"

\* process_wait returns only after the child has exited; by then the child's
\* executable and descriptors are closed, and what it returns is the child's
\* last word: the code it passed to exit, or -1 when an exception killed it.
\* process_execute returns the tid of a child whose load succeeded, and of no
\* other: start_process writes succeed before it signals.
ResultsAreTrue ==
  /\ \A c \in Proc : reaped[c] # NULL =>
       /\ Exited(c)
       /\ c \notin files
       /\ reaped[c] = ExitCode(c)
  /\ told \subseteq loaded
  /\ \A c \in loaded : c \in told \/ target[creator[c]] = c

\* A parent that waits for a child that exits gets its answer.
WaitReturns ==
  \A p \in Proc :
    pc[p] = "wait" /\ pc[target[p]] = "exit" ~> pc[p] = "user" \/ Halted

\* The comment on process_execute: "Returns the new process's thread id, or
\* TID_ERROR if the thread cannot be created".
ExecReturns == \A p \in Proc : pc[p] = "exec_wait" ~> pc[p] = "user" \/ Halted

\* The comment on thread_create: "returns the thread identifier for the new
\* thread, or TID_ERROR if creation fails".
CreateReports == \A p \in Proc : pc[p] # "null_create"

\* thread_schedule_tail provides for the death of the initial thread: "We don't
\* free initial_thread because its memory was not obtained via palloc()".
MainCanExit == pc[Main] # "null_exit"
=============================================================================
