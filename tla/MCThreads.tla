------------------------------ MODULE MCThreads ------------------------------
(***************************************************************************)
(* Threads with one lock, one condition variable and one semaphore.        *)
(***************************************************************************)
EXTENDS Threads

\* Every condition variable is used with the one lock of the model.
MCLockOf == [c \in Cond |-> CHOOSE l \in Lock : TRUE]
=============================================================================
