----------------------------- MODULE MCDirectory -----------------------------
(***************************************************************************)
(* Instances of Directory.                                                 *)
(***************************************************************************)
EXTENDS Directory, TLC

CONSTANTS t1, t2

\* Both threads change the directory, one looks names up, the other lists it.
MCOp == t1 :> {"lookup", "add", "remove"} @@ t2 :> {"add", "remove", "readdir"}

\* The calls of the instance that shows the deadlock.
MCLookups == [t \in Thread |-> {"lookup"}]

Symmetry == Permutations(Name) \cup Permutations(File)
=============================================================================
