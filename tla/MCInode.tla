------------------------------- MODULE MCInode -------------------------------
(***************************************************************************)
(* Instances of Inode.                                                     *)
(***************************************************************************)
EXTENDS Inode, TLC

Symmetry == Permutations(Thread)
=============================================================================
