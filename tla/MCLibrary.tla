----------------------------- MODULE MCLibrary -----------------------------
(* The keys of the elements of an instance: two elements are equal.        *)
EXTENDS Library

MCKey == [e \in Elem |-> IF e = 1 THEN 1 ELSE e - 1]
=============================================================================
