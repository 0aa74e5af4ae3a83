--------------------------- MODULE MCBufferCache ---------------------------
(* BufferCache on small instances.  Threads, sectors, the parts of a sector *)
(* and the values they hold are interchangeable.                            *)
EXTENDS BufferCache, TLC

Symmetry == Permutations(Thread) \cup Permutations(Sector)
            \cup Permutations(Part) \cup Permutations(Value)
=============================================================================
