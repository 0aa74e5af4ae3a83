------------------------------ MODULE MCMemory ------------------------------
(* Executables of an instance: two segments that share a page, one that    *)
(* page 0 makes invalid, after a header that is skipped, and one of a type *)
(* that is refused.                                                        *)
EXTENDS Memory

\* Two bytes, and a product of which the low bits are less than a factor.
MCArray == {<<1, 2>>, <<9, 8>>}

\* A product that does not fit although its low bits are not less than a factor.
MCWideArray == {<<10, 8>>}

MCSymmetry == Permutations(Thread)

Segment(vaddr, filesz, memsz) ==
  [type |-> "PT_LOAD", offset |-> vaddr % PGSIZE, vaddr |-> vaddr, filesz |-> filesz, memsz |-> memsz]

MCProgram ==
  {<<Segment(PGSIZE, 2, 2), Segment(PGSIZE + 4, 0, PGSIZE)>>,
   <<[type |-> "PT_NOTE"], Segment(4, 2, 2)>>,
   <<[type |-> "PT_INTERP"]>>}
=============================================================================
