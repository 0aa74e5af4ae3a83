------------------------------- MODULE Loader -------------------------------
(***************************************************************************)
(* How load() of userprog/process.c lays a segment of an executable out in *)
(* pages.  A program header ph has the type, offset, vaddr, filesz and     *)
(* memsz of the ELF header's fields; addresses have AddressBits bits.      *)
(***************************************************************************)
EXTENDS Integers, Sequences

CONSTANTS PGSIZE,        \* bytes of a page
          PHYS_BASE,     \* the first kernel address
          AddressBits    \* bits of an address (32)

ASSUME LoaderAssumption ==
  /\ {PGSIZE, AddressBits} \subseteq Nat \ {0}
  /\ PHYS_BASE \in PGSIZE .. 2 ^ AddressBits /\ PHYS_BASE % PGSIZE = 0

Uint(x) == x % 2 ^ AddressBits

pg_ofs(a) == a % PGSIZE

pg_no(a) == a \div PGSIZE

ROUND_UP(x) == ((x + PGSIZE - 1) \div PGSIZE) * PGSIZE

is_user_vaddr(a) == a < PHYS_BASE

validate_segment(ph, file_length) ==
  /\ pg_ofs(ph.offset) = pg_ofs(ph.vaddr)
  /\ ph.offset <= file_length
  /\ ph.memsz >= ph.filesz
  /\ ph.memsz # 0
  /\ is_user_vaddr(ph.vaddr)
  /\ is_user_vaddr(Uint(ph.vaddr + ph.memsz))
  /\ Uint(ph.vaddr + ph.memsz) >= ph.vaddr
  /\ ph.vaddr >= PGSIZE

\* Mutant: forgets that the segment starts within a page.
read_bytes_aligned(ph) == ph.filesz

\* read_bytes and zero_bytes of the PT_LOAD case of load()
read_bytes(ph) == IF ph.filesz > 0 THEN Uint(pg_ofs(ph.vaddr) + ph.filesz) ELSE 0

zero_bytes(ph) == Uint(ROUND_UP(pg_ofs(ph.vaddr) + ph.memsz) - read_bytes(ph))

\* The pages that the loop of load_segment fills: each with its number, the
\* offset in the file from which it is read, and how many bytes are read.
load_segment(ph) ==
  LET read == read_bytes(ph)
      Read(k) == LET left == read - k * PGSIZE   \* page_read_bytes of page k
                 IN  IF left <= 0 THEN 0 ELSE IF left < PGSIZE THEN left ELSE PGSIZE
  IN  [k \in 1 .. (read + zero_bytes(ph)) \div PGSIZE |->
         [upage |-> pg_no(ph.vaddr) + k - 1,
          ofs   |-> (pg_no(ph.offset) + k - 1) * PGSIZE,
          read  |-> Read(k - 1)]]

=============================================================================
