\* Pages of 16 bytes with headers of 8: descriptors for blocks of 2 and of 4
\* bytes, four and two in an arena; 20 bytes are a big block of two pages.
SPECIFICATION Spec
CONSTANTS
  t1 = t1
  t2 = t2
  Thread = {t1, t2}
  Kernel = {t1, t2}
  Process = {t1, t2}
  KernelPages = 3
  UserPages = 2
  PGSIZE = 16
  PHYS_BASE = 64
  AddressBits = 7
  ArenaSize = 8
  MinBlock = 2
  SizeBits = 6
  Size = {4, 20}
  Array <- MCArray
  MaxLive = 1
  Program <- MCProgram
  FileLength = 40
  PtEntries = 2
SYMMETRY MCSymmetry
INVARIANTS HeapIsSound NoPageLost ActiveDirectoryLives
