\* Four elements, two of them equal, on two lists and in a table of one or two
\* buckets; pure functions on all small arguments, words of four bits.
SPECIFICATION LibrarySpec
CONSTANTS
  Elem = {1, 2, 3, 4}
  ListId = {1, 2, 3, 4, 5, 6, 7, 8, 9, 10}
  Key <- MCKey
  MinBuckets = 1
  BestElems = 1
  MaxBuckets = 4
  FirstBucket = 3
  PlainList = {1, 2}
  Spare = 1
  ELEM_BITS = 4
  INT_MAX = 127
  W = 4
  Space = " "
  MaxArray = 5
  MaxBits = 6
  MaxLine = 6
  PGSIZE = 4
  PHYS_BASE = 12
  AddressBits = 4
  FileLength = 9
  MemSize = 5
  Byte = {0, 1, 2}
INVARIANTS WellLinked  ProgramIsLoaded
PROPERTY ImplementsCollections
