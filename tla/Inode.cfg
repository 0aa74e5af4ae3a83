\* Two threads create and extend two files, past the end of the disk.
SPECIFICATION Spec
CONSTANTS
  Thread = {t1, t2}
  Kind = {"file"}
  Sectors = 10
  SectorSize = 2
  NumDirect = 1
  Data = 2
  Length = {0, 3}
  MaxCreate = 2
  MaxRemove = 0
SYMMETRY Symmetry
INVARIANTS BlocksAreMine Contents
CHECK_DEADLOCK FALSE
