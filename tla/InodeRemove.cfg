\* Two files or directories grow through their direct, single and double indirect
\* pointers and one of them is removed.
SPECIFICATION Spec
CONSTANTS
  Thread = {t1}
  Kind = {"file", "dir"}
  Sectors = 18
  SectorSize = 2
  NumDirect = 1
  Data = 2
  Length = {1, 11}
  MaxCreate = 2
  MaxRemove = 1
INVARIANTS BlocksAreMine
PROPERTIES FreesOnlyItsBlocks
CHECK_DEADLOCK FALSE
