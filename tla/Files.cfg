\* Two processes share a small tree of files and directories; calls of one come
\* in between the two halves of a rmdir of the other.
SPECIFICATION Spec
CONSTANTS
  NULL = NULL
  Process = {p1, p2}
  Sectors = 4
  MaxFd = 2
  Path <- MCPath
  Zero = 0
  Elf = 1
  Byte = {2}
  MaxLength = 1
  Size = {0}
  Position = {0}
  MaxCreate = 4
  MaxLost = 1
  NameDots = FALSE
  Preempt = {"rmdir"}
SYMMETRY MCSymmetry
INVARIANTS CountsMatch HandlesKeepTheirFile ExecutableIntact
 
CHECK_DEADLOCK FALSE
