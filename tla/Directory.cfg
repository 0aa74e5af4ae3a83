\* Two threads make and remove two subdirectories; one looks names up, the other
\* lists the directory.
SPECIFICATION Spec
CONSTANTS
  t1 = t1
  t2 = t2
  Thread = {t1, t2}
  Name = {a, b}
  File = {f1, f2}
  Op <- MCOp
  MaxSlot = 2
  NULL = NULL
SYMMETRY Symmetry
INVARIANTS NamesAreUnique ReaddirComplete
PROPERTIES AddOverwritesNothing
CHECK_DEADLOCK FALSE
