CONSTANTS
  Thread = {a, b}
  Sector = {s1, s2}
  Part = {p1, p2}
  Value = {v1, v2}
  NULL = NULL
  Slots = 1
SPECIFICATION Spec
SYMMETRY Symmetry
INVARIANTS
  FlushComplete
PROPERTY ImplementsStore
CHECK_DEADLOCK FALSE
