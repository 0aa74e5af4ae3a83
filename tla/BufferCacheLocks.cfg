CONSTANTS
  Thread = {a, b, c}
  Sector = {s1, s2, s3}
  Part = {p1}
  Value = {v1}
  NULL = NULL
  Slots = 2
SPECIFICATION Spec
SYMMETRY Symmetry
INVARIANTS
  CachedOnce
  NoUseAfterFree
  VictimExists
CHECK_DEADLOCK FALSE
