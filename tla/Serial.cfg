CONSTANTS
  Byte = {a, b}
  Key = {a}
  BufSize = 3
  None = None
  Reader = {r1, r2}
  Writer = {w1, w2}
  PutMax = 1
SPECIFICATION FairSpec
INVARIANTS
  QueuesAreFifo
  SleepersAreKnown
  InterruptsFollowQueues
CHECK_DEADLOCK FALSE
PROPERTY OutputEnds
