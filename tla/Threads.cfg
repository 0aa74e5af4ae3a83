CONSTANTS
  Thread = {main, idle, a, b}
  Main = main
  Idle = idle
  Sema = {started, s}
  Lock = {l}
  Cond = {c}
  LockOf <- MCLockOf
  IdleStarted = started
  TIME_SLICE = 2
  MaxValue = 2
  NoThread = null
SPECIFICATION FairSpec
INVARIANTS
  TypeOK
  ElemExclusive
  NoThreadLost
  NoLostWakeup
  LockExclusion
PROPERTIES
  ImplementsMonitor
  ReadyRuns
