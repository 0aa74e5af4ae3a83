CONSTANTS
  Proc = {main, p, q}
  Main = main
  Code = {7}
  NULL = NULL
SPECIFICATION FairSpec
INVARIANTS NoUseAfterFree NoLeak ResultsAreTrue
PROPERTY WaitReturns
CHECK_DEADLOCK FALSE
