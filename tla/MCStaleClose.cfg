SPECIFICATION FairSpec
CONSTANTS
  main = main
  fa = fa
  fb = fb
  mx = mx
  NoGor = NoGor
  Root = main
  Proc = {main, fa}
  Sem = {mx}
  Body <- MCPlain
  Cap = 2
  MaxGor = 2
  MaxRuns = 2
  Steps = FALSE
  Suspends = TRUE
INVARIANTS FreshClose
CHECK_DEADLOCK FALSE
