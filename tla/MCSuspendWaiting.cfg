SPECIFICATION FairSpec
CONSTANTS
  main = main
  fa = fa
  fb = fb
  mx = mx
  NoGor = NoGor
  Root = main
  Proc = {main, fa, fb}
  Sem = {mx}
  Body <- MCSemaphores
  Cap = 3
  MaxGor = 1
  MaxRuns = 1
  Steps = FALSE
  Suspends = TRUE
PROPERTIES AllEnd
CHECK_DEADLOCK FALSE
