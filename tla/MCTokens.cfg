SPECIFICATION Spec
CONSTANTS
  main = main
  fa = fa
  fb = fb
  mx = mx
  NoGor = NoGor
  Root = main
  Proc = {main, fa, fb}
  Sem = {mx}
  Body <- MCSemaphores
  Cap = 3
  MaxGor = 1
  MaxRuns = 2
  Steps = TRUE
  Suspends = TRUE
INVARIANTS CloseLasts DirectionLasts
CHECK_DEADLOCK FALSE
