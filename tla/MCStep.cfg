SPECIFICATION FairSpec
CONSTANTS
  main = main
  fa = fa
  fb = fb
  mx = mx
  NoGor = NoGor
  Root = main
  Proc = {main, fa}
  Sem = {mx}
  Body <- MCPlain
  Cap = 2
  MaxGor = 1
  MaxRuns = 1
  Steps = TRUE
  Suspends = FALSE
PROPERTY StepReturns
CHECK_DEADLOCK FALSE
