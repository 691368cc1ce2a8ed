SPECIFICATION FairSpec
CONSTANTS
  main = main
  fa = fa
  fb = fb
  mx = mx
  NoGor = NoGor
  Root = main
  Proc = {main, fa, fb}
  Sem = {mx}
  Body <- MCSemaphores
  Cap = 3
  MaxGor = 2
  MaxRuns = 3
  Steps = FALSE
  Suspends = FALSE
INVARIANTS TypeOK Exclusive OneGoroutine OneDirection QuietPrompt InStep FreshClose
PROPERTIES HeadKept RunEnds
