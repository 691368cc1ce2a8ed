SPECIFICATION LFairSpec
CONSTANTS
  BOT = BOT
  main = main
  fa = fa
  fb = fb
  fc = fc
  fd = fd
  x = x
  y = y
  z = z
  mx = mx
  x1 = x1
  Root = main
  Proc = {main, fa, fb, fc, fd}
  Sym = {x, y, z, mx}
  Cell = {x, y, z, mx, x1}
  Val <- MCVal
  InitMem <- MCInitMem
  Op <- MCOp
  Fn <- MCFn
  Eval <- MCEval
  Upd <- MCUpd
  Inv <- MCInv
  Caller <- MCCaller
  Mark <- MCMark
  MaxLen = 5
  NameOf <- MCNameOf
  Programs <- MCPrograms
INVARIANTS
  TypeOK NoPanic WholeRuns TreeInv UndoTip Restored LocksReturned OneOutcome AdmittedRuns
  OnlyCircles ReplayMoves DagInv LogInv LockCount
PROPERTIES
  LockedReadOnly ReplayAddsNothing RunnableStable ReplayFinishes BwdFinishes KeepsVersions
CHECK_DEADLOCK FALSE
