SPECIFICATION WSpec
CONSTANTS
  BOT = BOT
  main = main
  fa = fa
  fb = fb
  fc = fc
  fd = fd
  x = x
  y = y
  z = z
  mx = mx
  x1 = x1
  Root = main
  Proc = {main, fa, fb, fc, fd}
  Sym = {x, y, z, mx}
  Cell = {x, y, z, mx}
  Val <- MCVal
  InitMem <- MCInitMem
  Op <- MCOp
  Fn <- MCFn
  Eval <- MCEval
  Upd <- MCUpd
  Inv <- MCInv
  Caller <- MCCaller
  Mark <- MCMark
  NameOf <- MCNameOf
  MaxLen = 4
  Programs <- MCBlocking
  Early <- MCEarly
INVARIANT EarlyStays
PROPERTY WaitsAreAtomic
CHECK_DEADLOCK FALSE
