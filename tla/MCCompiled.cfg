SPECIFICATION Spec
CONSTANTS
  Code <- MCCode
  Lines <- TextOf
  Proc <- MCProc
  HeapSize <- MCHeapSize
  ExclusiveOr <- MCXor
INVARIANTS TypeOK NoPanic Aligned DropsZero NoDangling Tidy Implements
