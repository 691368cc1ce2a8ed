SPECIFICATION Spec
CONSTANTS
  Code <- MCEmpty
  Lines <- TextOf
  Proc <- MCProc
  HeapSize <- MCHeapSize
  ExclusiveOr <- MCXor
INVARIANT Aligned
