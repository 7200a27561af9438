SPECIFICATION ScenesSpec
CONSTANTS
  h1 = h1
  h2 = h2
  v1 = v1
  v2 = v2
  None = None
  Handle = {h1, h2}
  Node <- MCNode
  Arena <- MCArena
  Byte = {1, 2}
  Key <- MCKey
  Val = {v1, v2}
  Scratch = v2
  Calls <- AllCalls
  MaxVersion = 4
SYMMETRY HandleSymmetry
INVARIANTS IInv NoBorrowPanic RadixShape ShapeInv NoLeak LeakInv
PROPERTIES WritesAreExclusive IsolationSteps
CHECK_DEADLOCK FALSE
