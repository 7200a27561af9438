SPECIFICATION MCSpec
CONSTANTS
  h1 = h1
  h2 = h2
  None = None
  v1 = v1
  v2 = v2
  v3 = v3
  v4 = v4
  v5 = v5
  v6 = v6
  Val <- MCVal
  Scratch = v1
  Handle = {h1, h2}
  Node <- MCNode
  Arena <- MCArena
  Byte = {1, 2}
  Key <- MCKey
  Calls <- RaceCalls
  MaxVersion = 3
  Queries <- MCQueries
INVARIANTS ReadersSeeTheirMap IntersectionsRight
PROPERTIES ReadersAreUndisturbed
CHECK_DEADLOCK FALSE
