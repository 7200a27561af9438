SPECIFICATION LiveSpec
CONSTANTS
  h1 = h1
  h2 = h2
  v1 = v1
  None = None
  Handle = {h1, h2}
  Node <- MCNode
  Arena <- MCArena
  Byte = {1, 2}
  Key <- MCKey
  Val = {v1}
  Scratch = v1
  Calls <- LiveCalls
  MaxVersion = 3
PROPERTIES CallsReturn
