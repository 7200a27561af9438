SPECIFICATION BoxesSpec
CONSTANTS
  Uninit = Uninit
  LastByte = 4
  Width <- MCWidth
  Child <- MCChild
  Pairs <- MCPairs
  Loads <- MCLoads
  MaxEdits = 2
  MaxBoxes = 4
INVARIANT NothingForgotten
