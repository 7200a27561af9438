SPECIFICATION Spec
CONSTANTS
  Uninit = Uninit
  LastByte = 4
  Width <- MCWidth
  Child <- MCChild
  Pairs <- MCPairs
  Loads <- MCLoads
  MaxEdits = 2
INVARIANTS TableInv SlotsRight SeekRight RefsRight
PROPERTIES ImplementsChildTable
