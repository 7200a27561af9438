SPECIFICATION RSpec
CONSTANTS
  v = v
  s = s
  None = None
  Byte = {1, 2, 3, 4, 5}
  Key <- MCKey
  Val = {v, s}
  Scratch = s
  Width <- MCWidth
  PartialSize = 3
  Calls <- MCCalls
  VersionedCalls <- MCVersionedCalls
  Loads <- MCLoads
INVARIANTS TypeOK LenRight RadixShape SizedToFit
PROPERTIES ImplementsOrderedMap
