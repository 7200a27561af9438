SPECIFICATION MCSpec
CONSTANTS
  ArraySize = 5
  KeyInline = 3
  PartialInline = 2
  ByteBits = 2
  WordBytes = 2
  Endian = "little"
  None = None
  Slices <- MCSlices
  Strings <- MCStrings
  Numbers <- MCNumbers
INVARIANTS SameBytes StorageRight EncodingsRight PrefixLengthRight
