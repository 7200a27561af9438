SPECIFICATION Spec
CONSTANTS
  v = v
  s = s
  None = None
  Byte = {1, 2, 3}
  Key <- MCKey
  Val = {v, s}
  Scratch = s
  Width <- MCWidth
  PartialSize = 3
  Calls <- MCCalls
  VersionedCalls <- MCVersionedCalls
  Loads = {}
  Partner <- MCPartner
  Probe <- MCProbe
  Bounds <- MCBounds
INVARIANTS IterRight PrefixMatchRight LongestPrefixRight PrefixIterRight RangeRight RangeViewComplete ViewRight IntersectRight StatsRight
