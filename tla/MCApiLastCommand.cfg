SPECIFICATION Spec
CONSTANTS
  p1 = p1
  p2 = p2
  g = g
  k1 = k1
  k2 = k2
  Initial = Initial
  Puts = {p1, p2}
  Gets = {}
  Keys = {k1}
  ReadableKeys = {}
  MaxCrashes = 0
  MaxWriteFaults = 0
INVARIANTS
  PersistedIsLastCommand
