SPECIFICATION FairSpec
CONSTANTS
  p1 = p1
  p2 = p2
  g = g
  k1 = k1
  k2 = k2
  Initial = Initial
  Puts = {p1, p2}
  Gets = {g}
  Keys = {k1, k2}
  ReadableKeys = {k1}
  MaxCrashes = 1
  MaxWriteFaults = 1
INVARIANTS
  AckedIsDurable
  OnlyAcceptedIsStored
  ReadYourWrites
PROPERTIES
  RequestsEnd
