SPECIFICATION Spec
CONSTANTS
  c1 = c1
  c2 = c2
  r = r
  NoCall = NoCall
  CommandOf <- MCCommandOf
  FirstSequence = 5
  Controls = {c1, c2}
  Reboots = {r}
  MaxSequence = 6
  MaxFaults = 1
  StallAcrossReconnect = FALSE
CONSTRAINT TwoCallsAtMost
INVARIANTS
  OwnAnswer
  
PROPERTIES
  KeepsPromise
