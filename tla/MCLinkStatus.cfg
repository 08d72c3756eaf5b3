SPECIFICATION Spec
CONSTANTS
  c1 = c1
  c2 = c2
  r = r
  NoCall = NoCall
  CommandOf <- MCCommandOf
  FirstSequence = 5
  Controls = {c1}
  Reboots = {}
  MaxSequence = 5
  MaxFaults = 1
  StallAcrossReconnect = TRUE
INVARIANTS
  FailuresHaveAStatus
