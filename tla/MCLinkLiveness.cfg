SPECIFICATION FairSpec
CONSTANTS
  c1 = c1
  c2 = c2
  r = r
  NoCall = NoCall
  CommandOf <- MCCommandOf
  FirstSequence = 5
  Controls = {c1}
  Reboots = {}
  MaxSequence = 5
  MaxFaults = 2
  StallAcrossReconnect = TRUE
INVARIANTS
  NoStrandedCall
  NoLeakedEntry
  NeverWithoutAnswer
  CloseIsFinal
PROPERTIES
  LostLinkFailsFast
  SessionRecovers
  CloseEndsReader
  CallsReturn
