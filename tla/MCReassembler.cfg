SPECIFICATION Spec
CONSTANTS
  FrameNumbers = {1, 2}
  FinalIndex = 4
  MaxFrameSize = 4
  Block = 2
  Packets <- MCPackets
  IsImage <- MCIsImage
  MaxPushes = 5
INVARIANTS
  FrameIsInOrder
  HeldIsBounded
  ReturnsWhatArrived
CHECK_DEADLOCK FALSE
