SPECIFICATION CameraSpec
CONSTANTS
  FrameNumbers = {1, 2}
  FinalIndex = 4
  MaxFrameSize = 4
  Block = 2
  Packets <- CameraPackets
  IsImage <- MCIsImage
  MaxPushes = 8
  LastFrame = 2
  Fragments = 4
INVARIANTS
  FrameIsWhole
CHECK_DEADLOCK FALSE
