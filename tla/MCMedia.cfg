SPECIFICATION FairSpec
CONSTANTS
  s1 = s1
  l1 = l1
  Viewers = {s1}
  Listeners = {l1}
  Backlog = 2
  MaxFrames = 2
  MaxAudio = 3
  MaxDrops = 1
INVARIANTS
  SoundIsContinuous
  PicturesGoForward
PROPERTIES
  LatestIsShown
  SoundArrives
  SnapshotIsAnswered
  StateFollowsSession
CHECK_DEADLOCK FALSE
