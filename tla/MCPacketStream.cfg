SPECIFICATION Spec
CONSTANTS
  ConnectTimeout = 1
  SyncWait = 1
  FrameTimeout = 4
  HeartbeatInterval = 2
  Window = 2
  MaxMedia = 3
  MaxSyncs = 2
  MaxConnections = 2
INVARIANTS
  MediaInOrder
  TimeRequestsAnswered
  StalledStreamEnds
  NoFalseAlarm
  
CHECK_DEADLOCK FALSE
