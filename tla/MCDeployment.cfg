SPECIFICATION FairSpec
CONSTANTS
  Cameras = {a, b}
  Nothing = Nothing
  MaxCrashes = 1
  MaxConfigs = 1
  MaxReinstalls = 1
  Schedules = {}
  Default = Default
  Values <- MCValues
  Calls = {k1, k2}
  Missing = Missing
  MaxReloads = 1
INVARIANTS StateSurvives StreamsMatchBridge EntryIsAccepted
PROPERTIES ShowsCameras
