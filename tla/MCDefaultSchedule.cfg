SPECIFICATION Spec
CONSTANTS
  Cameras = {a}
  Nothing = Nothing
  MaxCrashes = 0
  MaxConfigs = 0
  MaxReinstalls = 0
  Schedules = {s}
  Default = Default
  Values <- MCValues
  Calls = {k1, k2}
  Missing = Missing
  MaxReloads = 0
INVARIANT EnableNeedsSchedule
