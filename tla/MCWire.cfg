SPECIFICATION Spec
CONSTANTS
  Packets <- MCPackets
  MaxPackets = 3
  MaxConnections = 2
  Numbers <- MCNumbers
  DayLists <- MCDayLists
  Minutes <- MCMinutes
INVARIANTS
  NothingHeldBack
  RefusedForCause
  PacketsReadBack
  FieldsReadBack
  SchedulesAgree
  SettingsAreDistinct
PROPERTIES
  KeepsPackets
CHECK_DEADLOCK FALSE
