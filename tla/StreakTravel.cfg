SPECIFICATION Spec
CONSTANTS
  NoDay = NoDay
  BadDay = BadDay
  DayLength = 3
  Zones <- ManyZones
  OldClients = TRUE
  MaxDelay = 7
  Horizon = 18
INVARIANTS TypeOK NeverOverstated StreakIsRun
PROPERTIES ResetNeedsGapInCalendar
CHECK_DEADLOCK FALSE
