SPECIFICATION Spec
CONSTANTS
  NoDay = NoDay
  BadDay = BadDay
  DayLength = 3
  Zones <- OneZone
  OldClients = FALSE
  MaxDelay = 1
  Horizon = 12
PROPERTIES ResetOnlyAfterGap
CHECK_DEADLOCK FALSE
