SPECIFICATION Spec
CONSTANTS
  MaxLives = 2
  RefillTTL = 4
  Second = 2
  Horizon = 13
  Nothing = Nothing
INVARIANTS TypeOK NoOverspend CountdownTrue
PROPERTY RefinesBucket
CHECK_DEADLOCK FALSE
