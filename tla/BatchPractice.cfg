SPECIFICATION BatchSpec
CONSTANTS
  MaxLives = 1
  RefillTTL = 2
  Second = 1
  NoDay = NoDay
  BadDay = BadDay
  Items <- MCItems
  VerseOf <- MCVerseOf
  DayLength = 4
  Gone = Gone
  Users = {u1}
  Submissions <- MCSubmissions
  Player = u1
  Batches = {b1, b2}
  MaxBatch = 2
  MaxQueued = 3
  MaxErrors = 1
  Horizon = 2
  Nothing = Nothing
INVARIANT PracticeNeverSkipped
CHECK_DEADLOCK FALSE
