SPECIFICATION Spec
CONSTANTS
  MaxLives = 1
  RefillTTL = 2
  Second = 1
  NoDay = NoDay
  BadDay = BadDay
  Items <- MCItems
  VerseOf <- MCVerseOf
  DayLength = 2
  Gone = Gone
  Users = {u1}
  Submissions <- MCSubmissions
  Requests = {r1, r2, r3}
  PoolSize = 2
  Nothing = Nothing
  Horizon = 4
SYMMETRY Symmetry
INVARIANTS TypeOK SnapshotCurrent NoOverspend ProgressFollowsAttempts StreakBacked
