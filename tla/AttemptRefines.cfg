SPECIFICATION FairSpec
CONSTANTS
  MaxLives = 1
  RefillTTL = 1
  Second = 1
  NoDay = NoDay
  BadDay = BadDay
  Items <- MCItems
  VerseOf <- MCVerseOf
  DayLength = 2
  Gone = Gone
  Users = {u1}
  Submissions <- MCSubmissions
  Requests = {r1, r2, r3}
  PoolSize = 2
  Nothing = Nothing
  Horizon = 1
PROPERTIES Answered RefinesStore
