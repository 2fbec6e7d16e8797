SPECIFICATION Spec
CONSTANTS
  None = None
  Words <- MCWords
  Lower <- MCLower
  Verses <- MCVerses
  Place <- MCChaptersPlace
  Text <- MCText
  Lists <- MCLists
  Recitals <- MCRecitals
  Users = {"ann"}
  MaxRuns = 3
  MaxOps = 0
INVARIANTS SeedConverges
PROPERTIES DigestCoversContent
CHECK_DEADLOCK FALSE
