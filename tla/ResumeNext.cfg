SPECIFICATION Spec
CONSTANTS
  None = None
  Words <- MCWords
  Lower <- MCLower
  Verses <- MCVerses
  Place <- MCBookPlace
  Text <- MCText
  Lists <- MCBookLists
  Recitals <- MCRecitals
  Users = {"ann"}
  MaxRuns = 1
  MaxOps = 2
PROPERTY ResumeGoesOn
CHECK_DEADLOCK FALSE
