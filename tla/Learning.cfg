SPECIFICATION Spec
CONSTANTS
  None = None
  Words <- MCWords
  Lower <- MCLower
  Verses <- MCVerses
  Place <- MCPlace
  Text <- MCText
  Lists <- MCLists
  Recitals <- MCRecitals
  Users = {"ann"}
  MaxRuns = 2
  MaxOps = 2
INVARIANTS TypeOK ProgressFollowsVerse FiguresAgree
PROPERTIES ResumeSound
CHECK_DEADLOCK FALSE
