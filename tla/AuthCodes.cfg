SPECIFICATION Spec
CONSTANTS
  Users = {"ann", "bob"}
  Emails = {"a@x", "b@x", "c@x"}
  Passwords = {"old", "new"}
  NoPassword = "none"
  Requests = {r1, r2, r3}
  Asked <- MCAsked
  InitialUsers <- MCInitialUsers
  InitialCodes <- MCInitialCodes
  CodeTTL = 1
  RateWindow = 2
  MaxPerWindow = 2
  MaxAttempts = 1
  Horizon = 2
  Nothing = Nothing
SYMMETRY Symmetry
INVARIANTS TypeOK EmailProven VerifiedEmailUnique TriesCounted RateKept
PROPERTIES VerifiedEmailKept SocialStaysPasswordless SupersededStaysDead SpentStaysDead
