SPECIFICATION Spec
CONSTANTS
  Names = {"ann", "bob", "cat"}
  Subs = {"google", "apple"}
  AppleSubs = {"apple"}
  NoSub = "no sub"
  NoEmail = "no email"
  Themes = {"light", "dark"}
  DefaultTheme = "light"
  Unset = "unset"
  Requests = {r1, r2, r3}
  Asked <- MCAsked
  InitialAccounts <- MCInitialAccounts
  MaxTries = 2
  Cooldown = 2
  Horizon = 2
  Nothing = Nothing
SYMMETRY Symmetry
INVARIANTS TypeOK OneAccountPerIdentity TokenStaysWithOwner RenamedRarely
PROPERTIES ConflictOnlyIfRaced UnmentionedThemeKept
