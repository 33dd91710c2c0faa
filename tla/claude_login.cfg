CONSTANTS
  Homes = {t1, t2}
  MaxRefresh = 3
  MaxCrashes = 1
  MaxFailures = 1
SPECIFICATION LoginSpec
SYMMETRY Symmetry
INVARIANTS
  SomeoneIsSignedIn
  UserIsSignedIn
PROPERTY WipedStaysPrivate
