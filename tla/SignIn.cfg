SPECIFICATION SignInSpec
CONSTANTS
  b1 = b1
  b2 = b2
  Browsers = {b1, b2}
  MaxSigning = 2
  MaxOrgs = 2
  MaxCrashes = 1
INVARIANT SignInTypeOK
PROPERTY SignInSurvivesRotation
SYMMETRY Symmetry
