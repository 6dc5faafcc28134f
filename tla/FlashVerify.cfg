SPECIFICATION Spec
CONSTANTS
  NPages = 4
  NBoot = 1
  MaxTries = 3
  MaxJunk = 2
  MayWear = TRUE
  Verify = TRUE
INVARIANT VerifiedMeansEqual
CHECK_DEADLOCK FALSE
