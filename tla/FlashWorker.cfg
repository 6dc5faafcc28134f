SPECIFICATION Spec
CONSTANTS
  NPages = 4
  NBoot = 1
  MaxTries = 3
  MaxJunk = 2
  MayWear = FALSE
  Verify = TRUE
INVARIANTS
  IInv
  FinishedMeansFlashed
  NeverRunsPartOfAFirmware
PROPERTIES
  AlwaysReported
  KeepsPromise
CHECK_DEADLOCK FALSE
