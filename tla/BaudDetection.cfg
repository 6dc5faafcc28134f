SPECIFICATION Spec
CONSTANTS
  NRates = 4
  Total = 3
  MaxErrors = 1
  MaxStarts = 2
INVARIANTS
  Inv
  BestRate
PROPERTIES
  DetectionEnds
  ProfilesBegin
CHECK_DEADLOCK FALSE
