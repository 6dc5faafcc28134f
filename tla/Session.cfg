SPECIFICATION Spec
CONSTANTS
  Setups <- MCSetups
  Settings = {0, 1, 2}
  Rejected = {2}
  MaxRetry = 3
  MaxTriggers = 3
  MaxCable = 5
  MaxChanges = 2
  MaxLosses = 1
  MaxResets = 1
  MaxEarly = 2
INVARIANTS
  Inv
  NeverSilent
PROPERTY ProfilesFlow
CHECK_DEADLOCK FALSE
