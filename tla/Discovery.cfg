SPECIFICATION Spec
CONSTANTS
  Links = {u1, s1}
  Serial = {s1}
  Ethernet = {e1}
  NoLink = NoLink
  MaxCalls = 3
  MaxPlugs = 1
  MaxReports = 1
INVARIANT Inv
PROPERTIES HiddenOnlyByItsDetector StopTakesEffect ListFollowsDevices
CHECK_DEADLOCK FALSE
