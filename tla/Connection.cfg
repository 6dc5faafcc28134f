SPECIFICATION Spec
CONSTANTS
  Configurations <- MCConfigurations
  LogNames <- MCLogNames
  Subnet = {"192.168.2.2"}
  MaxConnects = 3
  MaxHalves = 2
  MaxChanges = 1
INVARIANTS Inv ReplayShowsWhatWasSeen PlayedByItsSensor
CHECK_DEADLOCK FALSE
