SPECIFICATION ViewSpec
CONSTANTS
  Res = 12
  Sectors = {5, 12}
  Speeds = {1, 4}
  LogAngles = {0, 5, 9}
  MaxOnWay = 3
  MaxChanges = 2
  Ranges = {1, 60}
  Sounds = {1450, 1507, 1550}
  Durations = {5, 500}
  Recordings = {10}
INVARIANTS
  Inv
  RangeIsTheChosen
  ScaleIsTheRange
  OnlyLateOnesAreOld
PROPERTIES
  AskedAgainAlike
  CoversSector
