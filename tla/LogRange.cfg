SPECIFICATION ViewSpec
CONSTANTS
  Res = 20
  Sectors = {5, 7, 20}
  Speeds = {1, 3, 4}
  LogAngles = {0, 3, 9}
  MaxOnWay = 2
  MaxChanges = 2
  Ranges = {1, 60}
  Sounds = {1450, 1507, 1550}
  Durations = {5, 500}
  Recordings = {10}
INVARIANT
  LogShownAsRecorded
