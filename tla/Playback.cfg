SPECIFICATION PlaybackSpec
CONSTANTS
  Size = 4
  Time <- MCTime
  Replay = {0, 1}
  MaxCalls = 3
INVARIANTS IInv ReadsInLog PlaysInOrder
PROPERTIES CloseEnds LogEnds
CHECK_DEADLOCK FALSE
