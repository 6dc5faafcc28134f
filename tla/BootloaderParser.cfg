CONSTANTS
  Radix = 4
  MaxLength = 9
  FramingStart = 3
  FramingEnd = 0
  IdLow = 1
  IdHigh = 3
  Checksum <- MCChecksum
SPECIFICATION ParserSpec
INVARIANTS OnlyWholeFrames ParserInv
PROPERTY NoFrameRejected
