SPECIFICATION Spec
CONSTANTS
  Configured = {"auto", "length", "start"}
  MaxCalls = 3
  MaxLosses = 1
  Room = 1
INVARIANTS Inv FlashKeepsConfiguration
PROPERTIES SavesWhatIsSet RestoreEnds
CHECK_DEADLOCK FALSE
