SPECIFICATION FairSpec
CONSTANTS
  Backends = {"exec"}
  Sizes <- MCSizes
  MaxSize = 2
  MaxInt = 7
  MaxWritten = 3
  None = None
PROPERTY TimeoutHolds
CHECK_DEADLOCK FALSE
