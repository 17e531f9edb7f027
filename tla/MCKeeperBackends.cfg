SPECIFICATION FairSpec
CONSTANTS
  Backends = {"filesystem", "exec", "http"}
  Sizes <- MCSizes
  MaxSize = 2
  MaxInt = 7
  MaxWritten = 4
  None = None
INVARIANTS TypeOK ErrorHasCause NothingLeft OverflowDetected
PROPERTIES Ends ImplementsBackendCall
CHECK_DEADLOCK FALSE
