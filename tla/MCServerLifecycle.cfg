SPECIFICATION FairSpec
CONSTANTS
  MaxActive = 2
  NoError = NoError
INVARIANTS TypeOK ExitTells Graceful
PROPERTY Stops
CHECK_DEADLOCK FALSE
