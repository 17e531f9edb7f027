SPECIFICATION Spec
CONSTANTS
  Absent = Absent
  NoContext = NoContext
  Requests <- MTLSRequests
  UserAnns <- OtherAnns
  UserGroup = 11
  MaxOthers = 2
  MaxLost = 1
INVARIANT MTLSStarts
CHECK_DEADLOCK FALSE
