SPECIFICATION Spec
CONSTANTS
  Absent = Absent
  NoContext = NoContext
  Requests <- BareRequests
  UserAnns <- OtherAnns
  UserGroup = 11
  MaxOthers = 2
  MaxLost = 1
INVARIANT InjectedMountsResolve
CHECK_DEADLOCK FALSE
