SPECIFICATION Spec
CONSTANTS
  Absent = Absent
  NoContext = NoContext
  Requests <- AnyCfgRequests
  UserAnns <- OtherAnns
  UserGroup = 11
  MaxOthers = 2
  MaxLost = 0
PROPERTY MutatedMeansChanged
CHECK_DEADLOCK FALSE
