SPECIFICATION Spec
CONSTANTS
  Absent = Absent
  NoContext = NoContext
  Requests <- AllRequests
  UserAnns <- OtherAnns
  UserGroup = 11
  MaxOthers = 2
  MaxLost = 1
INVARIANTS TypeOK PatchesApply Idempotent NothingTwice StaysValid StoredIsInjected StartsIfItFits
PROPERTY KeepsOthers
CHECK_DEADLOCK FALSE
