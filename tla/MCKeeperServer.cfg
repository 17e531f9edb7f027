SPECIFICATION FairSpec
CONSTANTS
  r1 = r1
  r2 = r2
  r3 = r3
  r4 = r4
  c1 = c1
  c2 = c2
  c3 = c3
  NoReply = NoReply
  Requests <- MCRequests
  Clients = {c1, c2, c3}
  Http2 = {c1}
  From <- MCFrom
  Mixes <- MCMixes
  MaxConcurrent = 2
INVARIANTS TypeOK SlotsExact GaugeExact CountsReplies Unqueued
PROPERTIES ImplementsGate Served
CHECK_DEADLOCK FALSE
