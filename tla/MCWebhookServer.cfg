SPECIFICATION FairSpec
CONSTANTS
  r1 = r1
  r2 = r2
  r3 = r3
  NoReply = NoReply
  Requests <- MCRequests
  Http2 <- MCHttp2
  Mixes <- MCMixes
  MaxConcurrent = 2
INVARIANTS TypeOK LimitExact CountsReviews
PROPERTIES Served ImplementsGate
CHECK_DEADLOCK FALSE
