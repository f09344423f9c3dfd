SPECIFICATION FairSpec
CONSTANTS
  Customers <- MCCustomers
  Internals <- MCInternals
  Cur <- MCCur
  Refs <- LiveRefs
  NoRef = NoRef
  Requests <- LiveRequests
  Half = 64
  Workers = {w1, w2}
  Sweeper = sweeper
  MaxAborts = 1
INVARIANT LockOrder
PROPERTY Answered
PROPERTY ExpiredHoldsEnd
