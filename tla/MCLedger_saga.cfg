SPECIFICATION Spec
CONSTANTS
  Customers <- MCCustomers
  Internals <- MCInternals
  Cur <- MCCur
  Refs <- SagaRefs
  NoRef = NoRef
  Requests <- SagaRequests
  Half = 64
  Workers = {w1, w2}
  Sweeper = sweeper
  MaxAborts = 1
INVARIANT NothingStale
INVARIANT EventsFollowVersions
INVARIANT CaptureWithinHold
PROPERTY AnswersAreTrue
PROPERTY ASpec
