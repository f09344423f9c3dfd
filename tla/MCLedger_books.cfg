SPECIFICATION Spec
CONSTANTS
  Customers <- BooksCustomers
  Internals <- BooksInternals
  Cur <- BooksCur
  Refs <- BooksRefs
  NoRef = NoRef
  Requests <- BooksRequests
  Half = 4
  Workers = {w1}
  Sweeper = sweeper
  MaxAborts = 1
INVARIANT TypeOK
INVARIANT MoneyConserved
INVARIANT BalanceIsPostings
INVARIANT NoOverdraft
INVARIANT HeldIsActiveHolds
