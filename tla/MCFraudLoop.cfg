SPECIFICATION FairSpec
CONSTANTS
  Accounts = {a}
  Acct = a
  Users = {"u"}
  Owner <- MCOwner
  Staff = {s1}
  MaxStaffOps = 1
  Transfers <- MCTransfers
  Kind <- MCKind
  At <- MCAt
  Amount <- MCAmount
  Dest <- MCDest
  Scorers = 2
  Window = 5
  Day = 5
  Rules <- MCRules
  Notices <- MCNotices
  MaxUndone = 1
CHECK_DEADLOCK FALSE
INVARIANT RowIsMirrored
INVARIANT ProjectionIsTrue
INVARIANT SumsAreSound
INVARIANT FeedIsTrue
PROPERTY LoopCloses
