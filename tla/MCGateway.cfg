SPECIFICATION FairSpec
CONSTANTS
  Users = {"ann"}
  Seeded <- MCSeeded
  Kids <- MCKids
  Callers = {}
  MaxSessions = 2
  Routes = {"getRates", "createTransfer", "freeze"}
  Forged <- MCForged
  Refusals = {"IDEMPOTENCY_CONFLICT", "deadline", "other"}
  Limit = 1
  MaxAttempts = 2
  Trip = 2
  MaxFaults = 2
CHECK_DEADLOCK FALSE
INVARIANT ServedIsEntitled
INVARIANT AnswerIsHonest
PROPERTY CallersComeThrough
