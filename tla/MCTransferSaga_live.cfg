SPECIFICATION FairSpec
CONSTANTS
  Xfers = {t1}
  NoXfer = NoXfer
  Keys = {k1}
  Specs = {s1}
  Drivers = {d1, d2}
  Recoverers = {r1}
  Nobody = Nobody
  Funds = 1
  MaxAttempts = 1
  MaxFaults = 1
  MaxExpiries = 0
INVARIANT HoldIdIsKept
INVARIANT HistoryIsLegal
PROPERTY IntentIsResolved
PROPERTY CompensationEnds
