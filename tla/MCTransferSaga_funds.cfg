SPECIFICATION Spec
CONSTANTS
  Xfers = {t1, t2}
  NoXfer = NoXfer
  Keys = {k1, k2}
  Specs = {s1, s2}
  Drivers = {d1, d2}
  Recoverers = {}
  Nobody = Nobody
  Funds = 1
  MaxAttempts = 0
  MaxFaults = 1
  MaxExpiries = 1
SYMMETRY SagaSymmetry
INVARIANT OutcomeIsTrue
INVARIANT OneTransferPerKey
INVARIANT RightTransfer
