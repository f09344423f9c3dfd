SPECIFICATION FairSpec
CONSTANTS
  Xfers = {t1}
  NoXfer = NoXfer
  Keys = {k1}
  Specs = {s1}
  Drivers = {d1, d2}
  Recoverers = {r1}
  Nobody = Nobody
  Funds = 2
  MaxAttempts = 1
  MaxFaults = 0
  MaxExpiries = 0
PROPERTY NotStranded
