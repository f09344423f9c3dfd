SPECIFICATION RulesSpec
CONSTANTS
  RateScale = 2
  HalfRange = 16
  BBANLength = 2
  Ids = {t1, t2, t3}
  Drivers = {d1, d2}
  Info <- MCInfo
  Chart <- MCChart
  Specs <- MCSpecs
  Rates <- MCRates
  PerTx <- MCPerTx
  Daily <- MCDaily
  MaxDay = 1
  Freezable = {7}
  MaxFreezes = 1
SYMMETRY RulesSymmetry
CHECK_DEADLOCK FALSE
INVARIANT DailyLimitHolds
INVARIANT EntryIsSound
INVARIANT MistypesAreCaught
