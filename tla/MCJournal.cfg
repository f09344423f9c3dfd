SPECIFICATION MCSpec
CONSTANTS
  Instances = {i1, i2}
  Entries = {1, 2, 3}
  Debited = a
  Credited = b
  DaysPerMonth = 4
  MaxDay = 8
  MaxFaults = 1
  LastListDay = 1
  PageSizes = {0, 3}
  DefaultSize = 1
  MaxSize = 2
  Ranges <- MCRanges
SYMMETRY InstanceSymmetry
INVARIANT PostingsAreFiled
INVARIANT WalkIsComplete
