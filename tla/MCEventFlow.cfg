SPECIFICATION FairSpec
CONSTANTS
  a = a
  b = b
  k = k
  Events = {a, b}
  Keys = {k}
  KeyOf <- MCKeyOf
  Natures <- MCNatures
  Relays = {r1, r2}
  Consumers = {c1, c2}
  Batch = 2
  MaxAttempts = 2
  MaxFaults = 2
CHECK_DEADLOCK FALSE
INVARIANT NothingSkipped
INVARIANT NoOvertaking
INVARIANT LogFollowsCommits
PROPERTY ExactlyOnceEffect
PROPERTY EverySettled
