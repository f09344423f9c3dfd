SPECIFICATION IdentitySpec
CONSTANTS
  Users = {"ann"}
  Seeded <- MCSeeded
  Kids <- MCKids
  Callers = {c1, c2}
  MaxSessions = 4
SYMMETRY Symmetry
CHECK_DEADLOCK FALSE
INVARIANT SingleHolder
PROPERTY NoRevival
