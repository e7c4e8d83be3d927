SPECIFICATION FairSpec
CONSTANTS
  Doc = {d1, d2}
  Kb = {k1, k2}
  Request = {r1, r2, r3}
  MaxWrites = 2
  MaxFaults = 1
  NoDoc = NoDoc
  NoKb = NoKb
INVARIANTS StaleExcused CountCovers
PROPERTIES EventuallyFresh
CHECK_DEADLOCK FALSE
