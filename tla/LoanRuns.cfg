SPECIFICATION FairSpec
CONSTANTS
  Run = {r1, r2}
  MaxRetries = 1
  MaxFaults = 1
INVARIANTS TraceAgrees FallbackHasReason NoneCompletes
PROPERTIES EveryRunEnds
CHECK_DEADLOCK FALSE
