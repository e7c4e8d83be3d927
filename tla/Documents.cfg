SPECIFICATION DocumentsSpec
CONSTANTS
    Doc = {d1, d2}
    Single = d1
    Job = {j1, j2}
    RetryLimit = 1
    CleanupLimit = 1
    MaxRetries = 1
    MaxPatches = 2
    MaxFaults = 1
    MaxKey = 3
    NoDoc = NoDoc
    NoRow = NoRow
INVARIANTS PassedHasFile DecisionStands
PROPERTIES ReviewEnds
CHECK_DEADLOCK FALSE
