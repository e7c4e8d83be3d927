SPECIFICATION FairSpec
CONSTANTS
    Doc = {d1}
    Job = {j1}
    RetryLimit = 1
    CleanupLimit = 1
    MaxRetries = 1
    MaxPatches = 0
    MaxFaults = 1
    MaxKey = 2
    NoDoc = NoDoc
    NoRow = NoRow
PROPERTIES StalledResubmitted
CHECK_DEADLOCK FALSE
