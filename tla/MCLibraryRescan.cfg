SPECIFICATION FairSpec
CONSTANTS
    MaxScans = 3
    MaxBatches = 2
    MaxAborts = 1
    MaxCrashes = 1
    MaxRestarts = 1
    MaxRetries = 2
    LaunchMayFail = TRUE
INVARIANTS TypeOK OneScan AbortHonoured AbortMeant
PROPERTIES InOrder ScanEnds NextServed
CHECK_DEADLOCK FALSE
