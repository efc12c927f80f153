CONSTANTS
    r1 = r1
    r2 = r2
    N = 2
    Payloads = 1
    Efforts <- StrictOnly
    Pass = {r1}
    MaxRetries = 2
    Backoff <- ShortBackoff
    Budget = 2
    MaxFaults = 0
    MaxCrashes = 0
SPECIFICATION FairSpec
PROPERTY EveryEntryResolved
CHECK_DEADLOCK FALSE
