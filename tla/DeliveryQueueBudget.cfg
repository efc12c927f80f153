CONSTANTS
    r1 = r1
    r2 = r2
    N = 1
    Payloads = 1
    Efforts <- StrictOnly
    Pass = {r1}
    MaxRetries = 5
    Backoff <- CodeBackoff
    Budget = 12
    MaxFaults = 0
    MaxCrashes = 0
SPECIFICATION FairSpec
PROPERTY EveryEntryResolved
CHECK_DEADLOCK FALSE
