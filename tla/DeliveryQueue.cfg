CONSTANTS
    r1 = r1
    r2 = r2
    N = 1
    Payloads = 2
    Efforts <- AllEfforts
    Pass = {r1, r2}
    MaxRetries = 2
    Backoff <- ShortBackoff
    Budget = 3
    MaxFaults = 1
    MaxCrashes = 1
SPECIFICATION Spec
SYMMETRY Passes
INVARIANTS TypeOK NothingLost GivenUpLate
CHECK_DEADLOCK FALSE
