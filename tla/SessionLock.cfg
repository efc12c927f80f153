SPECIFICATION Spec
CONSTANTS
  p1 = p1  p2 = p2  c1 = c1  c2 = c2  c3 = c3
  Process <- TwoProcesses
  Caller <- Callers
  ProcessOf <- Runs
  MaxLocks = 3
  MaxFaults = 2
SYMMETRY Symmetric
INVARIANTS TypeOK SingleWriter LossExplained NoOrphan
PROPERTIES OldReleaseHarmless
CHECK_DEADLOCK FALSE
