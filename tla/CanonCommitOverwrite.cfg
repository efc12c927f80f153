\* Two commits at a time, no pulled scrolls.
SPECIFICATION CommitsOnly
CONSTANTS
  w1 = w1  w2 = w2
  plain = plain  child = child  broken = broken  none = none
  ta = ta
  Worker <- TwoWorkers
  Draft <- Drafts
  NoDraft = none
  WellFormed <- Complete
  AnchorsOf <- Anchors
  Title <- OneTitle
  MaxNumber = 2
  MaxTime = 6
  FineClock = TRUE
PROPERTIES CommitNeverOverwrites
CHECK_DEADLOCK FALSE
