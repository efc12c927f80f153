SPECIFICATION Spec
CONSTANTS
  w1 = w1  w2 = w2
  plain = plain  child = child  broken = broken  none = none
  ta = ta
  Worker <- TwoWorkers
  Draft <- Drafts
  NoDraft = none
  WellFormed <- Complete
  AnchorsOf <- Anchors
  Title <- OneTitle
  MaxNumber = 2
  MaxTime = 4
  FineClock = TRUE
SYMMETRY Workers
ACTION_CONSTRAINT EarlyFailures
INVARIANTS TypeOK EarlierScrollsKept PublishedValid IndexComplete
PROPERTIES ImplementsCanon
