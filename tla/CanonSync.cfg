SPECIFICATION Spec
CONSTANTS
  n1 = n1  n2 = n2  c1 = c1  c2 = c2
  plain = plain  child = child  broken = broken  none = none
  Node <- TwoNodes
  Pull <- TwoPulls
  NPath = 2
  Body <- Bodies
  NoBody = none
  WellFormed <- Complete
  AnchorsOf <- Anchors
  MaxTime = 1
  MaxEdits = 2
  Deletable <- OnlySecond
  Form <- ById
SYMMETRY Symmetric
ACTION_CONSTRAINT EarlyOverlap
INVARIANTS TypeOK PulledIsValid QuietPullComplete PeerStatusTruthful
