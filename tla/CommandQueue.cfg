SPECIFICATION FairSpec
CONSTANTS
  sa = sa  sb = sb  main = main
  a1 = a1  a2 = a2  b1 = b1  x1 = x1  y1 = y1  z = z
  NoTask = NoTask
  Lane <- RunLanes
  Task <- RunTasks
  LaneOf <- RunLaneOf
  Inner <- RunInner
  Sized <- MainOnly
  MaxCap = 2
  MaxResets = 1
INVARIANT TypeOK
INVARIANT LanesAccount
INVARIANT StartsInOrder
INVARIANT NoIdleLane
INVARIANT DrainedHasEnded
PROPERTY EverySettles
