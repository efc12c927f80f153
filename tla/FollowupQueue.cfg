SPECIFICATION FairSpec
CONSTANTS
  here = here
  there = there
  nowhere = nowhere
  N = 4
  MaxQueues = 3
  Settings <- Mixed
  Route <- Routes
  Unroutable = nowhere
CHECK_DEADLOCK FALSE
INVARIANT TypeOK
INVARIANT AnsweredOnce
INVARIANT NoOvertaking
INVARIANT OnlyOverflowLoses
INVARIANT OverlapOnlyAfterAbort
PROPERTY EveryMessageLeaves
