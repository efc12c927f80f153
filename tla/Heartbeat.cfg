SPECIFICATION FairSpec
CONSTANTS
  a1 = a1  all = all
  Agent <- OneAgent
  All = all
  Target <- OneTarget
  TopPriority = 2
  MaxHandlers = 2
  MaxBatches = 2
  MaxEvents = 1
INVARIANTS TypeOK NoForgottenWake RunsOneByOne HeartbeatsArmed
PROPERTIES OwedUntilHandled HeartbeatsGoOn
CHECK_DEADLOCK FALSE
