SPECIFICATION FairSpec
CONSTANTS
  a1 = a1  all = all
  Agent <- OneAgent
  All = all
  Target <- OneTarget
  TopPriority = 2
  MaxHandlers = 1
  MaxBatches = 1
  MaxEvents = 2
PROPERTIES EnabledHeartbeatsGoOn
CHECK_DEADLOCK FALSE
