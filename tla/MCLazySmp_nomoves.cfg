CONSTANTS
  NumSearchers = 2
  PoolThreads = 4
  JobScalar = 2
  Depth = 2
  HasClock = FALSE
  HasMoves = FALSE
SPECIFICATION FairSpec
PROPERTIES
  GoIsAnswered
CHECK_DEADLOCK FALSE
