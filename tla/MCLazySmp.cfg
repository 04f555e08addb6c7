CONSTANTS
  NumSearchers = 3
  PoolThreads = 5
  JobScalar = 2
  Depth = 3
  HasClock = TRUE
  HasMoves = TRUE
SPECIFICATION FairSpec
INVARIANTS
  TypeInvariant
  NoStaleStop
  AttemptsStandApart
  FullWindowSucceeds
PROPERTIES
  DeepeningMovesOn
CHECK_DEADLOCK FALSE
