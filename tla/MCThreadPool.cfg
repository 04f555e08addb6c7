CONSTANTS
  Jobs = {j1, j2, j3}
  Clients = {c1, c2}
  MaxThreads = 3
  Sizes = {1, 3}
  JobScalar = 2
  NoJob = NoJob
SPECIFICATION FairSpec
INVARIANTS
  TypeInvariant
  RunsAtMostOnce
  NoSleepOnWork
PROPERTIES
  NothingIsDropped
  ImplementsJobPool
  PoolMovesOn
