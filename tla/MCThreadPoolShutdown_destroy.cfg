CONSTANTS
  Jobs = {j1}
  Clients = {c1}
  MaxThreads = 2
  Sizes = {1, 2}
  JobScalar = 2
  NoJob = NoJob
SPECIFICATION ShutdownSpec
INVARIANTS
  JoinedBeforeDestroyed
