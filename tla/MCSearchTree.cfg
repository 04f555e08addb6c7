SPECIFICATION Spec
CONSTANTS
  Root = "W1"
  RootHalfMoves = 4
  History <- MCHistory
  Moves <- MCMoves
  NullMoves <- MCNullMoves
  Checked = {"W2", "M"}
  DeadDrawn = {"D"}
  Depth = 3
  MaxSearchDepth = 5
INVARIANTS
  TypeInvariant
  StackFollowsTheCalls
  RepetitionIsTheRule
  PvIsALine
  NoMoveIsLost
  StopIsClean
PROPERTIES
  SearchEnds
CHECK_DEADLOCK FALSE
