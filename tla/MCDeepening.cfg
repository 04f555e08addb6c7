SPECIFICATION Spec
CONSTANTS
  DepthRange = 8
  Lines <- MCLines
  MaxLines = 2
  MaxSearchDepth = 4
  AspirationMinDepth = 2
  ScoreChoices <- MCScores
  MoveChoices = {1, 2}
  PvSizes = {0, 3}
  NodePercents = {40}
  Clock = {0, 250, 2500}
INVARIANTS
  TypeInvariant
  WindowOpens
  LimitsAreOfThisGo
  OptionsAreInEffect
  WinnerIsCounted
PROPERTIES
  DeepeningEnds
CHECK_DEADLOCK FALSE
