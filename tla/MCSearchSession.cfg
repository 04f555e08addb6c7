CONSTANTS
  MaxGos = 2
  MaxDepth = 2
  RequestedDepth = 2
  NarrowFrom = 2
  MaxFails = 1
SPECIFICATION FairSpec
INVARIANTS
  TypeInvariant
  CutOnlyWhenTold
  PonderGoIsAccepted
PROPERTIES
  ImplementsAnalysis
  GoesAreAnswered
CHECK_DEADLOCK FALSE
