CONSTANTS
  MaxGos = 2
  MaxDepth = 2
  RequestedDepth = 2
  NarrowFrom = 2
  MaxFails = 1
SPECIFICATION Spec
INVARIANTS
  AnswerIsOfThisGo
CHECK_DEADLOCK FALSE
