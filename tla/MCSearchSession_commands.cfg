CONSTANTS
  MaxGos = 1
  MaxDepth = 2
  RequestedDepth = 2
  NarrowFrom = 2
  MaxFails = 1
SPECIFICATION FairSpec
PROPERTIES
  CommandsAreObeyed
CHECK_DEADLOCK FALSE
