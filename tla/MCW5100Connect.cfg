SPECIFICATION FairSpec
CONSTANTS
  N = 1
  BUF = 2
  HEADER = 1
  W = 4
  Slots = 2
  MaxInput = 1
  MaxWakes = 1
  Connects = TRUE
  ClosesWhileSending = FALSE
  ReusesListed = TRUE
PROPERTIES ReceiveGoesOn
