SPECIFICATION FairSpec
CONSTANTS
  N = 1
  BUF = 2
  HEADER = 1
  W = 4
  Slots = 2
  MaxInput = 1
  MaxWakes = 1
  Connects = FALSE
  ClosesWhileSending = FALSE
  ReusesListed = TRUE
PROPERTIES SendGoesOn ReceiveGoesOn FreeReturns
