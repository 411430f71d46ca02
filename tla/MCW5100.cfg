SPECIFICATION Spec
CONSTANTS
  N = 1
  BUF = 4
  HEADER = 2
  W = 8
  Slots = 3
  MaxInput = 2
  MaxWakes = 2
  Connects = TRUE
  ClosesWhileSending = FALSE
  ReusesListed = TRUE
INVARIANTS TypeOK ReadHasRoom QueueAgrees PendingAgrees NeverBlocks OneOwner
