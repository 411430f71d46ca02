SPECIFICATION Spec
CONSTANTS
  Module <- MCModule
  Graph <- MCGraph
  OrderOf <- MCOrder
  NeedsOf <- MCNeeds
  Inits <- MCInits
  Ends <- MCEnds
  Uses <- MCUses
  Overtaken <- MCOvertaken
INVARIANTS TypeOK GivesUpOnlyWhenStuck EndUsesLive
PROPERTIES OrderSpec
CHECK_DEADLOCK FALSE
