SPECIFICATION Spec
CONSTANTS
  Half = 5
  Types = {1, 2}
  UserData = {d1, d2}
  Blocks = {b1, b2, b3}
  NoBlock = NoBlock
  tstates_per_frame = 3
  MaxTime = 4
  MaxDepth = 2
SYMMETRY AddressSymmetry
INVARIANTS TypeOK ListOrdered NextEventCached OneOwner
PROPERTY ImplementsSchedule
