SPECIFICATION Spec
CONSTANTS
  d1 = d1
  d2 = d2
  Drives = {d1, d2}
  Pulses = {FALSE}
  EjectSpinning = {}
  REV = 1
  MaxSteps = 1
  MaxSectors = 1
  SectorLength = 1
INVARIANTS ReadIdReturns
CHECK_DEADLOCK FALSE
