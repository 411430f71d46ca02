SPECIFICATION LiveSpec
CONSTANTS
  d1 = d1
  d2 = d2
  Drives = {d1, d2}
  Pulses = {FALSE, TRUE}
  EjectSpinning = {d2}
  REV = 1
  MaxSteps = 1
  MaxSectors = 2
  SectorLength = 1
INVARIANTS TypeOK Executing MotorFollows ReadySettles
PROPERTIES  CompletionSignalled
CHECK_DEADLOCK FALSE
