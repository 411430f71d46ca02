SPECIFICATION Spec
CONSTANTS
  Half = 40
  m1 = m1
  m2 = m2
  Machines = {m1, m2}
  tstates_per_frame <- FrameLengths
  interrupt_length = 2
  RZX_SENTINEL_TIME = 7
  RZX_SENTINEL_TIME_REDUCE = 3
  ULA_CONTENTION_SIZE = 9
  InterruptTime = 1
  OpcodeTimes = {1, 2}
  TimerDelays = {2}
  MotorDelays = {6}
  MaxEvents = 4
  FileTimes = {0, 5}
  MaxInstructions = 3
  MaxFrames = 1
  MaxUser = 2
  OtherMachineSnaps = FALSE
  DriftingSnaps = FALSE
  SelectWhilePlaying = TRUE
INVARIANT OneFrameEvent
