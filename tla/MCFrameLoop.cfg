SPECIFICATION Spec
CONSTANTS
  Half = 40
  m1 = m1
  m2 = m2
  Machines = {m1, m2}
  tstates_per_frame <- FrameLengths
  interrupt_length = 2
  RZX_SENTINEL_TIME = 7
  RZX_SENTINEL_TIME_REDUCE = 3
  ULA_CONTENTION_SIZE = 11
  InterruptTime = 1
  OpcodeTimes = {1, 4}
  TimerDelays = {2}
  MotorDelays = {6}
  MaxEvents = 3
  FileTimes = {5}
  MaxInstructions = 3
  MaxFrames = 2
  MaxUser = 2
  OtherMachineSnaps = FALSE
  DriftingSnaps = FALSE
  SelectWhilePlaying = FALSE
INVARIANTS TypeOK NothingWraps OneFrameEvent NoOverrun WithinFrame
PROPERTIES FramesGoOn TimerGoesOn
