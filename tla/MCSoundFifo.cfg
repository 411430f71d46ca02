SPECIFICATION Spec
CONSTANTS
  NUM_FRAMES = 2
  SAMPLE = 4
  sound_framesiz = 4
  FrameSamples = {2, 3, 4}
  CallbackBytes = {8, 12}
  WORD = 256
  M = 64
INVARIANTS TypeOK NoRace WholeSamples
PROPERTIES QueueSpec EmulatorGoesOn
