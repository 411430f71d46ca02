CONSTANTS
    Ins <- MCIns
    NoIns = "none"
    EndsInEI <- MCEndsInEI
    AUTOSAVE_INTERVAL = 2
    AutosaveAges <- MCAutosaveAges
    MaxFrames = 3
    MaxInserted = 2
    MaxSnaps = 4
    SwitchedAt <- MCSwitchedAt
    EmptyBlocks = TRUE
SPECIFICATION Spec
INVARIANTS
    PlaybackHasFrame
CHECK_DEADLOCK FALSE
