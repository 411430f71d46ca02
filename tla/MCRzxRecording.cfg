CONSTANTS
    Ins <- MCIns
    NoIns = "none"
    EndsInEI <- MCEndsInEI
    AUTOSAVE_INTERVAL = 2
    AutosaveAges <- MCAutosaveAges
    MaxFrames = 8
    MaxInserted = 1
    MaxSnaps = 3
    SwitchedAt <- MCSwitchedAt
    EmptyBlocks = FALSE
SPECIFICATION Spec
INVARIANTS
    TypeOK
    Replays
    AutosavesSparse
PROPERTIES
    PlaybackReproduces

