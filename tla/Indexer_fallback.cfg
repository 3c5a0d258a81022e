SPECIFICATION Spec
CONSTANTS
    None = None
    MaxPerCycle = 2
    CheckpointDepth = 2
    MaxHeight = 4
    MaxReorgs = 1
    MaxErrors = 0
    MaxStops = 1
    Refused = {}
PROPERTIES
    RecoveryFallsBack
