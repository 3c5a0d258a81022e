SPECIFICATION FairSpec
CONSTANTS
    None = None
    MaxPerCycle = 2
    CheckpointDepth = 2
    MaxHeight = 4
    MaxReorgs = 0
    MaxErrors = 0
    MaxStops = 0
    Refused <- OnTheChain
PROPERTIES
    ContractsAppear
