SPECIFICATION MCSpec
CONSTANTS
    None = None
    MaxPerCycle = 2
    CheckpointDepth = 2
    MaxHeight = 4
    MaxReorgs = 2
    MaxErrors = 1
    MaxStops = 1
    Refused <- OnAFork
    i1 = i1  i2 = i2  r1 = r1  r2 = r2
    Intents = {i1, i2}
    Requests = {r1, r2}
    PageLimit = 1
    Operators = {r2}
    HandReports <- Mistaken
    Incoming <- RightOnes
    Refusing = FALSE
    MaxPayments = 2
    MaxFaults = 1
INVARIANTS
    TypeOK
    NoLedgerSkipped
    HashMatchImpliesCurrent
PROPERTIES
    LedgersCatchUp
    LedgersCurrent
    ScannerCatchesUp
    Implements
