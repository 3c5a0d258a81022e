SPECIFICATION SearchSpec
CONSTANTS
    Newest = 4
    PageSize = 2
    MaxPages = 2
    MaxItems = 3
    MaxAttempts = 2
    MaxKept = 1
    MaxChanges = 2
INVARIANTS
    EveryRowReturned
CHECK_DEADLOCK FALSE
