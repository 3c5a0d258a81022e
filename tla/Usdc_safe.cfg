SPECIFICATION UsdcSpec
CONSTANTS
    i1 = i1  i2 = i2  r1 = r1  r2 = r2
    Intents = {i1, i2}
    Requests = {r1, r2}
    PageLimit = 2
    Operators = {r2}
    HandReports <- FirstTaken
    Incoming <- AllKinds
    Refusing = TRUE
    MaxPayments = 2
    MaxFaults = 1
SYMMETRY Symmetry
INVARIANTS
    UsdcTypeOK
    OneLicense
    LicenseOfClaim
    NothingSkipped
