SPECIFICATION UsdcSpec
CONSTANTS
    i1 = i1  i2 = i2  r1 = r1  r2 = r2
    Intents = {i1}
    Requests = {r1}
    PageLimit = 2
    Operators = {}
    HandReports <- FirstTaken
    Incoming <- AllKinds
    Refusing = FALSE
    MaxPayments = 2
    MaxFaults = 1
INVARIANTS
    HandledMeansLicensed
