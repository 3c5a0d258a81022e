SPECIFICATION MCSpec
CONSTANTS
    k1 = k1  r1 = r1  r2 = r2  r3 = r3  a1 = a1  a2 = a2
    h1 = h1  h2 = h2  p1 = p1  p2 = p2
    Keys = {k1}
    Requests = {r1, r2}
    Addresses = {a1, a2}
    Hashes = {h1, h2}
    Publishers = {p1, p2}
    BodyOf <- MCBodyOf
    Expiring = TRUE
    None = None
    Locked = Locked
    MaxFaults = 2
    q1 = q1  q2 = q2  q3 = q3
    Calls = {q1, q2, q3}
    Concurrency = 1
    QueueLimit = 2
    FailureThreshold = 2
    RecoveryPings = 1
    MaxHangups = 2
INVARIANTS
    TypeOK
    OkIsMine
    OnceEach
    RefusedIsTaken
    CountersTellStages
PROPERTIES
    KeysSettle
    AdmitsAgain
    OutageOpens
