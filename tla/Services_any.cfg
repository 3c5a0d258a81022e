SPECIFICATION MCSpec
CONSTANTS
    v1 = v1  v2 = v2  d1 = d1  d2 = d2  c1 = c1  c2 = c2  c3 = c3  s1 = s1  s2 = s2  s3 = s3  u1 = u1
    q1 = q1  q2 = q2  q3 = q3  x1 = x1  x2 = x2  x3 = x3  x4 = x4
    a1 = a1  a2 = a2  r1 = r1  r2 = r2
    y1 = y1  y2 = y2  e1 = e1  e2 = e2  e3 = e3  g1 = g1  g2 = g2
    k1 = k1  k2 = k2  o1 = o1  w1 = w1  w2 = w2
    MaxTime = 5
    Voters = {v1, v2}
    Delegate <- MCDelegate
    Nobody = Nobody
    NoRight = NoRight
    MaxPower = 1
    StartsAt = 1
    EndsAt = 2
    Delays = {0, 1}
    Quorum = 2
    Approval = 50
    Proposals = {d1, d2}
    Contracts = {c1, c2, c3}
    ContractId <- MCContractId
    SignerList <- MCSignerList
    Outsider = Outsider
    Threshold = 2
    Ordered <- MCOrdered
    Lifetime = 2
    Target <- MCTarget
    Updates = {u1}
    Absent = Absent
    Calls = {q1, q2, q3}
    Concurrency = 1
    QueueLimit = 2
    FailureThreshold = 2
    RecoveryPings = 1
    MaxHangups = 2
    Hits = {x1, x2, x3, x4}
    LimitOf <- MCLimitOf
    BurstLimitOf <- MCBurstLimitOf
    Window = 2
    BurstWindow = 1
    MaxLag = 1
    Newest = 4
    PageSize = 2
    MaxPages = 2
    MaxItems = 3
    MaxAttempts = 2
    MaxKept = 1
    MaxChanges = 2
    Servers = {a1, a2}
    Requests = {r1, r2}
    L1Ttl = 1
    L2Ttl = 1
    MaxStay = 1
    MaxWrites = 1
    Nowhere = Nowhere
    Payments = {y1, y2}
    Events = {e1, e2, e3}
    PaymentOf <- MCPaymentOf
    Deliveries = {g1, g2}
    MaxFaults = 2
    NoLicense = NoLicense
    Signatures = {k1, k2}
    SignedAt <- MCSignedAt
    Freshness = 1
    Initiations = {o1}
    MaxDelay = 1
    MaxTransfers = 2
    Jobs = {w1, w2}
    Retentions = {0, 3}
    SeededDays = 3
    BatchRows = 1
SYMMETRY Symmetry
INVARIANTS
    ServicesTypeOK
    StatusTellsTally
    UpdateIsBacked
    OrderedFromTheFirst
    TrailTellsState
    WindowsRespected
    RefusalsHaveCause
    RetryAfterSuffices
    WalkIsFaithful
    AgeBounded
    InvalidationSticks
    LicensedByItsEvent
    RemovedIsKept
    NonceOpensOnce
PROPERTIES
    ExecutedIsFinal
    KeepsPromise
CHECK_DEADLOCK FALSE
