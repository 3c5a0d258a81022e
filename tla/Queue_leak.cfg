SPECIFICATION ResSpec
CONSTANTS
    Calls = {q1, q2}
    Concurrency = 1
    QueueLimit = 2
    FailureThreshold = 2
    RecoveryPings = 1
    MaxHangups = 1
INVARIANTS
    IdleQueueIsEmpty
CHECK_DEADLOCK FALSE
