SPECIFICATION FairSpec
CONSTANTS
    Request = {r1, r2, r3}
    a = a
    b = b
    Key = {a}
    NoTarget = NoTarget
    CandidateLists <- OneUpstream
    FailureThreshold = 2
    SuccessThreshold = 2
    HalfOpenMax = 2
    RecoveryTimeout = 1
    CleanupInterval = 2
    StaleAge = 1
    ClientsMayCancel = TRUE
    LongRequests = FALSE
INVARIANTS SlotAccounting NoRecordLeak
PROPERTIES KeepsContract EveryRequestEnds
