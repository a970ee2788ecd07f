SPECIFICATION Spec
CONSTANTS
    Request = {r1, r2, r3}
    a = a
    b = b
    Key = {a, b}
    NoTarget = NoTarget
    CandidateLists <- OneOrder
    FailureThreshold = 1
    SuccessThreshold = 2
    HalfOpenMax = 1
    RecoveryTimeout = 1
    CleanupInterval = 2
    StaleAge = 1
    ClientsMayCancel = FALSE
    LongRequests = FALSE
SYMMETRY Symmetry
INVARIANTS TypeOK SlotAccounting SlotsComeBack NoRecordLeak
PROPERTY NoRepeatedTarget
