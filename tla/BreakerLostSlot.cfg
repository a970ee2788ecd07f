SPECIFICATION Spec
CONSTANTS
    Request = {r1, r2, r3}
    a = a
    b = b
    Key = {a}
    NoTarget = NoTarget
    CandidateLists <- OneUpstream
    FailureThreshold = 1
    SuccessThreshold = 1
    HalfOpenMax = 1
    RecoveryTimeout = 1
    CleanupInterval = 2
    StaleAge = 1
    ClientsMayCancel = TRUE
    LongRequests = FALSE
SYMMETRY Symmetry
INVARIANT SlotsComeBack
