SPECIFICATION FairSpec
CONSTANTS
    same = same
    cross = cross
    unknown = unknown
    NoTarget = NoTarget
    Target <- ThreeTargets
    Protocol <- Protocols
    ProtocolOf <- Protocol3
    Inbound = "anthropic"
    Supported <- Clients
    MaxTargets = 3
    MaxRetries = 2
INVARIANTS
    TypeOK
    PermitDiscipline
    SentBodyMatchesTarget
    LastSendAfterCancel
    AttemptsAddUp
    RouterIsTold
PROPERTIES
    FollowsLifecycle
    StartedCompletes
