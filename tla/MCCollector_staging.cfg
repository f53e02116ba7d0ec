SPECIFICATION Spec
CONSTANTS
    NoRoom = NoRoom
    NoHint = NoHint
    Source <- MCSource
    Scope <- MCScope
    Adapters = {"a", "b"}
    DeviceTokens = {}
    Hardware = {"h1", "h2"}
    Envelopes <- StagingEnvelopes
    InitDevices <- NoLedger
    Verdicts = {"accept"}
    MaxItems = 1
    QueueCap = 1
    PurgeInterval = 9
    FreshAge = 1
    FutureSkew = 0
    SightingTTL = 1
    SightingCap = 1
    DedupRows = 2
    DedupPrincipalRows = 1
    DedupAge = 1
    StageRows = 3
    StagePrincipalRows = 2
    StageReserve = 1
    StageAge = 1
    MaxMutations = 2
    MaxDevices = 3
    MaxDisruptions = 0
    MaxPurgeFailures = 0
    MaxTime = 2
INVARIANTS
    ReserveAdmits
PROPERTIES
    StagedKept
    ClaimsSound
CHECK_DEADLOCK FALSE
