SPECIFICATION Spec
CONSTANTS
    NoRoom = NoRoom
    NoHint = NoHint
    Source <- MCSource
    Scope <- MCScope
    Adapters = {"a"}
    DeviceTokens = {"d"}
    Hardware = {"h1", "h2"}
    Envelopes <- LedgerEnvelopes
    InitDevices <- LedgerDevices
    Verdicts = {"accept", "quarantine"}
    MaxItems = 2
    QueueCap = 1
    PurgeInterval = 1
    FreshAge = 1
    FutureSkew = 0
    SightingTTL = 1
    SightingCap = 1
    DedupRows = 2
    DedupPrincipalRows = 2
    DedupAge = 1
    StageRows = 4
    StagePrincipalRows = 3
    StageReserve = 2
    StageAge = 1
    MaxMutations = 1
    MaxDevices = 3
    MaxDisruptions = 1
    MaxPurgeFailures = 0
    MaxTime = 2
INVARIANTS
    ReadingsAttributed
PROPERTIES
    ClaimsSound
CHECK_DEADLOCK FALSE
