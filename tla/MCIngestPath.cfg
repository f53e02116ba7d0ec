SPECIFICATION FairPathSpec
CONSTANTS
    NoRoom = NoRoom
    NoHint = NoHint
    Source <- MCSource
    Scope <- MCScope
    Adapters = {"a"}
    DeviceTokens = {"d"}
    Hardware = {"h1"}
    Envelopes <- PathEnvelopes
    InitDevices <- PathDevices
    Verdicts = {"accept"}
    MaxItems = 2
    QueueCap = 1
    PurgeInterval = 1
    FreshAge = 1
    FutureSkew = 0
    SightingTTL = 1
    SightingCap = 1
    DedupRows = 2
    DedupPrincipalRows = 2
    DedupAge = 3
    StageRows = 4
    StagePrincipalRows = 3
    StageReserve = 2
    StageAge = 1
    MaxMutations = 0
    MaxDevices = 1
    MaxDisruptions = 1
    MaxPurgeFailures = 3
    MaxTime = 2
    Client = "a"
    InputCap = 1
    SpoolCap = 1
INVARIANTS
    ReceiptsTruthful
    FailedPurgeReported
PROPERTIES
    EveryReceiptResolves
CHECK_DEADLOCK FALSE
