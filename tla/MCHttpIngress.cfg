SPECIFICATION FairSpec
CONSTANTS
    ConnectionCap = 3
    Slots = {s1, s2}
    Devices = {d1, d2}
    AuthBurst = 1
    ReservedBurst = 1
    Workers = 1
    ReservedWorkers = 1
    FailureLimit = 1
    SourceTTL = 1
    CacheTTL = 1
    CacheCap = 1
    GlobalBurst = 2
    FlowBurst = 3
    PrincipalCap = 1
    MaxCost = 2
    QueueSlots = 1
    Cooldown = 1
    MaxInputs = 5
    MaxDrops = 2
    Changing = {d1}
INVARIANTS
    EpisodesReported
PROPERTIES
    NoFreeFlow
    EpisodesEnd
CHECK_DEADLOCK FALSE
