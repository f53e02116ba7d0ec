SPECIFICATION FairSpec
CONSTANTS
    Serial = {"serial"}
    Polling = {"i2c"}
    Sample = {"sample", "sample2"}
    EventCap = 1
    BytesCap = 1
    MaxRetries = 1
    NTargets = 1
    MaxReadFailures = 2
    MaxDetectFailures = 2
    MaxInitFailures = 2
    Configs <- MCConfigs
    MaxRestarts = 1
    MaxGeneration = 2
INVARIANTS
    SupervisionInvariant
    OrderlyExit
PROPERTIES
    RestartBudget
    ShutdownTerminates
