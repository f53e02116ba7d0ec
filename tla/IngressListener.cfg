SPECIFICATION FairSpec
CONSTANTS
    Binds = {"b1", "b2"}
    Modes = {"tls", "private_plaintext"}
    MaxGeneration = 4
    MaxRotations = 2
    MaxCrashes = 1
    MaxFaults = 2
INVARIANTS
    ExposedIsApplied
    CustodyKept
PROPERTIES
    Converges
CHECK_DEADLOCK FALSE
