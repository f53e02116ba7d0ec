SPECIFICATION Spec
CONSTANTS
    Devices = {d1, d2}
    Classes = {"low", "high"}
    Configs <- MCConfigs
    InitConfig <- MCInit
    MaxCredentials = 3
    MaxGeneration = 4
    None = None
SYMMETRY Symmetry
INVARIANTS
    DebtIsExact
    CurrentAuthIsTrue
    RotationSafe
PROPERTY
    OnlyApprovedDebt
CHECK_DEADLOCK FALSE
