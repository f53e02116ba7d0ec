SPECIFICATION Spec
CONSTANTS
    MaxSafeInteger = 2
    MaxFinite = 10
    None = None
    Definitions <- MCDefinitions
    Inputs = {1, 2, 3}
    MaxTime <- MCMaxTime
    MaxInputs <- MCMaxInputs
INVARIANTS
    MatchesReference
    NeverEarly
CHECK_DEADLOCK FALSE
