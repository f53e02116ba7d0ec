SPECIFICATION Spec
CONSTANTS
    MaxSafeInteger = 2
    MaxFinite = 5
    None = None
    Ids = {1, 2}
    Candidates <- MCCandidates
    Readings <- MCReadings
    MaxDebounce = 1
    MaxRows = 4
    MaxSeries = 3
    MaxUptime = 1
    MaxDiscards = 1
INVARIANTS
    EngineInvariant
    RetainedCountIsCurrent
PROPERTY
    SeriesRules
CHECK_DEADLOCK FALSE
