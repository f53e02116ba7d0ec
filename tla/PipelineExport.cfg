SPECIFICATION Spec
CONSTANTS
    Exporters = {"nodectl"}
    MaxVersions = 4
    MaxDefinitions = 2
    MaxLosses = 2
INVARIANTS
    WholeFile
    
CHECK_DEADLOCK FALSE
