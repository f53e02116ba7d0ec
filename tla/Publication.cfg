SPECIFICATION Spec
CONSTANTS
    Endpoints = {archive_a}
    BatchLimit = 2
    CleanupLimit = 1
    MaxReadings = 2
    MaxPublications = 3
    MaxEpoch = 2
    MaxAdds = 2
INVARIANTS
    LogIsSound
    CursorCovers
    PublicationNamesOne
PROPERTY
    CustodyKept
CHECK_DEADLOCK FALSE
