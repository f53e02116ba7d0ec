SPECIFICATION FairSpec
CONSTANTS
    Adapters = {a1}
    Reasons = {r1}
    NoFault = NoFault
    MaxFailures = 2
    MaxRows = 2
    RequestCap = 2
    Pkids = {1, 2}
    MaxDisruptions = 1
INVARIANTS
    AdapterInvariant
    DeletedOnlyAfterPublished
    StatusAnnounced
PROPERTIES
    InOrderDelivery
    DrainsWhileRunning
    StatusConverges
    OfflineAfterStop
CHECK_DEADLOCK FALSE
