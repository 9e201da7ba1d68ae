SPECIFICATION FairSpec
CONSTANTS
    Branches = 2
    Batches = 2
    MaxRuns = 3
    MaxSources = 2
    MaxRevision = 4
CHECK_DEADLOCK FALSE
INVARIANTS
    RowsAreOfSource
    OneLiveJob
    BusyWhileInFlight
PROPERTIES
    CompleteMeansAll
    LargeIsConfirmed
    EveryRunEnds
