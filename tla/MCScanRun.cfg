SPECIFICATION FairSpec
CONSTANTS
    N = 4
    Coins = 2
    Concurrency = 2
    MaxRuns = 2
CHECK_DEADLOCK FALSE
INVARIANTS
    QuietWhenIdle
    FilesAreTheCheckedReports
    VerdictIsTrue
PROPERTIES
    NoneBegunAfterStop
    EveryRunEnds
