\* Three queries, so that one begins after anything that became of two
\* others, and three files being built.
SPECIFICATION FairSpec

CONSTANTS
    k1 = k1
    k2 = k2
    Public <- MCPublic
    Keys <- MCKeys
    Dapi <- MCDapi
    Concurrency = 2
    Pages = 2
    MaxRefused = 2
    MaxQueries = 3
    MaxExports = 3

INVARIANTS
    Consistent
    BatchIsComplete

PROPERTIES
    LateIsDiscarded
    SavedIsOnOffer
    EveryQueryEnds
